------------------------------ MODULE Meters ------------------------------
(***************************************************************************)
(* The rate limits of src/ddos.c: meter_init_all() on the control core     *)
(* gives a token bucket to each RATE_LIMIT rule of the configuration, and  *)
(* meter_check() on the forwarding cores takes tokens from it, without a   *)
(* lock between them.                                                      *)
(*                                                                         *)
(* rte_meter_srtcm is external: a bucket is read, refilled for the time    *)
(* that has passed (unsigned: an older time is a very long time) and       *)
(* stored.  The read and the store are steps; the fields of one bucket are *)
(* read together and stored together.                                      *)
(***************************************************************************)
EXTENDS Config

CONSTANTS
  Lcores,      \* forwarding cores
  Length,      \* pkt_len of the packets
  TimeMod,     \* 2^64
  MaxTime,     \* bound of the clock
  MaxOps,      \* bound: reloads and commands
  MaxPackets   \* bound: packets that match a RATE_LIMIT rule

ASSUME MetersAssumption ==
  /\ Length \in Nat \ {0}
  /\ MaxTime \in Nat /\ TimeMod \in Nat /\ TimeMod > MaxTime
  /\ MaxOps \in Nat /\ MaxPackets \in Nat

VARIABLES
  clock,
  g_meter_profiles,
  g_meters,
  g_meter_valid,
  ctl,         \* where the control core is
  i,           \* the loop variable of meter_init_all
  launched,    \* the forwarding cores run
  pc,          \* where each of them is in meter_check
  now,         \* the time of its burst
  rule_id,
  reg,         \* the bucket and the profile it has read
  \* history
  ops,         \* how many reloads and commands there were
  packets,     \* and packets
  use          \* of each meter since it was configured, while it is used by
               \* one core, of one clock, and clear of the configuration

meterVars == <<g_meter_profiles, g_meters, g_meter_valid>>
coreVars == <<pc, now, rule_id, reg>>
vars == <<configVars, clock, meterVars, ctl, i, launched, coreVars, ops, packets, use>>

MeterIds == 1 .. MaxRules
NoBucket == [time |-> 0, tc |-> 0, te |-> 0]
NoProfile == [cir |-> 0, cbs |-> 0, ebs |-> 0]
Inexact == << >>
Exact(x) == use[x] # Inexact
NoReg == [bucket |-> NoBucket, profile |-> NoProfile]

Init ==
  /\ ConfigInit
  /\ clock = 0
  /\ g_meter_profiles = [x \in MeterIds |-> NoProfile]
  /\ g_meters = [x \in MeterIds |-> NoBucket]
  /\ g_meter_valid = [x \in MeterIds |-> FALSE]
  /\ ctl = "start" /\ i = 1
  /\ launched = FALSE
  /\ pc = [k \in Lcores |-> "idle"]
  /\ now = [k \in Lcores |-> 0]
  /\ rule_id = [k \in Lcores |-> 0]
  /\ reg = [k \in Lcores |-> NoReg]
  /\ ops = 0 /\ packets = 0
  /\ use = [x \in MeterIds |-> Inexact]

Tick ==
  /\ launched
  /\ clock < MaxTime
  /\ clock' = clock + 1
  /\ UNCHANGED <<configVars, meterVars, ctl, i, launched, coreVars, ops, packets, use>>

-----------------------------------------------------------------------------
(* The control core                                                        *)

Goto(label) == ctl' = label /\ UNCHANGED <<clock, launched, coreVars, packets>>

(* main(): the first load, before the cores run *)
Boot(file) ==
  /\ ctl = "start"
  /\ Load(file)
  /\ Goto("clear")
  /\ UNCHANGED <<meterVars, i, ops, use>>

(* cmd_config_reload, or SIGHUP, of a file that is accepted *)
Reloaded(file) ==
  /\ ctl = "idle"
  /\ ops < MaxOps /\ ops' = ops + 1
  /\ Reload(file)
  /\ Goto("clear")
  /\ UNCHANGED <<meterVars, i, use>>

(* Of a file that is refused: only on SIGHUP are the meters set up again *)
Refused(file, sighup) ==
  /\ ctl = "idle"
  /\ ops < MaxOps /\ ops' = ops + 1
  /\ RefusedReload(file)
  /\ Goto(IF sighup THEN "clear" ELSE "idle")
  /\ UNCHANGED <<meterVars, i, use>>

(* The other commands leave the meters alone *)
Command ==
  /\ ctl = "idle"
  /\ ops < MaxOps /\ ops' = ops + 1
  /\ \/ \E rate \in Rates \cup {NoRate} : RuleAdd(rate)
     \/ \E n \in DOMAIN g_rules : RuleDel(g_rules[n].id)
     \/ RuleFlush
     \/ \E action \in {"accept", "drop"} : SetDefaultPolicy(action)
  /\ Goto("idle")
  /\ UNCHANGED <<meterVars, i, use>>

ValidKept == g_meter_valid
ValidCleared == [x \in MeterIds |-> FALSE]

(* memset of g_meter_valid *)
ClearValid ==
  /\ ctl = "clear"
  /\ g_meter_valid' = ValidCleared
  /\ i' = 1
  /\ Goto("rule")
  /\ UNCHANGED <<configVars, g_meter_profiles, g_meters, ops, use>>

(* A RATE_LIMIT rule whose id has a meter and whose rate is not 0 and is   *)
(* one rte_meter_srtcm_profile_config accepts                              *)
Configurable(rate) == rate # NoRate /\ rate.cir > 0 /\ rate.cbs > 0
MeterableOutOfRange(rule) == Configurable(rule.rate) /\ rule.id \in 1 .. MaxRules + 1
Meterable(rule) == Configurable(rule.rate) /\ rule.id \in MeterIds

AfterUnmeterableLast == Len(g_rules) + 1
AfterUnmeterable == i + 1

SkipRule ==
  /\ ctl = "rule"
  /\ i <= Len(g_rules)
  /\ ~Meterable(g_rules[i])
  /\ i' = IF g_rules[i].rate = NoRate THEN i + 1 ELSE AfterUnmeterable
  /\ Goto("rule")
  /\ UNCHANGED <<configVars, meterVars, ops, use>>

EbsTwice(rate) == 2 * rate.cbs
Ebs(rate) == rate.cbs

(* rte_meter_srtcm_profile_config *)
SetProfile ==
  /\ ctl = "rule"
  /\ i <= Len(g_rules)
  /\ Meterable(g_rules[i])
  /\ LET rule == g_rules[i]
     IN /\ g_meter_profiles' = [g_meter_profiles EXCEPT
             ![rule.id] = [cir |-> rule.rate.cir, cbs |-> rule.rate.cbs, ebs |-> Ebs(rule.rate)]]
        /\ use' = [use EXCEPT ![rule.id] = Inexact]
  /\ Goto("profile")
  /\ UNCHANGED <<configVars, g_meters, g_meter_valid, i, ops>>

(* rte_meter_srtcm_config: a full bucket *)
SetBucket ==
  /\ ctl = "profile"
  /\ LET x == g_rules[i].id
         p == g_meter_profiles[x]
     IN /\ g_meters' = [g_meters EXCEPT ![x] = [time |-> clock, tc |-> p.cbs, te |-> p.ebs]]
        /\ use' = [use EXCEPT ![x] =
             IF \E k \in Lcores : pc[k] = "store" /\ rule_id[k] = x THEN Inexact
             ELSE [since |-> clock, passed |-> 0, cores |-> {}]]
  /\ Goto("bucket")
  /\ UNCHANGED <<configVars, g_meter_profiles, g_meter_valid, i, ops>>

SetValid ==
  /\ ctl = "bucket"
  /\ g_meter_valid' = [g_meter_valid EXCEPT ![g_rules[i].id] = TRUE]
  /\ i' = i + 1
  /\ Goto("rule")
  /\ UNCHANGED <<configVars, g_meter_profiles, g_meters, ops, use>>

(* meter_init_all returns; the first time the cores are launched *)
MetersReady ==
  /\ ctl = "rule"
  /\ i > Len(g_rules)
  /\ ctl' = "idle" /\ i' = 1
  /\ launched' = TRUE
  /\ UNCHANGED <<configVars, clock, meterVars, coreVars, ops, packets, use>>

-----------------------------------------------------------------------------
(* The forwarding cores                                                    *)

controlVars == <<configVars, clock, g_meter_profiles, g_meter_valid, ctl, i, launched, ops>>

Burst(k) ==
  /\ launched
  /\ pc[k] = "idle" /\ now[k] # clock
  /\ now' = [now EXCEPT ![k] = clock]
  /\ UNCHANGED <<controlVars, g_meters, pc, rule_id, reg, packets, use>>

(* The packet is given the id of a RATE_LIMIT rule *)
Match(k, n) ==
  /\ launched
  /\ pc[k] = "idle"
  /\ packets < MaxPackets /\ packets' = packets + 1
  /\ g_rules[n].rate # NoRate
  /\ rule_id' = [rule_id EXCEPT ![k] = g_rules[n].id]
  /\ pc' = [pc EXCEPT ![k] = "valid"]
  /\ UNCHANGED <<controlVars, g_meters, now, reg, use>>

NextPacket(k) ==
  /\ pc' = [pc EXCEPT ![k] = "idle"]
  /\ rule_id' = [rule_id EXCEPT ![k] = 0]
  /\ reg' = [reg EXCEPT ![k] = NoReg]

Metered(id) == id \in MeterIds /\ g_meter_valid[id]

(* Without a meter every packet is green *)
NoMeter(k) ==
  /\ pc[k] = "valid"
  /\ ~Metered(rule_id[k])
  /\ NextPacket(k)
  /\ UNCHANGED <<controlVars, g_meters, now, packets, use>>

HasMeter(k) ==
  /\ pc[k] = "valid"
  /\ Metered(rule_id[k])
  /\ pc' = [pc EXCEPT ![k] = "read"]
  /\ UNCHANGED <<controlVars, g_meters, now, rule_id, reg, packets, use>>

ReadBucket(k) ==
  /\ pc[k] = "read"
  /\ LET x == rule_id[k]
     IN /\ reg' = [reg EXCEPT ![k] = [bucket |-> g_meters[x], profile |-> g_meter_profiles[x]]]
        /\ use' = [use EXCEPT ![x] =
             IF Exact(x) /\ @.cores \subseteq {k} /\ now[k] >= g_meters[x].time
             THEN [@ EXCEPT !.cores = {k}] ELSE Inexact]
  /\ pc' = [pc EXCEPT ![k] = "store"]
  /\ UNCHANGED <<controlVars, g_meters, now, rule_id, packets>>

Least(a, b) == IF a < b THEN a ELSE b

(* What overflows the committed bucket goes to the excess one *)
Refilled(b, p, t) ==
  LET tokens == b.tc + p.cir * ((t - b.time) % TimeMod)
  IN [time |-> t,
      tc |-> Least(tokens, p.cbs),
      te |-> IF tokens > p.cbs THEN Least(b.te + tokens - p.cbs, p.ebs) ELSE b.te]

ChargedTwice == 2 * Length
Charged == Length

Color(b) ==
  IF b.tc >= Charged THEN "green" ELSE IF b.te >= Charged THEN "yellow" ELSE "red"

Taken(b) ==
  CASE Color(b) = "green" -> [b EXCEPT !.tc = @ - Charged]
    [] Color(b) = "yellow" -> [b EXCEPT !.te = @ - Charged]
    [] OTHER -> b

Dropped(color) == color = "red"

(* The bucket is stored, and the packet is dropped if it is red *)
StoreBucket(k) ==
  /\ pc[k] = "store"
  /\ LET x == rule_id[k]
         b == Refilled(reg[k].bucket, reg[k].profile, now[k])
     IN /\ g_meters' = [g_meters EXCEPT ![x] = Taken(b)]
        /\ use' = IF Exact(x) /\ ~Dropped(Color(b))
                  THEN [use EXCEPT ![x].passed = @ + Length] ELSE use
  /\ NextPacket(k)
  /\ UNCHANGED <<controlVars, now, packets>>

ControlStep ==
  \/ \E file \in Files : Boot(file) \/ Reloaded(file) \/ \E sighup \in BOOLEAN : Refused(file, sighup)
  \/ Command
  \/ ClearValid \/ SkipRule \/ SetProfile \/ SetBucket \/ SetValid \/ MetersReady

CoreStep(k) ==
  \/ Burst(k)
  \/ \E n \in DOMAIN g_rules : Match(k, n)
  \/ NoMeter(k) \/ HasMeter(k) \/ ReadBucket(k) \/ StoreBucket(k)

Next == Tick \/ ControlStep \/ \E k \in Lcores : CoreStep(k)

Spec == Init /\ [][Next]_vars

-----------------------------------------------------------------------------
Times == 0 .. MaxTime
Buckets == [time : Times, tc : Nat, te : Nat]
Profiles == [cir : Nat, cbs : Nat, ebs : Nat]

MeterTypes ==
  /\ g_meters \in [MeterIds -> Buckets]
  /\ g_meter_profiles \in [MeterIds -> Profiles]
  /\ g_meter_valid \in [MeterIds -> BOOLEAN]
  /\ use \in [MeterIds -> {Inexact} \cup [since : Times, passed : Nat, cores : SUBSET Lcores]]

ControlTypes ==
  /\ clock \in Times /\ launched \in BOOLEAN /\ ops \in Nat /\ packets \in Nat
  /\ i \in 1 .. MaxRules + 1
  /\ ctl \in {"start", "clear", "rule", "profile", "bucket", "idle"}
  /\ ctl \in {"profile", "bucket"} => i \in DOMAIN g_rules /\ g_rules[i].id \in MeterIds

CoreTypes ==
  /\ pc \in [Lcores -> {"idle", "valid", "read", "store"}]
  /\ now \in [Lcores -> Times] /\ rule_id \in [Lcores -> Nat]
  /\ reg \in [Lcores -> [bucket : Buckets, profile : Profiles]]
  /\ \A k \in Lcores : pc[k] \in {"read", "store"} => rule_id[k] \in MeterIds

(* Every variable keeps its type, and neither core uses a meter there is   *)
(* not: no array of MAX_RULES + 1 is overrun                               *)
TypeOK == ConfigTypeOK /\ MeterTypes /\ ControlTypes /\ CoreTypes

(* A meter that one core uses, clear of a reconfiguration and by a clock   *)
(* that does not go back, passes no more than the two bursts and the       *)
(* committed rate allow (src/ddos.c sets EBS = CBS)                        *)
RateConforms ==
  \A x \in MeterIds : Exact(x) =>
    LET p == g_meter_profiles[x]
    IN use[x].passed <= 2 * p.cbs + p.cir * (clock - use[x].since)

(* ... and drops a packet only if the committed burst is used up: traffic  *)
(* within its limit is never dropped                                       *)
DropIsDue ==
  [][\A k \in Lcores :
       pc[k] = "store" /\ pc'[k] = "idle" /\ Exact(rule_id[k]) /\ use' = use =>
         use[rule_id[k]].passed + Length > reg[k].profile.cbs]_vars

(* While the control core is idle a rule has the meter of its own rate or  *)
(* none: no rule is metered by the rate of a rule that had its id before   *)
NoForeignMeter ==
  ctl = "idle" => \A n \in DOMAIN g_rules :
    LET rule == g_rules[n]
    IN Metered(rule.id) /\ IdsOfOneKind(loaded) =>
         rule.rate # NoRate /\ g_meter_profiles[rule.id].cbs = rule.rate.cbs

(* ... and every RATE_LIMIT rule of the file that can have a meter has one *)
FileIsMetered ==
  ctl = "idle" /\ ~edited => \A n \in DOMAIN g_rules :
    Meterable(g_rules[n]) => g_meter_valid[g_rules[n].id]

(* There are never more than MAX_RULES rules, so ids stay within           *)
(* [1, MAX_RULES] (the comment above g_meter_profiles)                     *)
IdsInMeterRange == \A n \in DOMAIN g_rules : g_rules[n].id \in MeterIds
=============================================================================
