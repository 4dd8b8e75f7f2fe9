---------------------------- MODULE DdosTracker ----------------------------
(***************************************************************************)
(* ddos_update() of src/ddos.c: for every source a window and a counter of *)
(* each kind of packet, shared by the forwarding cores without a lock.     *)
(*                                                                         *)
(* The entries are plain memory, so each load and store of a field is a    *)
(* step, and the stores of one reset come in any order.  The keys of       *)
(* g_ddos_hash are never deleted, so a source is as good as its position.  *)
(* The blacklist is here what Blacklist shows it to be while no two        *)
(* operations on one address overlap: an expiry for each address.          *)
(***************************************************************************)
EXTENDS Integers, FiniteSets, Sequences, Folds, Functions

CONSTANTS
  Lcores,      \* forwarding cores
  Ips,         \* source addresses
  Kinds,       \* what is counted: SYN, UDP, ICMP
  Other,       \* a packet that is not counted
  Nobody,      \* the source of no packet
  HashEntries, \* HASH_ENTRIES
  Threshold,   \* g_ddos_cfg, for each kind
  Window,      \* g_ddos_cfg.window_ns
  BlockTime,   \* g_block_duration_cycles
  TimeMod,     \* 2^64: times are uint64_t
  MaxTime,     \* bound of the clock
  MaxPackets   \* bound: packets counted in all

ASSUME DdosAssumption ==
  /\ Other \notin Kinds /\ Nobody \notin Ips /\ "start" \notin Kinds
  /\ IsFiniteSet(Lcores)
  /\ HashEntries \in Nat
  /\ Threshold \in [Kinds -> Nat]
  /\ Window \in Nat \ {0}
  /\ BlockTime \in Nat
  /\ MaxTime \in Nat /\ TimeMod \in Nat /\ TimeMod > MaxTime + Window

VARIABLES
  clock,       \* the TSC; now_ns and cycles are the same time here
  tracked,     \* the keys of g_ddos_hash
  start,       \* window_start_ns
  count,       \* syn_count, udp_count, icmp_count
  until,       \* the blacklist: when the block of a source ends, 0 for none
  pc,          \* where each core is in ddos_update
  now,         \* the time of its burst
  ip,          \* the source of its packet
  kind,        \* the counter the packet is for
  reg,         \* the counter in a register, already incremented
  todo,        \* the fields the reset in progress has still to store
  \* history
  log,         \* the packets of each source that passed the blacklist
  judged       \* how many of them its last block had seen

entryVars == <<tracked, start, count>>
coreVars == <<pc, now, ip, kind, reg, todo>>
vars == <<clock, entryVars, until, coreVars, log, judged>>

Minus(a, b) == (a - b) % TimeMod

(* ddos_init: the entries are zero, and the machine has been up longer     *)
(* than a window                                                           *)
Init ==
  /\ clock = Window
  /\ tracked = {}
  /\ start = [i \in Ips |-> 0]
  /\ count = [i \in Ips |-> [x \in Kinds |-> 0]]
  /\ until = [i \in Ips |-> 0]
  /\ pc = [k \in Lcores |-> "idle"]
  /\ now = [k \in Lcores |-> clock]
  /\ ip = [k \in Lcores |-> Nobody]
  /\ kind = [k \in Lcores |-> Other]
  /\ reg = [k \in Lcores |-> 0]
  /\ todo = [k \in Lcores |-> {}]
  /\ log = [i \in Ips |-> << >>]
  /\ judged = [i \in Ips |-> 0]

Tick ==
  /\ clock < MaxTime
  /\ clock' = clock + 1
  /\ UNCHANGED <<entryVars, until, coreVars, log, judged>>

(* The time is read once for a burst *)
Burst(k) ==
  /\ pc[k] = "idle"
  /\ now[k] # clock
  /\ now' = [now EXCEPT ![k] = clock]
  /\ UNCHANGED <<clock, entryVars, until, pc, ip, kind, reg, todo, log, judged>>

(* rte_hash_add_key finds the key or has room for it *)
HasEntry(i) == i \in tracked \/ Cardinality(tracked) < HashEntries

Seen == FoldFunction(LAMBDA packets, n : n + Len(packets), 0, log)

(* A packet that is not blacklisted and that the rules keep; without an    *)
(* entry it is forwarded uncounted                                         *)
Packet(k, i, x) ==
  /\ pc[k] = "idle"
  /\ now[k] >= until[i]
  /\ Seen < MaxPackets
  /\ log' = [log EXCEPT ![i] = Append(@, [kind |-> x, at |-> now[k], core |-> k])]
  /\ IF HasEntry(i)
     THEN /\ tracked' = tracked \cup {i}
          /\ pc' = [pc EXCEPT ![k] = "window"]
          /\ ip' = [ip EXCEPT ![k] = i]
          /\ kind' = [kind EXCEPT ![k] = x]
     ELSE UNCHANGED <<tracked, pc, ip, kind>>
  /\ UNCHANGED <<clock, start, count, until, now, reg, todo, judged>>

Expired(t, s) == Minus(t, s) >= Window

ResetStartOnly == {"start"}
ResetFields == Kinds \cup {"start"}

Done(k) ==
  /\ pc' = [pc EXCEPT ![k] = "idle"]
  /\ ip' = [ip EXCEPT ![k] = Nobody]
  /\ kind' = [kind EXCEPT ![k] = Other]
  /\ reg' = [reg EXCEPT ![k] = 0]

Goto(k, label) == pc' = [pc EXCEPT ![k] = label] /\ UNCHANGED <<ip, kind, reg>>

(* After the window comes the counter, if the packet has one *)
ToCount(k) == IF kind[k] = Other THEN Done(k) ELSE Goto(k, "count")

ReadWindow(k) ==
  /\ pc[k] = "window"
  /\ IF Expired(now[k], start[ip[k]])
     THEN /\ todo' = [todo EXCEPT ![k] = ResetFields]
          /\ Goto(k, "reset")
     ELSE UNCHANGED todo /\ ToCount(k)
  /\ UNCHANGED <<clock, entryVars, until, now, log, judged>>

(* One store of the reset of a window, or of the reset after a block *)
ResetField(k) ==
  /\ \E f \in todo[k] :
       /\ todo' = [todo EXCEPT ![k] = @ \ {f}]
       /\ start' = IF f = "start" THEN [start EXCEPT ![ip[k]] = now[k]] ELSE start
       /\ count' = IF f = "start" THEN count ELSE [count EXCEPT ![ip[k]][f] = 0]
  /\ IF todo'[k] # {} THEN Goto(k, pc[k])
     ELSE IF pc[k] = "reset" THEN ToCount(k)
     ELSE Done(k)
  /\ UNCHANGED <<clock, tracked, until, now, log, judged>>

(* ++e->count is a load and a store; the comparison is with the register *)
LoadCount(k) ==
  /\ pc[k] = "count"
  /\ reg' = [reg EXCEPT ![k] = count[ip[k]][kind[k]] + 1]
  /\ pc' = [pc EXCEPT ![k] = "store"]
  /\ UNCHANGED <<clock, entryVars, until, now, ip, kind, todo, log, judged>>

ExceedsOrMeets(n, x) == n >= Threshold[x]
ExceedsPostIncrement(n, x) == n - 1 > Threshold[x]
Exceeds(n, x) == n > Threshold[x]

StoreCount(k) ==
  /\ pc[k] = "store"
  /\ count' = [count EXCEPT ![ip[k]][kind[k]] = reg[k]]
  /\ IF Exceeds(reg[k], kind[k]) THEN Goto(k, "block") ELSE Done(k)
  /\ UNCHANGED <<clock, tracked, start, until, now, todo, log, judged>>

(* blacklist_add, by the time of now, not of the burst; then the counters  *)
(* are reset                                                               *)
Block(k) ==
  /\ pc[k] = "block"
  /\ until' = [until EXCEPT ![ip[k]] = clock + BlockTime]
  /\ judged' = [judged EXCEPT ![ip[k]] = Len(log[ip[k]])]
  /\ todo' = [todo EXCEPT ![k] = Kinds]
  /\ Goto(k, "clear")
  /\ UNCHANGED <<clock, entryVars, now, log>>

Next ==
  \/ Tick
  \/ \E k \in Lcores :
       \/ Burst(k)
       \/ \E i \in Ips, x \in Kinds \cup {Other} : Packet(k, i, x)
       \/ ReadWindow(k) \/ ResetField(k) \/ LoadCount(k)
       \/ StoreCount(k) \/ Block(k)

Spec == Init /\ [][Next]_vars

-----------------------------------------------------------------------------
(* How many packets of a kind there are among those from a to b of the log *)
Sent(i, x, a, b) == Cardinality({n \in a .. b : log[i][n].kind = x})

(* The source has been seen by one core only: the usual case, as each core *)
(* forwards one direction                                                  *)
OneCore(i) == \A m, n \in DOMAIN log[i] : log[i][m].core = log[i][n].core

Working(i) == \E k \in Lcores : pc[k] # "idle" /\ ip[k] = i

(* However the two cores race for an entry, whatever increments and resets *)
(* are lost or come back, a source is blocked only if it has sent more     *)
(* packets of one kind than the threshold allows in a window               *)
NoInnocent ==
  \A i \in Ips : until[i] > 0 =>
    \E x \in Kinds : Sent(i, x, 1, Len(log[i])) > Threshold[x]

(* A core is about to block a source of its own only for packets of one    *)
(* window: more than the threshold of them in less than window_ns          *)
BlockIsEarned ==
  \A k \in Lcores : pc[k] = "block" /\ OneCore(ip[k]) =>
    LET recent == {n \in judged[ip[k]] + 1 .. Len(log[ip[k]]) :
                     log[ip[k]][n].kind = kind[k] /\ now[k] - log[ip[k]][n].at < Window}
    IN Cardinality(recent) > Threshold[kind[k]]

(* The windows do not slide, so a source may exceed the threshold across   *)
(* the border of two of them; but more than twice the threshold in less    *)
(* than window_ns never go unblocked, as long as the source has an entry   *)
(* and one core                                                            *)
FloodIsBlocked ==
  \A i \in tracked : OneCore(i) /\ ~Working(i) =>
    \A x \in Kinds : \A a, b \in judged[i] + 1 .. Len(log[i]) :
      a <= b /\ log[i][b].at - log[i][a].at < Window =>
        Sent(i, x, a, b) <= 2 * Threshold[x]
=============================================================================
