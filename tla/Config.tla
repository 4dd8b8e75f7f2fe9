------------------------------ MODULE Config ------------------------------
(***************************************************************************)
(* src/config.c: a configuration file becomes the rules, their ids and the *)
(* default policy in force, at the start and at each reload; and the       *)
(* commands that change these until the next reload.                       *)
(*                                                                         *)
(* do_load fills its structure section by section and returns at the first *)
(* error, and new_cfg, the structure of reloads, is static: what a refused *)
(* file left in it is there when the next file is read.  Everything here   *)
(* runs on the control core, and no other core reads the structures, so a  *)
(* load is one step; how the table reaches the forwarding cores is the     *)
(* subject of RuleEngine.                                                  *)
(*                                                                         *)
(* A file is a record: whether it is JSON, whether the mode and ports.wan  *)
(* are as required, default_policy, the ddos section (the sections lan and *)
(* logging behave like it), and its rules.  Of the text of a rule there is *)
(* left whether parse_rule accepts it, the id it sets (0 for none) and the *)
(* rate of a RATE_LIMIT rule.                                              *)
(***************************************************************************)
EXTENDS Integers, Sequences, SequencesExt, FiniteSetsExt

CONSTANTS
  Files,       \* the configuration files an operator writes
  NoFile,      \* none has been loaded
  Absent,      \* a section or a field a file does not have
  Bad,         \* a value a file may have that is refused
  Rates,       \* rates: records of cir and cbs
  NoRate,      \* the rule is not a RATE_LIMIT rule
  MaxRules,    \* MAX_RULES
  IdLimit      \* bound: ids handed out

Policies == {"accept", "drop", "rate_limit"}

(* A rule in the text of a file, and one in force *)
Text == [ok : BOOLEAN, id : Nat, rate : Rates \cup {NoRate}]
RuleOf == [id : Nat, rate : Rates \cup {NoRate}]

ASSUME ConfigAssumption ==
  /\ MaxRules \in Nat /\ IdLimit \in Nat
  /\ Rates \subseteq [cir : Nat, cbs : Nat] /\ NoRate \notin Rates
  /\ {Absent, Bad} \cap Policies = {} /\ Absent # Bad
  /\ NoFile \notin Files
  /\ \A file \in Files :
       /\ {file.json, file.mode, file.wan} \subseteq BOOLEAN
       /\ file.policy \in Policies \cup {Absent, Bad}
       /\ file.rules \in Seq(Text)

VARIABLES
  g_fw_config,      \* default_policy, ddos_cfg and rules of the structure
  new_cfg,          \* the same of the static structure config_reload fills
  s_auto_id,
  g_default_policy,
  g_rules,          \* g_rules[0 .. g_n_rules - 1]
  g_next_id,
  g_ddos_cfg,       \* what ddos_init copied
  \* history
  loaded,           \* the file in force
  edited,           \* the rules have been changed by commands since
  policySet         \* the policy has

configVars == <<g_fw_config, new_cfg, s_auto_id, g_default_policy, g_rules, g_next_id,
                g_ddos_cfg, loaded, edited, policySet>>

ZeroConfig == [policy |-> "accept", ddos |-> Absent, rules |-> << >>]

ConfigInit ==
  /\ g_fw_config = ZeroConfig
  /\ new_cfg = ZeroConfig
  /\ s_auto_id = 0
  /\ g_default_policy = "drop"
  /\ g_rules = << >>
  /\ g_next_id = 0
  /\ g_ddos_cfg = Absent
  /\ loaded = NoFile
  /\ edited = FALSE
  /\ policySet = FALSE

-----------------------------------------------------------------------------
(* do_load                                                                 *)

PolicyKept(file, cfg) == IF file.policy = Absent THEN cfg.policy ELSE file.policy
PolicyRead(file, cfg) == IF file.policy = Absent THEN "drop" ELSE file.policy

(* An absent section leaves what is there *)
DdosRead(file, cfg) == IF file.ddos = Absent THEN cfg.ddos ELSE file.ddos

(* The first rules of the file, up to the one parse_rule refuses *)
Parsed(texts) ==
  LET taken == SubSeq(texts, 1, Min({Len(texts), MaxRules}))
      bad == {n \in DOMAIN taken : ~taken[n].ok}
  IN IF bad = {} THEN taken ELSE SubSeq(taken, 1, Min(bad) - 1)

AllParsed(texts) == Len(Parsed(texts)) >= Min({Len(texts), MaxRules})

Autos(texts, n) == Cardinality({x \in 1 .. n : texts[x].id = 0})

(* Rules without an id count on from the last one of any load *)
WithIds(texts, auto) ==
  [n \in DOMAIN texts |->
     [id |-> IF texts[n].id = 0 THEN auto + Autos(texts, n) ELSE texts[n].id,
      rate |-> texts[n].rate]]

(* What do_load makes of cfg and of s_auto_id, and whether it answers 0 *)
DoLoad(file, cfg, auto) ==
  LET read == [cfg EXCEPT !.policy = PolicyRead(file, cfg), !.ddos = DdosRead(file, cfg)]
      texts == Parsed(file.rules)
  IN CASE ~(file.json /\ file.mode /\ file.wan) \/ file.policy = Bad ->
            [ok |-> FALSE, cfg |-> cfg, auto |-> auto]
       [] OTHER ->
            [ok |-> AllParsed(file.rules),
             cfg |-> [read EXCEPT !.rules = WithIds(texts, auto)],
             auto |-> auto + Autos(texts, Len(texts))]

-----------------------------------------------------------------------------
NextIdForgotten(next, rules) == next
NextIdAbove(next, rules) == Max({next} \cup {rules[n].id : n \in DOMAIN rules})

(* rule_engine_init and rule_engine_reload_from_config: the table is the   *)
(* one of the configuration                                                *)
TakeOver(cfg, file) ==
  /\ g_fw_config' = cfg
  /\ g_default_policy' = cfg.policy
  /\ g_rules' = cfg.rules
  /\ g_next_id' = NextIdAbove(g_next_id, cfg.rules)
  /\ loaded' = file
  /\ edited' = FALSE /\ policySet' = FALSE

(* main(): config_load into g_fw_config itself; then the rules and the     *)
(* thresholds are taken over.  A file it refuses ends the program.         *)
Load(file) ==
  LET new == DoLoad(file, g_fw_config, s_auto_id)
  IN /\ new.ok
     /\ s_auto_id' = new.auto
     /\ TakeOver(new.cfg, file)
     /\ g_ddos_cfg' = new.cfg.ddos
     /\ UNCHANGED new_cfg

(* config_reload of a file that is accepted: the thresholds stay *)
Reload(file) ==
  LET new == DoLoad(file, new_cfg, s_auto_id)
  IN /\ new.ok
     /\ new_cfg' = new.cfg
     /\ s_auto_id' = new.auto
     /\ TakeOver(new.cfg, file)
     /\ UNCHANGED g_ddos_cfg

(* ... and of one that is refused *)
RefusedReload(file) ==
  LET new == DoLoad(file, new_cfg, s_auto_id)
  IN /\ ~new.ok
     /\ new_cfg' = new.cfg
     /\ s_auto_id' = new.auto
     /\ UNCHANGED <<g_fw_config, g_default_policy, g_rules, g_next_id, g_ddos_cfg, loaded, edited, policySet>>

-----------------------------------------------------------------------------
(* The commands: what rule_add, rule_del, rule_flush and                   *)
(* cmd_set_default_policy change in the table and the policy               *)

SetRules(rules) ==
  /\ g_rules' = rules
  /\ edited' = TRUE
  /\ UNCHANGED <<g_fw_config, new_cfg, s_auto_id, g_default_policy, g_ddos_cfg, loaded, policySet>>

RuleAdd(rate) ==
  /\ Len(g_rules) < MaxRules
  /\ g_next_id < IdLimit
  /\ g_next_id' = g_next_id + 1
  /\ SetRules(Append(g_rules, [id |-> g_next_id + 1, rate |-> rate]))

RuleDel(id) ==
  /\ \E n \in DOMAIN g_rules : g_rules[n].id = id
  /\ LET first == Min({n \in DOMAIN g_rules : g_rules[n].id = id})
     IN SetRules(RemoveAt(g_rules, first))
  /\ UNCHANGED g_next_id

RuleFlush ==
  /\ SetRules(<< >>)
  /\ UNCHANGED g_next_id

SetDefaultPolicy(action) ==
  /\ g_default_policy' = action
  /\ policySet' = TRUE
  /\ UNCHANGED <<g_fw_config, new_cfg, s_auto_id, g_rules, g_next_id, g_ddos_cfg, loaded, edited>>

-----------------------------------------------------------------------------
DdosSections == {Absent} \cup {file.ddos : file \in Files}
Structures == [policy : Policies, ddos : DdosSections, rules : Seq(RuleOf)]

(* Every variable keeps its type *)
ConfigTypeOK ==
  /\ \A cfg \in {g_fw_config, new_cfg} : cfg \in Structures /\ Len(cfg.rules) <= MaxRules
  /\ g_ddos_cfg \in DdosSections
  /\ s_auto_id \in Nat /\ g_next_id \in Nat
  /\ g_default_policy \in Policies
  /\ g_rules \in Seq(RuleOf) /\ Len(g_rules) <= MaxRules
  /\ loaded \in Files \cup {NoFile}
  /\ edited \in BOOLEAN /\ policySet \in BOOLEAN

(* Whatever files were read before, accepted or refused half-way, the rules *)
(* and the policy in force are those of the last file that was accepted,   *)
(* drop where it has no default_policy, until a command changes them       *)
InForceIsTheFile ==
  loaded # NoFile =>
    /\ ~policySet => g_default_policy = IF loaded.policy = Absent THEN "drop" ELSE loaded.policy
    /\ ~edited =>
         /\ Len(g_rules) = Min({Len(loaded.rules), MaxRules})
         /\ \A n \in DOMAIN g_rules :
              /\ g_rules[n].rate = loaded.rules[n].rate
              /\ loaded.rules[n].id \in {0, g_rules[n].id}

(* The file sets the ids of all its rules, to different values, or of none *)
IdsOfOneKind(file) ==
  LET ids == [n \in DOMAIN file.rules |-> file.rules[n].id]
  IN (\A n \in DOMAIN ids : ids[n] = 0) \/ (IsInjective(ids) /\ 0 \notin Range(ids))

(* The ids the file itself sets *)
Chosen(file) == {file.rules[n].id : n \in DOMAIN file.rules} \ {0}

(* Whatever file is in force, and whatever commands came after it: no rule *)
(* has the id 0, and two rules have one id only if the file sets it, and   *)
(* sets it twice or leaves other ids to the program.  So automatic ids and *)
(* those of rule_add never collide with each other, nor with anything that *)
(* is left of earlier files.                                               *)
IdsAreUsable ==
  loaded # NoFile =>
    /\ \A n \in DOMAIN g_rules : g_rules[n].id # 0
    /\ \A m, n \in DOMAIN g_rules :
         m # n /\ g_rules[m].id = g_rules[n].id =>
           g_rules[m].id \in Chosen(loaded) /\ ~IdsOfOneKind(loaded)
=============================================================================
