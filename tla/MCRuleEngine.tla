--------------------------- MODULE MCRuleEngine ---------------------------
(* Values for the constants of RuleEngine, and a property that only one of *)
(* the runs checks.                                                        *)
EXTENDS RuleEngineRefinement, TLC

CONSTANTS p, q

MakeRule(id, prio, sel, action) == [id |-> id, prio |-> prio, sel |-> sel, action |-> action]

(* A slot of zero bytes matches packets without ports: an ICMP echo reply *)
MCZeroSel == {q}

(* AclPrioMax is 2: librte_acl takes priorities 0 and 1, refuses 2, and 3  *)
(* is PrioMax, which the scan never selects                                *)
MCNewRules == { MakeRule(0, 0, {p}, "drop"), MakeRule(0, 2, {p, q}, "rate_limit") }

(* Equal priorities that overlap, and an id above the other *)
PairConfig ==
  [rules |-> << MakeRule(2, 1, {p, q}, "accept"), MakeRule(1, 1, {p}, "drop") >>, policy |-> "drop"]

EmptyConfig == [rules |-> << >>, policy |-> "accept"]

MCConfigs == {PairConfig, EmptyConfig}

MCLiveConfigs == {EmptyConfig}

(* Which of two contexts is which makes no difference *)
Symmetry == Permutations(Handles)

(* With the packet q alone: a rule that matches it, and one that does not *)
MCLiveRules == { MakeRule(0, 1, {q}, "drop"), MakeRule(0, 1, {}, "accept") }

(* One file, all of whose rules keep their ids: an id stands for a rule *)
FixedConfig ==
  [rules |-> << MakeRule(1, 0, {p}, "drop"), MakeRule(2, 1, {q}, "accept") >>, policy |-> "accept"]

MCFixedConfigs == {FixedConfig}

(* rule_id_out is the id of the rule that matched (include/rule_engine.h,  *)
(* rule_match), so that rule matches the packet                            *)
IdIsOfAMatch ==
  \A l \in Lcores : pc[l] = "done" /\ verdict[l].id # 0 =>
    \E c \in Configs : \E k \in DOMAIN c.rules :
      c.rules[k].id = verdict[l].id /\ pkt[l] \in c.rules[k].sel
===========================================================================
