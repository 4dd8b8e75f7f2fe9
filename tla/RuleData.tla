----------------------------- MODULE RuleData -----------------------------
(***************************************************************************)
(* The data of the rule engine: rules, packets and verdicts, and the       *)
(* decision a rule table makes about a packet.                             *)
(*                                                                         *)
(* A packet is a member of Packets, a class of packets no rule tells       *)
(* apart.  The selector of a rule (src/dst CIDR, protocol, ports, TCP      *)
(* flags, ICMP type and code) is the set of the packets it matches.        *)
(* Nothing in the engine's control flow depends on which field mismatched. *)
(***************************************************************************)
EXTENDS Integers, FiniteSets, Sequences

CONSTANTS
  Packets,     \* classes of packets
  ZeroSel,     \* the packets that a slot of zero bytes matches
  PrioMax,     \* UINT32_MAX, the best_prio the scan starts from
  IdMod        \* 2^32: ids and g_next_id are uint32_t

ASSUME RuleDataAssumption ==
  /\ ZeroSel \subseteq Packets
  /\ PrioMax \in Nat \ {0}
  /\ IdMod \in Nat /\ IdMod >= 2

(* fw_action_t *)
Actions == {"accept", "drop", "rate_limit"}

Ids == 0 .. IdMod - 1

(* struct fw_rule without its statistics, its rate and its comment *)
Rule == [id : Ids, prio : 0 .. PrioMax, sel : SUBSET Packets, action : Actions]

(* g_rules is a static array: a slot never written is all zero bytes, and  *)
(* ACTION_ACCEPT is 0                                                      *)
ZeroRule == [id |-> 0, prio |-> 0, sel |-> ZeroSel, action |-> "accept"]

(* What rule_match() answers: *rule_id_out and the action *)
Verdict == [id : Ids, action : Actions]

(* The prefix of n slots of the array tab, as a sequence *)
Prefix(tab, n) == [i \in 1 .. n |-> tab[i - 1]]

(***************************************************************************)
(* The decision a table should make: of the rules that match the packet    *)
(* the one with the least priority number wins, the earliest among equals, *)
(* and the default policy decides when no rule matches.  A priority of     *)
(* PrioMax is no candidate: it does not beat the initial best_prio.        *)
(***************************************************************************)
Candidates(table, p) ==
  {i \in DOMAIN table : p \in table[i].sel /\ table[i].prio < PrioMax}

Better(table, i, j) ==
  \/ table[i].prio < table[j].prio
  \/ table[i].prio = table[j].prio /\ i <= j

IsWinner(table, p, i) ==
  /\ i \in Candidates(table, p)
  /\ \A j \in Candidates(table, p) : Better(table, i, j)

(* v is the decision of the table, with that default policy, about p *)
IsDecision(table, policy, p, v) ==
  IF Candidates(table, p) = {}
  THEN v = [id |-> 0, action |-> policy]
  ELSE \E i \in Candidates(table, p) :
         /\ IsWinner(table, p, i)
         /\ v = [id |-> table[i].id, action |-> table[i].action]
===========================================================================
