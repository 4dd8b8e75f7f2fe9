-------------------------- MODULE FirewallPolicy --------------------------
(***************************************************************************)
(* What the rule engine promises to the pipeline and to the control plane, *)
(* without the arrays, the lock and the ACL contexts it is built from.     *)
(*                                                                         *)
(* The control plane changes the table by whole operations.  An operation  *)
(* takes effect when it begins and is acknowledged when it ends; only then *)
(* does the engine start or stop consulting the table (armed).  A          *)
(* forwarding core asks for the verdict on a packet.  A call that no       *)
(* operation overlaps gets exactly the decision of the table; a call that  *)
(* an operation overlaps may get any verdict, which is all the engine can  *)
(* promise as it scans the table without the lock.                         *)
(***************************************************************************)
EXTENDS RuleData, SequencesExt

CONSTANTS
  Lcores,      \* forwarding cores
  MaxRules,    \* MAX_RULES
  NewRules,    \* what rule_add may be asked to add
  Configs,     \* what a configuration file may hold
  DelIds       \* the ids rule_del may be asked for

VARIABLES
  table,       \* the rules, in order
  policy,      \* the default policy
  armed,       \* the table is consulted
  lastId,      \* the greatest id handed out or loaded
  busy,        \* "edit" or "reload" while such an operation is not acknowledged
  answer,      \* how the last operation was acknowledged
  open,        \* open[l]: a call of rule_match is in progress
  quiet,       \* quiet[l]: no operation has overlapped that call
  asked,       \* the packet of the call
  told         \* the verdict, NoVerdict while there is none

vars == <<table, policy, armed, lastId, busy, answer, open, quiet, asked, told>>
callVars == <<open, asked, told>>

NoVerdict == [id |-> -1, action |-> "accept"]

ConfigIds(c) == {c.rules[k].id : k \in DOMAIN c.rules}

(* The first rule with the id *)
IsFirst(i, id) ==
  /\ i \in DOMAIN table /\ table[i].id = id
  /\ \A j \in 1 .. i - 1 : table[j].id # id

Init ==
  /\ \E c \in Configs :
       /\ table = c.rules
       /\ policy = c.policy
       /\ lastId = Max(ConfigIds(c) \cup {0})
  /\ armed = (table # <<>>)
  /\ busy = "no"
  /\ answer = "none"
  /\ open = [l \in Lcores |-> FALSE]
  /\ quiet = [l \in Lcores |-> FALSE]
  /\ asked \in [Lcores -> Packets]
  /\ told = [l \in Lcores |-> NoVerdict]

(* An operation begins with the new table *)
Begin(kind, t) ==
  /\ busy = "no"
  /\ busy' = kind
  /\ table' = t
  /\ answer' = "none"
  /\ quiet' = [l \in Lcores |-> FALSE]
  /\ UNCHANGED <<callVars, armed>>

BeginAdd(r) ==
  /\ Len(table) < MaxRules
  /\ lastId' = lastId + 1
  /\ Begin("edit", Append(table, [r EXCEPT !.id = lastId']))
  /\ UNCHANGED policy

BeginDel(id) ==
  /\ \E i \in DOMAIN table : IsFirst(i, id) /\ Begin("edit", RemoveAt(table, i))
  /\ UNCHANGED <<policy, lastId>>

BeginFlush == Begin("edit", <<>>) /\ UNCHANGED <<policy, lastId>>

BeginReload(c) ==
  /\ Begin("reload", c.rules)
  /\ policy' = c.policy
  /\ lastId' = Max(ConfigIds(c) \cup {lastId})

(* The operation is acknowledged and the table is consulted if it is not   *)
(* empty                                                                   *)
EndArmed ==
  /\ armed' = (table # <<>>)
  /\ answer' = "ok"

(* The engine could not compile a non-empty table: it is consulted only if *)
(* the one before it was.  A reload is acknowledged as done all the same.  *)
EndUnbuilt ==
  /\ table # <<>>
  /\ armed' = armed
  /\ answer' = IF busy = "reload" THEN "ok" ELSE "fail"

End ==
  /\ busy # "no"
  /\ busy' = "no"
  /\ EndArmed \/ EndUnbuilt
  /\ UNCHANGED <<callVars, quiet, table, policy, lastId>>

(* An operation that changes nothing: a full table, an unknown id, a file  *)
(* that does not parse                                                     *)
Refuse ==
  /\ busy = "no"
  /\ answer' = "fail"
  /\ UNCHANGED <<callVars, quiet, table, policy, armed, lastId, busy>>

SetPolicy(a) ==
  /\ busy = "no"
  /\ policy' = a
  /\ answer' = "ok"
  /\ quiet' = [l \in Lcores |-> FALSE]
  /\ UNCHANGED <<callVars, table, armed, lastId, busy>>

Ask(l, p) ==
  /\ ~open[l] /\ told[l] = NoVerdict
  /\ open' = [open EXCEPT ![l] = TRUE]
  /\ asked' = [asked EXCEPT ![l] = p]
  /\ quiet' = [quiet EXCEPT ![l] = (busy = "no")]
  /\ UNCHANGED <<told, table, policy, armed, lastId, busy, answer>>

(* What the engine is to answer: a table that is not consulted has no say *)
Decision(p, v) == IsDecision(IF armed THEN table ELSE <<>>, policy, p, v)

Tell(l) ==
  /\ open[l]
  /\ open' = [open EXCEPT ![l] = FALSE]
  /\ \E v \in Verdict :
       /\ told' = [told EXCEPT ![l] = v]
       /\ quiet[l] => Decision(asked[l], v)
  /\ UNCHANGED <<asked, quiet, table, policy, armed, lastId, busy, answer>>

Forget(l) ==
  /\ told[l] # NoVerdict
  /\ told' = [told EXCEPT ![l] = NoVerdict]
  /\ quiet' = [quiet EXCEPT ![l] = FALSE]
  /\ UNCHANGED <<open, asked, table, policy, armed, lastId, busy, answer>>

Next ==
  \/ \E r \in NewRules : BeginAdd(r)
  \/ \E id \in DelIds : BeginDel(id)
  \/ BeginFlush
  \/ \E c \in Configs : BeginReload(c)
  \/ End
  \/ Refuse
  \/ \E a \in {"accept", "drop"} : SetPolicy(a)
  \/ \E l \in Lcores :
       \/ \E p \in Packets : Ask(l, p)
       \/ Tell(l)
       \/ Forget(l)

Spec == Init /\ [][Next]_vars
===========================================================================
