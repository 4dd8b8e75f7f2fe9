------------------------- MODULE RuleEngineProofs -------------------------
(***************************************************************************)
(* Proofs about RuleEngine for every set of cores, packets, rules, files   *)
(* and contexts, and every MAX_RULES.                                      *)
(***************************************************************************)
EXTENDS RuleEngine, TLAPS

(* A slot never written is a rule *)
LEMMA ZeroRuleIsRule == ZeroRule \in Rule /\ NoJob.tab \in [Slots -> Rule]
  BY RuleDataAssumption DEF ZeroRule, Rule, Ids, Actions, NoJob

LEMMA IdsOfRules ==
  ASSUME NEW seq \in Tables
  PROVE  IdsOf(seq) \subseteq Ids
  <1> SUFFICES ASSUME NEW k \in DOMAIN seq PROVE seq[k].id \in Ids
    BY DEF IdsOf
  <1>1. seq[k] \in Rule
    BY DEF Tables
  <1> QED
    BY <1>1 DEF Rule

LEMMA NoJobType ==
  NoJob \in [op : Ops \cup {"none"}, tab : [Slots -> Rule], cnt : 0 .. MaxRules, hi : 0 .. MaxRules]
  <1>1. 0 \in 0 .. MaxRules
    BY RuleEngineAssumption
  <1> QED
    BY <1>1, ZeroRuleIsRule DEF NoJob

(* What a file holds, copied over an array of rules, is one *)
LEMMA ArrayIsRules ==
  ASSUME NEW seq \in Tables, NEW old \in [Slots -> Rule]
  PROVE  /\ Array(seq, old) \in [Slots -> Rule]
         /\ Len(seq) \in 0 .. MaxRules
  BY RuleEngineAssumption DEF Tables, Array, Slots

LEMMA ConfigType ==
  ASSUME NEW c \in Configs
  PROVE  c.rules \in Tables /\ c.policy \in Actions
  BY RuleEngineAssumption

LEMMA TypeInit == Init => TypeOK
  <1> SUFFICES ASSUME Init PROVE TypeOK
    OBVIOUS
  <1> USE RuleDataAssumption, RuleEngineAssumption
  <1>1. PICK c \in Configs, h \in Handles :
          /\ g_rules = Array(c.rules, NoJob.tab)
          /\ g_n_rules = Len(c.rules)
          /\ Greatest(g_next_id, IdsOf(c.rules) \cup {0})
          /\ g_default_policy = c.policy
          /\ g_acl_ctx = IF g_n_rules = 0 THEN NoCtx ELSE h
          /\ live_ctx = {g_acl_ctx} \ {NoCtx}
    BY DEF Init
  <1>2. g_next_id \in Ids
    BY <1>1, ConfigType, IdsOfRules DEF Greatest, Ids
  <1>3. EngineType
    BY <1>1, <1>2, ConfigType, ArrayIsRules, ZeroRuleIsRule DEF EngineType
  <1>4. LockType
    BY DEF Init, LockType
  <1>5. ControlType
    <2>1. cpc = "idle" /\ job = NoJob /\ pos = 0
      BY DEF Init
    <2>4. counted \in BOOLEAN
      BY Zenon DEF Init
    <2>2. new_ctx = NoCtx /\ old_ctx = NoCtx
      BY DEF Init
    <2>3. reply \in [op : Ops \cup {"none", "policy"}, rc : {"none", "ok", "fail"}]
      BY DEF Init, NoReply
    <2> QED
      BY <2>1, <2>2, <2>3, <2>4, NoJobType DEF ControlType
  <1>6. CallType
    BY DEF Init, CallType, ZeroVerdict, Verdict, Ids, Actions
  <1> QED
    BY <1>3, <1>4, <1>5, <1>6 DEF TypeOK

-----------------------------------------------------------------------------
(* The steps of the control core *)

LEMMA CallTypeKept ==
  ASSUME CallType, UNCHANGED callVars, clean' \in [Lcores -> BOOLEAN]
  PROVE  CallType'
  BY DEF CallType, callVars

LEMMA DisturbType == Disturb => clean' \in [Lcores -> BOOLEAN]
  BY Zenon DEF Disturb

LEMMA TypeBegin ==
  ASSUME TypeOK,
         NEW op \in Ops, NEW tab \in [Slots -> Rule],
         NEW n \in 0 .. MaxRules, NEW from \in 0 .. MaxRules, NEW to \in 0 .. MaxRules,
         Begin(op, tab, n, from, to),
         g_next_id' \in Ids, g_default_policy' \in Actions
  PROVE  TypeOK'
  <1>1. EngineType'
    BY DEF TypeOK, EngineType, Begin
  <1>2. LockType'
    BY DEF TypeOK, LockType, Begin, lockVars
  <1>3. ControlType'
    <2>1. counted' \in BOOLEAN
      BY Zenon DEF Begin
    <2>2. job' \in [op : Ops \cup {"none"}, tab : [Slots -> Rule], cnt : 0 .. MaxRules, hi : 0 .. MaxRules]
      BY DEF Begin
    <2>3. cpc' = "copy" /\ pos' = from
      BY DEF Begin
    <2>4. reply' \in [op : Ops \cup {"none", "policy"}, rc : {"none", "ok", "fail"}]
      BY DEF Begin, NoReply
    <2> QED
      BY <2>1, <2>2, <2>3, <2>4 DEF TypeOK, ControlType, Begin
  <1>4. CallType'
    BY CallTypeKept, DisturbType DEF TypeOK, Begin
  <1> QED
    BY <1>1, <1>2, <1>3, <1>4 DEF TypeOK

LEMMA TypeAnswer ==
  ASSUME TypeOK,
         NEW op \in Ops \cup {"policy"}, NEW rc \in {"ok", "fail"},
         Answer(op, rc),
         g_default_policy' \in Actions, clean' \in [Lcores -> BOOLEAN]
  PROVE  TypeOK'
  <1>1. EngineType'
    BY DEF TypeOK, EngineType, Answer
  <1>2. LockType'
    BY DEF TypeOK, LockType, Answer, lockVars
  <1>3. ControlType'
    BY DEF TypeOK, ControlType, Answer
  <1>4. CallType'
    BY CallTypeKept DEF TypeOK, Answer
  <1> QED
    BY <1>1, <1>2, <1>3, <1>4 DEF TypeOK

LEMMA TypeControlBegin == TypeOK /\ ControlBegin => TypeOK'
  <1> SUFFICES ASSUME TypeOK, ControlBegin PROVE TypeOK'
    OBVIOUS
  <1> USE RuleEngineAssumption
  <1>0. /\ g_rules \in [Slots -> Rule] /\ g_n_rules \in 0 .. MaxRules
        /\ g_next_id \in Ids /\ g_default_policy \in Actions
        /\ clean \in [Lcores -> BOOLEAN]
    BY DEF TypeOK, EngineType, CallType
  <1>1. ASSUME NEW r \in NewRules, RuleAdd(r) PROVE TypeOK'
    <2>1. g_next_id' \in Ids
      BY <1>0, <1>1, RuleDataAssumption DEF RuleAdd, NextId, Ids
    <2>2. [r EXCEPT !.id = g_next_id'] \in Rule
      BY <2>1 DEF Rule
    <2>3. [g_rules EXCEPT ![g_n_rules] = [r EXCEPT !.id = g_next_id']] \in [Slots -> Rule]
      BY <1>0, <2>2
    <2>4. g_n_rules + 1 \in 0 .. MaxRules
      BY <1>0, <1>1 DEF RuleAdd, HasRoom
    <2> QED
      BY <1>0, <1>1, <2>1, <2>3, <2>4, TypeBegin DEF RuleAdd, Ops
  <1>2. CASE RuleAddFull
    BY <1>0, <1>2, TypeAnswer DEF RuleAddFull, Ops
  <1>3. ASSUME NEW id \in DelIds, RuleDel(id) PROVE TypeOK'
    <2>1. PICK i \in Live :
            Begin("del", Closed(g_rules, i, g_n_rules), g_n_rules - 1, i, g_n_rules - 1)
      BY <1>3 DEF RuleDel
    <2>2. /\ i \in 0 .. MaxRules
          /\ g_n_rules - 1 \in 0 .. MaxRules
      BY <1>0, <2>1 DEF Live
    <2>3. Closed(g_rules, i, g_n_rules) \in [Slots -> Rule]
      BY <1>0, <2>2 DEF Closed, Slots
    <2> QED
      BY <1>0, <1>3, <2>1, <2>2, <2>3, TypeBegin DEF RuleDel, Ops
  <1>4. ASSUME NEW id \in DelIds, RuleDelMissing(id) PROVE TypeOK'
    BY <1>0, <1>4, TypeAnswer DEF RuleDelMissing, Ops
  <1>5. CASE RuleFlush
    BY <1>0, <1>5, TypeBegin DEF RuleFlush, Ops
  <1>6. ASSUME NEW c \in Configs, ConfigReload(c) PROVE TypeOK'
    <2>1. /\ Array(c.rules, g_rules) \in [Slots -> Rule]
          /\ Len(c.rules) \in 0 .. MaxRules
      BY <1>0, ConfigType, ArrayIsRules
    <2> QED
      BY <1>0, <1>6, <2>1, ConfigType, TypeBegin DEF ConfigReload, Ops
  <1>7. CASE ConfigReloadFails
    BY <1>0, <1>7, TypeAnswer DEF ConfigReloadFails, Ops
  <1>8. ASSUME NEW a \in {"accept", "drop"}, SetDefaultPolicy(a) PROVE TypeOK'
    BY <1>8, DisturbType, TypeAnswer DEF SetDefaultPolicy, Actions
  <1> QED
    BY <1>1, <1>2, <1>3, <1>4, <1>5, <1>6, <1>7, <1>8 DEF ControlBegin

(* The steps that touch nothing of a call *)
LEMMA CallTypeUntouched ==
  ASSUME TypeOK, UNCHANGED <<callVars, clean>>
  PROVE  CallType'
  BY CallTypeKept DEF TypeOK, CallType

LEMMA TypeFinish ==
  ASSUME ControlType, NEW rc \in {"ok", "fail"}, Finish(rc)
  PROVE  ControlType'
  <1>1. counted' \in BOOLEAN
    BY Zenon DEF Finish
  <1>2. reply' \in [op : Ops \cup {"none", "policy"}, rc : {"none", "ok", "fail"}]
    BY DEF Finish, ControlType
  <1>3. cpc' = "idle" /\ pos' \in 0 .. MaxRules
    BY RuleEngineAssumption DEF Finish
  <1> QED
    BY <1>1, <1>2, <1>3, NoJobType DEF Finish, ControlType

LEMMA TypeControlStep == TypeOK /\ ControlStep => TypeOK'
  <1> SUFFICES ASSUME TypeOK, ControlStep PROVE TypeOK'
    OBVIOUS
  <1> USE RuleEngineAssumption
  <1>0. EngineType /\ LockType /\ ControlType
    BY DEF TypeOK
  <1>1. CASE StoreCount
    <2>1. EngineType' /\ LockType'
      BY <1>0, <1>1 DEF StoreCount, EngineType, LockType, lockVars, ControlType
    <2>2. counted' \in BOOLEAN
      BY Zenon, <1>1 DEF StoreCount
    <2>3. ControlType'
      BY <1>0, <1>1, <2>2 DEF StoreCount, ControlType
    <2> QED
      BY <1>1, <2>1, <2>3, CallTypeUntouched DEF TypeOK, StoreCount
  <1>2. CASE CopyHead
    <2>1. pos \in Slots /\ pos < job.hi
      BY <1>0, <1>2 DEF CopyHead, ControlType, Slots
    <2>2. [job.tab[pos] EXCEPT !.action = g_rules[pos].action] \in Rule
      BY <1>0, <2>1 DEF EngineType, ControlType, Rule
    <2>3. EngineType' /\ LockType'
      BY <1>0, <1>2, <2>2 DEF CopyHead, EngineType, LockType, lockVars
    <2>4. ControlType'
      BY <1>0, <1>2, <2>1 DEF CopyHead, ControlType, jobVars
    <2> QED
      BY <1>2, <2>3, <2>4, CallTypeUntouched DEF TypeOK, CopyHead
  <1>3. CASE CopyTail
    <2>1. pos \in Slots
      BY <1>0, <1>3 DEF CopyTail, ControlType, Slots
    <2>2. [g_rules[pos] EXCEPT !.action = job.tab[pos].action] \in Rule
      BY <1>0, <2>1 DEF EngineType, ControlType, Rule
    <2>3. EngineType' /\ LockType'
      BY <1>0, <1>3, <2>2 DEF CopyTail, EngineType, LockType, lockVars
    <2>4. ControlType'
      BY <1>0, <1>3 DEF CopyTail, ControlType
    <2> QED
      BY <1>3, <2>3, <2>4, CallTypeUntouched DEF TypeOK, CopyTail
  <1>4. CASE CopyDone
    <2>1. LiveTable \in Tables
      BY <1>0 DEF EngineType, LiveTable, Prefix, Tables, Slots
    <2>2. g_next_id' \in Ids
      BY <1>0, <1>4, <2>1, IdsOfRules DEF CopyDone, RaiseNextId, Greatest, EngineType
    <2>3. EngineType' /\ LockType' /\ ControlType'
      BY <1>0, <1>4, <2>2 DEF CopyDone, EngineType, LockType, lockVars, ControlType, jobVars
    <2> QED
      BY <1>4, <2>3, CallTypeUntouched DEF TypeOK, CopyDone
  <1>5. CASE BuildOk
    <2>1. EngineType' /\ LockType' /\ ControlType'
      BY <1>0, <1>5 DEF BuildOk, EngineType, LockType, lockVars, ControlType, engineVars
    <2> QED
      BY <1>5, <2>1, CallTypeUntouched DEF TypeOK, BuildOk
  <1>6. CASE BuildEmpty
    <2>1. EngineType' /\ LockType' /\ ControlType'
      BY <1>0, <1>6 DEF BuildEmpty, EngineType, LockType, lockVars, ControlType, engineVars
    <2> QED
      BY <1>6, <2>1, CallTypeUntouched DEF TypeOK, BuildEmpty
  <1>7. CASE BuildFail
    <2>1. EngineType' /\ LockType'
      BY <1>0, <1>7 DEF BuildFail, EngineType, LockType, lockVars, engineVars
    <2>2. ControlType'
      BY <1>0, <1>7, TypeFinish DEF BuildFail, FailRc
    <2> QED
      BY <1>7, <2>1, <2>2, CallTypeUntouched DEF TypeOK, BuildFail
  <1>8. CASE WriteWait
    <2>1. EngineType' /\ LockType' /\ ControlType'
      BY <1>0, <1>8 DEF WriteWait, EngineType, LockType, ControlType, engineVars, jobVars
    <2> QED
      BY <1>8, <2>1, CallTypeUntouched DEF TypeOK, WriteWait
  <1>9. CASE WriteLock
    <2>1. EngineType' /\ LockType' /\ ControlType'
      BY <1>0, <1>9 DEF WriteLock, EngineType, LockType, ControlType, engineVars, jobVars
    <2> QED
      BY <1>9, <2>1, CallTypeUntouched DEF TypeOK, WriteLock
  <1>10. CASE Swap
    <2>1. EngineType' /\ LockType' /\ ControlType'
      BY <1>0, <1>10 DEF Swap, EngineType, LockType, lockVars, ControlType
    <2> QED
      BY <1>10, <2>1, CallTypeUntouched DEF TypeOK, Swap
  <1>11. CASE WriteUnlock
    <2>1. EngineType' /\ LockType' /\ ControlType'
      BY <1>0, <1>11 DEF WriteUnlock, EngineType, LockType, ControlType, engineVars, jobVars
    <2> QED
      BY <1>11, <2>1, CallTypeUntouched DEF TypeOK, WriteUnlock
  <1>12. CASE FreeOld
    <2>1. EngineType' /\ LockType'
      BY <1>0, <1>12 DEF FreeOld, Freed, EngineType, LockType, lockVars, engineVars
    <2>2. ControlType'
      BY <1>0, <1>12, TypeFinish DEF FreeOld
    <2> QED
      BY <1>12, <2>1, <2>2, CallTypeUntouched DEF TypeOK, FreeOld
  <1> QED
    BY <1>1, <1>2, <1>3, <1>4, <1>5, <1>6, <1>7, <1>8, <1>9, <1>10, <1>11, <1>12
    DEF ControlStep

-----------------------------------------------------------------------------
(* The steps of a forwarding core *)

LEMMA CtrlTypeKept ==
  ASSUME TypeOK, UNCHANGED ctrlVars
  PROVE  EngineType' /\ ControlType'
  BY DEF TypeOK, EngineType, ControlType, ctrlVars, engineVars, jobVars

LEMMA TypeCall ==
  ASSUME TypeOK, NEW l \in Lcores, CallStep(l) \/ (\E p \in Packets : ReadLock(l, p))
  PROVE  TypeOK'
  <1> USE RuleEngineAssumption, RuleDataAssumption
  <1>0. EngineType /\ LockType /\ CallType
    BY DEF TypeOK
  <1>a. UNCHANGED ctrlVars => EngineType' /\ ControlType'
    BY CtrlTypeKept
  <1>1. ASSUME NEW p \in Packets, ReadLock(l, p) PROVE TypeOK'
    <2>1. clean' \in [Lcores -> BOOLEAN]
      BY Zenon, <1>0, <1>1 DEF ReadLock, CallType
    <2>2. LockType' /\ CallType'
      BY <1>0, <1>1, <2>1 DEF ReadLock, LockType, CallType
    <2> QED
      BY <1>a, <1>1, <2>2 DEF TypeOK, ReadLock
  <1>2. CASE ReadCtx(l)
    <2>1. LockType' /\ CallType'
      BY <1>0, <1>2 DEF ReadCtx, LockType, CallType, lockVars, EngineType
    <2> QED
      BY <1>a, <1>2, <2>1 DEF TypeOK, ReadCtx
  <1>3. CASE ReadUnlock(l)
    <2>1. LockType' /\ CallType'
      BY <1>0, <1>3 DEF ReadUnlock, ReadersAfter, LockType, CallType, EngineType
    <2> QED
      BY <1>a, <1>3, <2>1 DEF TypeOK, ReadUnlock
  <1>4. CASE ScanStep(l)
    <2>1. PICK n \in 0 .. MaxRules : idx[l] < n /\ lim' = [lim EXCEPT ![l] = n]
      BY <1>0, <1>4 DEF ScanStep, Counts, EngineType, CallType
    <2>2. idx[l] \in Slots /\ AfterSlot(l) \in 1 .. MaxRules
      BY <1>0, <2>1 DEF CallType, Slots, AfterSlot
    <2>3. g_rules[idx[l]].prio \in 0 .. PrioMax
      BY <1>0, <2>2 DEF EngineType, Rule
    <2>4. best' \in [Lcores -> 0 .. PrioMax] /\ res' \in [Lcores -> 0 .. MaxRules]
      BY <1>0, <1>4, <2>2, <2>3 DEF ScanStep, CallType, AfterSlot
    <2>5. idx' \in [Lcores -> 0 .. MaxRules] /\ lim' \in [Lcores -> 0 .. MaxRules]
      BY <1>0, <1>4, <2>1, <2>2 DEF ScanStep, CallType
    <2>6. \A k \in Lcores : pc'[k] \in {"matched", "action"} => res'[k] > 0
      <3>1. pc' = pc /\ pc[l] = "scan"
        BY <1>4 DEF ScanStep
      <3>2. \A k \in Lcores \ {l} : res'[k] = res[k]
        BY <1>0, <1>4 DEF ScanStep, CallType
      <3> QED
        BY <1>0, <3>1, <3>2 DEF CallType
    <2>7. LockType' /\ CallType'
      BY <1>0, <1>4, <2>4, <2>5, <2>6 DEF ScanStep, LockType, CallType, lockVars
    <2> QED
      BY <1>a, <1>4, <2>7 DEF TypeOK, ScanStep
  <1>5. CASE ScanEnd(l)
    <2>1. PICK n \in 0 .. MaxRules : lim' = [lim EXCEPT ![l] = n]
      BY <1>0, <1>5 DEF ScanEnd, Counts, EngineType, CallType
    <2>2. LockType' /\ CallType'
      BY <1>0, <1>5, <2>1 DEF ScanEnd, LockType, CallType, lockVars
    <2> QED
      BY <1>a, <1>5, <2>2 DEF TypeOK, ScanEnd
  <1>6. CASE DefaultVerdict(l)
    <2>1. [id |-> 0, action |-> g_default_policy] \in Verdict
      BY <1>0 DEF EngineType, Verdict, Ids
    <2>2. LockType' /\ CallType'
      BY <1>0, <1>6, <2>1 DEF DefaultVerdict, LockType, CallType, lockVars
    <2> QED
      BY <1>a, <1>6, <2>2 DEF TypeOK, DefaultVerdict
  <1>7. CASE RecheckFails(l)
    <2>1. LockType' /\ CallType'
      BY <1>0, <1>7 DEF RecheckFails, LockType, CallType, lockVars
    <2> QED
      BY <1>a, <1>7, <2>1 DEF TypeOK, RecheckFails
  <1>8. CASE ReadRuleId(l)
    <2>1. res[l] - 1 \in Slots
      BY <1>0, <1>8 DEF ReadRuleId, CallType, Slots
    <2>2. [verdict[l] EXCEPT !.id = g_rules[res[l] - 1].id] \in Verdict
      BY <1>0, <2>1 DEF EngineType, CallType, Verdict, Rule
    <2>3. LockType' /\ CallType'
      BY <1>0, <1>8, <2>2 DEF ReadRuleId, LockType, CallType, lockVars
    <2> QED
      BY <1>a, <1>8, <2>3 DEF TypeOK, ReadRuleId
  <1>9. CASE ReadRuleAction(l)
    <2>1. res[l] - 1 \in Slots
      BY <1>0, <1>9 DEF ReadRuleAction, CallType, Slots
    <2>2. [verdict[l] EXCEPT !.action = g_rules[res[l] - 1].action] \in Verdict
      BY <1>0, <2>1 DEF EngineType, CallType, Verdict, Rule
    <2>3. LockType' /\ CallType'
      BY <1>0, <1>9, <2>2 DEF ReadRuleAction, LockType, CallType, lockVars
    <2> QED
      BY <1>a, <1>9, <2>3 DEF TypeOK, ReadRuleAction
  <1>10. CASE Return(l)
    <2>1. ZeroVerdict \in Verdict
      BY DEF ZeroVerdict, Verdict, Ids, Actions
    <2>2. clean' \in [Lcores -> BOOLEAN]
      BY Zenon, <1>0, <1>10 DEF Return, CallType
    <2>4. 0 \in 0 .. MaxRules /\ PrioMax \in 0 .. PrioMax
      OBVIOUS
    <2>5. /\ ctx' \in [Lcores -> Handles \cup {NoCtx}]
          /\ idx' \in [Lcores -> 0 .. MaxRules]
          /\ lim' \in [Lcores -> 0 .. MaxRules]
          /\ best' \in [Lcores -> 0 .. PrioMax]
          /\ res' \in [Lcores -> 0 .. MaxRules]
          /\ verdict' \in [Lcores -> Verdict]
      BY <1>0, <1>10, <2>1, <2>4 DEF Return, CallType
    <2>3. LockType' /\ CallType'
      BY <1>0, <1>10, <2>2, <2>5 DEF Return, LockType, CallType, lockVars
    <2> QED
      BY <1>a, <1>10, <2>3 DEF TypeOK, Return
  <1> QED
    BY <1>1, <1>2, <1>3, <1>4, <1>5, <1>6, <1>7, <1>8, <1>9, <1>10 DEF CallStep

LEMMA TypeNext == TypeOK /\ [Next]_vars => TypeOK'
  <1> SUFFICES ASSUME TypeOK, [Next]_vars PROVE TypeOK'
    OBVIOUS
  <1>1. CASE UNCHANGED vars
    BY <1>1 DEF vars, engineVars, lockVars, jobVars, callVars,
                TypeOK, EngineType, LockType, ControlType, CallType
  <1> QED
    BY <1>1, TypeControlBegin, TypeControlStep, TypeCall DEF Next

(* Every variable keeps its type in every behaviour: no index with which   *)
(* the table is read or written leaves g_rules, however the scans and the  *)
(* operations interleave                                                   *)
THEOREM TypeCorrect == Spec => []TypeOK
  <1> QED
    BY TypeInit, TypeNext, PTL DEF Spec

-----------------------------------------------------------------------------
(* The lock and the contexts.  CtxAlive alone is not inductive: what keeps *)
(* a context alive while a core has it in hand is that the swap happens    *)
(* under the write lock, so that no core has loaded the pointer before it  *)
(* and not unlocked since.                                                 *)

(* The lock does what it is for *)
LockInv ==
  /\ readers = {l \in Lcores : pc[l] \in {"locked", "loaded"}}
  /\ writer = "held" <=> cpc \in {"swap", "unlock"}
  /\ writer = "held" => readers = {}

Unbuilt == {"idle", "copy", "tail", "build"}

(* Which contexts there are at each point of a rebuild, and that a core    *)
(* between lock and unlock holds the published one                         *)
CtxInv ==
  /\ cpc \in Unbuilt => live_ctx = {g_acl_ctx} \ {NoCtx}
  /\ cpc \in {"lock", "swap"} =>
       /\ live_ctx = {g_acl_ctx, new_ctx} \ {NoCtx}
       /\ new_ctx # g_acl_ctx \/ new_ctx = NoCtx
  /\ cpc \in {"unlock", "free"} =>
       /\ live_ctx = {g_acl_ctx, old_ctx} \ {NoCtx}
       /\ old_ctx # g_acl_ctx \/ old_ctx = NoCtx
  /\ \A l \in Lcores : pc[l] = "loaded" => ctx[l] = g_acl_ctx

CtxSafe == TypeOK /\ LockInv /\ CtxInv

LEMMA CtxInit == Init => CtxSafe
  <1> SUFFICES ASSUME Init PROVE CtxSafe
    OBVIOUS
  <1>1. LockInv
    BY DEF Init, LockInv
  <1>2. CtxInv
    BY DEF Init, CtxInv, Unbuilt
  <1> QED
    BY <1>1, <1>2, TypeInit DEF CtxSafe

(* A step that changes no context and stays before the build *)
LEMMA CtxFrame ==
  ASSUME LockInv, CtxInv, UNCHANGED <<g_acl_ctx, live_ctx, readers, writer, pc, ctx>>,
         cpc \in Unbuilt, cpc' \in Unbuilt
  PROVE  LockInv' /\ CtxInv'
  BY DEF LockInv, CtxInv, Unbuilt

LEMMA CtxControlBegin ==
  ASSUME LockInv, CtxInv, ControlBegin
  PROVE  LockInv' /\ CtxInv'
  <1>1. UNCHANGED <<g_acl_ctx, live_ctx, readers, writer, pc, ctx>>
    BY DEF ControlBegin, RuleAdd, RuleAddFull, RuleDel, RuleDelMissing, RuleFlush, ConfigReload,
           ConfigReloadFails, SetDefaultPolicy, Begin, Answer, lockVars, callVars
  <1>2. cpc \in Unbuilt /\ cpc' \in Unbuilt
    BY DEF ControlBegin, RuleAdd, RuleAddFull, RuleDel, RuleDelMissing, RuleFlush, ConfigReload,
           ConfigReloadFails, SetDefaultPolicy, Begin, Answer, Unbuilt
  <1> QED
    BY <1>1, <1>2, CtxFrame

LEMMA CtxControlStep ==
  ASSUME TypeOK, LockInv, CtxInv, ControlStep
  PROVE  LockInv' /\ CtxInv'
  <1> USE RuleEngineAssumption
  <1>0. g_acl_ctx \in Handles \cup {NoCtx}
    BY DEF TypeOK, EngineType
  <1>1. CASE StoreCount \/ CopyHead \/ CopyTail \/ CopyDone
    BY <1>1, CtxFrame
    DEF StoreCount, CopyHead, CopyTail, CopyDone, lockVars, callVars, Unbuilt
  <1>2. CASE BuildOk
    BY <1>0, <1>2 DEF BuildOk, LockInv, CtxInv, Unbuilt, engineVars, lockVars, callVars
  <1>3. CASE BuildEmpty
    BY <1>3 DEF BuildEmpty, LockInv, CtxInv, Unbuilt, engineVars, lockVars, callVars
  <1>4. CASE BuildFail
    BY <1>4, CtxFrame DEF BuildFail, Finish, Unbuilt, engineVars, lockVars, callVars
  <1>5. CASE WriteWait
    BY <1>5 DEF WriteWait, LockInv, CtxInv, Unbuilt, engineVars, jobVars, callVars
  <1>6. CASE WriteLock
    BY <1>6 DEF WriteLock, CanWrite, LockInv, CtxInv, Unbuilt, engineVars, jobVars, callVars
  <1>7. CASE Swap
    <2>1. \A l \in Lcores : pc[l] # "loaded"
      BY <1>7 DEF Swap, LockInv
    <2> QED
      BY <1>7, <2>1 DEF Swap, LockInv, CtxInv, Unbuilt, lockVars, callVars
  <1>8. CASE WriteUnlock
    BY <1>8 DEF WriteUnlock, LockInv, CtxInv, Unbuilt, engineVars, jobVars, callVars
  <1>9. CASE FreeOld
    BY <1>9 DEF FreeOld, Freed, Finish, LockInv, CtxInv, Unbuilt, engineVars, lockVars, callVars
  <1> QED
    BY <1>1, <1>2, <1>3, <1>4, <1>5, <1>6, <1>7, <1>8, <1>9 DEF ControlStep

(* A step of rule_match past its unlock holds no context *)
LEMMA CtxCallFrame ==
  ASSUME LockInv, CtxInv, UNCHANGED <<ctrlVars, lockVars>>,
         NEW l \in Lcores,
         pc[l] \notin {"locked", "loaded"}, pc'[l] \notin {"locked", "loaded"},
         \A k \in Lcores \ {l} : pc'[k] = pc[k] /\ ctx'[k] = ctx[k]
  PROVE  LockInv' /\ CtxInv'
  BY DEF LockInv, CtxInv, Unbuilt, ctrlVars, lockVars, engineVars, jobVars

LEMMA CtxCall ==
  ASSUME TypeOK, LockInv, CtxInv,
         NEW l \in Lcores, CallStep(l) \/ (\E p \in Packets : ReadLock(l, p))
  PROVE  LockInv' /\ CtxInv'
  <1>0. DOMAIN pc = Lcores /\ pc = [k \in Lcores |-> pc[k]] /\ ctx = [k \in Lcores |-> ctx[k]]
    BY DEF TypeOK, CallType
  <1>1. ASSUME NEW p \in Packets, ReadLock(l, p) PROVE LockInv' /\ CtxInv'
    BY <1>0, <1>1 DEF ReadLock, CanRead, LockInv, CtxInv, Unbuilt, ctrlVars, engineVars, jobVars
  <1>2. CASE ReadCtx(l)
    BY <1>0, <1>2 DEF ReadCtx, LockInv, CtxInv, Unbuilt, ctrlVars, lockVars, engineVars, jobVars
  <1>3. CASE ReadUnlock(l)
    BY <1>0, <1>3
    DEF ReadUnlock, ReadersAfter, LockInv, CtxInv, Unbuilt, ctrlVars, engineVars, jobVars
  <1>4. CASE ScanStep(l)
    BY <1>4, CtxCallFrame DEF ScanStep
  <1>5. CASE ScanEnd(l)
    BY <1>0, <1>5, CtxCallFrame DEF ScanEnd
  <1>6. CASE DefaultVerdict(l)
    BY <1>0, <1>6, CtxCallFrame DEF DefaultVerdict
  <1>7. CASE RecheckFails(l)
    BY <1>0, <1>7, CtxCallFrame DEF RecheckFails
  <1>8. CASE ReadRuleId(l)
    BY <1>0, <1>8, CtxCallFrame DEF ReadRuleId
  <1>9. CASE ReadRuleAction(l)
    BY <1>0, <1>9, CtxCallFrame DEF ReadRuleAction
  <1>10. CASE Return(l)
    BY <1>0, <1>10, CtxCallFrame DEF Return
  <1> QED
    BY <1>1, <1>2, <1>3, <1>4, <1>5, <1>6, <1>7, <1>8, <1>9, <1>10 DEF CallStep

LEMMA CtxNext == CtxSafe /\ [Next]_vars => CtxSafe'
  <1> SUFFICES ASSUME CtxSafe, [Next]_vars PROVE CtxSafe'
    OBVIOUS
  <1>1. TypeOK'
    BY TypeNext DEF CtxSafe
  <1>2. CASE UNCHANGED vars
    BY <1>1, <1>2 DEF vars, engineVars, lockVars, jobVars, callVars, CtxSafe, LockInv, CtxInv
  <1> QED
    BY <1>1, <1>2, CtxControlBegin, CtxControlStep, CtxCall DEF CtxSafe, Next

LEMMA CtxSafeHolds == Spec => []CtxSafe
  <1> QED
    BY CtxInit, CtxNext, PTL DEF Spec

(* rule_engine_rebuild frees a context only when no core has it in hand:   *)
(* the write lock between the load of the new one and the free keeps every *)
(* core out that loaded the old one                                        *)
THEOREM ContextsAlive == Spec => []CtxAlive
  <1>1. CtxSafe => CtxAlive
    BY DEF CtxSafe, TypeOK, EngineType, LockInv, CtxInv, CtxAlive, Unbuilt, ControlType
  <1> QED
    BY <1>1, CtxSafeHolds, PTL

(* Between operations exactly the published context exists, whatever       *)
(* builds have failed: none is leaked, and the one in use is not freed     *)
THEOREM ContextsNotLeaked == Spec => []NoLeak
  <1>1. CtxSafe => NoLeak
    BY DEF CtxSafe, CtxInv, NoLeak, Unbuilt
  <1> QED
    BY <1>1, CtxSafeHolds, PTL

-----------------------------------------------------------------------------
(* What an acknowledged operation leaves *)

Consulted(h) == h # NoCtx <=> g_n_rules > 0

(* A build that succeeds yields a context exactly when there are rules, it *)
(* is the one the swap publishes, and one that fails is not acknowledged   *)
ArmedInv ==
  /\ cpc \in {"lock", "swap"} => Consulted(new_ctx)
  /\ cpc \in {"unlock", "free"} => Consulted(g_acl_ctx)
  /\ AckedArmed

LEMMA ArmedInit == Init => ArmedInv
  BY DEF Init, ArmedInv, AckedArmed, NoReply

LEMMA ArmedControl ==
  ASSUME TypeOK, ArmedInv, ControlBegin \/ ControlStep
  PROVE  ArmedInv'
  <1> USE RuleEngineAssumption
  <1>0. g_n_rules \in 0 .. MaxRules
    BY DEF TypeOK, EngineType
  <1>1. ASSUME NEW op, NEW tab, NEW n, NEW from, NEW to, Begin(op, tab, n, from, to)
        PROVE  ArmedInv'
    BY <1>1 DEF Begin, ArmedInv, AckedArmed
  <1>2. ASSUME NEW op, NEW rc, Answer(op, rc), rc = "fail" \/ op = "policy"
        PROVE  ArmedInv'
    BY <1>2 DEF Answer, ArmedInv, AckedArmed
  <1>3. CASE ControlBegin
    BY <1>1, <1>2, <1>3
    DEF ControlBegin, RuleAdd, RuleAddFull, RuleDel, RuleDelMissing, RuleFlush, ConfigReload,
        ConfigReloadFails, SetDefaultPolicy
  <1>4. CASE StoreCount \/ CopyHead \/ CopyTail \/ CopyDone
    BY <1>4 DEF StoreCount, CopyHead, CopyTail, CopyDone, ArmedInv, AckedArmed
  <1>5. CASE BuildOk
    BY <1>5 DEF BuildOk, ArmedInv, AckedArmed, Consulted, engineVars
  <1>6. CASE BuildEmpty
    BY <1>0, <1>6 DEF BuildEmpty, ArmedInv, AckedArmed, Consulted, engineVars
  <1>7. CASE BuildFail
    BY <1>7 DEF BuildFail, Finish, FailRc, ArmedInv, AckedArmed
  <1>8. CASE WriteWait \/ WriteLock
    BY <1>8 DEF WriteWait, WriteLock, ArmedInv, AckedArmed, Consulted, engineVars, jobVars
  <1>9. CASE Swap
    BY <1>9 DEF Swap, ArmedInv, AckedArmed, Consulted
  <1>10. CASE WriteUnlock
    BY <1>10 DEF WriteUnlock, ArmedInv, AckedArmed, Consulted, engineVars, jobVars
  <1>11. CASE FreeOld
    BY <1>11 DEF FreeOld, Finish, ArmedInv, AckedArmed, Consulted, engineVars
  <1> QED
    BY <1>3, <1>4, <1>5, <1>6, <1>7, <1>8, <1>9, <1>10, <1>11 DEF ControlStep

LEMMA ArmedKept ==
  ASSUME ArmedInv, UNCHANGED ctrlVars
  PROVE  ArmedInv'
  BY DEF ArmedInv, AckedArmed, Consulted, ctrlVars, engineVars, jobVars

LEMMA CallsKeepControl ==
  ASSUME NEW l \in Lcores, CallStep(l) \/ (\E p \in Packets : ReadLock(l, p))
  PROVE  UNCHANGED ctrlVars
  BY DEF CallStep, ReadLock, ReadCtx, ReadUnlock, ScanStep, ScanEnd, DefaultVerdict,
         RecheckFails, ReadRuleId, ReadRuleAction, Return

LEMMA ArmedNext == TypeOK /\ ArmedInv /\ [Next]_vars => ArmedInv'
  <1> SUFFICES ASSUME TypeOK, ArmedInv, [Next]_vars PROVE ArmedInv'
    OBVIOUS
  <1>1. CASE UNCHANGED vars
    BY <1>1, ArmedKept DEF vars, ctrlVars
  <1> QED
    BY <1>1, ArmedControl, ArmedKept, CallsKeepControl DEF Next

(* After an acknowledged rule_add, rule_del or rule_flush the rules are    *)
(* consulted exactly when there are any, however many builds failed before *)
THEOREM AcknowledgedArmed == Spec => []AckedArmed
  <1>1. ArmedInv => AckedArmed
    BY DEF ArmedInv
  <1> QED
    BY <1>1, ArmedInit, ArmedNext, TypeCorrect, PTL DEF Spec
-----------------------------------------------------------------------------
(* The ids: as long as g_next_id does not wrap around, rule_add gives      *)
(* every rule an id that no rule of the table has, whatever was deleted,   *)
(* flushed and loaded before.                                              *)
(*                                                                         *)
(* IdsBelowNext is not inductive: while an operation copies its table no   *)
(* bound holds of the slots in between, and what makes it hold again is    *)
(* that the copy leaves exactly the table the operation set out to leave.  *)

Copying == cpc \in {"copy", "tail"}

(* The slots still to be copied are the only ones that differ from the     *)
(* table the operation leaves                                              *)
CopyInv ==
  /\ Copying =>
       /\ \A s \in Slots : s \notin pos .. job.hi - 1 => g_rules[s] = job.tab[s]
       /\ counted => g_n_rules = job.cnt
       /\ job.op # "reload" => \A s \in 0 .. job.cnt - 1 : job.tab[s].id <= g_next_id
  /\ cpc = "tail" => g_rules[pos] = [job.tab[pos] EXCEPT !.action = g_rules[pos].action]

IdsInv == ~Copying => \A i \in Live : g_rules[i].id <= g_next_id

IdsSafe == TypeOK /\ CopyInv /\ IdsInv

(* What TypeOK says of the engine and of the operation in progress, in the *)
(* form the steps below use                                                *)
LEMMA TypeFacts ==
  ASSUME TypeOK
  PROVE  /\ g_rules \in [Slots -> Rule] /\ job.tab \in [Slots -> Rule]
         /\ \A s \in Slots : g_rules[s].id \in Int /\ job.tab[s].id \in Int
         /\ g_n_rules \in 0 .. MaxRules /\ job.cnt \in 0 .. MaxRules
         /\ job.hi \in 0 .. MaxRules /\ pos \in 0 .. MaxRules
         /\ g_next_id \in Ids
         /\ MaxRules \in Nat /\ IdMod \in Nat
         /\ Live \subseteq Slots
  <1> USE RuleEngineAssumption, RuleDataAssumption
  <1>1. /\ g_rules \in [Slots -> Rule] /\ job.tab \in [Slots -> Rule]
        /\ g_n_rules \in 0 .. MaxRules /\ job.cnt \in 0 .. MaxRules
        /\ job.hi \in 0 .. MaxRules /\ pos \in 0 .. MaxRules
        /\ g_next_id \in Ids
    BY DEF TypeOK, EngineType, ControlType
  <1>2. ASSUME NEW s \in Slots PROVE g_rules[s].id \in Int /\ job.tab[s].id \in Int
    <2>1. g_rules[s] \in Rule /\ job.tab[s] \in Rule
      BY <1>1
    <2> QED
      BY <2>1 DEF Rule, Ids
  <1>3. MaxRules \in Nat /\ IdMod \in Nat
    OBVIOUS
  <1>4. Live \subseteq Slots
    BY <1>1 DEF Live, Slots
  <1> QED
    BY <1>1, <1>2, <1>3, <1>4

LEMMA IdsInit == Init => IdsSafe
  <1> SUFFICES ASSUME Init PROVE IdsSafe
    OBVIOUS
  <1>1. PICK c \in Configs :
          /\ g_rules = Array(c.rules, NoJob.tab)
          /\ g_n_rules = Len(c.rules)
          /\ Greatest(g_next_id, IdsOf(c.rules) \cup {0})
    BY DEF Init
  <1>2. TypeOK
    BY TypeInit
  <1>3. ASSUME NEW s \in Live PROVE g_rules[s].id <= g_next_id
    <2>1. c.rules \in Seq(Rule) /\ s \in Slots
      BY <1>2, ConfigType, TypeFacts DEF Tables
    <2>2. s + 1 \in DOMAIN c.rules
      BY <1>1, <2>1 DEF Live
    <2>3. g_rules[s] = c.rules[s + 1]
      BY <1>1, <2>1, <2>2 DEF Array
    <2> QED
      BY <1>1, <2>2, <2>3 DEF Greatest, IdsOf
  <1>4. ~Copying /\ cpc # "tail"
    BY DEF Init, Copying
  <1> QED
    BY <1>2, <1>3, <1>4 DEF IdsSafe, CopyInv, IdsInv

-----------------------------------------------------------------------------
(* An operation begins with a table whose slots outside from .. to - 1 are *)
(* those of g_rules, and whose ids are at most g_next_id'                  *)
LEMMA IdsBegin ==
  ASSUME TypeOK,
         NEW op \in Ops, NEW tab \in [Slots -> Rule],
         NEW n, NEW from, NEW to,
         Begin(op, tab, n, from, to),
         \A s \in Slots : s \notin from .. to - 1 => g_rules[s] = tab[s],
         op # "reload" => \A s \in 0 .. n - 1 : tab[s].id <= g_next_id'
  PROVE  CopyInv' /\ IdsInv'
  <1>1. cpc' = "copy" /\ Copying'
    BY DEF Begin, Copying
  <1>2. /\ g_rules' = g_rules /\ g_n_rules' = g_n_rules /\ pos' = from /\ ~counted'
        /\ job'.op = op /\ job'.tab = tab /\ job'.cnt = n /\ job'.hi = to
    BY DEF Begin
  <1> QED
    BY <1>1, <1>2 DEF CopyInv, IdsInv, Slots

LEMMA IdsAnswer ==
  ASSUME CopyInv, IdsInv, NEW op, NEW rc, Answer(op, rc)
  PROVE  CopyInv' /\ IdsInv'
  BY DEF Answer, CopyInv, IdsInv, Copying, Live, Slots

LEMMA IdsRuleAdd ==
  ASSUME IdLimit < IdMod - 1, IdsSafe, NEW r \in NewRules, RuleAdd(r)
  PROVE  /\ CopyInv' /\ IdsInv'
         /\ g_next_id' = g_next_id + 1
         /\ job'.tab[g_n_rules].id = g_next_id'
  <1> USE TypeFacts DEF IdsSafe
  <1> DEFINE rule == [r EXCEPT !.id = g_next_id']
             tab == [g_rules EXCEPT ![g_n_rules] = rule]
  <1>0. IdLimit \in Nat /\ r \in Rule
    BY RuleEngineAssumption
  <1>1. g_next_id' = g_next_id + 1
    BY <1>0 DEF RuleAdd, NextId, Ids
  <1>2. g_n_rules \in Slots /\ cpc = "idle"
    BY DEF RuleAdd, HasRoom, Slots
  <1>3. rule \in Rule /\ rule.id = g_next_id'
    BY <1>0, <1>1 DEF RuleAdd, Rule, Ids
  <1>4. /\ tab \in [Slots -> Rule]
        /\ tab[g_n_rules].id = g_next_id'
        /\ \A s \in Slots \ {g_n_rules} : tab[s] = g_rules[s]
    BY <1>2, <1>3
  <1>5. \A s \in 0 .. g_n_rules + 1 - 1 : tab[s].id <= g_next_id'
    <2> SUFFICES ASSUME NEW s \in 0 .. g_n_rules PROVE tab[s].id <= g_next_id'
      OBVIOUS
    <2>1. CASE s = g_n_rules
      BY <1>1, <1>4, <2>1 DEF Ids
    <2>2. CASE s # g_n_rules
      <3>1. s \in Live /\ s \in Slots
        BY <1>2, <2>2 DEF Live, Slots
      <3>2. g_rules[s].id <= g_next_id
        BY <1>2, <3>1 DEF IdsInv, Copying
      <3> QED
        BY <1>1, <1>4, <2>2, <3>1, <3>2 DEF Ids
    <2> QED
      BY <2>1, <2>2
  <1>6. Begin("add", tab, g_n_rules + 1, g_n_rules, g_n_rules + 1)
    BY DEF RuleAdd
  <1>7. \A s \in Slots : s \notin g_n_rules .. g_n_rules + 1 - 1 => g_rules[s] = tab[s]
    BY <1>4
  <1>8. job'.tab = tab
    BY <1>6 DEF Begin
  <1> HIDE DEF tab
  <1>9. CopyInv' /\ IdsInv'
    BY <1>4, <1>5, <1>6, <1>7, IdsBegin DEF Ops
  <1> QED
    BY <1>1, <1>4, <1>8, <1>9

LEMMA IdsRuleDel ==
  ASSUME IdsSafe, NEW id \in DelIds, RuleDel(id)
  PROVE  CopyInv' /\ IdsInv'
  <1> USE TypeFacts DEF IdsSafe
  <1>1. PICK i \in Live :
          Begin("del", Closed(g_rules, i, g_n_rules), g_n_rules - 1, i, g_n_rules - 1)
    BY DEF RuleDel
  <1> DEFINE tab == Closed(g_rules, i, g_n_rules)
  <1>2. i \in Slots /\ i < g_n_rules /\ cpc = "idle" /\ g_next_id' = g_next_id
    BY <1>1 DEF Live, RuleDel
  <1>3. tab \in [Slots -> Rule]
    BY <1>2 DEF Closed, Slots
  <1>4. \A s \in Slots : s \notin i .. g_n_rules - 1 - 1 => g_rules[s] = tab[s]
    BY <1>2 DEF Closed, Slots
  <1>5. ASSUME NEW s \in 0 .. g_n_rules - 1 - 1 PROVE tab[s].id <= g_next_id'
    <2>1. s \in Live /\ s + 1 \in Live /\ s \in Slots
      BY <1>2 DEF Live, Slots
    <2>2. tab[s] = g_rules[s] \/ tab[s] = g_rules[s + 1]
      BY <2>1 DEF Closed
    <2> QED
      BY <1>2, <2>1, <2>2 DEF IdsInv, Copying
  <1> HIDE DEF tab
  <1> QED
    BY <1>1, <1>3, <1>4, <1>5, IdsBegin DEF Ops, tab

LEMMA IdsControlBegin ==
  ASSUME IdLimit < IdMod - 1, IdsSafe, ControlBegin
  PROVE  CopyInv' /\ IdsInv'
  <1> USE TypeFacts DEF IdsSafe
  <1>1. ASSUME NEW r \in NewRules, RuleAdd(r) PROVE CopyInv' /\ IdsInv'
    BY <1>1, IdsRuleAdd
  <1>2. CASE RuleAddFull
    BY <1>2, IdsAnswer DEF RuleAddFull
  <1>3. ASSUME NEW id \in DelIds, RuleDel(id) PROVE CopyInv' /\ IdsInv'
    BY <1>3, IdsRuleDel
  <1>4. ASSUME NEW id \in DelIds, RuleDelMissing(id) PROVE CopyInv' /\ IdsInv'
    BY <1>4, IdsAnswer DEF RuleDelMissing
  <1>5. CASE RuleFlush
    BY <1>5, IdsBegin DEF RuleFlush, Ops
  <1>6. ASSUME NEW c \in Configs, ConfigReload(c) PROVE CopyInv' /\ IdsInv'
    <2>1. c.rules \in Tables
      BY ConfigType
    <2>2. Array(c.rules, g_rules) \in [Slots -> Rule]
      BY <2>1, ArrayIsRules
    <2>3. ASSUME NEW s \in Slots, s \notin 0 .. Len(c.rules) - 1
          PROVE  g_rules[s] = Array(c.rules, g_rules)[s]
      BY <2>1, <2>3 DEF Tables, Array, Slots
    <2> QED
      BY <1>6, <2>2, <2>3, IdsBegin DEF ConfigReload, Ops
  <1>7. CASE ConfigReloadFails
    BY <1>7, IdsAnswer DEF ConfigReloadFails
  <1>8. ASSUME NEW a \in {"accept", "drop"}, SetDefaultPolicy(a) PROVE CopyInv' /\ IdsInv'
    BY <1>8, IdsAnswer DEF SetDefaultPolicy
  <1> QED
    BY <1>1, <1>2, <1>3, <1>4, <1>5, <1>6, <1>7, <1>8 DEF ControlBegin

-----------------------------------------------------------------------------
(* A step of a rebuild, or of a forwarding core *)
LEMMA IdsFrame ==
  ASSUME IdsSafe, UNCHANGED <<g_rules, g_n_rules, g_next_id>>, ~Copying, ~Copying'
  PROVE  CopyInv' /\ IdsInv'
  BY DEF IdsSafe, CopyInv, IdsInv, Copying, Live

LEMMA IdsControlStep ==
  ASSUME IdsSafe, ControlStep
  PROVE  CopyInv' /\ IdsInv'
  <1> USE TypeFacts DEF IdsSafe
  <1>1. CASE StoreCount
    BY <1>1 DEF StoreCount, CopyInv, IdsInv, Copying, Slots
  <1>2. CASE CopyHead
    <2>1. pos \in Slots /\ cpc = "copy" /\ cpc' = "tail" /\ UNCHANGED jobVars
      BY <1>2 DEF CopyHead, Slots
    <2>2. g_rules[pos].action \in Actions
      BY <2>1 DEF Rule
    <2> DEFINE head == [job.tab[pos] EXCEPT !.action = g_rules[pos].action]
    <2>3. head.action = g_rules[pos].action
      BY <2>1 DEF Rule
    <2>4. g_rules' = [g_rules EXCEPT ![pos] = head]
      BY <1>2 DEF CopyHead
    <2> HIDE DEF head
    <2>5. g_rules'[pos] = head /\ \A s \in Slots \ {pos} : g_rules'[s] = g_rules[s]
      BY <2>1, <2>4
    <2>6. UNCHANGED <<job, pos, counted, g_n_rules, g_next_id>>
      BY <1>2 DEF CopyHead, jobVars
    <2>7. Copying /\ Copying'
      BY <2>1 DEF Copying
    <2>8. g_rules'[pos] = [job.tab[pos] EXCEPT !.action = g_rules'[pos].action]
      BY <2>3, <2>5 DEF head
    <2>9. \A s \in Slots : s \notin pos .. job.hi - 1 => g_rules'[s] = job.tab[s]
      BY <1>2, <2>1, <2>5, <2>7 DEF CopyHead, CopyInv, Slots
    <2> QED
      BY <2>6, <2>7, <2>8, <2>9 DEF CopyInv, IdsInv
  <1>3. CASE CopyTail
    <2>1. /\ pos \in Slots /\ cpc = "tail" /\ cpc' = "copy" /\ pos' = pos + 1
          /\ g_rules' = [g_rules EXCEPT ![pos].action = job.tab[pos].action]
          /\ UNCHANGED <<job, counted, g_n_rules, g_next_id>>
      BY <1>3 DEF CopyTail, Slots, TypeOK, ControlType
    <2>2. g_rules[pos] = [job.tab[pos] EXCEPT !.action = g_rules[pos].action]
      BY <2>1 DEF CopyInv
    <2>3. g_rules'[pos] = [g_rules[pos] EXCEPT !.action = job.tab[pos].action]
      BY <2>1
    <2>4. g_rules'[pos] = job.tab[pos]
      BY <2>1, <2>2, <2>3 DEF Rule
    <2>5. \A s \in Slots \ {pos} : g_rules'[s] = g_rules[s]
      BY <2>1
    <2>6. Copying /\ Copying'
      BY <2>1 DEF Copying
    <2>7. \A s \in Slots : s \notin pos + 1 .. job.hi - 1 => g_rules'[s] = job.tab[s]
      BY <2>1, <2>4, <2>5, <2>6 DEF CopyInv, Slots
    <2> QED
      BY <2>1, <2>6, <2>7 DEF CopyInv, IdsInv
  <1>4. CASE CopyDone
    <2>1. /\ cpc = "copy" /\ pos >= job.hi /\ counted /\ RaiseNextId /\ cpc' = "build"
          /\ g_rules' = g_rules /\ g_n_rules' = g_n_rules
      BY <1>4 DEF CopyDone
    <2>2. ASSUME NEW s \in Live PROVE g_rules[s].id <= g_next_id'
      <3>1. CASE job.op = "reload"
        <4>1. s + 1 \in DOMAIN LiveTable /\ LiveTable[s + 1] = g_rules[s]
          BY <2>2 DEF LiveTable, Prefix, Live
        <4> QED
          BY <2>1, <3>1, <4>1 DEF RaiseNextId, Greatest, IdsOf
      <3>2. CASE job.op # "reload"
        <4>1. g_rules[s] = job.tab[s] /\ g_n_rules = job.cnt
          BY <2>1, <2>2 DEF CopyInv, Copying, Slots
        <4> QED
          BY <2>1, <3>2, <4>1 DEF CopyInv, Copying, Live, RaiseNextId
      <3> QED
        BY <3>1, <3>2
    <2> QED
      BY <2>1, <2>2 DEF CopyInv, IdsInv, Copying, Live
  <1>5. CASE BuildOk \/ BuildEmpty \/ BuildFail \/ WriteWait \/ WriteLock \/ WriteUnlock \/ FreeOld
    BY <1>5, IdsFrame
    DEF BuildOk, BuildEmpty, BuildFail, WriteWait, WriteLock, WriteUnlock, FreeOld, Finish,
        Copying, engineVars, jobVars
  <1>6. CASE Swap
    BY <1>6, IdsFrame DEF Swap, Copying
  <1> QED
    BY <1>1, <1>2, <1>3, <1>4, <1>5, <1>6 DEF ControlStep

LEMMA IdsCtrlKept ==
  ASSUME IdsSafe, UNCHANGED ctrlVars
  PROVE  CopyInv' /\ IdsInv'
  BY DEF IdsSafe, CopyInv, IdsInv, Copying, Live, Slots, ctrlVars, engineVars, jobVars

LEMMA IdsNext ==
  ASSUME IdLimit < IdMod - 1
  PROVE  IdsSafe /\ [Next]_vars => IdsSafe'
  <1> SUFFICES ASSUME IdsSafe, [Next]_vars PROVE IdsSafe'
    OBVIOUS
  <1>1. TypeOK'
    BY TypeNext DEF IdsSafe
  <1>2. CASE UNCHANGED vars
    BY <1>1, <1>2, IdsCtrlKept DEF IdsSafe, vars, ctrlVars
  <1> QED
    BY <1>1, <1>2, IdsControlBegin, IdsControlStep, IdsCtrlKept, CallsKeepControl DEF IdsSafe, Next

LEMMA IdsSafeHolds ==
  ASSUME IdLimit < IdMod - 1
  PROVE  Spec => []IdsSafe
  <1> QED
    BY IdsInit, IdsNext, PTL DEF Spec

(* As long as g_next_id does not wrap around, it is at least every id in   *)
(* the table between operations, so deletions and reloads never bring back *)
(* an id that rule_add is about to hand out (lines 233, 370, 408)          *)
THEOREM IdsStayBelow ==
  ASSUME IdLimit < IdMod - 1
  PROVE  Spec => []IdsBelowNext
  <1>1. IdsSafe => IdsBelowNext
    BY DEF IdsSafe, IdsInv, IdsBelowNext, Copying
  <1> QED
    BY <1>1, IdsSafeHolds, PTL

LEMMA AddStepIsFresh ==
  ASSUME IdLimit < IdMod - 1, IdsSafe, Next, cpc = "idle", cpc' = "copy", job'.op = "add"
  PROVE  \A i \in Live : g_rules[i].id # job'.tab[g_n_rules].id
  <1>1. PICK r \in NewRules : RuleAdd(r)
    <2>1. ControlBegin
      BY DEF Next, ControlStep, CallStep, StoreCount, CopyHead, CopyTail, CopyDone, BuildOk,
             BuildEmpty, BuildFail, WriteWait, WriteLock, Swap, WriteUnlock, FreeOld, ReadLock,
             ReadCtx, ReadUnlock, ScanStep, ScanEnd, DefaultVerdict, RecheckFails, ReadRuleId,
             ReadRuleAction, Return, ctrlVars
    <2> QED
      BY <2>1 DEF ControlBegin, RuleAddFull, RuleDel, RuleDelMissing, RuleFlush, ConfigReload,
                  ConfigReloadFails, SetDefaultPolicy, Answer, Begin
  <1>2. job'.tab[g_n_rules].id = g_next_id + 1
    BY <1>1, IdsRuleAdd
  <1> QED
    BY <1>2, TypeFacts DEF IdsSafe, IdsInv, Copying, Ids

(* rule_add gives its rule an id that no rule of the table has, as long as *)
(* g_next_id does not wrap around                                          *)
THEOREM AddsAreFresh ==
  ASSUME IdLimit < IdMod - 1
  PROVE  Spec => AddIsFresh
  <1>1. IdsSafe /\ [Next]_vars =>
          [cpc = "idle" /\ cpc' = "copy" /\ job'.op = "add" =>
             \A i \in Live : g_rules[i].id # job'.tab[g_n_rules].id]_vars
    BY AddStepIsFresh
  <1> QED
    BY <1>1, IdsSafeHolds, PTL DEF Spec, AddIsFresh

-----------------------------------------------------------------------------
(***************************************************************************)
(* CleanVerdict: a call of rule_match that no operation overlaps returns   *)
(* the decision of the table, for every table, packet and number of cores. *)
(*                                                                         *)
(* The invariant says what the locals of a clean call mean at each point:  *)
(* the scan keeps the winner of the slots it has passed.  It speaks of the *)
(* table as it is now, which is the one the call began with because every  *)
(* change ends the cleanness of the calls in progress.                     *)
(***************************************************************************)

(* Slot j is one the scan may select for the packet *)
Eligible(j, p) == p \in g_rules[j].sel /\ g_rules[j].prio < PrioMax

(* res and best are the winner of the slots 0 .. idx - 1 *)
WinnerSoFar(l) ==
  /\ idx[l] <= g_n_rules
  /\ res[l] <= idx[l]
  /\ IF res[l] = 0
     THEN /\ best[l] = PrioMax
          /\ \A j \in 0 .. idx[l] - 1 : ~Eligible(j, pkt[l])
     ELSE /\ Eligible(res[l] - 1, pkt[l])
          /\ best[l] = g_rules[res[l] - 1].prio
          /\ \A j \in 0 .. idx[l] - 1 : Eligible(j, pkt[l]) =>
               \/ best[l] < g_rules[j].prio
               \/ best[l] = g_rules[j].prio /\ res[l] - 1 <= j

(* What is consulted *)
InForce == IF g_acl_ctx = NoCtx THEN << >> ELSE LiveTable

(* The locals of a clean call *)
CleanCall(l) ==
  /\ pc[l] \in {"scan", "matched", "action"} =>
       /\ g_acl_ctx # NoCtx
       /\ lim[l] = g_n_rules
       /\ WinnerSoFar(l)
  /\ pc[l] \in {"matched", "action"} => idx[l] = g_n_rules /\ res[l] > 0
  /\ pc[l] = "action" => verdict[l].id = g_rules[res[l] - 1].id
  /\ pc[l] = "policy" => Candidates(InForce, pkt[l]) = {}
  /\ pc[l] = "done" => IsDecision(InForce, g_default_policy, pkt[l], verdict[l])

FreshLocals(l) ==
  pc[l] \in {"idle", "locked", "loaded"} => idx[l] = 0 /\ res[l] = 0 /\ best[l] = PrioMax

ScanInv ==
  \A l \in Lcores :
    /\ FreshLocals(l)
    /\ clean[l] => cpc = "idle" /\ CleanCall(l)

ScanSafe == CtxSafe /\ ScanInv

LEMMA ScanInit == Init => ScanSafe
  <1> SUFFICES ASSUME Init PROVE ScanSafe
    OBVIOUS
  <1>1. \A l \in Lcores : ~clean[l] /\ FreshLocals(l)
    BY DEF Init, FreshLocals
  <1> QED
    BY <1>1, CtxInit DEF ScanSafe, ScanInv

-----------------------------------------------------------------------------
(* The table the locals of a scan speak of *)

LEMMA LocalTypes ==
  ASSUME TypeOK, NEW l \in Lcores
  PROVE  /\ g_rules \in [Slots -> Rule] /\ g_n_rules \in 0 .. MaxRules
         /\ \A s \in Slots : g_rules[s].prio \in 0 .. PrioMax
         /\ idx[l] \in 0 .. MaxRules /\ res[l] \in 0 .. MaxRules
         /\ lim[l] \in 0 .. MaxRules /\ best[l] \in 0 .. PrioMax
         /\ MaxRules \in Nat /\ PrioMax \in Nat \ {0}
  <1> USE RuleEngineAssumption, RuleDataAssumption
  <1>1. /\ g_rules \in [Slots -> Rule] /\ g_n_rules \in 0 .. MaxRules
        /\ idx[l] \in 0 .. MaxRules /\ res[l] \in 0 .. MaxRules
        /\ lim[l] \in 0 .. MaxRules /\ best[l] \in 0 .. PrioMax
    BY DEF TypeOK, EngineType, CallType
  <1>2. \A s \in Slots : g_rules[s].prio \in 0 .. PrioMax
    BY <1>1 DEF Rule
  <1> QED
    BY <1>1, <1>2

(* The rules of the live table, by slot *)
LEMMA LiveRules ==
  ASSUME TypeOK, NEW p
  PROVE  /\ DOMAIN LiveTable = 1 .. g_n_rules
         /\ \A k \in 1 .. g_n_rules : LiveTable[k] = g_rules[k - 1]
         /\ \A k \in 1 .. g_n_rules : k \in Candidates(LiveTable, p) <=> Eligible(k - 1, p)
         /\ Candidates(LiveTable, p) \subseteq 1 .. g_n_rules
  BY DEF LiveTable, Prefix, Candidates, Eligible

(* At the end of the scan the winner so far is the winner *)
LEMMA ScanWinner ==
  ASSUME TypeOK, NEW l \in Lcores, WinnerSoFar(l), idx[l] = g_n_rules
  PROVE  /\ res[l] = 0 => Candidates(LiveTable, pkt[l]) = {}
         /\ res[l] > 0 => IsWinner(LiveTable, pkt[l], res[l])
  <1> USE LocalTypes, LiveRules
  <1>1. ASSUME res[l] = 0 PROVE Candidates(LiveTable, pkt[l]) = {}
    <2> SUFFICES ASSUME NEW k \in Candidates(LiveTable, pkt[l]) PROVE FALSE
      OBVIOUS
    <2>1. k \in 1 .. g_n_rules /\ Eligible(k - 1, pkt[l])
      OBVIOUS
    <2> QED
      BY <1>1, <2>1 DEF WinnerSoFar
  <1>2. ASSUME res[l] > 0 PROVE IsWinner(LiveTable, pkt[l], res[l])
    <2>1. /\ Eligible(res[l] - 1, pkt[l])
          /\ best[l] = g_rules[res[l] - 1].prio
          /\ res[l] \in 1 .. g_n_rules
      BY <1>2 DEF WinnerSoFar
    <2>2. res[l] \in Candidates(LiveTable, pkt[l])
      BY <2>1
    <2>3. ASSUME NEW k \in Candidates(LiveTable, pkt[l]) PROVE Better(LiveTable, res[l], k)
      <3>1. k \in 1 .. g_n_rules /\ Eligible(k - 1, pkt[l])
        BY <2>3
      <3>2. \/ best[l] < g_rules[k - 1].prio
            \/ best[l] = g_rules[k - 1].prio /\ res[l] - 1 <= k - 1
        <4>1. k - 1 \in 0 .. idx[l] - 1
          BY <3>1
        <4> QED
          BY <1>2, <3>1, <4>1 DEF WinnerSoFar
      <3>3. LiveTable[k] = g_rules[k - 1] /\ LiveTable[res[l]] = g_rules[res[l] - 1]
        BY <2>1, <3>1
      <3> QED
        BY <2>1, <3>1, <3>2, <3>3 DEF Better
    <2> QED
      BY <2>2, <2>3 DEF IsWinner
  <1> QED
    BY <1>1, <1>2

-----------------------------------------------------------------------------
(* The control core: what it begins ends the cleanness of every call, and  *)
(* while it goes on there is none                                          *)

LEMMA ScanUnclean ==
  ASSUME ScanInv, UNCHANGED <<pc, idx, res, best>>, \A l \in Lcores : ~clean'[l]
  PROVE  ScanInv'
  BY DEF ScanInv, FreshLocals

LEMMA ScanKept ==
  ASSUME ScanInv,
         UNCHANGED <<g_rules, g_n_rules, g_acl_ctx, g_default_policy, cpc, callVars, clean>>
  PROVE  ScanInv'
  BY DEF ScanInv, FreshLocals, CleanCall, WinnerSoFar, Eligible, InForce, LiveTable, callVars

LEMMA ScanControlBegin ==
  ASSUME ScanInv, ControlBegin
  PROVE  ScanInv'
  <1>1. ASSUME NEW op, NEW tab, NEW n, NEW from, NEW to, Begin(op, tab, n, from, to)
        PROVE  ScanInv'
    BY <1>1, ScanUnclean DEF Begin, Disturb, callVars
  <1>2. ASSUME NEW op, NEW rc, Answer(op, rc), UNCHANGED <<g_default_policy, clean>>
        PROVE  ScanInv'
    BY <1>2, ScanKept DEF Answer
  <1>3. ASSUME NEW a, SetDefaultPolicy(a) PROVE ScanInv'
    BY <1>3, ScanUnclean DEF SetDefaultPolicy, Answer, Disturb, callVars
  <1> QED
    BY <1>1, <1>2, <1>3
    DEF ControlBegin, RuleAdd, RuleAddFull, RuleDel, RuleDelMissing, RuleFlush, ConfigReload,
        ConfigReloadFails

LEMMA ScanControlStep ==
  ASSUME ScanInv, ControlStep
  PROVE  ScanInv'
  <1>1. cpc # "idle" /\ UNCHANGED <<callVars, clean>>
    BY DEF ControlStep, StoreCount, CopyHead, CopyTail, CopyDone, BuildOk, BuildEmpty, BuildFail,
           WriteWait, WriteLock, Swap, WriteUnlock, FreeOld
  <1>2. \A l \in Lcores : ~clean'[l]
    BY <1>1 DEF ScanInv
  <1> QED
    BY <1>1, <1>2, ScanUnclean DEF callVars

-----------------------------------------------------------------------------
(* A step of core l leaves the calls of the others alone *)
LEMMA ScanOthers ==
  ASSUME ScanInv, NEW l \in Lcores, UNCHANGED ctrlVars,
         \A k \in Lcores \ {l} :
           /\ pc'[k] = pc[k] /\ pkt'[k] = pkt[k] /\ idx'[k] = idx[k] /\ lim'[k] = lim[k]
           /\ best'[k] = best[k] /\ res'[k] = res[k] /\ verdict'[k] = verdict[k]
           /\ clean'[k] = clean[k],
         FreshLocals(l)', clean'[l] => cpc = "idle" /\ CleanCall(l)'
  PROVE  ScanInv'
  <1> SUFFICES ASSUME NEW k \in Lcores
               PROVE  FreshLocals(k)' /\ (clean'[k] => cpc' = "idle" /\ CleanCall(k)')
    BY DEF ScanInv
  <1>1. cpc' = cpc
    BY DEF ctrlVars
  <1>2. CASE k = l
    BY <1>1, <1>2
  <1>3. CASE k # l
    <2>1. FreshLocals(k)'
      BY <1>3 DEF ScanInv, FreshLocals
    <2>2. CleanCall(k) => CleanCall(k)'
      BY <1>3 DEF CleanCall, WinnerSoFar, Eligible, InForce, LiveTable, ctrlVars, engineVars
    <2> QED
      BY <1>1, <1>3, <2>1, <2>2 DEF ScanInv
  <1> QED
    BY <1>2, <1>3

(* The locals are functions on the cores *)
LEMMA Locals ==
  ASSUME TypeOK
  PROVE  /\ pc = [k \in Lcores |-> pc[k]] /\ pkt = [k \in Lcores |-> pkt[k]]
         /\ ctx = [k \in Lcores |-> ctx[k]] /\ idx = [k \in Lcores |-> idx[k]]
         /\ lim = [k \in Lcores |-> lim[k]] /\ best = [k \in Lcores |-> best[k]]
         /\ res = [k \in Lcores |-> res[k]] /\ verdict = [k \in Lcores |-> verdict[k]]
         /\ clean = [k \in Lcores |-> clean[k]]
  BY DEF TypeOK, CallType

LEMMA ScanReadLock ==
  ASSUME TypeOK, ScanInv, NEW l \in Lcores, NEW p \in Packets, ReadLock(l, p)
  PROVE  ScanInv'
  <1> USE Locals
  <1>1. pc[l] = "idle" /\ pc'[l] = "locked" /\ (clean'[l] => cpc = "idle")
    BY DEF ReadLock
  <1>2. FreshLocals(l)' /\ CleanCall(l)'
    BY <1>1 DEF ReadLock, ScanInv, FreshLocals, CleanCall
  <1> QED
    BY <1>1, <1>2, ScanOthers DEF ReadLock

LEMMA ScanReadUnlock ==
  ASSUME TypeOK, CtxInv, ScanInv, NEW l \in Lcores, ReadUnlock(l)
  PROVE  ScanInv'
  <1> USE Locals, LocalTypes
  <1>1. pc[l] = "loaded" /\ ctx[l] = g_acl_ctx /\ pc'[l] \in {"policy", "scan"}
    BY DEF ReadUnlock, CtxInv
  <1>2. FreshLocals(l)'
    BY <1>1 DEF FreshLocals
  <1>3. UNCHANGED <<g_rules, g_n_rules, g_acl_ctx>> /\ UNCHANGED <<pkt, idx, res, best, clean>>
    BY DEF ReadUnlock, ctrlVars, engineVars
  <1>4. CASE g_acl_ctx = NoCtx
    <2>1. pc'[l] = "policy"
      BY <1>1, <1>4 DEF ReadUnlock
    <2>2. Candidates(InForce, pkt[l])' = {}
      BY <1>3, <1>4 DEF InForce, Candidates
    <2>3. CleanCall(l)'
      BY <2>1, <2>2 DEF CleanCall
    <2> QED
      BY <1>2, <2>3, ScanOthers DEF ReadUnlock, ScanInv
  <1>5. CASE g_acl_ctx # NoCtx
    <2>1. pc'[l] = "scan" /\ lim'[l] = g_n_rules
      BY <1>1, <1>5 DEF ReadUnlock
    <2>2. idx[l] = 0 /\ res[l] = 0 /\ best[l] = PrioMax
      BY <1>1 DEF ScanInv, FreshLocals
    <2>3. WinnerSoFar(l)'
      BY <1>3, <2>2 DEF WinnerSoFar
    <2>4. CleanCall(l)'
      BY <1>3, <1>5, <2>1, <2>3 DEF CleanCall
    <2> QED
      BY <1>2, <2>4, ScanOthers DEF ReadUnlock, ScanInv
  <1> QED
    BY <1>4, <1>5

(* One more slot *)
LEMMA ScanOneSlot ==
  ASSUME TypeOK, ScanInv, NEW l \in Lcores, ScanStep(l)
  PROVE  ScanInv'
  <1> USE Locals, LocalTypes
  <1>1. /\ pc[l] = "scan" /\ pc' = pc /\ clean' = clean /\ pkt' = pkt
        /\ idx'[l] = idx[l] + 1
        /\ UNCHANGED <<g_rules, g_n_rules, g_acl_ctx>>
    BY DEF ScanStep, AfterSlot, ctrlVars, engineVars
  <1>2. FreshLocals(l)'
    BY <1>1 DEF FreshLocals
  <1>3. ASSUME clean[l] PROVE CleanCall(l)'
    <2>1. cpc = "idle" /\ g_acl_ctx # NoCtx /\ lim[l] = g_n_rules /\ WinnerSoFar(l)
      BY <1>1, <1>3 DEF ScanInv, CleanCall
    <2>2. idx[l] < g_n_rules /\ lim'[l] = g_n_rules
      BY <2>1 DEF ScanStep, Counts
    <2>3. idx[l] \in Slots
      BY <2>2 DEF Slots
    <2> DEFINE prio == g_rules[idx[l]].prio
    <2>4. prio \in 0 .. PrioMax
      BY <2>3
    <2>5. \A j \in 0 .. idx[l] : j = idx[l] \/ j \in 0 .. idx[l] - 1
      OBVIOUS
    <2>6. \A j \in 0 .. idx[l] : g_rules[j].prio \in 0 .. PrioMax
      BY <2>2 DEF Slots
    <2>7. \A j : Eligible(j, pkt[l])' <=> Eligible(j, pkt[l])
      BY <1>1 DEF Eligible
    <2>8. CASE Beats(g_rules[idx[l]], best[l], pkt[l])
      <3>1. best'[l] = prio /\ res'[l] = idx[l] + 1
        BY <2>8 DEF ScanStep
      <3>2. Eligible(idx[l], pkt[l]) /\ prio < best[l]
        BY <2>4, <2>8 DEF Beats, Eligible
      <3>3. \A j \in 0 .. idx[l] - 1 : Eligible(j, pkt[l]) => prio < g_rules[j].prio
        BY <2>1, <2>4, <2>6, <3>2 DEF WinnerSoFar
      <3> QED
        BY <1>1, <2>1, <2>2, <2>4, <2>5, <2>6, <2>7, <3>1, <3>2, <3>3
        DEF CleanCall, WinnerSoFar
    <2>9. CASE ~Beats(g_rules[idx[l]], best[l], pkt[l])
      <3>1. best'[l] = best[l] /\ res'[l] = res[l]
        BY <2>9 DEF ScanStep
      <3>2. Eligible(idx[l], pkt[l]) => best[l] <= prio
        BY <2>4, <2>9 DEF Beats, Eligible
      <3>3. CASE res[l] = 0
        BY <1>1, <2>1, <2>2, <2>4, <2>5, <2>7, <3>1, <3>2, <3>3
        DEF CleanCall, WinnerSoFar, Eligible
      <3>4. CASE res[l] # 0
        <4>1. /\ Eligible(res[l] - 1, pkt[l]) /\ best[l] = g_rules[res[l] - 1].prio
              /\ res[l] <= idx[l]
              /\ \A j \in 0 .. idx[l] - 1 : Eligible(j, pkt[l]) =>
                   \/ best[l] < g_rules[j].prio
                   \/ best[l] = g_rules[j].prio /\ res[l] - 1 <= j
          BY <2>1, <3>4 DEF WinnerSoFar
        <4>2. Eligible(idx[l], pkt[l]) =>
                \/ best[l] < g_rules[idx[l]].prio
                \/ best[l] = g_rules[idx[l]].prio /\ res[l] - 1 <= idx[l]
          <5>1. res[l] - 1 <= idx[l]
            BY <4>1
          <5>2. best[l] <= prio => best[l] < prio \/ best[l] = prio
            BY <2>4
          <5> QED
            BY <3>2, <5>1, <5>2
        <4>3. WinnerSoFar(l)'
          BY <1>1, <2>2, <2>5, <2>7, <3>1, <3>4, <4>1, <4>2 DEF WinnerSoFar
        <4> QED
          BY <1>1, <2>1, <2>2, <4>3 DEF CleanCall
      <3> QED
        BY <3>3, <3>4
    <2> QED
      BY <2>8, <2>9
  <1>4. clean'[l] => cpc = "idle" /\ CleanCall(l)'
    BY <1>1, <1>3 DEF ScanInv
  <1> QED
    BY <1>1, <1>2, <1>4, ScanOthers DEF ScanStep

LEMMA ScanEndStep ==
  ASSUME TypeOK, ScanInv, NEW l \in Lcores, ScanEnd(l)
  PROVE  ScanInv'
  <1> USE Locals, LocalTypes
  <1>1. /\ pc[l] = "scan" /\ pc'[l] = IF res[l] = 0 THEN "policy" ELSE "matched"
        /\ UNCHANGED <<clean, pkt, idx, best, res, g_rules, g_n_rules, g_acl_ctx>>
    BY DEF ScanEnd, ctrlVars, engineVars
  <1>2. FreshLocals(l)'
    BY <1>1 DEF FreshLocals
  <1>3. ASSUME clean[l] PROVE CleanCall(l)'
    <2>1. g_acl_ctx # NoCtx /\ lim[l] = g_n_rules /\ WinnerSoFar(l)
      BY <1>1, <1>3 DEF ScanInv, CleanCall
    <2>2. idx[l] = g_n_rules /\ lim'[l] = g_n_rules
      BY <2>1 DEF ScanEnd, Counts, WinnerSoFar
    <2>3. WinnerSoFar(l)'
      BY <1>1, <2>1 DEF WinnerSoFar, Eligible
    <2>4. res[l] = 0 => Candidates(InForce, pkt[l])' = {}
      <3>1. res[l] = 0 => Candidates(LiveTable, pkt[l]) = {}
        BY <2>1, <2>2, ScanWinner
      <3>2. InForce' = LiveTable /\ pkt'[l] = pkt[l]
        BY <1>1, <2>1 DEF InForce, LiveTable
      <3> QED
        BY <3>1, <3>2
    <2> QED
      BY <1>1, <2>1, <2>2, <2>3, <2>4 DEF CleanCall
  <1>4. clean'[l] => cpc = "idle" /\ CleanCall(l)'
    BY <1>1, <1>3 DEF ScanInv
  <1> QED
    BY <1>2, <1>4, ScanOthers DEF ScanEnd

-----------------------------------------------------------------------------
(* The steps after the scan *)

LEMMA ScanDefault ==
  ASSUME TypeOK, ScanInv, NEW l \in Lcores, DefaultVerdict(l)
  PROVE  ScanInv'
  <1> USE Locals
  <1>1. /\ pc[l] = "policy" /\ pc'[l] = "done"
        /\ verdict'[l] = [id |-> 0, action |-> g_default_policy]
        /\ UNCHANGED <<clean, pkt, g_rules, g_n_rules, g_acl_ctx, g_default_policy>>
    BY DEF DefaultVerdict, ctrlVars, engineVars
  <1>2. FreshLocals(l)'
    BY <1>1 DEF FreshLocals
  <1>3. ASSUME clean[l] PROVE CleanCall(l)'
    <2>1. Candidates(InForce, pkt[l]) = {}
      BY <1>1, <1>3 DEF ScanInv, CleanCall
    <2>2. InForce' = InForce
      BY <1>1 DEF InForce, LiveTable
    <2>3. IsDecision(InForce, g_default_policy, pkt[l], verdict[l])'
      BY <1>1, <2>1, <2>2 DEF IsDecision
    <2> QED
      BY <1>1, <2>3 DEF CleanCall
  <1>4. clean'[l] => cpc = "idle" /\ CleanCall(l)'
    BY <1>1, <1>3 DEF ScanInv
  <1> QED
    BY <1>2, <1>4, ScanOthers DEF DefaultVerdict

(* A clean call finds its slot still in the table *)
LEMMA ScanRecheck ==
  ASSUME TypeOK, ScanInv, NEW l \in Lcores, RecheckFails(l)
  PROVE  ScanInv'
  <1> USE Locals, LocalTypes
  <1>1. pc[l] = "matched" /\ pc'[l] = "policy" /\ clean' = clean
    BY DEF RecheckFails
  <1>2. FreshLocals(l)'
    BY <1>1 DEF FreshLocals
  <1>3. ~clean[l]
    <2> SUFFICES ASSUME clean[l] PROVE FALSE
      OBVIOUS
    <2>1. lim[l] = g_n_rules /\ res[l] <= idx[l] /\ idx[l] = g_n_rules
      BY <1>1 DEF ScanInv, CleanCall, WinnerSoFar
    <2> QED
      BY <2>1 DEF RecheckFails, Counts
  <1> QED
    BY <1>1, <1>2, <1>3, ScanOthers DEF RecheckFails

LEMMA ScanRuleId ==
  ASSUME TypeOK, ScanInv, NEW l \in Lcores, ReadRuleId(l)
  PROVE  ScanInv'
  <1> USE Locals, LocalTypes
  <1>1. /\ pc[l] = "matched" /\ pc'[l] = "action"
        /\ UNCHANGED <<clean, pkt, idx, lim, best, res, g_rules, g_n_rules, g_acl_ctx>>
        /\ verdict'[l] = [verdict[l] EXCEPT !.id = g_rules[res[l] - 1].id]
    BY DEF ReadRuleId, ctrlVars, engineVars
  <1>2. FreshLocals(l)'
    BY <1>1 DEF FreshLocals
  <1>3. ASSUME clean[l] PROVE CleanCall(l)'
    <2>1. verdict[l] \in Verdict
      BY DEF TypeOK, CallType
    <2>2. verdict'[l].id = g_rules[res[l] - 1].id
      BY <1>1, <2>1 DEF Verdict
    <2> QED
      BY <1>1, <1>3, <2>2 DEF ScanInv, CleanCall, WinnerSoFar, Eligible
  <1>4. clean'[l] => cpc = "idle" /\ CleanCall(l)'
    BY <1>1, <1>3 DEF ScanInv
  <1> QED
    BY <1>2, <1>4, ScanOthers DEF ReadRuleId

LEMMA ScanRuleAction ==
  ASSUME TypeOK, ScanInv, NEW l \in Lcores, ReadRuleAction(l)
  PROVE  ScanInv'
  <1> USE Locals, LocalTypes
  <1>1. /\ pc[l] = "action" /\ pc'[l] = "done"
        /\ UNCHANGED <<clean, pkt, g_rules, g_n_rules, g_acl_ctx>>
        /\ verdict'[l] = [verdict[l] EXCEPT !.action = g_rules[res[l] - 1].action]
    BY DEF ReadRuleAction, ctrlVars, engineVars
  <1>2. FreshLocals(l)'
    BY <1>1 DEF FreshLocals
  <1>3. ASSUME clean[l] PROVE CleanCall(l)'
    <2>1. /\ g_acl_ctx # NoCtx /\ WinnerSoFar(l) /\ idx[l] = g_n_rules /\ res[l] > 0
          /\ verdict[l].id = g_rules[res[l] - 1].id
      BY <1>1, <1>3 DEF ScanInv, CleanCall
    <2>2. IsWinner(LiveTable, pkt[l], res[l])
      BY <2>1, ScanWinner
    <2>3. LiveTable[res[l]] = g_rules[res[l] - 1]
      <3>1. res[l] \in 1 .. g_n_rules
        BY <2>1 DEF WinnerSoFar
      <3> QED
        BY <3>1, LiveRules
    <2>4. verdict[l] \in Verdict
      BY DEF TypeOK, CallType
    <2>5. verdict'[l] = [id |-> LiveTable[res[l]].id, action |-> LiveTable[res[l]].action]
      BY <1>1, <2>1, <2>3, <2>4 DEF Verdict
    <2>6. IsDecision(LiveTable, g_default_policy', pkt[l], verdict'[l])
      BY <2>2, <2>5 DEF IsDecision, IsWinner
    <2>7. InForce' = LiveTable /\ pkt'[l] = pkt[l]
      BY <1>1, <2>1 DEF InForce, LiveTable
    <2>8. IsDecision(InForce, g_default_policy, pkt[l], verdict[l])'
      BY <2>6, <2>7
    <2> QED
      BY <1>1, <2>8 DEF CleanCall
  <1>4. clean'[l] => cpc = "idle" /\ CleanCall(l)'
    BY <1>1, <1>3 DEF ScanInv
  <1> QED
    BY <1>2, <1>4, ScanOthers DEF ReadRuleAction

LEMMA ScanCall ==
  ASSUME TypeOK, CtxInv, ScanInv,
         NEW l \in Lcores, CallStep(l) \/ (\E p \in Packets : ReadLock(l, p))
  PROVE  ScanInv'
  <1> USE Locals
  <1>1. CASE ReadCtx(l)
    <2>1. /\ pc[l] = "locked" /\ pc'[l] = "loaded"
          /\ UNCHANGED <<idx, res, best, clean>>
      BY <1>1 DEF ReadCtx
    <2>2. FreshLocals(l)' /\ CleanCall(l)'
      BY <2>1 DEF ScanInv, FreshLocals, CleanCall
    <2>3. clean'[l] => cpc = "idle"
      BY <2>1 DEF ScanInv
    <2> QED
      BY <1>1, <2>2, <2>3, ScanOthers DEF ReadCtx
  <1>2. CASE Return(l)
    <2>1. /\ pc'[l] = "idle" /\ ~clean'[l]
          /\ idx'[l] = 0 /\ res'[l] = 0 /\ best'[l] = PrioMax
      BY <1>2 DEF Return
    <2>2. FreshLocals(l)'
      BY <2>1 DEF FreshLocals
    <2> QED
      BY <1>2, <2>1, <2>2, ScanOthers DEF Return
  <1> QED
    BY <1>1, <1>2, ScanReadLock, ScanReadUnlock, ScanOneSlot, ScanEndStep, ScanDefault,
       ScanRecheck, ScanRuleId, ScanRuleAction DEF CallStep

LEMMA ScanNext == ScanSafe /\ [Next]_vars => ScanSafe'
  <1> SUFFICES ASSUME ScanSafe, [Next]_vars PROVE ScanSafe'
    OBVIOUS
  <1>1. CtxSafe'
    BY CtxNext DEF ScanSafe
  <1>2. CASE UNCHANGED vars
    BY <1>1, <1>2, ScanKept DEF ScanSafe, vars, engineVars
  <1> QED
    BY <1>1, <1>2, ScanControlBegin, ScanControlStep, ScanCall DEF ScanSafe, CtxSafe, Next

(* A call of rule_match that no operation overlaps returns the decision of *)
(* the table in force: the matching rule with the least priority number,   *)
(* the earliest among equals, or the default policy (lines 297-359)        *)
THEOREM CleanVerdicts == Spec => []CleanVerdict
  <1>1. ScanSafe => CleanVerdict
    BY DEF ScanSafe, ScanInv, CleanCall, InForce, CleanVerdict
  <1> QED
    BY <1>1, ScanInit, ScanNext, PTL DEF Spec
===========================================================================
