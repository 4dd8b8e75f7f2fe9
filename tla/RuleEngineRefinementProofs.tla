--------------------- MODULE RuleEngineRefinementProofs ---------------------
(***************************************************************************)
(* The rule engine implements FirewallPolicy, for any number of cores, any *)
(* MAX_RULES, any rules and files: the initial states map to initial       *)
(* states, and every step to a step of the specification or to a stutter.  *)
(***************************************************************************)
EXTENDS RuleEngineRefinement, RuleEngineProofs,
        SequenceTheorems

(* From the end of the copy on, the table is the one the operation leaves *)
LeftInv ==
  cpc \notin {"idle", "copy", "tail"} =>
    /\ g_n_rules = job.cnt
    /\ \A s \in 0 .. job.cnt - 1 : g_rules[s] = job.tab[s]

(* An operation in progress is one of those that change the table *)
JobInv == cpc # "idle" => job.op \in Ops

EngineInv == ScanSafe /\ ArmedInv /\ IdsSafe /\ LeftInv /\ JobInv

LEMMA LeftStable ==
  ASSUME IdsSafe, LeftInv, JobInv, [Next]_vars
  PROVE  LeftInv' /\ JobInv'
<1>1. CASE UNCHANGED ctrlVars
  BY <1>1 DEF LeftInv, JobInv, ctrlVars, engineVars, jobVars
<1>2. CASE ControlBegin
  <2>1. \/ cpc' = "idle"
        \/ cpc' = "copy" /\ job'.op \in Ops
    BY <1>2 DEF ControlBegin, RuleAdd, RuleAddFull, RuleDel, RuleDelMissing, RuleFlush,
                ConfigReload, ConfigReloadFails, SetDefaultPolicy, Begin, Answer, Ops
  <2>. QED BY <2>1 DEF LeftInv, JobInv
<1>3. CASE CopyDone
  <2>1. /\ counted /\ cpc = "copy" /\ pos >= job.hi
        /\ job' = job /\ g_rules' = g_rules /\ g_n_rules' = g_n_rules
    BY <1>3 DEF CopyDone, jobVars
  <2>2. \A s \in Slots : g_rules[s] = job.tab[s]
    <3>1. pos .. job.hi - 1 = {} BY <2>1, TypeFacts DEF IdsSafe
    <3>. QED BY <2>1, <3>1 DEF IdsSafe, CopyInv, Copying
  <2>3. 0 .. job.cnt - 1 \subseteq Slots BY TypeFacts DEF IdsSafe, Slots
  <2>4. g_n_rules = job.cnt BY <2>1 DEF IdsSafe, CopyInv, Copying
  <2>. QED BY <2>1, <2>2, <2>3, <2>4 DEF LeftInv, JobInv
<1>4. CASE StoreCount \/ CopyHead \/ CopyTail
  BY <1>4 DEF StoreCount, CopyHead, CopyTail, jobVars, LeftInv, JobInv
<1>5. CASE BuildOk \/ BuildEmpty \/ WriteWait \/ WriteLock \/ Swap \/ WriteUnlock
  BY <1>5 DEF BuildOk, BuildEmpty, WriteWait, WriteLock, Swap, WriteUnlock, engineVars,
              jobVars, LeftInv, JobInv
<1>6. CASE BuildFail \/ FreeOld
  BY <1>6 DEF BuildFail, FreeOld, Finish, LeftInv, JobInv
<1>7. ASSUME NEW l \in Lcores, CallStep(l) \/ (\E p \in Packets : ReadLock(l, p))
      PROVE  UNCHANGED ctrlVars
  BY <1>7, CallsKeepControl
<1>8. CASE UNCHANGED vars BY <1>1, <1>8 DEF vars, ctrlVars
<1>. QED BY <1>1, <1>2, <1>3, <1>4, <1>5, <1>6, <1>7, <1>8 DEF Next, ControlStep

LEMMA EngineInit == Init => EngineInv
<1>1. Init => LeftInv /\ JobInv BY DEF Init, LeftInv, JobInv
<1>. QED BY <1>1, ScanInit, ArmedInit, IdsInit DEF EngineInv

LEMMA EngineStable ==
  ASSUME IdLimit < IdMod - 1
  PROVE  EngineInv /\ [Next]_vars => EngineInv'
BY ScanNext, ArmedNext, IdsNext, LeftStable DEF EngineInv, IdsSafe

-----------------------------------------------------------------------------
(* Tables as sequences *)

LEMMA PrefixIsTable ==
  ASSUME NEW tab \in [Slots -> Rule], NEW n \in 0 .. MaxRules
  PROVE  /\ Prefix(tab, n) \in Seq(Rule) /\ Len(Prefix(tab, n)) = n
         /\ \A x \in 1 .. n : Prefix(tab, n)[x] = tab[x - 1]
         /\ Prefix(tab, n) = <<>> <=> n = 0
<1>1. n \in Nat /\ MaxRules \in Nat BY RuleEngineAssumption
<1>2. \A x \in 1 .. n : tab[x - 1] \in Rule BY <1>1 DEF Slots
<1>3. Prefix(tab, n) \in [1 .. n -> Rule] BY <1>2 DEF Prefix
<1>4. Prefix(tab, n) \in Seq(Rule) BY <1>1, <1>3
<1>5. Len(Prefix(tab, n)) = n BY <1>1, <1>3, <1>4, LenProperties
<1>6. Prefix(tab, n) = <<>> <=> n = 0 BY <1>4, <1>5, EmptySeq
<1>7. \A x \in 1 .. n : Prefix(tab, n)[x] = tab[x - 1] BY DEF Prefix
<1>. QED BY <1>4, <1>5, <1>6, <1>7

LEMMA PrefixAgrees ==
  ASSUME NEW a, NEW b, NEW n \in Nat, \A s \in 0 .. n - 1 : a[s] = b[s]
  PROVE  Prefix(a, n) = Prefix(b, n)
BY DEF Prefix

LEMMA PrefixOfArray ==
  ASSUME NEW seq \in Tables, NEW old \in [Slots -> Rule]
  PROVE  Prefix(Array(seq, old), Len(seq)) = seq
<1>1. Len(seq) \in 0 .. MaxRules /\ seq \in Seq(Rule) /\ DOMAIN seq = 1 .. Len(seq)
  BY ArrayIsRules, LenProperties DEF Tables
<1>2. \A x \in 1 .. Len(seq) : Array(seq, old)[x - 1] = seq[x]
  BY <1>1, RuleEngineAssumption DEF Array, Slots
<1>3. Array(seq, old) \in [Slots -> Rule] BY ArrayIsRules
<1>4. /\ Prefix(Array(seq, old), Len(seq)) \in Seq(Rule)
      /\ Len(Prefix(Array(seq, old), Len(seq))) = Len(seq)
      /\ \A x \in 1 .. Len(seq) : Prefix(Array(seq, old), Len(seq))[x] = seq[x]
  BY <1>1, <1>2, <1>3, PrefixIsTable
<1>. QED BY <1>1, <1>4, SeqEqual

LEMMA PrefixAppend ==
  ASSUME NEW tab \in [Slots -> Rule], NEW n \in 0 .. MaxRules - 1, NEW r \in Rule
  PROVE  Prefix([tab EXCEPT ![n] = r], n + 1) = Append(Prefix(tab, n), r)
<1>. DEFINE new == [tab EXCEPT ![n] = r]
<1>1. /\ n \in Slots /\ n \in 0 .. MaxRules /\ n + 1 \in 0 .. MaxRules /\ n \in Nat
      /\ new \in [Slots -> Rule] /\ MaxRules \in Nat
  BY RuleEngineAssumption DEF Slots
<1>2. /\ Prefix(new, n + 1) \in Seq(Rule) /\ Len(Prefix(new, n + 1)) = n + 1
      /\ \A x \in 1 .. n + 1 : Prefix(new, n + 1)[x] = new[x - 1]
  BY <1>1, PrefixIsTable
<1>3. /\ Prefix(tab, n) \in Seq(Rule) /\ Len(Prefix(tab, n)) = n
      /\ \A x \in 1 .. n : Prefix(tab, n)[x] = tab[x - 1]
  BY <1>1, PrefixIsTable
<1>4. /\ Append(Prefix(tab, n), r) \in Seq(Rule)
      /\ Len(Append(Prefix(tab, n), r)) = n + 1
      /\ Append(Prefix(tab, n), r)[n + 1] = r
      /\ \A x \in 1 .. n : Append(Prefix(tab, n), r)[x] = tab[x - 1]
  BY <1>1, <1>3
<1>5. new[n] = r /\ \A s \in Slots : s # n => new[s] = tab[s] BY <1>1
<1>. HIDE DEF new
<1>6. ASSUME NEW x \in 1 .. n + 1
      PROVE  Prefix(new, n + 1)[x] = Append(Prefix(tab, n), r)[x]
  <2>1. CASE x = n + 1 BY <1>1, <1>2, <1>4, <1>5, <2>1
  <2>2. CASE x \in 1 .. n
    <3>1. x - 1 \in Slots /\ x - 1 # n BY <1>1, <2>2 DEF Slots
    <3>. QED BY <1>2, <1>4, <1>5, <2>2, <3>1
  <2>3. n \in Nat BY <1>1
  <2>4. x = n + 1 \/ x \in 1 .. n BY <2>3
  <2>. QED BY <2>1, <2>2, <2>4
<1>7. Prefix(new, n + 1) = Append(Prefix(tab, n), r) BY <1>2, <1>4, <1>6, SeqEqual
<1>. QED BY <1>7 DEF new

LEMMA PrefixRemove ==
  ASSUME NEW tab \in [Slots -> Rule], NEW n \in 1 .. MaxRules, NEW i \in 0 .. n - 1,
         NEW j, j = i + 1
  PROVE  Prefix(Closed(tab, i, n), n - 1) = FP!RemoveAt(Prefix(tab, n), j)
<1>. DEFINE new == Closed(tab, i, n)
            t == Prefix(tab, n)
            a == SubSeq(t, 1, j - 1)
            b == SubSeq(t, j + 1, Len(t))
<1>1. /\ n \in 0 .. MaxRules /\ n - 1 \in 0 .. MaxRules /\ n \in Nat /\ i \in Nat
      /\ MaxRules \in Nat
  BY RuleEngineAssumption
<1>2. \A s \in Slots : s \in i .. n - 2 => s + 1 \in Slots BY <1>1 DEF Slots
<1>3. new \in [Slots -> Rule] BY <1>2 DEF Closed
<1>4. /\ Prefix(new, n - 1) \in Seq(Rule) /\ Len(Prefix(new, n - 1)) = n - 1
      /\ \A x \in 1 .. n - 1 : Prefix(new, n - 1)[x] = new[x - 1]
  BY <1>1, <1>3, PrefixIsTable
<1>5. t \in Seq(Rule) /\ Len(t) = n /\ \A x \in 1 .. n : t[x] = tab[x - 1]
  BY <1>1, PrefixIsTable
<1>6. \A x \in 1 .. n : t[x] \in Rule BY <1>5, ElementOfSeq
<1>. HIDE DEF t, new
<1>7. /\ a \in Seq(Rule) /\ Len(a) = i
      /\ \A x \in 1 .. i : a[x] = t[x]
  <2>1. \A x \in 1 .. j - 1 : t[x] \in Rule BY <1>1, <1>6
  <2>2. /\ a \in Seq(Rule) /\ Len(a) = IF 1 <= j - 1 THEN j - 1 - 1 + 1 ELSE 0
        /\ \A x \in 1 .. j - 1 - 1 + 1 : a[x] = t[1 + x - 1]
    BY <1>1, <2>1, SubSeqProperties
  <2>. QED BY <1>1, <2>2
<1>8. /\ b \in Seq(Rule) /\ Len(b) = n - i - 1
      /\ \A x \in 1 .. n - i - 1 : b[x] = t[i + 1 + x]
  <2>1. \A x \in j + 1 .. Len(t) : t[x] \in Rule BY <1>1, <1>5, <1>6
  <2>2. /\ b \in Seq(Rule)
        /\ Len(b) = IF j + 1 <= Len(t) THEN Len(t) - (j + 1) + 1 ELSE 0
        /\ \A x \in 1 .. Len(t) - (j + 1) + 1 : b[x] = t[j + 1 + x - 1]
    BY <1>1, <1>5, <2>1, SubSeqProperties
  <2>. QED BY <1>1, <1>5, <2>2
<1>. HIDE DEF a, b
<1>9. /\ a \o b \in Seq(Rule) /\ Len(a \o b) = n - 1
      /\ \A x \in 1 .. n - 1 : (a \o b)[x] = IF x <= i THEN a[x] ELSE b[x - i]
  <2>1. /\ a \o b \in Seq(Rule) /\ Len(a \o b) = Len(a) + Len(b)
        /\ \A x \in 1 .. Len(a) + Len(b) :
             (a \o b)[x] = IF x <= Len(a) THEN a[x] ELSE b[x - Len(a)]
    BY <1>7, <1>8, ConcatProperties
  <2>2. Len(a) + Len(b) = n - 1 /\ Len(a) = i BY <1>1, <1>7, <1>8
  <2>. QED BY <2>1, <2>2
<1>10. ASSUME NEW x \in 1 .. n - 1
       PROVE  Prefix(new, n - 1)[x] = (a \o b)[x]
  <2>1. x - 1 \in Slots /\ x \in 1 .. n BY <1>1 DEF Slots
  <2>2. CASE x <= i
    <3>1. (a \o b)[x] = tab[x - 1] BY <1>1, <1>5, <1>7, <1>9, <2>1, <2>2
    <3>2. new[x - 1] = tab[x - 1] BY <1>1, <2>1, <2>2 DEF new, Closed
    <3>. QED BY <1>4, <3>1, <3>2
  <2>3. CASE ~(x <= i)
    <3>1. (a \o b)[x] = t[x + 1]
      <4>1. x - i \in 1 .. n - i - 1 /\ i + 1 + (x - i) = x + 1 BY <1>1, <2>3
      <4>2. (a \o b)[x] = b[x - i] BY <1>9, <2>3
      <4>. QED BY <1>8, <4>1, <4>2
    <3>2. t[x + 1] = tab[x] BY <1>1, <1>5
    <3>3. new[x - 1] = tab[x] BY <1>1, <2>1, <2>3 DEF new, Closed
    <3>. QED BY <1>4, <3>1, <3>2, <3>3
  <2>. QED BY <2>2, <2>3
<1>11. Prefix(new, n - 1) = a \o b BY <1>1, <1>4, <1>9, <1>10, SeqEqual
<1>12. FP!RemoveAt(t, j) = a \o b BY DEF a, b, FP!RemoveAt
<1>. QED BY <1>11, <1>12 DEF new, t

-----------------------------------------------------------------------------
(* The operations that change the table *)

(* What is needed of the invariant when no operation is in progress *)
LEMMA IdleFacts ==
  ASSUME EngineInv, cpc = "idle"
  PROVE  /\ AbstractTable = LiveTable /\ AbstractLastId = g_next_id
         /\ AbstractBusy = "no" /\ AbstractAnswer = reply.rc
         /\ AbstractArmed = (g_acl_ctx # NoCtx)
         /\ g_rules \in [Slots -> Rule] /\ g_n_rules \in 0 .. MaxRules
         /\ LiveTable \in Seq(Rule) /\ Len(LiveTable) = g_n_rules
         /\ DOMAIN LiveTable = 1 .. g_n_rules
         /\ \A x \in 1 .. g_n_rules : LiveTable[x] = g_rules[x - 1]
<1>1. g_rules \in [Slots -> Rule] /\ g_n_rules \in 0 .. MaxRules
  BY TypeFacts DEF EngineInv, IdsSafe
<1>2. /\ LiveTable \in Seq(Rule) /\ Len(LiveTable) = g_n_rules
      /\ DOMAIN LiveTable = 1 .. g_n_rules
      /\ \A x \in 1 .. g_n_rules : LiveTable[x] = g_rules[x - 1]
  BY <1>1, PrefixIsTable, LenProperties DEF LiveTable
<1>. QED BY <1>1, <1>2 DEF AbstractTable, AbstractLastId, AbstractBusy, AbstractAnswer, AbstractArmed

LEMMA BeginMaps ==
  ASSUME EngineInv, cpc = "idle",
         NEW op, NEW tab, NEW n, NEW from, NEW to,
         Begin(op, tab, n, from, to)
  PROVE  /\ job'.op = op
         /\ FP!Begin(IF op = "reload" THEN "reload" ELSE "edit", Prefix(tab, n))
<1>1. /\ cpc' = "copy" /\ job'.op = op /\ job'.tab = tab /\ job'.cnt = n
      /\ clean' = [l \in Lcores |-> FALSE] /\ UNCHANGED <<callVars, g_acl_ctx>>
  BY DEF Begin, Disturb
<1>2. AbstractTable' = Prefix(tab, n) BY <1>1 DEF AbstractTable
<1>3. AbstractBusy = "no" /\ AbstractBusy' = IF op = "reload" THEN "reload" ELSE "edit"
  BY <1>1 DEF AbstractBusy
<1>4. AbstractAnswer' = "none" BY <1>1 DEF AbstractAnswer
<1>5. AbstractArmed' = AbstractArmed BY <1>1 DEF AbstractArmed
<1>6. /\ AbstractOpen' = AbstractOpen /\ pkt' = pkt /\ AbstractTold' = AbstractTold
  BY <1>1 DEF AbstractOpen, AbstractTold, callVars
<1>. QED BY <1>1, <1>2, <1>3, <1>4, <1>5, <1>6 DEF FP!Begin, FP!callVars

LEMMA RuleAddMaps ==
  ASSUME IdLimit < IdMod - 1, EngineInv, NEW r \in NewRules, RuleAdd(r)
  PROVE  FP!BeginAdd(r)
<1>. DEFINE rule == [r EXCEPT !.id = g_next_id']
            new == [g_rules EXCEPT ![g_n_rules] = rule]
<1>1. cpc = "idle" /\ g_n_rules < MaxRules /\ g_default_policy' = g_default_policy
  BY DEF RuleAdd, HasRoom
<1>2. Begin("add", new, g_n_rules + 1, g_n_rules, g_n_rules + 1) BY DEF RuleAdd
<1>3. g_next_id' = g_next_id + 1 /\ g_next_id' \in Ids
  <2>1. g_next_id' = g_next_id + 1 BY IdsRuleAdd DEF EngineInv
  <2>2. g_next_id \in Ids /\ g_next_id <= IdLimit BY TypeFacts DEF RuleAdd, EngineInv, IdsSafe
  <2>. QED BY <2>1, <2>2, RuleEngineAssumption, RuleDataAssumption DEF Ids
<1>4. rule \in Rule BY <1>3, RuleEngineAssumption DEF Rule
<1>5. /\ Len(AbstractTable) = g_n_rules /\ AbstractTable = Prefix(g_rules, g_n_rules)
      /\ AbstractLastId = g_next_id /\ g_rules \in [Slots -> Rule] /\ g_n_rules \in 0 .. MaxRules
  BY <1>1, IdleFacts DEF LiveTable
<1>6. Prefix(new, g_n_rules + 1) = Append(AbstractTable, rule)
  <2>1. g_n_rules \in 0 .. MaxRules - 1 BY <1>1, <1>5, RuleEngineAssumption
  <2>. QED BY <1>4, <1>5, <2>1, PrefixAppend
<1>. HIDE DEF new, rule
<1>7. job'.op = "add" /\ FP!Begin("edit", Append(AbstractTable, rule))
  <2>1. job'.op = "add" /\ FP!Begin("edit", Prefix(new, g_n_rules + 1))
    BY <1>1, <1>2, BeginMaps
  <2>. QED BY <1>6, <2>1
<1>8. AbstractLastId' = g_next_id' BY <1>7 DEF AbstractLastId
<1>9. rule = [r EXCEPT !.id = AbstractLastId'] BY <1>8 DEF rule
<1>. QED BY <1>1, <1>3, <1>5, <1>7, <1>8, <1>9 DEF FP!BeginAdd

LEMMA RuleDelMaps ==
  ASSUME EngineInv, NEW id \in DelIds, RuleDel(id)
  PROVE  FP!BeginDel(id)
<1>1. PICK i \in Live :
        /\ IsFirstWith(i, id)
        /\ Begin("del", Closed(g_rules, i, g_n_rules), g_n_rules - 1, i, g_n_rules - 1)
  BY DEF RuleDel
<1>2. cpc = "idle" /\ g_next_id' = g_next_id /\ g_default_policy' = g_default_policy
  BY DEF RuleDel
<1>3. /\ AbstractTable = LiveTable /\ AbstractLastId = g_next_id
      /\ g_rules \in [Slots -> Rule] /\ g_n_rules \in 0 .. MaxRules
      /\ DOMAIN LiveTable = 1 .. g_n_rules
      /\ \A x \in 1 .. g_n_rules : LiveTable[x] = g_rules[x - 1]
  BY <1>2, IdleFacts
<1>4. i \in 0 .. g_n_rules - 1 /\ g_n_rules \in 1 .. MaxRules /\ g_n_rules \in Nat /\ i \in Nat
  BY <1>1, <1>3, RuleEngineAssumption DEF Live
<1>5. PICK j : j = i + 1 OBVIOUS
<1>6. Prefix(Closed(g_rules, i, g_n_rules), g_n_rules - 1) = FP!RemoveAt(LiveTable, j)
  BY <1>3, <1>4, <1>5, PrefixRemove DEF LiveTable
<1>7. job'.op = "del" /\ FP!Begin("edit", FP!RemoveAt(AbstractTable, j))
  BY <1>1, <1>2, <1>3, <1>6, BeginMaps
<1>8. j \in DOMAIN AbstractTable /\ FP!IsFirst(j, id)
  <2>1. j \in 1 .. g_n_rules /\ j - 1 = i BY <1>4, <1>5
  <2>2. LiveTable[j].id = id BY <1>1, <1>3, <2>1 DEF IsFirstWith
  <2>3. ASSUME NEW x \in 1 .. j - 1 PROVE LiveTable[x].id # id
    <3>1. x \in 1 .. g_n_rules /\ x - 1 \in 0 .. i - 1 BY <1>4, <2>1
    <3>. QED BY <1>1, <1>3, <3>1 DEF IsFirstWith
  <2>. QED BY <1>3, <2>1, <2>2, <2>3 DEF FP!IsFirst
<1>9. AbstractLastId' = AbstractLastId BY <1>2, <1>3, <1>7 DEF AbstractLastId
<1>. QED BY <1>2, <1>7, <1>8, <1>9 DEF FP!BeginDel

LEMMA RuleFlushMaps ==
  ASSUME EngineInv, RuleFlush
  PROVE  FP!BeginFlush
<1>1. /\ cpc = "idle" /\ g_next_id' = g_next_id /\ g_default_policy' = g_default_policy
      /\ Begin("flush", g_rules, 0, 0, 0)
  BY DEF RuleFlush
<1>2. Prefix(g_rules, 0) = <<>> /\ AbstractLastId = g_next_id
  <2>1. g_rules \in [Slots -> Rule] /\ 0 \in 0 .. MaxRules
    BY <1>1, IdleFacts, RuleEngineAssumption
  <2>. QED BY <1>1, <2>1, PrefixIsTable, IdleFacts
<1>3. job'.op = "flush" /\ FP!Begin("edit", <<>>) BY <1>1, <1>2, BeginMaps
<1>4. AbstractLastId' = AbstractLastId BY <1>1, <1>2, <1>3 DEF AbstractLastId
<1>. QED BY <1>1, <1>3, <1>4 DEF FP!BeginFlush

(* The greatest number of a set is its Max *)
LEMMA GreatestIsMax ==
  ASSUME NEW S \in SUBSET Int, NEW n, Greatest(n, S)
  PROVE  n = Max(S)
<1>1. n \in S /\ \A m \in S : n >= m BY DEF Greatest
<1>2. ASSUME NEW x \in S, \A m \in S : x >= m
      PROVE  x = n
  <2>1. x >= n /\ n >= x /\ x \in Int /\ n \in Int BY <1>1, <1>2
  <2>. QED BY <2>1
<1>. QED BY <1>1, <1>2 DEF Max

LEMMA ConfigReloadMaps ==
  ASSUME EngineInv, NEW c \in Configs, ConfigReload(c)
  PROVE  FP!BeginReload(c)
<1>1. /\ cpc = "idle" /\ g_next_id' = g_next_id /\ g_default_policy' = c.policy
      /\ Begin("reload", Array(c.rules, g_rules), Len(c.rules), 0, Len(c.rules))
  BY DEF ConfigReload
<1>2. AbstractLastId = g_next_id /\ g_rules \in [Slots -> Rule]
  BY <1>1, IdleFacts
<1>3. Prefix(Array(c.rules, g_rules), Len(c.rules)) = c.rules
  BY <1>2, ConfigType, PrefixOfArray
<1>4. job'.op = "reload" /\ FP!Begin("reload", c.rules) BY <1>1, <1>3, BeginMaps
<1>5. AbstractTable' = c.rules /\ cpc' = "copy" BY <1>1, <1>4 DEF FP!Begin, Begin
<1>6. AbstractLastId' = Max(IdsOf(c.rules) \cup {g_next_id})
  BY <1>1, <1>4, <1>5 DEF AbstractLastId, IdsOf
<1>7. FP!Max(FP!ConfigIds(c) \cup {AbstractLastId}) = Max(IdsOf(c.rules) \cup {g_next_id})
  BY <1>2 DEF FP!Max, Max, FP!ConfigIds, IdsOf
<1>. QED BY <1>1, <1>4, <1>6, <1>7 DEF FP!BeginReload

LEMMA AnswerMaps ==
  ASSUME EngineInv, NEW op, NEW rc, Answer(op, rc)
  PROVE  /\ AbstractBusy = "no" /\ AbstractAnswer' = rc
         /\ UNCHANGED <<AbstractTable, AbstractArmed, AbstractLastId, AbstractBusy,
                        AbstractOpen, pkt, AbstractTold>>
BY DEF Answer, AbstractBusy, AbstractAnswer, AbstractTable, LiveTable, AbstractArmed,
       AbstractLastId, AbstractOpen, AbstractTold, callVars

LEMMA ControlBeginMaps ==
  ASSUME IdLimit < IdMod - 1, EngineInv, ControlBegin
  PROVE  FP!Next
<1>1. CASE \E r \in NewRules : RuleAdd(r) BY <1>1, RuleAddMaps DEF FP!Next
<1>2. CASE \E id \in DelIds : RuleDel(id) BY <1>2, RuleDelMaps DEF FP!Next
<1>3. CASE RuleFlush BY <1>3, RuleFlushMaps DEF FP!Next
<1>4. CASE \E c \in Configs : ConfigReload(c) BY <1>4, ConfigReloadMaps DEF FP!Next
<1>5. CASE RuleAddFull \/ (\E id \in DelIds : RuleDelMissing(id)) \/ ConfigReloadFails
  <2>1. \E op : Answer(op, "fail") /\ UNCHANGED <<g_default_policy, clean>>
    BY <1>5 DEF RuleAddFull, RuleDelMissing, ConfigReloadFails
  <2>2. FP!Refuse BY <2>1, AnswerMaps DEF FP!Refuse, FP!callVars
  <2>. QED BY <2>2 DEF FP!Next
<1>6. ASSUME NEW a \in {"accept", "drop"}, SetDefaultPolicy(a)
      PROVE  FP!Next
  <2>1. Answer("policy", "ok") /\ g_default_policy' = a /\ clean' = [l \in Lcores |-> FALSE]
    BY <1>6 DEF SetDefaultPolicy, Disturb
  <2>2. FP!SetPolicy(a) BY <2>1, AnswerMaps DEF FP!SetPolicy, FP!callVars
  <2>. QED BY <2>2 DEF FP!Next
<1>. QED BY <1>1, <1>2, <1>3, <1>4, <1>5, <1>6 DEF ControlBegin

-----------------------------------------------------------------------------
(* The rest of an operation: stutters, up to its answer *)

LEMMA StutterMaps ==
  ASSUME EngineInv,
         \/ StoreCount \/ CopyHead \/ CopyTail \/ CopyDone
         \/ BuildOk \/ BuildEmpty \/ WriteWait \/ WriteLock \/ Swap \/ WriteUnlock
  PROVE  UNCHANGED FP!vars
<1>1. /\ cpc # "idle" /\ cpc' # "idle" /\ job' = job
      /\ UNCHANGED <<g_default_policy, callVars, clean>>
  BY DEF StoreCount, CopyHead, CopyTail, CopyDone, BuildOk, BuildEmpty, WriteWait, WriteLock,
         Swap, WriteUnlock, engineVars, jobVars
<1>2. /\ AbstractTable = Prefix(job.tab, job.cnt) /\ AbstractTable' = AbstractTable
      /\ AbstractBusy' = AbstractBusy /\ AbstractAnswer' = AbstractAnswer
      /\ AbstractOpen' = AbstractOpen /\ AbstractTold' = AbstractTold /\ pkt' = pkt
  BY <1>1 DEF AbstractTable, AbstractBusy, AbstractAnswer, AbstractOpen, AbstractTold, callVars
<1>3. AbstractArmed' = AbstractArmed
  BY DEF AbstractArmed, StoreCount, CopyHead, CopyTail, CopyDone, BuildOk, BuildEmpty, WriteWait,
         WriteLock, Swap, WriteUnlock, engineVars, jobVars
<1>4. AbstractLastId' = AbstractLastId
  <2>1. CASE StoreCount \/ CopyHead \/ CopyTail
    BY <1>1, <1>2, <2>1 DEF AbstractLastId, StoreCount, CopyHead, CopyTail
  <2>2. CASE CopyDone /\ job.op # "reload"
    BY <2>2 DEF AbstractLastId, CopyDone, RaiseNextId
  <2>3. CASE CopyDone /\ job.op = "reload"
    <3>1. /\ Greatest(g_next_id', IdsOf(LiveTable) \cup {g_next_id})
          /\ cpc = "copy" /\ cpc' = "build" /\ counted /\ pos >= job.hi
      BY <2>3 DEF CopyDone, RaiseNextId
    <3>2. LiveTable = AbstractTable
      <4>1. g_n_rules = job.cnt BY <3>1 DEF EngineInv, IdsSafe, CopyInv, Copying
      <4>2. pos .. job.hi - 1 = {} BY <3>1, TypeFacts DEF EngineInv, IdsSafe
      <4>3. \A s \in Slots : g_rules[s] = job.tab[s]
        BY <3>1, <4>2 DEF EngineInv, IdsSafe, CopyInv, Copying
      <4>4. job.cnt \in Nat /\ 0 .. job.cnt - 1 \subseteq Slots
        BY TypeFacts DEF EngineInv, IdsSafe, Slots
      <4>. QED BY <1>2, <4>1, <4>3, <4>4, PrefixAgrees DEF LiveTable
    <3>3. IdsOf(AbstractTable) \cup {g_next_id} \in SUBSET Int
      <4>1. /\ job.tab \in [Slots -> Rule] /\ job.cnt \in 0 .. MaxRules /\ g_next_id \in Int
        BY TypeFacts DEF EngineInv, IdsSafe, Ids
      <4>2. AbstractTable \in Seq(Rule) BY <1>2, <4>1, PrefixIsTable
      <4>3. \A k \in DOMAIN AbstractTable : AbstractTable[k] \in Rule
        BY <4>2, LenProperties, ElementOfSeq
      <4>. QED BY <4>1, <4>3 DEF IdsOf, Rule, Ids
    <3>4. g_next_id' = Max(IdsOf(AbstractTable) \cup {g_next_id})
      BY <3>1, <3>2, <3>3, GreatestIsMax
    <3>. QED BY <2>3, <3>1, <3>4 DEF AbstractLastId
  <2>4. CASE BuildOk \/ BuildEmpty \/ WriteWait \/ WriteLock \/ Swap \/ WriteUnlock
    BY <2>4 DEF AbstractLastId, BuildOk, BuildEmpty, WriteWait, WriteLock, Swap, WriteUnlock,
                engineVars, jobVars
  <2>. QED BY <2>1, <2>2, <2>3, <2>4
<1>. QED BY <1>1, <1>2, <1>3, <1>4 DEF FP!vars

LEMMA EndMaps ==
  ASSUME EngineInv, BuildFail \/ FreeOld
  PROVE  FP!End
<1>1. /\ cpc \in {"build", "free"} /\ cpc' = "idle" /\ job.op \in Ops
      /\ UNCHANGED <<engineVars, callVars, clean>>
  BY DEF BuildFail, FreeOld, Finish, EngineInv, JobInv
<1>2. AbstractTable' = AbstractTable /\ (AbstractTable = <<>> <=> g_n_rules = 0)
  <2>1. /\ job.tab \in [Slots -> Rule] /\ job.cnt \in 0 .. MaxRules /\ job.cnt \in Nat
        /\ g_n_rules = job.cnt /\ \A s \in 0 .. job.cnt - 1 : g_rules[s] = job.tab[s]
    BY <1>1, TypeFacts DEF EngineInv, IdsSafe, LeftInv
  <2>2. Prefix(g_rules, g_n_rules) = Prefix(job.tab, job.cnt) BY <2>1, PrefixAgrees
  <2>3. AbstractTable = Prefix(job.tab, job.cnt) BY <1>1 DEF AbstractTable
  <2>4. AbstractTable' = Prefix(g_rules, g_n_rules)
    BY <1>1 DEF AbstractTable, LiveTable, engineVars
  <2>. QED BY <2>1, <2>2, <2>3, <2>4, PrefixIsTable
<1>3. /\ AbstractBusy = IF job.op = "reload" THEN "reload" ELSE "edit"
      /\ AbstractBusy' = "no" /\ AbstractAnswer' = reply'.rc
      /\ AbstractOpen' = AbstractOpen /\ AbstractTold' = AbstractTold /\ pkt' = pkt
  BY <1>1 DEF AbstractBusy, AbstractAnswer, AbstractOpen, AbstractTold, callVars
<1>4. AbstractLastId' = AbstractLastId BY <1>1 DEF AbstractLastId, engineVars
<1>5. AbstractArmed' = (g_acl_ctx # NoCtx) BY <1>1 DEF AbstractArmed, engineVars
<1>6. CASE BuildFail
  <2>1. g_n_rules > 0 /\ reply'.rc = FailRc(job.op) /\ cpc = "build"
    BY <1>6 DEF BuildFail, Finish
  <2>2. AbstractTable # <<>> /\ AbstractArmed' = AbstractArmed
    BY <1>2, <1>5, <2>1 DEF AbstractArmed
  <2>3. FP!EndUnbuilt BY <1>3, <2>1, <2>2 DEF FP!EndUnbuilt, FailRc
  <2>. QED BY <1>1, <1>2, <1>3, <1>4, <2>3 DEF FP!End, FP!callVars, engineVars
<1>7. CASE FreeOld
  <2>1. reply'.rc = "ok" /\ cpc = "free" BY <1>7 DEF FreeOld, Finish
  <2>2. g_acl_ctx # NoCtx <=> g_n_rules > 0
    BY <2>1 DEF EngineInv, ArmedInv, Consulted
  <2>3. g_n_rules > 0 <=> g_n_rules # 0 BY TypeFacts DEF EngineInv, IdsSafe
  <2>4. AbstractArmed' = (AbstractTable # <<>>) BY <1>2, <1>5, <2>2, <2>3
  <2>5. FP!EndArmed BY <1>3, <2>1, <2>4 DEF FP!EndArmed
  <2>. QED BY <1>1, <1>2, <1>3, <1>4, <2>5 DEF FP!End, FP!callVars, engineVars
<1>. QED BY <1>6, <1>7

-----------------------------------------------------------------------------
(* The calls of rule_match *)

LEMMA TableKept ==
  ASSUME UNCHANGED ctrlVars
  PROVE  UNCHANGED <<AbstractTable, g_default_policy, AbstractArmed, AbstractLastId,
                     AbstractBusy, AbstractAnswer>>
BY DEF ctrlVars, engineVars, jobVars, AbstractTable, LiveTable, AbstractArmed, AbstractLastId,
       AbstractBusy, AbstractAnswer

(* A step inside the call *)
LEMMA InsideMaps ==
  ASSUME EngineInv, NEW l \in Lcores,
         \/ ReadCtx(l) \/ ReadUnlock(l) \/ ScanStep(l) \/ ScanEnd(l)
         \/ RecheckFails(l) \/ ReadRuleId(l)
  PROVE  UNCHANGED FP!vars
<1>1. UNCHANGED <<ctrlVars, pkt, clean>>
  BY DEF ReadCtx, ReadUnlock, ScanStep, ScanEnd, RecheckFails, ReadRuleId
<1>2. pc \in [Lcores -> {"idle", "locked", "loaded", "scan", "policy", "matched", "action", "done"}]
  BY DEF EngineInv, IdsSafe, TypeOK, CallType
<1>3. /\ pc[l] \notin {"idle", "done"}
      /\ \E p \in {"loaded", "scan", "policy", "matched", "action"} : pc' = [pc EXCEPT ![l] = p] \/ pc' = pc
      /\ \A k \in Lcores \ {l} : verdict'[k] = verdict[k]
  BY DEF ReadCtx, ReadUnlock, ScanStep, ScanEnd, RecheckFails, ReadRuleId, EngineInv, IdsSafe,
         TypeOK, CallType
<1>4. pc'[l] \notin {"idle", "done"} /\ \A k \in Lcores \ {l} : pc'[k] = pc[k]
  BY <1>2, <1>3
<1>5. AbstractOpen' = AbstractOpen BY <1>3, <1>4 DEF AbstractOpen
<1>6. AbstractTold' = AbstractTold BY <1>3, <1>4 DEF AbstractTold
<1>. QED BY <1>1, <1>5, <1>6, TableKept DEF FP!vars

LEMMA ReadLockMaps ==
  ASSUME EngineInv, NEW l \in Lcores, NEW p \in Packets, ReadLock(l, p)
  PROVE  FP!Ask(l, p)
<1>1. /\ UNCHANGED <<ctrlVars, verdict>> /\ pc[l] = "idle" /\ pc' = [pc EXCEPT ![l] = "locked"]
      /\ pkt' = [pkt EXCEPT ![l] = p] /\ clean' = [clean EXCEPT ![l] = (cpc = "idle")]
  BY DEF ReadLock
<1>2. pc \in [Lcores -> {"idle", "locked", "loaded", "scan", "policy", "matched", "action", "done"}]
  BY DEF EngineInv, IdsSafe, TypeOK, CallType
<1>3. pc'[l] = "locked" /\ \A k \in Lcores \ {l} : pc'[k] = pc[k] BY <1>1, <1>2
<1>4. /\ ~AbstractOpen[l] /\ AbstractOpen' = [AbstractOpen EXCEPT ![l] = TRUE]
  BY <1>1, <1>3 DEF AbstractOpen
<1>5. AbstractTold[l] = FP!NoVerdict /\ AbstractTold' = AbstractTold
  BY <1>1, <1>3 DEF AbstractTold, FP!NoVerdict
<1>6. (cpc = "idle") = (AbstractBusy = "no") BY DEF AbstractBusy
<1>. QED BY <1>1, <1>4, <1>5, <1>6, TableKept DEF FP!Ask

(* The decision of FirewallPolicy is the one the engine speaks of *)
LEMMA DecisionMaps ==
  ASSUME NEW p, NEW v, cpc = "idle", IsDecision(InForce, g_default_policy, p, v)
  PROVE  FP!Decision(p, v)
<1>1. (IF AbstractArmed THEN AbstractTable ELSE <<>>) = InForce
  BY DEF AbstractArmed, AbstractTable, InForce
<1>2. FP!IsDecision(InForce, g_default_policy, p, v)
  BY DEF IsDecision, FP!IsDecision, Candidates, FP!Candidates, IsWinner, FP!IsWinner, Better,
         FP!Better
<1>. QED BY <1>1, <1>2 DEF FP!Decision

LEMMA VerdictMaps ==
  ASSUME EngineInv, EngineInv', NEW l \in Lcores, DefaultVerdict(l) \/ ReadRuleAction(l)
  PROVE  FP!Tell(l)
<1>1. /\ UNCHANGED <<ctrlVars, pkt, clean>> /\ pc[l] \in {"policy", "action"}
      /\ pc' = [pc EXCEPT ![l] = "done"]
      /\ \A k \in Lcores \ {l} : verdict'[k] = verdict[k]
  BY DEF DefaultVerdict, ReadRuleAction, EngineInv, IdsSafe, TypeOK, CallType
<1>2. pc \in [Lcores -> {"idle", "locked", "loaded", "scan", "policy", "matched", "action", "done"}]
  BY DEF EngineInv, IdsSafe, TypeOK, CallType
<1>3. pc'[l] = "done" /\ \A k \in Lcores \ {l} : pc'[k] = pc[k] BY <1>1, <1>2
<1>4. verdict'[l] \in Verdict BY DEF EngineInv, IdsSafe, TypeOK, CallType
<1>5. /\ AbstractOpen[l] /\ AbstractOpen' = [AbstractOpen EXCEPT ![l] = FALSE]
  BY <1>1, <1>3 DEF AbstractOpen
<1>6. AbstractTold' = [AbstractTold EXCEPT ![l] = verdict'[l]]
  BY <1>1, <1>3 DEF AbstractTold
<1>7. ASSUME clean[l] PROVE FP!Decision(pkt[l], verdict'[l])
  <2>1. clean'[l] /\ cpc = "idle"
    BY <1>1, <1>7 DEF EngineInv, ScanSafe, ScanInv
  <2>2. IsDecision(InForce', g_default_policy', pkt'[l], verdict'[l])
    BY <1>3, <2>1 DEF EngineInv, ScanSafe, ScanInv, CleanCall
  <2>3. InForce' = InForce /\ g_default_policy' = g_default_policy /\ pkt' = pkt
    BY <1>1 DEF ctrlVars, engineVars, InForce, LiveTable
  <2>. QED BY <2>1, <2>2, <2>3, DecisionMaps
<1>8. verdict'[l] \in FP!Verdict
  BY <1>4 DEF Verdict, FP!Verdict, Ids, FP!Ids, Actions, FP!Actions
<1>. QED BY <1>1, <1>5, <1>6, <1>7, <1>8, TableKept DEF FP!Tell

LEMMA ReturnMaps ==
  ASSUME EngineInv, NEW l \in Lcores, Return(l)
  PROVE  FP!Forget(l)
<1>1. /\ UNCHANGED <<ctrlVars, pkt>> /\ pc[l] = "done" /\ pc' = [pc EXCEPT ![l] = "idle"]
      /\ verdict' = [verdict EXCEPT ![l] = ZeroVerdict]
      /\ clean' = [clean EXCEPT ![l] = FALSE]
  BY DEF Return
<1>2. /\ pc \in [Lcores -> {"idle", "locked", "loaded", "scan", "policy", "matched", "action", "done"}]
      /\ verdict \in [Lcores -> Verdict]
  BY DEF EngineInv, IdsSafe, TypeOK, CallType
<1>3. /\ pc'[l] = "idle"
      /\ \A k \in Lcores \ {l} : pc'[k] = pc[k] /\ verdict'[k] = verdict[k]
  BY <1>1, <1>2
<1>4. AbstractOpen' = AbstractOpen BY <1>1, <1>3 DEF AbstractOpen
<1>5. AbstractTold' = [AbstractTold EXCEPT ![l] = FP!NoVerdict]
  BY <1>1, <1>3 DEF AbstractTold, FP!NoVerdict
<1>6. AbstractTold[l] # FP!NoVerdict
  <2>1. verdict[l].id \in Ids /\ -1 \notin Ids BY <1>2 DEF Verdict, Ids
  <2>. QED BY <1>1, <2>1 DEF AbstractTold, FP!NoVerdict
<1>. QED BY <1>1, <1>4, <1>5, <1>6, TableKept DEF FP!Forget

-----------------------------------------------------------------------------
LEMMA InitMaps == Init => FP!Init
<1>. SUFFICES ASSUME Init PROVE FP!Init OBVIOUS
<1>1. PICK c \in Configs, h \in Handles :
        /\ g_rules = Array(c.rules, NoJob.tab)
        /\ g_n_rules = Len(c.rules)
        /\ Greatest(g_next_id, IdsOf(c.rules) \cup {0})
        /\ g_default_policy = c.policy
        /\ g_acl_ctx = IF g_n_rules = 0 THEN NoCtx ELSE h
  BY DEF Init
<1>2. c.rules \in Tables /\ LiveTable = c.rules
  BY <1>1, ConfigType, ZeroRuleIsRule, PrefixOfArray DEF LiveTable
<1>3. cpc = "idle" /\ AbstractTable = c.rules /\ AbstractLastId = g_next_id
  BY <1>2 DEF Init, AbstractTable, AbstractLastId
<1>4. g_next_id = FP!Max(FP!ConfigIds(c) \cup {0})
  <2>1. IdsOf(c.rules) \cup {0} \in SUBSET Int BY <1>2, IdsOfRules DEF Ids
  <2>2. g_next_id = Max(IdsOf(c.rules) \cup {0}) BY <1>1, <2>1, GreatestIsMax
  <2>. QED BY <2>2 DEF FP!Max, Max, FP!ConfigIds, IdsOf
<1>5. AbstractArmed = (c.rules # <<>>)
  <2>1. Len(c.rules) = 0 <=> c.rules = <<>> BY <1>2, EmptySeq DEF Tables
  <2>. QED BY <1>1, <1>3, <2>1, RuleEngineAssumption DEF AbstractArmed
<1>6. /\ AbstractBusy = "no" /\ AbstractAnswer = "none"
      /\ AbstractOpen = [l \in Lcores |-> FALSE]
      /\ AbstractTold = [l \in Lcores |-> FP!NoVerdict]
  BY DEF Init, AbstractBusy, AbstractAnswer, AbstractOpen, AbstractTold, NoReply, FP!NoVerdict
<1>7. clean = [l \in Lcores |-> FALSE] /\ pkt \in [Lcores -> Packets] BY DEF Init
<1>. QED BY <1>1, <1>3, <1>4, <1>5, <1>6, <1>7 DEF FP!Init

LEMMA StepMaps ==
  ASSUME IdLimit < IdMod - 1
  PROVE  EngineInv /\ EngineInv' /\ [Next]_vars => [FP!Next]_(FP!vars)
<1>. SUFFICES ASSUME EngineInv, EngineInv', [Next]_vars PROVE FP!Next \/ UNCHANGED FP!vars
  OBVIOUS
<1>1. CASE ControlBegin BY <1>1, ControlBeginMaps
<1>2. CASE ControlStep
  <2>1. CASE BuildFail \/ FreeOld BY <2>1, EndMaps DEF FP!Next
  <2>. QED BY <1>2, <2>1, StutterMaps DEF ControlStep
<1>3. ASSUME NEW l \in Lcores, CallStep(l)
      PROVE  FP!Next \/ UNCHANGED FP!vars
  <2>1. CASE DefaultVerdict(l) \/ ReadRuleAction(l)
    BY <2>1, VerdictMaps DEF FP!Next
  <2>2. CASE Return(l) BY <2>2, ReturnMaps DEF FP!Next
  <2>. QED BY <1>3, <2>1, <2>2, InsideMaps DEF CallStep
<1>4. ASSUME NEW l \in Lcores, NEW p \in Packets, ReadLock(l, p)
      PROVE  FP!Next
  BY <1>4, ReadLockMaps DEF FP!Next
<1>5. CASE UNCHANGED vars
  BY <1>5 DEF vars, engineVars, jobVars, callVars, FP!vars, AbstractTable, LiveTable, AbstractArmed,
              AbstractLastId, AbstractBusy, AbstractAnswer, AbstractOpen, AbstractTold
<1>. QED BY <1>1, <1>2, <1>3, <1>4, <1>5 DEF Next

(* As long as g_next_id does not wrap around, every behaviour of the       *)
(* engine is one FirewallPolicy allows (rule_engine.c, 160-419)            *)
THEOREM EngineImplementsPolicy ==
  ASSUME IdLimit < IdMod - 1
  PROVE  Spec => ImplementsFirewallPolicy
<1>1. Init => FP!Init BY InitMaps
<1>2. EngineInv /\ EngineInv' /\ [Next]_vars => [FP!Next]_(FP!vars) BY StepMaps
<1>3. EngineInv /\ [Next]_vars => EngineInv' BY EngineStable
<1>. QED BY <1>1, <1>2, <1>3, EngineInit, PTL DEF Spec, ImplementsFirewallPolicy, FP!Spec
=============================================================================
