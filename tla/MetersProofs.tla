--------------------------- MODULE MetersProofs ---------------------------
(***************************************************************************)
(* Proofs about Config and Meters for every set of files, rates and cores, *)
(* every MAX_RULES and every bound.                                        *)
(*                                                                         *)
(* None of the invariants the run checks is inductive but TypeOK:          *)
(*   - the ids stay distinct because no rule has an id above g_next_id;    *)
(*   - a meter is its rule's because meter_init_all, at rule i, has set    *)
(*     the meters of the rules before i and no other, and because no id    *)
(*     below g_next_id is handed out again;                                *)
(*   - a meter conforms to its rate because what has passed and the tokens *)
(*     left in its two buckets are together no more than the time since it *)
(*     was set allows, and a core between its read and its store is the    *)
(*     only one there.                                                     *)
(***************************************************************************)
EXTENDS Meters, FiniteSetTheorems, SequenceTheorems, WellFoundedInduction, TLAPS

-----------------------------------------------------------------------------
(* The inductive invariants                                                *)

IdsUpToNext == \A n \in DOMAIN g_rules : g_rules[n].id <= g_next_id

ConfigInv == ConfigTypeOK /\ InForceIsTheFile /\ IdsAreUsable /\ IdsUpToNext

(* meter_init_all at rule i *)
SetSoFar ==
  /\ \A n \in DOMAIN g_rules :
       n < i /\ Meterable(g_rules[n]) => g_meter_valid[g_rules[n].id]
  /\ IdsOfOneKind(loaded) => \A x \in MeterIds : g_meter_valid[x] =>
       \E n \in DOMAIN g_rules :
         /\ n < i /\ g_rules[n].id = x
         /\ g_rules[n].rate # NoRate /\ g_meter_profiles[x].cbs = g_rules[n].rate.cbs

(* Between two runs of it *)
MetersOfRules ==
  /\ ~edited => \A n \in DOMAIN g_rules : Meterable(g_rules[n]) => g_meter_valid[g_rules[n].id]
  /\ IdsOfOneKind(loaded) => \A x \in MeterIds : g_meter_valid[x] =>
       /\ x <= g_next_id
       /\ \A n \in DOMAIN g_rules : g_rules[n].id = x =>
            g_rules[n].rate # NoRate /\ g_meter_profiles[x].cbs = g_rules[n].rate.cbs

MeterInv ==
  /\ ctl # "start" => loaded # NoFile
  /\ ctl \in {"rule", "profile", "bucket"} => i <= Len(g_rules) + 1 /\ SetSoFar
  /\ ctl \in {"profile", "bucket"} =>
       Meterable(g_rules[i]) /\ g_meter_profiles[g_rules[i].id].cbs = g_rules[i].rate.cbs
  /\ ctl = "idle" => MetersOfRules

(* What has passed and the tokens that are left *)
Accounted(x) ==
  LET b == g_meters[x]
      p == g_meter_profiles[x]
      u == use[x]
  IN /\ u.since <= b.time
     /\ u.passed + b.tc + b.te <= 2 * p.cbs + p.cir * (b.time - u.since)
     /\ p.cbs <= u.passed + b.tc

(* A core about to store: nothing has changed since it read *)
Undisturbed(k) ==
  LET x == rule_id[k]
  IN /\ use[x].cores = {k}
     /\ reg[k] = [bucket |-> g_meters[x], profile |-> g_meter_profiles[x]]
     /\ g_meters[x].time <= now[k]

BucketInv ==
  /\ \A x \in MeterIds :
       /\ g_meter_profiles[x].ebs = g_meter_profiles[x].cbs
       /\ g_meters[x].time <= clock
       /\ Exact(x) => Accounted(x)
  /\ \A k \in Lcores : now[k] <= clock
  /\ \A k \in Lcores : pc[k] = "store" /\ Exact(rule_id[k]) => Undisturbed(k)
-----------------------------------------------------------------------------
(* Naturals and sequences                                                  *)

(* A set of naturals has a least one *)
LEMMA LeastOf ==
  ASSUME NEW S \in SUBSET Nat, S # {}
  PROVE  Min(S) \in S /\ \A y \in S : Min(S) <= y
<1> DEFINE Less == {ss \in Nat \X Nat : ss[1] < ss[2]}
<1>1. IsWellFoundedOn(Less, Nat)
  BY NatLessThanWellFounded DEF OpToRel
<1> HIDE DEF Less
<1>2. \E x \in S : \A y \in S : ~ (<<y, x>> \in Less)
  BY <1>1, WFMin
<1>3. PICK x \in S : \A y \in S : x <= y
  <2>1. PICK x \in S : \A y \in S : <<y, x>> \notin Less
    BY <1>2
  <2>2. ASSUME NEW y \in S, ~(x <= y) PROVE FALSE
    <3>1. <<y, x>> \in Nat \X Nat /\ y < x
      BY <2>2
    <3> QED
      BY <2>1, <3>1 DEF Less
  <2> QED
    BY <2>1, <2>2
<1> QED
  BY <1>3 DEF Min

(* The ids of finitely many rules are bounded *)
LEMMA IdsBounded ==
  ASSUME NEW len \in Nat, NEW id \in [1 .. len -> Nat]
  PROVE  \E u \in Nat : \A n \in 1 .. len : id[n] <= u
<1> DEFINE Bounded(m) == \E u \in Nat : \A n \in 1 .. m : id[n] <= u
           Unbounded == {m \in 0 .. len : ~Bounded(m)}
<1>0. CASE Unbounded = {}
  <2>1. len \in 0 .. len
    OBVIOUS
  <2>2. len \notin Unbounded
    BY <1>0
  <2> QED
    BY <2>1, <2>2
<1>1. SUFFICES ASSUME Unbounded # {} PROVE FALSE
  BY <1>0
<1>2. Unbounded \in SUBSET Nat
  OBVIOUS
<1> HIDE DEF Unbounded
<1>3. PICK m \in Unbounded : \A y \in Unbounded : m <= y
  BY <1>1, <1>2, LeastOf
<1> USE DEF Unbounded
<1>4. m # 0
  <2>1. Bounded(0)
    <3>1. 0 \in Nat /\ \A n \in 1 .. 0 : id[n] <= 0
      OBVIOUS
    <3> QED
      BY <3>1
  <2> QED
    BY <1>3, <2>1
<1>5. Bounded(m - 1)
  <2>1. m - 1 \in 0 .. len /\ ~(m <= m - 1)
    BY <1>3, <1>4
  <2> QED
    BY <1>3, <2>1
<1>6. PICK u \in Nat : \A n \in 1 .. m - 1 : id[n] <= u
  BY <1>5
<1>7. CASE u <= id[m]
  <2>1. \A n \in 1 .. m : id[n] <= id[m]
    BY <1>3, <1>4, <1>6, <1>7
  <2> QED
    BY <1>3, <1>4, <2>1
<1>8. CASE id[m] <= u
  <2>1. \A n \in 1 .. m : id[n] <= u
    BY <1>3, <1>4, <1>6, <1>8
  <2> QED
    BY <1>3, <2>1
<1> QED
  BY <1>3, <1>4, <1>7, <1>8

(* The greatest of a bounded set of naturals *)
LEMMA GreatestOf ==
  ASSUME NEW S \in SUBSET Nat, S # {}, NEW u \in Nat, \A y \in S : y <= u
  PROVE  Max(S) \in S /\ \A y \in S : y <= Max(S)
<1> DEFINE Bounds == {b \in Nat : \A y \in S : y <= b}
<1>1. Bounds # {} /\ Bounds \in SUBSET Nat
  OBVIOUS
<1>2. PICK b \in Bounds : \A c \in Bounds : b <= c
  BY <1>1, LeastOf
<1>3. b \in S
  <2>1. SUFFICES ASSUME b \notin S PROVE FALSE
    OBVIOUS
  <2>2. \A y \in S : y < b
    BY <2>1
  <2>3. b - 1 \in Nat /\ \A y \in S : y <= b - 1
    <3>1. PICK y \in S : y < b
      BY <2>2
    <3> QED
      BY <2>2, <3>1
  <2> QED
    BY <1>2, <2>3
<1> QED
  BY <1>3 DEF Max

LEMMA RemoveAtFacts ==
  ASSUME NEW T, NEW s \in Seq(T), NEW p \in 1 .. Len(s)
  PROVE  /\ RemoveAt(s, p) \in Seq(T)
         /\ Len(RemoveAt(s, p)) = Len(s) - 1
         /\ \A n \in 1 .. Len(s) - 1 : RemoveAt(s, p)[n] = IF n < p THEN s[n] ELSE s[n + 1]
<1> DEFINE a == SubSeq(s, 1, p - 1)
           b == SubSeq(s, p + 1, Len(s))
<1>1. /\ a \in Seq(T) /\ Len(a) = p - 1
      /\ \A n \in 1 .. p - 1 : a[n] = s[n]
  BY SubSeqProperties
<1>2. /\ b \in Seq(T) /\ Len(b) = Len(s) - p
      /\ \A n \in 1 .. Len(s) - p : b[n] = s[p + n]
  BY SubSeqProperties
<1> HIDE DEF a, b
<1>3. /\ a \o b \in Seq(T) /\ Len(a \o b) = Len(s) - 1
      /\ \A n \in 1 .. Len(s) - 1 : (a \o b)[n] = IF n < p THEN s[n] ELSE s[n + 1]
  <2>1. /\ a \o b \in Seq(T) /\ Len(a \o b) = Len(a) + Len(b)
        /\ \A n \in 1 .. Len(a) + Len(b) :
             (a \o b)[n] = IF n <= Len(a) THEN a[n] ELSE b[n - Len(a)]
    BY <1>1, <1>2, ConcatProperties
  <2> QED
    BY <1>1, <1>2, <2>1
<1> QED
  BY <1>3 DEF RemoveAt, a, b
-----------------------------------------------------------------------------
(* do_load                                                                 *)

LEMMA LimitIsLesser ==
  ASSUME NEW len \in Nat
  PROVE  /\ Min({len, MaxRules}) \in Nat
         /\ Min({len, MaxRules}) <= len /\ Min({len, MaxRules}) <= MaxRules
<1>1. {len, MaxRules} \in SUBSET Nat /\ {len, MaxRules} # {}
  BY ConfigAssumption
<1> QED
  BY <1>1, LeastOf

LEMMA PrefixFacts ==
  ASSUME NEW T, NEW s \in Seq(T), NEW n \in 0 .. Len(s)
  PROVE  /\ SubSeq(s, 1, n) \in Seq(T) /\ Len(SubSeq(s, 1, n)) = n
         /\ \A m \in 1 .. n : SubSeq(s, 1, n)[m] = s[m]
  BY SubSeqProperties

(* What is parsed are the first rules of the file *)
LEMMA ParsedFacts ==
  ASSUME NEW texts \in Seq(Text)
  PROVE  /\ Parsed(texts) \in Seq(Text)
         /\ Len(Parsed(texts)) <= Min({Len(texts), MaxRules})
         /\ \A n \in 1 .. Len(Parsed(texts)) : Parsed(texts)[n] = texts[n]
<1> DEFINE limit == Min({Len(texts), MaxRules})
           taken == SubSeq(texts, 1, limit)
           bad == {n \in DOMAIN taken : ~taken[n].ok}
<1>1. limit \in 0 .. Len(texts) /\ limit \in Nat
  BY LimitIsLesser
<1> SUFFICES /\ Parsed(texts) \in Seq(Text) /\ Len(Parsed(texts)) <= limit
             /\ \A n \in 1 .. Len(Parsed(texts)) : Parsed(texts)[n] = texts[n]
  OBVIOUS
<1> HIDE DEF limit
<1>2. /\ taken \in Seq(Text) /\ Len(taken) = limit
      /\ \A n \in 1 .. limit : taken[n] = texts[n]
  BY <1>1, PrefixFacts
<1> HIDE DEF taken
<1>3. Parsed(texts) = IF bad = {} THEN taken ELSE SubSeq(taken, 1, Min(bad) - 1)
  BY DEF Parsed, taken, limit
<1>4. CASE bad = {}
  <2>1. Parsed(texts) = taken
    BY <1>3, <1>4
  <2> QED
    BY <1>1, <1>2, <2>1
<1>5. CASE bad # {}
  <2>1. bad \in SUBSET Nat
    BY <1>2
  <2>2. Min(bad) \in bad
    BY <1>5, <2>1, LeastOf
  <2>3. Min(bad) - 1 \in 0 .. Len(taken)
    BY <1>2, <2>2
  <2> DEFINE m == Min(bad) - 1
  <2> HIDE DEF m
  <2>4. Parsed(texts) = SubSeq(taken, 1, m)
    BY <1>3, <1>5 DEF m
  <2>5. /\ SubSeq(taken, 1, m) \in Seq(Text) /\ Len(SubSeq(taken, 1, m)) = m
        /\ \A n \in 1 .. m : SubSeq(taken, 1, m)[n] = taken[n]
    BY <1>2, <2>3, PrefixFacts DEF m
  <2>6. m <= limit /\ m \in Nat
    BY <1>1, <1>2, <2>3 DEF m
  <2> QED
    BY <1>1, <1>2, <2>4, <2>5, <2>6
<1> QED
  BY <1>4, <1>5

(* How many rules before the n-th have no id *)
LEMMA AutosFacts ==
  ASSUME NEW texts \in Seq(Text), NEW n \in 0 .. Len(texts)
  PROVE  /\ Autos(texts, n) \in Nat
         /\ n > 0 /\ texts[n].id = 0 => Autos(texts, n) > 0
<1> DEFINE X == {x \in 1 .. n : texts[x].id = 0}
<1>1. IsFiniteSet(1 .. n) /\ Cardinality(1 .. n) = n
  BY FS_Interval
<1>2. IsFiniteSet(X)
  BY <1>1, FS_Subset
<1>3. Autos(texts, n) = Cardinality(X)
  BY DEF Autos
<1>4. Cardinality(X) \in Nat
  BY <1>2, FS_CardinalityType
<1>5. ASSUME n > 0, texts[n].id = 0 PROVE Cardinality(X) # 0
  <2>1. n \in X
    BY <1>5
  <2> QED
    BY <1>2, <2>1, FS_EmptySet
<1> HIDE DEF X
<1> QED
  BY <1>3, <1>4, <1>5

(* ... and one more with each that has none *)
LEMMA AutosGrow ==
  ASSUME NEW texts \in Seq(Text), NEW m \in 1 .. Len(texts), NEW n \in 1 .. Len(texts),
         m < n, texts[n].id = 0
  PROVE  Autos(texts, m) < Autos(texts, n)
<1> DEFINE X == {x \in 1 .. m : texts[x].id = 0}
           Y == {x \in 1 .. n : texts[x].id = 0}
<1>1. IsFiniteSet(1 .. m) /\ IsFiniteSet(1 .. n)
  BY FS_Interval
<1>2. IsFiniteSet(X) /\ IsFiniteSet(Y)
  BY <1>1, FS_Subset
<1>3. n \notin X /\ X \cup {n} \subseteq Y
  OBVIOUS
<1> HIDE DEF X, Y
<1>4. Cardinality(X \cup {n}) = Cardinality(X) + 1
  BY <1>2, <1>3, FS_AddElement
<1>5. Cardinality(X \cup {n}) <= Cardinality(Y)
  BY <1>2, <1>3, FS_Subset
<1>6. Cardinality(X) \in Nat /\ Cardinality(Y) \in Nat
  BY <1>2, FS_CardinalityType
<1>7. Cardinality(X) < Cardinality(Y)
  BY <1>4, <1>5, <1>6
<1> QED
  BY <1>7 DEF Autos, X, Y

Distinct(rules) == \A m, n \in DOMAIN rules : rules[m].id = rules[n].id => m = n

LEMMA WithIdsFacts ==
  ASSUME NEW texts \in Seq(Text), NEW auto \in Nat
  PROVE  LET rules == WithIds(texts, auto)
         IN /\ rules \in Seq(RuleOf) /\ Len(rules) = Len(texts)
            /\ \A n \in 1 .. Len(texts) :
                 /\ rules[n].rate = texts[n].rate
                 /\ rules[n].id # 0 /\ texts[n].id \in {0, rules[n].id}
            /\ \A m, n \in 1 .. Len(texts) :
                 texts[m].id = 0 /\ texts[n].id = 0 /\ rules[m].id = rules[n].id => m = n
            /\ (\A n \in DOMAIN texts : texts[n].id = 0) => Distinct(rules)
            /\ (\A m, n \in DOMAIN texts : texts[m].id = texts[n].id => m = n)
                 /\ (\A n \in DOMAIN texts : texts[n].id # 0) => Distinct(rules)
<1> DEFINE rules == WithIds(texts, auto)
           Id(n) == IF texts[n].id = 0 THEN auto + Autos(texts, n) ELSE texts[n].id
<1>1. /\ DOMAIN texts = 1 .. Len(texts) /\ Len(texts) \in Nat
      /\ \A n \in 1 .. Len(texts) :
           texts[n].id \in Nat /\ texts[n].rate \in Rates \cup {NoRate}
  <2>1. ASSUME NEW n \in 1 .. Len(texts)
        PROVE  texts[n].id \in Nat /\ texts[n].rate \in Rates \cup {NoRate}
    <3>1. texts[n] \in Text
      OBVIOUS
    <3> QED
      BY <3>1 DEF Text
  <2> QED
    BY <2>1
<1>2. rules = [n \in 1 .. Len(texts) |-> [id |-> Id(n), rate |-> texts[n].rate]]
  BY <1>1 DEF WithIds
<1>3. ASSUME NEW n \in 1 .. Len(texts) PROVE Id(n) \in Nat /\ Id(n) # 0
  <2>1. Autos(texts, n) \in Nat /\ (texts[n].id = 0 => Autos(texts, n) > 0)
    BY <1>1, AutosFacts
  <2> QED
    BY <1>1, <2>1
<1> HIDE DEF rules
<1>4. \A n \in 1 .. Len(texts) :
        rules[n] = [id |-> Id(n), rate |-> texts[n].rate] /\ rules[n].id = Id(n) /\ rules[n].rate = texts[n].rate
  BY <1>2
<1>5. rules \in Seq(RuleOf) /\ Len(rules) = Len(texts) /\ DOMAIN rules = 1 .. Len(texts)
  <2> HIDE DEF Id
  <2>1. ASSUME NEW n \in 1 .. Len(texts) PROVE rules[n] \in RuleOf
    <3>1. rules[n] = [id |-> Id(n), rate |-> texts[n].rate]
      BY <1>4
    <3>2. Id(n) \in Nat /\ texts[n].rate \in Rates \cup {NoRate}
      BY <1>1, <1>3
    <3> QED
      BY <3>1, <3>2 DEF RuleOf
  <2> QED
    BY <1>1, <1>2, <2>1
<1>6. ASSUME NEW m \in 1 .. Len(texts), NEW n \in 1 .. Len(texts),
             texts[m].id = 0, texts[n].id = 0, rules[m].id = rules[n].id
      PROVE  m = n
  <2>1. Autos(texts, m) \in Nat /\ Autos(texts, n) \in Nat
    BY <1>1, AutosFacts
  <2>2. auto + Autos(texts, m) = auto + Autos(texts, n)
    BY <1>4, <1>6
  <2>3. ~(m < n) /\ ~(n < m)
    BY <1>6, <2>1, <2>2, AutosGrow
  <2> QED
    BY <1>1, <2>3
<1>9. (\A n \in DOMAIN texts : texts[n].id = 0) => Distinct(rules)
  BY <1>1, <1>5, <1>6 DEF Distinct
<1>7. ASSUME \A m, n \in DOMAIN texts : texts[m].id = texts[n].id => m = n,
             \A n \in DOMAIN texts : texts[n].id # 0
      PROVE  Distinct(rules)
  BY <1>1, <1>4, <1>5, <1>7 DEF Distinct
<1>8. \A n \in 1 .. Len(texts) :
        rules[n].rate = texts[n].rate /\ rules[n].id # 0 /\ texts[n].id \in {0, rules[n].id}
  BY <1>3, <1>4
<1> QED
  BY <1>5, <1>6, <1>7, <1>8, <1>9 DEF rules

(* The rules are those of the file, as many as there is room for *)
OfFile(rules, file) ==
  /\ Len(rules) = Min({Len(file.rules), MaxRules})
  /\ \A n \in DOMAIN rules :
       /\ rules[n].rate = file.rules[n].rate
       /\ rules[n].id # 0 /\ file.rules[n].id \in {0, rules[n].id}
  /\ IdsOfOneKind(file) => Distinct(rules)
  /\ \A m, n \in DOMAIN rules :
       m # n /\ rules[m].id = rules[n].id => rules[m].id \in Chosen(file)

PolicyOf(file) == IF file.policy = Absent THEN "drop" ELSE file.policy

LEMMA FileTypes ==
  ASSUME NEW file \in Files
  PROVE  /\ file.rules \in Seq(Text) /\ file.policy \in Policies \cup {Absent, Bad}
         /\ file.ddos \in DdosSections
  BY ConfigAssumption DEF DdosSections

(* What any file leaves in the structure has its type, and what an         *)
(* accepted one leaves is what the file says                               *)
LEMMA LoadFacts ==
  ASSUME NEW file \in Files, NEW cfg \in Structures, Len(cfg.rules) <= MaxRules,
         NEW auto \in Nat, NEW new, new = DoLoad(file, cfg, auto)
  PROVE  /\ new.cfg \in Structures /\ Len(new.cfg.rules) <= MaxRules
         /\ new.auto \in Nat
         /\ new.ok => new.cfg.policy = PolicyOf(file) /\ OfFile(new.cfg.rules, file)
<1> DEFINE texts == Parsed(file.rules)
           rules == WithIds(texts, auto)
           policy == PolicyRead(file, cfg)
           ddos == DdosRead(file, cfg)
           limit == Min({Len(file.rules), MaxRules})
<1>1. CASE ~(file.json /\ file.mode /\ file.wan) \/ file.policy = Bad
  <2>1. new = [ok |-> FALSE, cfg |-> cfg, auto |-> auto]
    BY <1>1 DEF DoLoad
  <2> QED
    BY <2>1
<1>2. CASE ~(~(file.json /\ file.mode /\ file.wan) \/ file.policy = Bad)
  <2>1. /\ cfg = [policy |-> cfg.policy, ddos |-> cfg.ddos, rules |-> cfg.rules]
        /\ cfg.policy \in Policies /\ cfg.ddos \in DdosSections
    BY DEF Structures
  <2>2. new = [ok |-> AllParsed(file.rules),
               cfg |-> [policy |-> policy, ddos |-> ddos, rules |-> rules],
               auto |-> auto + Autos(texts, Len(texts))]
    BY <1>2, <2>1 DEF DoLoad
  <2>3. policy \in Policies /\ policy = PolicyOf(file) /\ ddos \in DdosSections
    BY <1>2, <2>1, FileTypes DEF PolicyRead, PolicyOf, DdosRead, Policies
  <2>4. /\ texts \in Seq(Text) /\ Len(texts) <= limit
        /\ \A n \in 1 .. Len(texts) : texts[n] = file.rules[n]
    BY FileTypes, ParsedFacts
  <2>5. limit \in Nat /\ limit <= Len(file.rules) /\ limit <= MaxRules /\ MaxRules \in Nat
    BY FileTypes, LimitIsLesser, ConfigAssumption
  <2>6. /\ rules \in Seq(RuleOf) /\ Len(rules) = Len(texts)
        /\ \A n \in 1 .. Len(texts) :
             /\ rules[n].rate = texts[n].rate
             /\ rules[n].id # 0 /\ texts[n].id \in {0, rules[n].id}
        /\ \A m, n \in 1 .. Len(texts) :
             texts[m].id = 0 /\ texts[n].id = 0 /\ rules[m].id = rules[n].id => m = n
        /\ (\A n \in DOMAIN texts : texts[n].id = 0) => Distinct(rules)
        /\ (\A m, n \in DOMAIN texts : texts[m].id = texts[n].id => m = n)
             /\ (\A n \in DOMAIN texts : texts[n].id # 0) => Distinct(rules)
    BY <2>4, WithIdsFacts
  <2>7. Autos(texts, Len(texts)) \in Nat
    BY <2>4, AutosFacts
  <2>8. AllParsed(file.rules) => Len(texts) >= limit
    BY DEF AllParsed
  <2> HIDE DEF texts, rules, policy, ddos, limit
  <2>9. /\ new.ok = AllParsed(file.rules)
        /\ new.cfg.policy = policy /\ new.cfg.rules = rules
        /\ new.cfg = [policy |-> policy, ddos |-> ddos, rules |-> rules]
        /\ new.auto = auto + Autos(texts, Len(texts))
    BY <2>2
  <2>10. new.cfg \in Structures /\ Len(new.cfg.rules) <= MaxRules /\ new.auto \in Nat
    <3>1. new.cfg \in Structures
      BY <2>3, <2>6, <2>9 DEF Structures
    <3>2. Len(new.cfg.rules) <= MaxRules
      BY <2>4, <2>5, <2>6, <2>9
    <3> QED
      BY <2>7, <2>9, <3>1, <3>2
  <2>11. ASSUME new.ok PROVE OfFile(rules, file)
    <3>1. /\ Len(texts) = limit /\ Len(rules) = limit
          /\ DOMAIN rules = 1 .. limit /\ DOMAIN texts = 1 .. limit
      BY <2>4, <2>5, <2>6, <2>8, <2>9, <2>11
    <3>2. 1 .. limit \subseteq DOMAIN file.rules
      BY <2>5, FileTypes
    <3>3. \A n \in DOMAIN rules :
            /\ rules[n].rate = file.rules[n].rate
            /\ rules[n].id # 0 /\ file.rules[n].id \in {0, rules[n].id}
      BY <2>4, <2>6, <3>1
    <3>4. ASSUME IdsOfOneKind(file) PROVE Distinct(rules)
      <4> DEFINE ids == [n \in DOMAIN file.rules |-> file.rules[n].id]
      <4>1. (\A n \in DOMAIN ids : ids[n] = 0) \/ (IsInjective(ids) /\ 0 \notin Range(ids))
        BY <3>4 DEF IdsOfOneKind
      <4>2. \A n \in 1 .. limit : n \in DOMAIN ids /\ ids[n] = texts[n].id
        BY <2>4, <3>1, <3>2
      <4> HIDE DEF ids
      <4>3. CASE \A n \in DOMAIN ids : ids[n] = 0
        BY <2>6, <3>1, <4>2, <4>3
      <4>4. CASE IsInjective(ids) /\ 0 \notin Range(ids)
        <5>1. \A n \in DOMAIN ids : ids[n] # 0
          BY <4>4 DEF Range
        <5>2. \A m, n \in DOMAIN ids : ids[m] = ids[n] => m = n
          BY <4>4 DEF IsInjective
        <5> QED
          BY <2>6, <3>1, <4>2, <5>1, <5>2
      <4> QED
        BY <4>1, <4>3, <4>4
    <3>5. ASSUME NEW m \in DOMAIN rules, NEW n \in DOMAIN rules, m # n, rules[m].id = rules[n].id
          PROVE  rules[m].id \in Chosen(file)
      <4>1. PICK x \in {m, n} : texts[x].id # 0
        BY <2>6, <3>1, <3>5
      <4>2. x \in 1 .. limit /\ x \in DOMAIN file.rules /\ texts[x] = file.rules[x]
        BY <2>4, <3>1, <3>2
      <4>3. file.rules[x].id # 0 /\ rules[m].id = file.rules[x].id
        BY <2>6, <3>1, <3>5, <4>1, <4>2
      <4> QED
        BY <4>2, <4>3 DEF Chosen
    <3> QED
      BY <3>1, <3>3, <3>4, <3>5 DEF OfFile, limit
  <2> QED
    BY <2>3, <2>9, <2>10, <2>11
<1> QED
  BY <1>1, <1>2
-----------------------------------------------------------------------------
(* The configuration: its actions                                          *)

LEMMA NextIdFacts ==
  ASSUME NEW rules \in Seq(RuleOf), NEW next \in Nat
  PROVE  LET new == NextIdAbove(next, rules)
         IN new \in Nat /\ next <= new /\ \A n \in DOMAIN rules : rules[n].id <= new
<1> DEFINE id == [n \in 1 .. Len(rules) |-> rules[n].id]
           S == {next} \cup {rules[n].id : n \in DOMAIN rules}
<1>1. \A n \in 1 .. Len(rules) : rules[n].id \in Nat
  <2>1. ASSUME NEW n \in 1 .. Len(rules) PROVE rules[n] \in RuleOf
    OBVIOUS
  <2> QED
    BY <2>1 DEF RuleOf
<1>2. Len(rules) \in Nat /\ DOMAIN rules = 1 .. Len(rules) /\ id \in [1 .. Len(rules) -> Nat]
  BY <1>1
<1>3. PICK u \in Nat : \A n \in 1 .. Len(rules) : id[n] <= u
  BY <1>2, IdsBounded
<1>4. S \in SUBSET Nat /\ S # {}
  BY <1>1, <1>2
<1>5. PICK b \in Nat : \A y \in S : y <= b
  <2> DEFINE b == IF u <= next THEN next ELSE u
  <2>1. b \in Nat /\ next <= b /\ \A n \in 1 .. Len(rules) : rules[n].id <= b
    BY <1>1, <1>2, <1>3
  <2> HIDE DEF b
  <2>2. \A y \in S : y <= b
    BY <1>2, <2>1
  <2> QED
    BY <2>1, <2>2
<1>6. Max(S) \in S /\ \A y \in S : y <= Max(S)
  <2> HIDE DEF S
  <2> QED
    BY <1>4, <1>5, GreatestOf
<1> QED
  BY <1>4, <1>6 DEF NextIdAbove

(* The rules of a table keep their types and, the ones below g_next_id,    *)
(* their ids to themselves                                                 *)
LEMMA RulesFacts ==
  ASSUME ConfigTypeOK
  PROVE  /\ g_rules \in Seq(RuleOf) /\ Len(g_rules) \in Nat /\ DOMAIN g_rules = 1 .. Len(g_rules)
         /\ Len(g_rules) <= MaxRules /\ MaxRules \in Nat /\ g_next_id \in Nat
         /\ \A n \in 1 .. Len(g_rules) :
              /\ g_rules[n] \in RuleOf /\ g_rules[n].id \in Nat
              /\ g_rules[n].rate \in Rates \cup {NoRate}
<1>1. g_rules \in Seq(RuleOf) /\ Len(g_rules) <= MaxRules /\ MaxRules \in Nat /\ g_next_id \in Nat
  BY ConfigAssumption DEF ConfigTypeOK
<1>2. ASSUME NEW n \in 1 .. Len(g_rules)
      PROVE  /\ g_rules[n] \in RuleOf /\ g_rules[n].id \in Nat
             /\ g_rules[n].rate \in Rates \cup {NoRate}
  <2>1. g_rules[n] \in RuleOf
    BY <1>1
  <2> QED
    BY <2>1 DEF RuleOf
<1> QED
  BY <1>1, <1>2

LEMMA NoRules == << >> \in Seq(RuleOf) /\ Len(<< >>) = 0 /\ MaxRules >= 0
  BY ConfigAssumption

LEMMA ConfigStart == ConfigInit => ConfigInv
<1> SUFFICES ASSUME ConfigInit PROVE ConfigInv
  OBVIOUS
<1>1. ZeroConfig \in Structures /\ Len(ZeroConfig.rules) = 0
  BY DEF ZeroConfig, Structures, Policies, DdosSections
<1>2. ConfigTypeOK
  <2>1. /\ g_fw_config \in Structures /\ new_cfg \in Structures
        /\ Len(g_fw_config.rules) <= MaxRules /\ Len(new_cfg.rules) <= MaxRules
    BY <1>1, ConfigAssumption DEF ConfigInit
  <2>2. /\ g_rules \in Seq(RuleOf) /\ Len(g_rules) <= MaxRules
        /\ s_auto_id \in Nat /\ g_next_id \in Nat
        /\ edited \in BOOLEAN /\ policySet \in BOOLEAN
    BY NoRules DEF ConfigInit
  <2>3. /\ g_default_policy \in Policies /\ loaded \in Files \cup {NoFile}
        /\ g_ddos_cfg \in DdosSections
    BY DEF ConfigInit, Policies, DdosSections
  <2> QED
    BY <2>1, <2>2, <2>3 DEF ConfigTypeOK
<1> QED
  BY <1>2 DEF ConfigInit, ConfigInv, InForceIsTheFile, IdsAreUsable, IdsUpToNext

(* An accepted file is taken over *)
LEMMA TakeOverKeeps ==
  ASSUME ConfigInv, NEW file \in Files, NEW cfg \in Structures, Len(cfg.rules) <= MaxRules,
         cfg.policy = PolicyOf(file), OfFile(cfg.rules, file), TakeOver(cfg, file),
         new_cfg' \in Structures, Len(new_cfg'.rules) <= MaxRules, s_auto_id' \in Nat,
         g_ddos_cfg' \in DdosSections
  PROVE  ConfigInv' /\ loaded' # NoFile
<1>1. cfg.policy \in Policies /\ cfg.rules \in Seq(RuleOf) /\ g_next_id \in Nat
  BY DEF Structures, ConfigInv, ConfigTypeOK
<1>2. g_next_id' \in Nat /\ \A n \in DOMAIN g_rules' : g_rules'[n].id <= g_next_id'
  BY <1>1, NextIdFacts DEF TakeOver
<1>3. ConfigTypeOK'
  BY <1>1, <1>2 DEF ConfigTypeOK, TakeOver
<1>4. loaded' # NoFile
  BY ConfigAssumption DEF TakeOver
<1>5. InForceIsTheFile'
  BY DEF InForceIsTheFile, TakeOver, OfFile, PolicyOf
<1>6. IdsAreUsable'
  BY DEF IdsAreUsable, TakeOver, OfFile, Distinct
<1> QED
  BY <1>2, <1>3, <1>4, <1>5, <1>6 DEF ConfigInv, IdsUpToNext

LEMMA StructuresTyped ==
  ASSUME ConfigInv
  PROVE  /\ g_fw_config \in Structures /\ Len(g_fw_config.rules) <= MaxRules
         /\ new_cfg \in Structures /\ Len(new_cfg.rules) <= MaxRules
         /\ s_auto_id \in Nat /\ g_ddos_cfg \in DdosSections
  BY DEF ConfigInv, ConfigTypeOK

LEMMA LoadKeeps ==
  ASSUME ConfigInv, NEW file \in Files, Load(file) \/ Reload(file)
  PROVE  ConfigInv' /\ loaded' # NoFile
<1>1. CASE Load(file)
  <2> DEFINE new == DoLoad(file, g_fw_config, s_auto_id)
  <2>1. /\ new.ok /\ s_auto_id' = new.auto /\ TakeOver(new.cfg, file)
        /\ g_ddos_cfg' = new.cfg.ddos /\ new_cfg' = new_cfg
    BY <1>1 DEF Load
  <2>2. /\ new.cfg \in Structures /\ Len(new.cfg.rules) <= MaxRules /\ new.auto \in Nat
        /\ new.ok => new.cfg.policy = PolicyOf(file) /\ OfFile(new.cfg.rules, file)
    BY StructuresTyped, LoadFacts
  <2> HIDE DEF new
  <2>3. new.cfg.ddos \in DdosSections
    BY <2>2 DEF Structures
  <2> QED
    BY <2>1, <2>2, <2>3, StructuresTyped, TakeOverKeeps
<1>2. CASE Reload(file)
  <2> DEFINE new == DoLoad(file, new_cfg, s_auto_id)
  <2>1. /\ new.ok /\ s_auto_id' = new.auto /\ TakeOver(new.cfg, file)
        /\ g_ddos_cfg' = g_ddos_cfg /\ new_cfg' = new.cfg
    BY <1>2 DEF Reload
  <2>2. /\ new.cfg \in Structures /\ Len(new.cfg.rules) <= MaxRules /\ new.auto \in Nat
        /\ new.ok => new.cfg.policy = PolicyOf(file) /\ OfFile(new.cfg.rules, file)
    BY StructuresTyped, LoadFacts
  <2> HIDE DEF new
  <2> QED
    BY <2>1, <2>2, StructuresTyped, TakeOverKeeps
<1> QED
  BY <1>1, <1>2

LEMMA RefusedKeeps ==
  ASSUME ConfigInv, NEW file \in Files, RefusedReload(file)
  PROVE  ConfigInv'
<1> DEFINE new == DoLoad(file, new_cfg, s_auto_id)
<1>1. /\ s_auto_id' = new.auto /\ new_cfg' = new.cfg
      /\ UNCHANGED <<g_fw_config, g_default_policy, g_rules, g_next_id, g_ddos_cfg, loaded, edited, policySet>>
  BY DEF RefusedReload
<1>2. new.cfg \in Structures /\ Len(new.cfg.rules) <= MaxRules /\ new.auto \in Nat
  BY StructuresTyped, LoadFacts
<1> HIDE DEF new
<1>3. ConfigTypeOK'
  BY <1>1, <1>2 DEF ConfigInv, ConfigTypeOK
<1> QED
  BY <1>1, <1>3 DEF ConfigInv, InForceIsTheFile, IdsAreUsable, IdsUpToNext

(* What the commands do to the rules: those that are left were there, a    *)
(* new one has an id above all there ever were, and if two have one id two *)
(* had it before                                                           *)
RulesEdited ==
  /\ edited' /\ g_next_id <= g_next_id'
  /\ UNCHANGED <<loaded, g_default_policy, policySet>>
  /\ \A n \in DOMAIN g_rules' :
       \/ \E m \in DOMAIN g_rules : g_rules'[n] = g_rules[m]
       \/ g_rules'[n].id > g_next_id /\ g_rules'[n].id <= g_next_id'
  /\ \A m, n \in DOMAIN g_rules' :
       m # n /\ g_rules'[m].id = g_rules'[n].id =>
         \E x, y \in DOMAIN g_rules :
           x # y /\ g_rules[x].id = g_rules'[m].id /\ g_rules[y].id = g_rules'[m].id

LEMMA EditedKeeps ==
  ASSUME ConfigInv, RulesEdited, ConfigTypeOK'
  PROVE  ConfigInv'
<1>0. g_next_id \in Nat /\ g_next_id' \in Nat /\ g_next_id <= g_next_id'
  BY DEF ConfigInv, ConfigTypeOK, RulesEdited
<1>1. ASSUME NEW n \in DOMAIN g_rules'
      PROVE  g_rules'[n].id <= g_next_id' /\ (loaded # NoFile => g_rules'[n].id # 0)
  <2>1. CASE g_rules'[n].id > g_next_id /\ g_rules'[n].id <= g_next_id'
    BY <1>0, <2>1
  <2>2. ASSUME NEW m \in DOMAIN g_rules, g_rules'[n] = g_rules[m]
        PROVE  g_rules'[n].id <= g_next_id' /\ (loaded # NoFile => g_rules'[n].id # 0)
    <3>1. g_rules[m].id \in Nat /\ g_rules[m].id <= g_next_id
      BY RulesFacts DEF ConfigInv, IdsUpToNext
    <3> QED
      BY <1>0, <2>2, <3>1 DEF ConfigInv, IdsAreUsable
  <2> QED
    BY <2>1, <2>2 DEF RulesEdited
<1>2. IdsUpToNext'
  BY <1>1 DEF IdsUpToNext
<1>3. IdsAreUsable'
  BY <1>1 DEF ConfigInv, RulesEdited, IdsAreUsable
<1>4. InForceIsTheFile'
  BY DEF ConfigInv, RulesEdited, InForceIsTheFile
<1> QED
  BY <1>2, <1>3, <1>4 DEF ConfigInv

LEMMA SetRulesTypes ==
  ASSUME ConfigTypeOK, NEW rules \in Seq(RuleOf), Len(rules) <= MaxRules,
         g_next_id' \in Nat, SetRules(rules)
  PROVE  ConfigTypeOK'
  BY DEF ConfigTypeOK, SetRules

LEMMA AddEdits ==
  ASSUME ConfigInv, NEW rate \in Rates \cup {NoRate}, RuleAdd(rate)
  PROVE  RulesEdited /\ ConfigTypeOK'
<1> DEFINE new == [id |-> g_next_id + 1, rate |-> rate]
           rules == Append(g_rules, new)
<1>1. ConfigTypeOK
  BY DEF ConfigInv
<1>2. /\ g_next_id' = g_next_id + 1 /\ SetRules(rules) /\ Len(g_rules) < MaxRules
  BY DEF RuleAdd
<1>3. new \in RuleOf
  BY <1>1, RulesFacts DEF RuleOf
<1>4. /\ rules \in Seq(RuleOf) /\ Len(rules) = Len(g_rules) + 1
      /\ \A n \in 1 .. Len(g_rules) : rules[n] = g_rules[n]
      /\ rules[Len(g_rules) + 1] = new /\ new.id = g_next_id + 1
  BY <1>1, <1>3, RulesFacts
<1> HIDE DEF rules, new
<1>5. DOMAIN rules = 1 .. Len(g_rules) + 1
  BY <1>1, <1>4, RulesFacts
<1>6. ConfigTypeOK'
  BY <1>1, <1>2, <1>4, RulesFacts, SetRulesTypes
<1>7. \A n \in DOMAIN g_rules : g_rules[n].id <= g_next_id /\ g_rules[n].id \in Nat
  BY <1>1, RulesFacts DEF ConfigInv, IdsUpToNext
<1>8. \A n \in DOMAIN rules :
        \/ n \in DOMAIN g_rules /\ rules[n] = g_rules[n]
        \/ n = Len(g_rules) + 1 /\ rules[n].id = g_next_id + 1
  <2>1. Len(g_rules) \in Nat /\ DOMAIN g_rules = 1 .. Len(g_rules)
    BY <1>1, RulesFacts
  <2>2. \A n \in 1 .. Len(g_rules) + 1 : n \in 1 .. Len(g_rules) \/ n = Len(g_rules) + 1
    BY <2>1
  <2>3. rules[Len(g_rules) + 1].id = g_next_id + 1
    BY <1>4
  <2>4. ASSUME NEW n \in DOMAIN rules, n \notin 1 .. Len(g_rules) PROVE n = Len(g_rules) + 1
    BY <1>5, <2>2, <2>4
  <2> QED
    BY <1>4, <2>1, <2>3, <2>4
<1>9. ASSUME NEW m \in DOMAIN rules, NEW n \in DOMAIN rules, m # n, rules[m].id = rules[n].id
      PROVE  \E x, y \in DOMAIN g_rules :
               x # y /\ g_rules[x].id = rules[m].id /\ g_rules[y].id = rules[m].id
  <2>1. g_next_id \in Nat
    BY <1>1, RulesFacts
  <2>2. m \in DOMAIN g_rules /\ rules[m] = g_rules[m] /\ n \in DOMAIN g_rules /\ rules[n] = g_rules[n]
    BY <1>7, <1>8, <1>9, <2>1
  <2> QED
    BY <1>9, <2>2
<1>10. g_next_id \in Nat /\ g_rules' = rules
  BY <1>1, <1>2, RulesFacts DEF SetRules
<1>11. \A n \in DOMAIN g_rules' :
         \/ \E m \in DOMAIN g_rules : g_rules'[n] = g_rules[m]
         \/ g_rules'[n].id > g_next_id /\ g_rules'[n].id <= g_next_id'
  BY <1>2, <1>8, <1>10
<1> QED
  BY <1>2, <1>6, <1>9, <1>10, <1>11 DEF RulesEdited, SetRules

LEMMA DelEdits ==
  ASSUME ConfigInv, NEW id, RuleDel(id)
  PROVE  RulesEdited /\ ConfigTypeOK'
<1> DEFINE found == {n \in DOMAIN g_rules : g_rules[n].id = id}
           first == Min(found)
           rules == RemoveAt(g_rules, first)
<1>1. ConfigTypeOK
  BY DEF ConfigInv
<1>2. SetRules(rules) /\ g_next_id' = g_next_id /\ found # {}
  BY DEF RuleDel
<1>3. found \in SUBSET Nat
  BY <1>1, RulesFacts
<1>4. first \in found
  <2> HIDE DEF found
  <2> QED
    BY <1>2, <1>3, LeastOf
<1>5. first \in 1 .. Len(g_rules)
  BY <1>1, <1>4, RulesFacts
<1> HIDE DEF first
<1>6. /\ rules \in Seq(RuleOf) /\ Len(rules) = Len(g_rules) - 1
      /\ \A n \in 1 .. Len(g_rules) - 1 : rules[n] = IF n < first THEN g_rules[n] ELSE g_rules[n + 1]
  BY <1>1, <1>5, RulesFacts, RemoveAtFacts
<1> DEFINE was(n) == IF n < first THEN n ELSE n + 1
<1> HIDE DEF rules
<1>7. /\ DOMAIN rules = 1 .. Len(g_rules) - 1
      /\ \A n \in DOMAIN rules : was(n) \in DOMAIN g_rules /\ rules[n] = g_rules[was(n)]
  BY <1>1, <1>5, <1>6, RulesFacts
<1>8. ConfigTypeOK'
  BY <1>1, <1>2, <1>6, RulesFacts, SetRulesTypes
<1>9. \A m, n \in DOMAIN rules : was(m) = was(n) => m = n
  BY <1>1, <1>5, <1>7, RulesFacts
<1>10. g_next_id \in Nat /\ g_rules' = rules
  BY <1>1, <1>2, RulesFacts DEF SetRules
<1> HIDE DEF was
<1>11. ASSUME NEW m \in DOMAIN rules, NEW n \in DOMAIN rules, m # n, rules[m].id = rules[n].id
       PROVE  \E x, y \in DOMAIN g_rules :
                x # y /\ g_rules[x].id = rules[m].id /\ g_rules[y].id = rules[m].id
  BY <1>7, <1>9, <1>11
<1> QED
  BY <1>2, <1>7, <1>8, <1>10, <1>11 DEF RulesEdited, SetRules

LEMMA FlushEdits ==
  ASSUME ConfigInv, RuleFlush
  PROVE  RulesEdited /\ ConfigTypeOK'
<1>1. ConfigTypeOK
  BY DEF ConfigInv
<1>2. SetRules(<< >>) /\ g_next_id' = g_next_id
  BY DEF RuleFlush
<1>3. ConfigTypeOK'
  BY <1>1, <1>2, NoRules, RulesFacts, SetRulesTypes
<1> QED
  BY <1>1, <1>2, <1>3, RulesFacts DEF RulesEdited, SetRules

LEMMA SetPolicyKeeps ==
  ASSUME ConfigInv, NEW action \in {"accept", "drop"}, SetDefaultPolicy(action)
  PROVE  ConfigInv'
<1>1. ConfigTypeOK'
  BY DEF ConfigInv, ConfigTypeOK, SetDefaultPolicy, Policies
<1> QED
  BY <1>1 DEF ConfigInv, SetDefaultPolicy, InForceIsTheFile, IdsAreUsable, IdsUpToNext
-----------------------------------------------------------------------------
(* rte_meter: what a refill and a charge do to the tokens                  *)

(* The unsigned difference of two times *)
LEMMA Elapsed ==
  ASSUME NEW t \in Times, NEW u \in Times
  PROVE  /\ (t - u) % TimeMod \in Nat
         /\ u <= t => (t - u) % TimeMod = t - u
<1>1. /\ TimeMod \in Nat \ {0} /\ MaxTime \in Nat /\ MaxTime < TimeMod
      /\ t \in Nat /\ u \in Nat /\ t <= MaxTime
  BY MetersAssumption DEF Times
<1>2. (t - u) % TimeMod \in 0 .. TimeMod - 1
  BY <1>1
<1>3. ASSUME u <= t PROVE (t - u) % TimeMod = t - u
  <2>1. t - u \in 0 .. TimeMod - 1
    BY <1>1, <1>3
  <2> QED
    BY <1>1, <2>1
<1> QED
  BY <1>2, <1>3

LEMMA ProductIsNat ==
  ASSUME NEW a \in Nat, NEW b \in Nat
  PROVE  a * b \in Nat
  OBVIOUS

LEMMA ProductOfSum ==
  ASSUME NEW a \in Nat, NEW b \in Nat, NEW c \in Nat
  PROVE  /\ a * (b + c) = a * b + a * c
         /\ a * b \in Nat /\ a * c \in Nat /\ a * (b + c) \in Nat
  OBVIOUS

LEMMA RefillFacts ==
  ASSUME NEW b \in Buckets, NEW p \in Profiles, NEW t \in Times
  PROVE  LET r == Refilled(b, p, t)
         IN /\ r \in Buckets /\ r.time = t
            /\ b.time <= t => /\ r.tc + r.te <= b.tc + b.te + p.cir * (t - b.time)
                              /\ r.tc = p.cbs \/ b.tc <= r.tc
<1>1. /\ b.time \in Times /\ b.tc \in Nat /\ b.te \in Nat
      /\ p.cir \in Nat /\ p.cbs \in Nat /\ p.ebs \in Nat
  BY DEF Buckets, Profiles
<1> DEFINE d == (t - b.time) % TimeMod
           gain == p.cir * d
           tokens == b.tc + gain
           tc == Least(tokens, p.cbs)
           te == IF tokens > p.cbs THEN Least(b.te + tokens - p.cbs, p.ebs) ELSE b.te
<1>2. d \in Nat /\ (b.time <= t => d = t - b.time)
  BY <1>1, Elapsed
<1>3. gain \in Nat
  <2> HIDE DEF d
  <2> QED
    BY <1>1, <1>2, ProductIsNat
<1>4. b.time <= t => gain = p.cir * (t - b.time)
  BY <1>2
<1>5. Refilled(b, p, t) = [time |-> t, tc |-> tc, te |-> te]
  BY DEF Refilled
<1> HIDE DEF gain
<1>6. /\ tc \in Nat /\ te \in Nat
      /\ tc + te <= b.tc + b.te + gain
      /\ tc = p.cbs \/ b.tc <= tc
  BY <1>1, <1>3 DEF Least
<1> HIDE DEF tc, te
<1>7. Refilled(b, p, t) \in Buckets
  BY <1>5, <1>6 DEF Buckets
<1> QED
  BY <1>4, <1>5, <1>6, <1>7

LEMMA ChargeFacts ==
  ASSUME NEW b \in Buckets
  PROVE  LET a == Taken(b)
         IN /\ a \in Buckets /\ a.time = b.time
            /\ Dropped(Color(b)) => a = b /\ b.tc < Length
            /\ ~Dropped(Color(b)) => a.tc + a.te = b.tc + b.te - Length
            /\ ~Dropped(Color(b)) => b.tc <= a.tc + Length
            /\ a.tc <= b.tc
<1>1. /\ b.time \in Times /\ b.tc \in Nat /\ b.te \in Nat /\ Length \in Nat
      /\ b = [time |-> b.time, tc |-> b.tc, te |-> b.te]
  BY MetersAssumption DEF Buckets
<1>2. CASE b.tc >= Length
  <2>1. Color(b) = "green" /\ Taken(b) = [b EXCEPT !.tc = @ - Length]
    BY <1>2 DEF Color, Taken, Charged
  <2>2. Taken(b) = [time |-> b.time, tc |-> b.tc - Length, te |-> b.te]
    BY <1>1, <2>1
  <2>3. b.tc - Length \in Nat
    BY <1>1, <1>2
  <2> QED
    BY <1>1, <2>1, <2>2, <2>3 DEF Dropped, Buckets
<1>3. CASE ~(b.tc >= Length) /\ b.te >= Length
  <2>1. Color(b) = "yellow" /\ Taken(b) = [b EXCEPT !.te = @ - Length]
    BY <1>3 DEF Color, Taken, Charged
  <2>2. Taken(b) = [time |-> b.time, tc |-> b.tc, te |-> b.te - Length]
    BY <1>1, <2>1
  <2>3. b.te - Length \in Nat
    BY <1>1, <1>3
  <2> QED
    BY <1>1, <2>1, <2>2, <2>3 DEF Dropped, Buckets
<1>4. CASE ~(b.tc >= Length) /\ ~(b.te >= Length)
  <2>1. Color(b) = "red" /\ Taken(b) = b
    BY <1>4 DEF Color, Taken, Charged
  <2> QED
    BY <1>1, <1>4, <2>1 DEF Dropped
<1> QED
  BY <1>2, <1>3, <1>4
-----------------------------------------------------------------------------
(* The configuration stays as it should whatever meters and cores do       *)

ConfigAction ==
  \/ \E file \in Files : Boot(file) \/ Reloaded(file) \/ \E sighup \in BOOLEAN : Refused(file, sighup)
  \/ Command

LEMMA OthersKeepConfig ==
  ASSUME [Next]_vars, ~ConfigAction
  PROVE  UNCHANGED configVars
<1>1. CASE ClearValid \/ SkipRule \/ SetProfile \/ SetBucket \/ SetValid \/ MetersReady
  BY <1>1 DEF ClearValid, SkipRule, SetProfile, SetBucket, SetValid, MetersReady
<1>2. ASSUME NEW k \in Lcores, CoreStep(k) PROVE UNCHANGED configVars
  BY <1>2 DEF CoreStep, Burst, Match, NoMeter, HasMeter, ReadBucket, StoreBucket, controlVars
<1>3. CASE Tick \/ UNCHANGED vars
  BY <1>3 DEF Tick, vars
<1> QED
  BY <1>1, <1>2, <1>3 DEF Next, ControlStep, ConfigAction

LEMMA ConfigKept ==
  ASSUME ConfigInv, UNCHANGED configVars
  PROVE  ConfigInv'
  BY DEF ConfigInv, ConfigTypeOK, InForceIsTheFile, IdsAreUsable, IdsUpToNext, configVars

LEMMA CommandEdits ==
  ASSUME ConfigInv, Command
  PROVE  \/ RulesEdited /\ ConfigTypeOK'
         \/ \E action \in {"accept", "drop"} : SetDefaultPolicy(action)
<1>1. CASE \E rate \in Rates \cup {NoRate} : RuleAdd(rate)
  BY <1>1, AddEdits
<1>2. CASE \E n \in DOMAIN g_rules : RuleDel(g_rules[n].id)
  BY <1>2, DelEdits
<1>3. CASE RuleFlush
  BY <1>3, FlushEdits
<1> QED
  BY <1>1, <1>2, <1>3 DEF Command

LEMMA ConfigNext ==
  ASSUME ConfigInv, [Next]_vars
  PROVE  ConfigInv'
<1>1. ASSUME NEW file \in Files, Boot(file) \/ Reloaded(file) PROVE ConfigInv'
  BY <1>1, LoadKeeps DEF Boot, Reloaded
<1>2. ASSUME NEW file \in Files, NEW sighup \in BOOLEAN, Refused(file, sighup) PROVE ConfigInv'
  BY <1>2, RefusedKeeps DEF Refused
<1>3. CASE Command
  BY <1>3, CommandEdits, EditedKeeps, SetPolicyKeeps
<1>4. CASE ~ConfigAction
  BY <1>4, OthersKeepConfig, ConfigKept
<1> QED
  BY <1>1, <1>2, <1>3, <1>4 DEF ConfigAction

(* The policy and the rules in force are those of the last file that was   *)
(* accepted until a command changes them, for any files and any sequence   *)
(* of loads, refusals and commands                                         *)
THEOREM InForceCorrect == Spec => []InForceIsTheFile
<1>1. Init => ConfigInv
  BY ConfigStart DEF Init
<1>2. ConfigInv => InForceIsTheFile
  BY DEF ConfigInv
<1> QED
  BY <1>1, <1>2, ConfigNext, PTL DEF Spec

(* No rule has the id 0, and two have the same only if the file in force   *)
(* sets it, and sets it twice or mixes ids of its own with automatic ones  *)
THEOREM IdsUsable == Spec => []IdsAreUsable
<1>1. Init => ConfigInv
  BY ConfigStart DEF Init
<1>2. ConfigInv => IdsAreUsable
  BY DEF ConfigInv
<1> QED
  BY <1>1, <1>2, ConfigNext, PTL DEF Spec

-----------------------------------------------------------------------------
(* Types                                                                   *)

LEMMA ZeroMeters ==
  NoBucket \in Buckets /\ NoProfile \in Profiles /\ NoReg \in [bucket : Buckets, profile : Profiles]
  BY MetersAssumption DEF NoBucket, NoProfile, NoReg, Buckets, Profiles, Times

LEMMA MetersStart == Init => TypeOK
<1> SUFFICES ASSUME Init PROVE TypeOK
  OBVIOUS
<1>1. ConfigTypeOK
  BY ConfigStart DEF Init, ConfigInv
<1>2. MeterTypes
  BY ZeroMeters DEF Init, MeterTypes
<1>3. ControlTypes
  <2>1. /\ clock = 0 /\ launched = FALSE /\ ops = 0 /\ packets = 0 /\ i = 1 /\ ctl = "start"
    BY DEF Init
  <2>2. 0 \in Times /\ 1 \in 1 .. MaxRules + 1
    BY ConfigAssumption, MetersAssumption DEF Times
  <2> QED
    BY <2>1, <2>2 DEF ControlTypes
<1>4. CoreTypes
  BY MetersAssumption, ZeroMeters DEF Init, CoreTypes, Times
<1> QED
  BY <1>1, <1>2, <1>3, <1>4 DEF TypeOK

LEMMA MeterTypesNext ==
  ASSUME TypeOK, [Next]_vars
  PROVE  MeterTypes'
<1>1. MeterTypes /\ ControlTypes /\ CoreTypes
  BY DEF TypeOK
<1>2. CASE UNCHANGED <<meterVars, use>>
  BY <1>1, <1>2 DEF MeterTypes, meterVars
<1>3. CASE ClearValid \/ SetValid
  BY <1>1, <1>3 DEF ClearValid, SetValid, ValidCleared, MeterTypes
<1>4. CASE SetProfile
  <2> DEFINE rule == g_rules[i]
             profile == [cir |-> rule.rate.cir, cbs |-> rule.rate.cbs, ebs |-> Ebs(rule.rate)]
  <2>1. i \in DOMAIN g_rules /\ Meterable(rule)
    BY <1>1, <1>4, RulesFacts DEF SetProfile, ControlTypes, TypeOK
  <2>2. rule.rate \in Rates
    BY <2>1, RulesFacts DEF TypeOK, Meterable, Configurable
  <2>3. rule.rate.cir \in Nat /\ rule.rate.cbs \in Nat
    BY <2>2, ConfigAssumption
  <2>4. profile \in Profiles
    BY <2>3 DEF Profiles, Ebs
  <2> HIDE DEF profile
  <2>5. /\ g_meter_profiles' = [g_meter_profiles EXCEPT ![rule.id] = profile]
        /\ use' = [use EXCEPT ![rule.id] = Inexact]
        /\ UNCHANGED <<g_meters, g_meter_valid>>
    BY <1>4 DEF SetProfile, profile
  <2> QED
    BY <1>1, <2>4, <2>5 DEF MeterTypes
<1>5. CASE SetBucket
  <2> DEFINE x == g_rules[i].id
             p == g_meter_profiles[x]
             bucket == [time |-> clock, tc |-> p.cbs, te |-> p.ebs]
             fresh == [since |-> clock, passed |-> 0, cores |-> {}]
  <2>1. x \in MeterIds /\ clock \in Times
    BY <1>1, <1>5 DEF SetBucket, ControlTypes
  <2>2. p \in Profiles
    BY <1>1, <2>1 DEF MeterTypes
  <2>3. bucket \in Buckets
    BY <2>1, <2>2 DEF Buckets, Profiles
  <2>4. fresh \in [since : Times, passed : Nat, cores : SUBSET Lcores]
    BY <2>1
  <2> HIDE DEF bucket, fresh
  <2>5. /\ g_meters' = [g_meters EXCEPT ![x] = bucket]
        /\ use' = [use EXCEPT ![x] = Inexact] \/ use' = [use EXCEPT ![x] = fresh]
        /\ UNCHANGED <<g_meter_profiles, g_meter_valid>>
    BY <1>5 DEF SetBucket, bucket, fresh
  <2> QED
    BY <1>1, <2>3, <2>4, <2>5 DEF MeterTypes
<1>6. ASSUME NEW k \in Lcores, ReadBucket(k) PROVE MeterTypes'
  <2> DEFINE x == rule_id[k]
             mine == [use[x] EXCEPT !.cores = {k}]
  <2>1. x \in MeterIds
    BY <1>1, <1>6 DEF ReadBucket, CoreTypes
  <2>2. ASSUME Exact(x) PROVE mine \in [since : Times, passed : Nat, cores : SUBSET Lcores]
    <3>1. use[x] \in [since : Times, passed : Nat, cores : SUBSET Lcores]
      BY <1>1, <2>1, <2>2 DEF MeterTypes, Exact
    <3> QED
      BY <3>1
  <2>3. /\ UNCHANGED <<g_meters, g_meter_profiles, g_meter_valid>>
        /\ \/ use' = [use EXCEPT ![x] = Inexact]
           \/ Exact(x) /\ use' = [use EXCEPT ![x] = mine]
    BY <1>6 DEF ReadBucket, controlVars
  <2> HIDE DEF mine
  <2> QED
    BY <1>1, <2>2, <2>3 DEF MeterTypes
<1>7. ASSUME NEW k \in Lcores, StoreBucket(k) PROVE MeterTypes'
  <2> DEFINE x == rule_id[k]
             b == Refilled(reg[k].bucket, reg[k].profile, now[k])
             more == [use[x] EXCEPT !.passed = @ + Length]
  <2>1. x \in MeterIds /\ reg[k] \in [bucket : Buckets, profile : Profiles] /\ now[k] \in Times
    BY <1>1, <1>7 DEF StoreBucket, CoreTypes
  <2>2. Taken(b) \in Buckets
    BY <2>1, RefillFacts, ChargeFacts
  <2>3. ASSUME Exact(x) PROVE more \in [since : Times, passed : Nat, cores : SUBSET Lcores]
    <3>1. use[x] \in [since : Times, passed : Nat, cores : SUBSET Lcores]
      BY <1>1, <2>1, <2>3 DEF MeterTypes, Exact
    <3> QED
      BY <3>1, MetersAssumption
  <2> HIDE DEF b
  <2>4. /\ UNCHANGED <<g_meter_profiles, g_meter_valid>>
        /\ g_meters' = [g_meters EXCEPT ![x] = Taken(b)]
        /\ use' = use \/ (Exact(x) /\ use' = [use EXCEPT ![x] = more])
    BY <1>7 DEF StoreBucket, controlVars, b
  <2> HIDE DEF more
  <2> QED
    BY <1>1, <2>2, <2>3, <2>4 DEF MeterTypes
<1>8. ASSUME NEW k \in Lcores, CoreStep(k), ~ReadBucket(k), ~StoreBucket(k) PROVE MeterTypes'
  BY <1>2, <1>8 DEF CoreStep, Burst, Match, NoMeter, HasMeter, controlVars, meterVars
<1>9. CASE ConfigAction
  BY <1>2, <1>9 DEF ConfigAction, Boot, Reloaded, Refused, Command
<1>10. CASE SkipRule \/ MetersReady \/ Tick \/ UNCHANGED vars
  BY <1>2, <1>10 DEF SkipRule, MetersReady, Tick, vars
<1> QED
  BY <1>3, <1>4, <1>5, <1>6, <1>7, <1>8, <1>9, <1>10 DEF Next, ControlStep, ConfigAction

LEMMA ControlTypesNext ==
  ASSUME TypeOK, [Next]_vars
  PROVE  ControlTypes'
<1>1. /\ ControlTypes /\ MaxRules \in Nat /\ MaxTime \in Nat
      /\ Len(g_rules) \in Nat /\ Len(g_rules) <= MaxRules /\ DOMAIN g_rules = 1 .. Len(g_rules)
  BY RulesFacts, MetersAssumption DEF TypeOK
<1>2. CASE UNCHANGED <<clock, launched, ops, packets, i, ctl, g_rules>>
  BY <1>1, <1>2 DEF ControlTypes
<1>3. CASE Tick
  BY <1>1, <1>3 DEF Tick, ControlTypes, Times, configVars
<1>4. CASE ConfigAction
  <2>1. ctl' \in {"clear", "idle"} /\ ops' \in Nat /\ UNCHANGED <<clock, launched, packets, i>>
    BY <1>1, <1>4 DEF ConfigAction, Boot, Reloaded, Refused, Command, Goto, ControlTypes
  <2> QED
    BY <1>1, <2>1 DEF ControlTypes
<1>5. CASE ClearValid \/ MetersReady
  <2>1. ctl' \in {"rule", "idle"} /\ i' = 1 /\ launched' \in BOOLEAN /\ UNCHANGED <<clock, packets, ops>>
    BY <1>1, <1>5 DEF ClearValid, MetersReady, Goto, ControlTypes
  <2> QED
    BY <1>1, <2>1 DEF ControlTypes
<1>6. CASE SkipRule \/ SetValid
  <2>1. i <= Len(g_rules) /\ i' = i + 1 /\ ctl' = "rule" /\ UNCHANGED <<clock, launched, packets, ops>>
    BY <1>1, <1>6 DEF SkipRule, SetValid, Goto, ControlTypes, AfterUnmeterable
  <2> QED
    BY <1>1, <2>1 DEF ControlTypes
<1>7. CASE SetProfile \/ SetBucket
  <2>1. /\ ctl' \in {"profile", "bucket"} /\ i \in DOMAIN g_rules /\ g_rules[i].id \in MeterIds
        /\ UNCHANGED <<clock, launched, packets, ops, i, g_rules>>
    BY <1>1, <1>7 DEF SetProfile, SetBucket, Meterable, Goto, ControlTypes, configVars
  <2> QED
    BY <1>1, <2>1 DEF ControlTypes
<1>8. ASSUME NEW k \in Lcores, CoreStep(k) PROVE ControlTypes'
  <2>1. packets' \in Nat /\ UNCHANGED <<clock, launched, ops, i, ctl, g_rules>>
    BY <1>1, <1>8 DEF CoreStep, Burst, Match, NoMeter, HasMeter, ReadBucket, StoreBucket,
                      controlVars, configVars, ControlTypes
  <2> QED
    BY <1>1, <2>1 DEF ControlTypes
<1>9. CASE UNCHANGED vars
  BY <1>2, <1>9 DEF vars, configVars, coreVars
<1> QED
  BY <1>3, <1>4, <1>5, <1>6, <1>7, <1>8, <1>9 DEF Next, ControlStep, ConfigAction

LEMMA CoreTypesNext ==
  ASSUME TypeOK, [Next]_vars
  PROVE  CoreTypes'
<1>1. MeterTypes /\ ControlTypes /\ CoreTypes
  BY DEF TypeOK
<1>2. CASE UNCHANGED coreVars
  BY <1>1, <1>2 DEF CoreTypes, coreVars
<1>3. ASSUME NEW k \in Lcores, Burst(k) PROVE CoreTypes'
  BY <1>1, <1>3 DEF Burst, CoreTypes, ControlTypes
<1>4. ASSUME NEW k \in Lcores, NEW n \in DOMAIN g_rules, Match(k, n) PROVE CoreTypes'
  <2>1. g_rules[n].id \in Nat
    BY RulesFacts DEF TypeOK
  <2> QED
    BY <1>1, <1>4, <2>1 DEF Match, CoreTypes
<1>5. ASSUME NEW k \in Lcores, HasMeter(k) PROVE CoreTypes'
  BY <1>1, <1>5 DEF HasMeter, Metered, CoreTypes
<1>6. ASSUME NEW k \in Lcores, ReadBucket(k) PROVE CoreTypes'
  <2> DEFINE x == rule_id[k]
             read == [bucket |-> g_meters[x], profile |-> g_meter_profiles[x]]
  <2>1. x \in MeterIds
    BY <1>1, <1>6 DEF ReadBucket, CoreTypes
  <2>2. read \in [bucket : Buckets, profile : Profiles]
    BY <1>1, <2>1 DEF MeterTypes
  <2>3. /\ reg' = [reg EXCEPT ![k] = read] /\ pc' = [pc EXCEPT ![k] = "store"]
        /\ UNCHANGED <<now, rule_id>>
    BY <1>6 DEF ReadBucket
  <2> HIDE DEF read
  <2> QED
    BY <1>1, <2>1, <2>2, <2>3 DEF CoreTypes
<1>7. ASSUME NEW k \in Lcores, NoMeter(k) \/ StoreBucket(k) PROVE CoreTypes'
  <2>1. NextPacket(k) /\ now' = now
    BY <1>7 DEF NoMeter, StoreBucket
  <2> QED
    BY <1>1, <2>1, ZeroMeters DEF NextPacket, CoreTypes
<1>8. CASE ControlStep \/ Tick \/ UNCHANGED vars
  BY <1>2, <1>8 DEF ControlStep, Boot, Reloaded, Refused, Command, ClearValid, SkipRule, SetProfile,
                    SetBucket, SetValid, MetersReady, Goto, Tick, vars
<1> QED
  BY <1>3, <1>4, <1>5, <1>6, <1>7, <1>8 DEF Next, CoreStep

-----------------------------------------------------------------------------
(* The meters and the rules                                                *)

MeterState == <<configVars, g_meter_profiles, g_meter_valid, ctl, i>>

LEMMA MeterKept ==
  ASSUME MeterInv, UNCHANGED MeterState
  PROVE  MeterInv'
  BY DEF MeterInv, SetSoFar, MetersOfRules, MeterState, configVars

(* What rule_add, rule_del and rule_flush leave to the meters: the rules   *)
(* that stay and new ones, whose ids have no meter                         *)
LEMMA EditKeepsMeters ==
  ASSUME TypeOK, ConfigInv, MeterInv, ctl = "idle", RulesEdited, ConfigTypeOK',
         UNCHANGED <<ctl, g_meter_profiles, g_meter_valid>>
  PROVE  MeterInv'
<1>1. MetersOfRules /\ loaded # NoFile
  BY DEF MeterInv
<1>2. g_next_id \in Nat /\ g_next_id' \in Nat /\ g_next_id <= g_next_id'
  BY DEF TypeOK, ConfigTypeOK, RulesEdited
<1>3. edited' /\ loaded' = loaded
  BY DEF RulesEdited
<1>4. ASSUME IdsOfOneKind(loaded), NEW x \in MeterIds, g_meter_valid[x]
      PROVE  /\ x <= g_next_id'
             /\ \A n \in DOMAIN g_rules' : g_rules'[n].id = x =>
                  g_rules'[n].rate # NoRate /\ g_meter_profiles[x].cbs = g_rules'[n].rate.cbs
  <2>1. x \in Nat /\ x <= g_next_id
    BY <1>1, <1>4, ConfigAssumption DEF MetersOfRules, MeterIds
  <2>2. ASSUME NEW n \in DOMAIN g_rules', g_rules'[n].id = x
        PROVE  g_rules'[n].rate # NoRate /\ g_meter_profiles[x].cbs = g_rules'[n].rate.cbs
    <3>1. ~(g_rules'[n].id > g_next_id)
      BY <1>2, <2>1, <2>2
    <3>2. PICK m \in DOMAIN g_rules : g_rules'[n] = g_rules[m]
      BY <3>1 DEF RulesEdited
    <3> QED
      BY <1>1, <1>4, <2>2, <3>2 DEF MetersOfRules
  <2> QED
    BY <1>2, <2>1, <2>2
<1>5. MetersOfRules'
  BY <1>3, <1>4 DEF MetersOfRules
<1> QED
  BY <1>1, <1>3, <1>5 DEF MeterInv

LEMMA CommandKeepsMeters ==
  ASSUME TypeOK, ConfigInv, MeterInv, Command
  PROVE  MeterInv'
<1>1. ctl = "idle" /\ UNCHANGED <<ctl, g_meter_profiles, g_meter_valid>>
  BY DEF Command, Goto, meterVars
<1>2. CASE RulesEdited /\ ConfigTypeOK'
  BY <1>1, <1>2, EditKeepsMeters
<1>3. ASSUME NEW action, SetDefaultPolicy(action) PROVE MeterInv'
  BY <1>1, <1>3 DEF MeterInv, MetersOfRules, SetDefaultPolicy
<1> QED
  BY <1>2, <1>3, CommandEdits

LEMMA LoadKeepsMeters ==
  ASSUME ConfigInv, MeterInv, NEW file \in Files,
         Boot(file) \/ Reloaded(file) \/ \E sighup \in BOOLEAN : Refused(file, sighup)
  PROVE  MeterInv'
<1>1. CASE Boot(file) \/ Reloaded(file)
  <2>1. ctl' = "clear" /\ loaded' # NoFile
    BY <1>1, LoadKeeps DEF Boot, Reloaded, Goto
  <2> QED
    BY <2>1 DEF MeterInv
<1>2. ASSUME NEW sighup \in BOOLEAN, Refused(file, sighup) PROVE MeterInv'
  <2>1. /\ ctl = "idle" /\ ctl' \in {"clear", "idle"}
        /\ UNCHANGED <<g_rules, g_next_id, loaded, edited, g_meter_profiles, g_meter_valid>>
    BY <1>2 DEF Refused, RefusedReload, Goto, meterVars
  <2> QED
    BY <2>1 DEF MeterInv, MetersOfRules
<1> QED
  BY <1>1, <1>2

(* Each step of meter_init_all *)
LEMMA InitAllKeepsMeters ==
  ASSUME TypeOK, ConfigInv, MeterInv,
         ClearValid \/ SkipRule \/ SetProfile \/ SetBucket \/ SetValid \/ MetersReady
  PROVE  MeterInv'
<1>1. /\ DOMAIN g_rules = 1 .. Len(g_rules) /\ Len(g_rules) \in Nat
      /\ \A n \in DOMAIN g_rules : g_rules[n].id \in Nat /\ g_rules[n].rate \in Rates \cup {NoRate}
      /\ i \in Nat /\ i >= 1 /\ MeterIds \subseteq Nat
      /\ g_meter_valid \in [MeterIds -> BOOLEAN] /\ g_meter_profiles \in [MeterIds -> Profiles]
  BY RulesFacts, ConfigAssumption DEF TypeOK, MeterTypes, ControlTypes, MeterIds
<1>2. UNCHANGED configVars
  BY DEF ClearValid, SkipRule, SetProfile, SetBucket, SetValid, MetersReady
<1>3. UNCHANGED <<g_rules, g_next_id, loaded, edited>>
  BY <1>2 DEF configVars
<1>4. ctl # "start" /\ loaded # NoFile
  BY DEF ClearValid, SkipRule, SetProfile, SetBucket, SetValid, MetersReady, MeterInv
<1>5. IdsOfOneKind(loaded) => Distinct(g_rules)
  BY <1>4 DEF ConfigInv, IdsAreUsable, Distinct
<1>6. CASE ClearValid
  <2>1. ctl' = "rule" /\ i' = 1 /\ \A x \in MeterIds : ~g_meter_valid'[x]
    BY <1>6 DEF ClearValid, Goto, ValidCleared
  <2>2. SetSoFar'
    <3>1. \A n \in DOMAIN g_rules : ~(n < i')
      BY <1>1, <2>1
    <3> QED
      BY <1>3, <2>1, <3>1 DEF SetSoFar
  <2> QED
    BY <1>1, <1>3, <1>4, <2>1, <2>2 DEF MeterInv
<1>7. CASE SkipRule
  <2>1. /\ ctl = "rule" /\ ctl' = "rule" /\ i <= Len(g_rules) /\ i' = i + 1
        /\ ~Meterable(g_rules[i]) /\ UNCHANGED <<g_meter_profiles, g_meter_valid>>
    BY <1>7 DEF SkipRule, Goto, AfterUnmeterable, meterVars
  <2>2. SetSoFar
    BY <2>1 DEF MeterInv
  <2>3. SetSoFar'
    BY <1>1, <1>3, <2>1, <2>2 DEF SetSoFar
  <2> QED
    BY <1>1, <1>3, <1>4, <2>1, <2>3 DEF MeterInv
<1>8. CASE SetProfile
  <2> DEFINE x == g_rules[i].id
  <2>1. /\ ctl = "rule" /\ ctl' = "profile" /\ i \in DOMAIN g_rules /\ i' = i
        /\ Meterable(g_rules[i]) /\ UNCHANGED g_meter_valid
    BY <1>1, <1>8 DEF SetProfile, Goto
  <2>2. /\ x \in MeterIds
        /\ g_meter_profiles'[x].cbs = g_rules[i].rate.cbs
        /\ \A y \in MeterIds \ {x} : g_meter_profiles'[y] = g_meter_profiles[y]
    BY <1>1, <1>8, <2>1 DEF SetProfile, Meterable
  <2>3. SetSoFar
    BY <2>1 DEF MeterInv
  <2>4. ASSUME IdsOfOneKind(loaded), NEW y \in MeterIds, g_meter_valid[y]
        PROVE  \E n \in DOMAIN g_rules :
                 /\ n < i /\ g_rules[n].id = y
                 /\ g_rules[n].rate # NoRate /\ g_meter_profiles'[y].cbs = g_rules[n].rate.cbs
    <3>1. PICK n \in DOMAIN g_rules :
            /\ n < i /\ g_rules[n].id = y
            /\ g_rules[n].rate # NoRate /\ g_meter_profiles[y].cbs = g_rules[n].rate.cbs
      BY <2>3, <2>4 DEF SetSoFar
    <3>2. y # x
      BY <1>1, <1>5, <2>1, <2>4, <3>1 DEF Distinct
    <3> QED
      BY <2>2, <3>1, <3>2
  <2>5. SetSoFar'
    BY <1>3, <2>1, <2>3, <2>4 DEF SetSoFar
  <2> QED
    BY <1>1, <1>3, <1>4, <2>1, <2>2, <2>5 DEF MeterInv
<1>9. CASE SetBucket
  <2>1. /\ ctl = "profile" /\ ctl' = "bucket"
        /\ UNCHANGED <<g_meter_profiles, g_meter_valid, i>>
    BY <1>9 DEF SetBucket, Goto
  <2>2. SetSoFar'
    BY <1>3, <2>1 DEF MeterInv, SetSoFar
  <2> QED
    BY <1>3, <1>4, <2>1, <2>2 DEF MeterInv
<1>10. CASE SetValid
  <2> DEFINE x == g_rules[i].id
  <2>1. /\ ctl = "bucket" /\ ctl' = "rule" /\ i \in DOMAIN g_rules /\ i' = i + 1
        /\ x \in MeterIds /\ UNCHANGED g_meter_profiles
        /\ g_meter_valid' = [g_meter_valid EXCEPT ![x] = TRUE]
    BY <1>10 DEF SetValid, Goto, TypeOK, ControlTypes
  <2>2. /\ SetSoFar /\ g_rules[i].rate # NoRate
        /\ g_meter_profiles[x].cbs = g_rules[i].rate.cbs
    BY <2>1 DEF MeterInv, Meterable, Configurable
  <2>3. /\ g_meter_valid'[x]
        /\ \A y \in MeterIds : g_meter_valid'[y] => y = x \/ g_meter_valid[y]
        /\ \A y \in MeterIds : g_meter_valid[y] => g_meter_valid'[y]
    BY <1>1, <2>1
  <2>4. ASSUME NEW n \in DOMAIN g_rules, n < i + 1, Meterable(g_rules[n])
        PROVE  g_meter_valid'[g_rules[n].id]
    <3>1. g_rules[n].id \in MeterIds
      BY <2>4 DEF Meterable
    <3>2. n < i \/ n = i
      BY <1>1, <2>4
    <3> QED
      BY <2>2, <2>3, <2>4, <3>1, <3>2 DEF SetSoFar
  <2>5. ASSUME IdsOfOneKind(loaded), NEW y \in MeterIds, g_meter_valid'[y]
        PROVE  \E n \in DOMAIN g_rules :
                 /\ n < i + 1 /\ g_rules[n].id = y
                 /\ g_rules[n].rate # NoRate /\ g_meter_profiles[y].cbs = g_rules[n].rate.cbs
    <3>1. CASE y = x
      BY <1>1, <2>1, <2>2, <3>1
    <3>2. CASE g_meter_valid[y]
      <4>1. PICK n \in DOMAIN g_rules :
              /\ n < i /\ g_rules[n].id = y
              /\ g_rules[n].rate # NoRate /\ g_meter_profiles[y].cbs = g_rules[n].rate.cbs
        BY <2>2, <2>5, <3>2 DEF SetSoFar
      <4>2. n < i + 1
        BY <1>1, <4>1
      <4> QED
        BY <4>1, <4>2
    <3> QED
      BY <2>3, <2>5, <3>1, <3>2
  <2>6. SetSoFar'
    BY <1>3, <2>1, <2>4, <2>5 DEF SetSoFar
  <2> QED
    BY <1>1, <1>3, <1>4, <2>1, <2>6 DEF MeterInv
<1>11. CASE MetersReady
  <2>1. /\ ctl = "rule" /\ ctl' = "idle" /\ i > Len(g_rules)
        /\ UNCHANGED <<g_meter_profiles, g_meter_valid>>
    BY <1>11 DEF MetersReady, meterVars
  <2>2. SetSoFar
    BY <2>1 DEF MeterInv
  <2>3. \A n \in DOMAIN g_rules : n < i
    BY <1>1, <2>1
  <2>4. ASSUME IdsOfOneKind(loaded), NEW x \in MeterIds, g_meter_valid[x]
        PROVE  /\ x <= g_next_id
               /\ \A n \in DOMAIN g_rules : g_rules[n].id = x =>
                    g_rules[n].rate # NoRate /\ g_meter_profiles[x].cbs = g_rules[n].rate.cbs
    <3>1. PICK m \in DOMAIN g_rules :
            /\ g_rules[m].id = x
            /\ g_rules[m].rate # NoRate /\ g_meter_profiles[x].cbs = g_rules[m].rate.cbs
      BY <2>2, <2>4 DEF SetSoFar
    <3>2. \A n \in DOMAIN g_rules : g_rules[n].id = x => n = m
      BY <1>5, <2>4, <3>1 DEF Distinct
    <3>3. x <= g_next_id
      BY <3>1 DEF ConfigInv, IdsUpToNext
    <3> QED
      BY <3>1, <3>2, <3>3
  <2>5. MetersOfRules'
    BY <1>3, <2>1, <2>2, <2>3, <2>4 DEF MetersOfRules, SetSoFar
  <2> QED
    BY <1>3, <1>4, <2>1, <2>5 DEF MeterInv
<1> QED
  BY <1>6, <1>7, <1>8, <1>9, <1>10, <1>11

LEMMA MeterNext ==
  ASSUME TypeOK, ConfigInv, MeterInv, [Next]_vars
  PROVE  MeterInv'
<1>1. ASSUME NEW k \in Lcores, CoreStep(k) PROVE UNCHANGED MeterState
  BY <1>1 DEF CoreStep, Burst, Match, NoMeter, HasMeter, ReadBucket, StoreBucket, controlVars,
              MeterState
<1>2. CASE Tick \/ UNCHANGED vars
  BY <1>2, MeterKept DEF Tick, vars, meterVars, MeterState
<1> QED
  BY <1>1, <1>2, MeterKept, CommandKeepsMeters, LoadKeepsMeters, InitAllKeepsMeters
  DEF Next, ControlStep

LEMMA MetersInvariant == Spec => [](TypeOK /\ ConfigInv /\ MeterInv)
<1> DEFINE Inv == TypeOK /\ ConfigInv /\ MeterInv
<1>1. Init => Inv
  BY MetersStart, ConfigStart DEF Init, MeterInv
<1>2. Inv /\ [Next]_vars => Inv'
  <2> SUFFICES ASSUME TypeOK, ConfigInv, MeterInv, [Next]_vars PROVE Inv'
    OBVIOUS
  <2>1. ConfigInv' /\ ConfigTypeOK'
    BY ConfigNext DEF ConfigInv
  <2> QED
    BY <2>1, MeterTypesNext, ControlTypesNext, CoreTypesNext, MeterNext DEF TypeOK
<1> QED
  BY <1>1, <1>2, PTL DEF Spec

(* Every variable keeps its type, and neither meter_init_all nor           *)
(* meter_check uses an element of the meter arrays there is not, for any   *)
(* files, commands and number of cores                                     *)
THEOREM MetersTyped == Spec => []TypeOK
  BY MetersInvariant, PTL

(* While the control core is idle a rule is metered by its own rate or not *)
(* at all, whatever rules had its id before                                *)
THEOREM OwnMeter == Spec => []NoForeignMeter
<1>1. TypeOK /\ ConfigInv /\ MeterInv => NoForeignMeter
  BY DEF MeterInv, MetersOfRules, NoForeignMeter, Metered
<1> QED
  BY <1>1, MetersInvariant, PTL

(* When meter_init_all has gone over the rules of a file, each RATE_LIMIT  *)
(* rule that can have a meter has one                                      *)
THEOREM MeterForEachRule == Spec => []FileIsMetered
<1>1. TypeOK /\ ConfigInv /\ MeterInv => FileIsMetered
  BY DEF MeterInv, MetersOfRules, FileIsMetered
<1> QED
  BY <1>1, MetersInvariant, PTL

-----------------------------------------------------------------------------
(* The tokens                                                              *)

LEMMA BucketStart == Init => BucketInv
<1> SUFFICES ASSUME Init PROVE BucketInv
  OBVIOUS
<1>1. \A x \in MeterIds : ~Exact(x) /\ g_meters[x] = NoBucket /\ g_meter_profiles[x] = NoProfile
  BY DEF Init, Exact
<1>2. clock = 0 /\ \A k \in Lcores : now[k] = 0 /\ pc[k] = "idle"
  BY DEF Init
<1> QED
  BY <1>1, <1>2 DEF BucketInv, NoBucket, NoProfile

BucketState == <<g_meter_profiles, g_meters, use, clock, coreVars>>

LEMMA BucketKept ==
  ASSUME BucketInv, UNCHANGED BucketState
  PROVE  BucketInv'
<1>1. /\ UNCHANGED <<g_meter_profiles, g_meters, use, clock, pc, now, rule_id, reg>>
  BY DEF BucketState, coreVars
<1>2. \A x \in MeterIds : Exact(x)' = Exact(x) /\ Accounted(x)' = Accounted(x)
  BY <1>1 DEF Exact, Accounted
<1>3. \A k \in Lcores : Exact(rule_id[k])' = Exact(rule_id[k]) /\ Undisturbed(k)' = Undisturbed(k)
  BY <1>1 DEF Exact, Undisturbed
<1> QED
  BY <1>1, <1>2, <1>3 DEF BucketInv

(* A step that sets one meter: the others, and the cores that are about to *)
(* store in another, are as they were                                      *)
LEMMA OthersKept ==
  ASSUME BucketInv, NEW x \in MeterIds,
         clock' = clock,
         \A y \in MeterIds \ {x} :
           /\ g_meters'[y] = g_meters[y] /\ use'[y] = use[y]
           /\ g_meter_profiles'[y] = g_meter_profiles[y]
  PROVE  /\ \A y \in MeterIds \ {x} :
              /\ g_meter_profiles'[y].ebs = g_meter_profiles'[y].cbs
              /\ g_meters'[y].time <= clock'
              /\ Exact(y)' => Accounted(y)'
         /\ \A k \in Lcores :
              /\ pc[k] = "store" /\ rule_id[k] \in MeterIds \ {x}
              /\ pc'[k] = pc[k] /\ rule_id'[k] = rule_id[k] /\ reg'[k] = reg[k] /\ now'[k] = now[k]
              /\ Exact(rule_id[k])'
              => Undisturbed(k)'
  BY DEF BucketInv, Exact, Accounted, Undisturbed
LEMMA BucketTypes ==
  ASSUME TypeOK
  PROVE  /\ clock \in Nat
         /\ \A x \in MeterIds :
              /\ g_meters[x] \in Buckets
              /\ g_meters[x].time \in Times /\ g_meters[x].time \in Nat
              /\ g_meters[x].tc \in Nat /\ g_meters[x].te \in Nat
              /\ g_meter_profiles[x] \in Profiles
              /\ g_meter_profiles[x].cir \in Nat /\ g_meter_profiles[x].cbs \in Nat
              /\ Exact(x) => use[x].since \in Nat /\ use[x].passed \in Nat
         /\ \A k \in Lcores : now[k] \in Times /\ now[k] \in Nat
<1>1. MeterTypes /\ ControlTypes /\ CoreTypes
  BY DEF TypeOK
<1>2. Times \subseteq Nat
  BY MetersAssumption DEF Times
<1>3. ASSUME NEW x \in MeterIds
      PROVE  /\ g_meters[x] \in Buckets
             /\ g_meters[x].time \in Times
             /\ g_meters[x].tc \in Nat /\ g_meters[x].te \in Nat
  <2>1. g_meters[x] \in Buckets
    BY <1>1 DEF MeterTypes
  <2> QED
    BY <2>1 DEF Buckets
<1>4. ASSUME NEW x \in MeterIds
      PROVE  /\ g_meter_profiles[x] \in Profiles
             /\ g_meter_profiles[x].cir \in Nat /\ g_meter_profiles[x].cbs \in Nat
  <2>1. g_meter_profiles[x] \in Profiles
    BY <1>1 DEF MeterTypes
  <2> QED
    BY <2>1 DEF Profiles
<1>5. ASSUME NEW x \in MeterIds, Exact(x)
      PROVE  use[x].since \in Nat /\ use[x].passed \in Nat
  <2>1. use[x] \in [since : Times, passed : Nat, cores : SUBSET Lcores]
    BY <1>1, <1>5 DEF MeterTypes, Exact
  <2> QED
    BY <1>2, <2>1
<1> QED
  BY <1>1, <1>2, <1>3, <1>4, <1>5 DEF ControlTypes, CoreTypes

LEMMA TickKeepsBuckets ==
  ASSUME TypeOK, BucketInv, Tick
  PROVE  BucketInv'
<1>1. /\ clock' = clock + 1
      /\ UNCHANGED <<g_meter_profiles, g_meters, use, pc, now, rule_id, reg>>
  BY DEF Tick, meterVars, coreVars
<1>2. \A x \in MeterIds : Exact(x)' = Exact(x) /\ Accounted(x)' = Accounted(x)
  BY <1>1 DEF Exact, Accounted
<1>3. \A k \in Lcores : Exact(rule_id[k])' = Exact(rule_id[k]) /\ Undisturbed(k)' = Undisturbed(k)
  BY <1>1 DEF Exact, Undisturbed
<1>4. /\ \A x \in MeterIds : g_meters[x].time <= clock'
      /\ \A k \in Lcores : now[k] <= clock'
  BY <1>1, BucketTypes DEF BucketInv
<1> QED
  BY <1>1, <1>2, <1>3, <1>4 DEF BucketInv

LEMMA ProfileKeepsBuckets ==
  ASSUME TypeOK, BucketInv, SetProfile
  PROVE  BucketInv'
<1>0. PICK x : x = g_rules[i].id
  OBVIOUS
<1>1. MeterTypes /\ CoreTypes
  BY DEF TypeOK
<1>2. /\ x \in MeterIds /\ UNCHANGED <<clock, g_meters, pc, now, rule_id, reg>>
      /\ use' = [use EXCEPT ![x] = Inexact]
  BY <1>0 DEF SetProfile, Meterable, Goto, coreVars
<1>3. /\ g_meter_profiles'[x].ebs = g_meter_profiles'[x].cbs
      /\ \A y \in MeterIds \ {x} : g_meter_profiles'[y] = g_meter_profiles[y]
  BY <1>0, <1>1, <1>2 DEF SetProfile, MeterTypes, Ebs
<1>4. use'[x] = Inexact /\ \A y \in MeterIds \ {x} : use'[y] = use[y]
  BY <1>1, <1>2 DEF MeterTypes
<1>5. ~Exact(x)'
  BY <1>4 DEF Exact
<1>6. /\ \A y \in MeterIds \ {x} :
           /\ g_meter_profiles'[y].ebs = g_meter_profiles'[y].cbs
           /\ g_meters'[y].time <= clock'
           /\ Exact(y)' => Accounted(y)'
      /\ \A k \in Lcores : pc[k] = "store" /\ rule_id[k] \in MeterIds \ {x} /\ Exact(rule_id[k])'
           => Undisturbed(k)'
  BY <1>2, <1>3, <1>4, OthersKept
<1>7. \A k \in Lcores : pc'[k] = "store" => rule_id[k] \in MeterIds
  BY <1>1, <1>2 DEF CoreTypes
<1>8. g_meters'[x].time <= clock' /\ \A k \in Lcores : now'[k] <= clock'
  BY <1>2 DEF BucketInv
<1>9. \A k \in Lcores : pc'[k] = "store" /\ Exact(rule_id[k])' => Undisturbed(k)'
  BY <1>2, <1>5, <1>6, <1>7
<1> QED
  BY <1>2, <1>3, <1>5, <1>6, <1>8, <1>9 DEF BucketInv

LEMMA BucketKeepsBuckets ==
  ASSUME TypeOK, BucketInv, SetBucket
  PROVE  BucketInv'
<1>0. PICK x, p : x = g_rules[i].id /\ p = g_meter_profiles[x]
  OBVIOUS
<1>1. MeterTypes /\ CoreTypes /\ ControlTypes
  BY DEF TypeOK
<1>2. /\ x \in MeterIds /\ UNCHANGED <<clock, g_meter_profiles, pc, now, rule_id, reg>>
      /\ g_meters' = [g_meters EXCEPT ![x] = [time |-> clock, tc |-> p.cbs, te |-> p.ebs]]
  BY <1>0, <1>1 DEF SetBucket, ControlTypes, Goto, coreVars
<1>3. /\ g_meters'[x] = [time |-> clock, tc |-> p.cbs, te |-> p.ebs]
      /\ \A y \in MeterIds \ {x} : g_meters'[y] = g_meters[y]
  BY <1>1, <1>2 DEF MeterTypes
<1>4. \A y \in MeterIds \ {x} : use'[y] = use[y]
  BY <1>0, <1>1, <1>2 DEF SetBucket, MeterTypes
<1>5. \/ use'[x] = Inexact
      \/ /\ use'[x] = [since |-> clock, passed |-> 0, cores |-> {}]
         /\ \A k \in Lcores : ~(pc[k] = "store" /\ rule_id[k] = x)
  BY <1>0, <1>1, <1>2 DEF SetBucket, MeterTypes
<1>6. p.cir \in Nat /\ p.cbs \in Nat /\ p.ebs = p.cbs /\ clock \in Nat
  BY <1>0, <1>2, BucketTypes DEF BucketInv
<1>7. ASSUME Exact(x)'
      PROVE  Accounted(x)' /\ \A k \in Lcores : ~(pc[k] = "store" /\ rule_id[k] = x)
  <2>1. /\ use'[x] = [since |-> clock, passed |-> 0, cores |-> {}]
        /\ \A k \in Lcores : ~(pc[k] = "store" /\ rule_id[k] = x)
    BY <1>5, <1>7 DEF Exact
  <2>2. p.cir * (clock - clock) = 0
    BY <1>6
  <2>3. /\ use'[x].since = clock /\ use'[x].passed = 0
        /\ g_meters'[x].time = clock /\ g_meters'[x].tc = p.cbs /\ g_meters'[x].te = p.cbs
        /\ g_meter_profiles'[x] = p
    BY <1>0, <1>2, <1>3, <1>6, <2>1
  <2>4. Accounted(x)'
    BY <1>6, <2>2, <2>3 DEF Accounted
  <2> QED
    BY <2>1, <2>4
<1>8. /\ \A y \in MeterIds \ {x} :
           /\ g_meter_profiles'[y].ebs = g_meter_profiles'[y].cbs
           /\ g_meters'[y].time <= clock'
           /\ Exact(y)' => Accounted(y)'
      /\ \A k \in Lcores : pc[k] = "store" /\ rule_id[k] \in MeterIds \ {x} /\ Exact(rule_id[k])'
           => Undisturbed(k)'
  BY <1>2, <1>3, <1>4, OthersKept
<1>9. \A k \in Lcores : pc'[k] = "store" => rule_id[k] \in MeterIds
  BY <1>1, <1>2 DEF CoreTypes
<1>10. /\ g_meters'[x].time <= clock' /\ g_meter_profiles'[x].ebs = g_meter_profiles'[x].cbs
       /\ \A k \in Lcores : now'[k] <= clock'
  BY <1>2, <1>3, <1>6 DEF BucketInv
<1>11. \A k \in Lcores : pc'[k] = "store" /\ Exact(rule_id[k])' => Undisturbed(k)'
  BY <1>2, <1>7, <1>8, <1>9
<1> QED
  BY <1>2, <1>7, <1>8, <1>10, <1>11 DEF BucketInv
(* Steps of a core that touch no bucket, and leave it out of "store" *)
LEMMA CoreKeepsBuckets ==
  ASSUME TypeOK, BucketInv, NEW k \in Lcores,
         Burst(k) \/ (\E n \in DOMAIN g_rules : Match(k, n)) \/ NoMeter(k) \/ HasMeter(k)
  PROVE  BucketInv'
<1>1. CoreTypes
  BY DEF TypeOK
<1>2. UNCHANGED <<clock, g_meter_profiles, g_meters, use>>
  BY DEF Burst, Match, NoMeter, HasMeter, controlVars
<1>3. pc'[k] # "store"
  BY <1>1 DEF Burst, Match, NoMeter, HasMeter, NextPacket, CoreTypes
<1>4. \A j \in Lcores \ {k} :
        /\ pc'[j] = pc[j] /\ now'[j] = now[j] /\ rule_id'[j] = rule_id[j] /\ reg'[j] = reg[j]
  BY <1>1 DEF Burst, Match, NoMeter, HasMeter, NextPacket, CoreTypes
<1>5. now'[k] = now[k] \/ now'[k] = clock
  BY <1>1 DEF Burst, Match, NoMeter, HasMeter, CoreTypes
<1>6. \A x \in MeterIds : Exact(x)' = Exact(x) /\ Accounted(x)' = Accounted(x)
  BY <1>2 DEF Exact, Accounted
<1>7. \A j \in Lcores : now'[j] <= clock'
  BY <1>2, <1>4, <1>5, BucketTypes DEF BucketInv
<1>8. ASSUME NEW j \in Lcores, pc'[j] = "store", Exact(rule_id[j])' PROVE Undisturbed(j)'
  <2>1. j # k
    BY <1>3, <1>8
  <2>2. Undisturbed(j)
    BY <1>2, <1>4, <1>8, <2>1 DEF BucketInv, Exact
  <2> QED
    BY <1>2, <1>4, <2>1, <2>2 DEF Undisturbed
<1> QED
  BY <1>2, <1>6, <1>7, <1>8 DEF BucketInv, Exact

LEMMA ReadKeepsBuckets ==
  ASSUME TypeOK, BucketInv, NEW k \in Lcores, ReadBucket(k)
  PROVE  BucketInv'
<1>0. PICK x : x = rule_id[k]
  OBVIOUS
<1>1. CoreTypes /\ MeterTypes
  BY DEF TypeOK
<1>2. /\ x \in MeterIds /\ pc[k] = "read"
      /\ UNCHANGED <<clock, g_meter_profiles, g_meters, now, rule_id>>
  BY <1>0, <1>1 DEF ReadBucket, controlVars, CoreTypes
<1>3. /\ reg'[k] = [bucket |-> g_meters[x], profile |-> g_meter_profiles[x]]
      /\ pc'[k] = "store"
      /\ \A j \in Lcores \ {k} : pc'[j] = pc[j] /\ reg'[j] = reg[j]
  BY <1>0, <1>1 DEF ReadBucket, CoreTypes
<1>4. \A y \in MeterIds \ {x} : use'[y] = use[y]
  BY <1>0, <1>1, <1>2 DEF ReadBucket, MeterTypes
<1>5. ASSUME Exact(x)'
      PROVE  /\ Exact(x) /\ use[x].cores \subseteq {k} /\ now[k] >= g_meters[x].time
             /\ use'[x] = [use[x] EXCEPT !.cores = {k}]
  BY <1>0, <1>1, <1>2, <1>5 DEF ReadBucket, MeterTypes, Exact
<1>6. ASSUME Exact(x)'
      PROVE  /\ use'[x].cores = {k}
             /\ use'[x].since = use[x].since /\ use'[x].passed = use[x].passed
  <2>1. use[x] \in [since : Times, passed : Nat, cores : SUBSET Lcores]
    BY <1>1, <1>2, <1>5, <1>6 DEF MeterTypes, Exact
  <2> QED
    BY <1>5, <1>6, <2>1
<1>7. \A y \in MeterIds \ {x} :
        /\ Exact(y)' => Accounted(y)'
  BY <1>2, <1>4 DEF BucketInv, Exact, Accounted
<1>8. Exact(x)' => Accounted(x)'
  BY <1>2, <1>5, <1>6 DEF BucketInv, Accounted
<1>9. ASSUME NEW j \in Lcores, pc'[j] = "store", Exact(rule_id[j])' PROVE Undisturbed(j)'
  <2>1. CASE j = k
    BY <1>0, <1>2, <1>3, <1>5, <1>6, <1>9, <2>1, BucketTypes DEF Undisturbed
  <2>2. CASE j # k
    <3>1. pc[j] = "store" /\ reg'[j] = reg[j] /\ rule_id[j] \in MeterIds
      BY <1>1, <1>3, <1>9, <2>2 DEF CoreTypes
    <3>2. rule_id[j] # x
      <4> SUFFICES ASSUME rule_id[j] = x PROVE FALSE
        OBVIOUS
      <4>1. Exact(x) /\ use[x].cores \subseteq {k}
        BY <1>2, <1>5, <1>9
      <4>2. use[x].cores = {j}
        BY <3>1, <4>1 DEF BucketInv, Undisturbed
      <4> QED
        BY <2>2, <4>1, <4>2
    <3>3. use'[rule_id[j]] = use[rule_id[j]] /\ Exact(rule_id[j])
      BY <1>2, <1>4, <1>9, <3>1, <3>2 DEF Exact
    <3>4. Undisturbed(j)
      BY <3>1, <3>3 DEF BucketInv
    <3> QED
      BY <1>2, <3>1, <3>3, <3>4 DEF Undisturbed
  <2> QED
    BY <2>1, <2>2
<1>10. /\ \A y \in MeterIds : g_meter_profiles'[y].ebs = g_meter_profiles'[y].cbs /\ g_meters'[y].time <= clock'
       /\ \A j \in Lcores : now'[j] <= clock'
  BY <1>2 DEF BucketInv
<1> QED
  BY <1>2, <1>7, <1>8, <1>9, <1>10 DEF BucketInv, Exact

(* The bucket a core stores in a meter that is its own *)
LEMMA StoreAccounts ==
  ASSUME TypeOK, BucketInv, NEW k \in Lcores, pc[k] = "store", Exact(rule_id[k]),
         NEW x, x = rule_id[k],
         NEW b, b = Refilled(reg[k].bucket, reg[k].profile, now[k]),
         NEW a, a = Taken(b), NEW passed,
         passed = use[x].passed + IF Dropped(Color(b)) THEN 0 ELSE Length
  PROVE  LET p == g_meter_profiles[x]
         IN /\ use[x].since <= a.time
            /\ passed + a.tc + a.te <= 2 * p.cbs + p.cir * (a.time - use[x].since)
            /\ p.cbs <= passed + a.tc
            /\ Dropped(Color(b)) => p.cbs < use[x].passed + Length
<1> DEFINE p == g_meter_profiles[x]
           old == g_meters[x]
           u == use[x]
<1>1. x \in MeterIds
  BY DEF TypeOK, CoreTypes
<1>2. reg[k].bucket = old /\ reg[k].profile = p /\ old.time <= now[k]
  <2>1. Undisturbed(k)
    BY DEF BucketInv
  <2>2. reg[k] = [bucket |-> old, profile |-> p] /\ old.time <= now[k]
    BY <2>1 DEF Undisturbed
  <2> QED
    BY <2>2
<1>3. /\ u.since <= old.time
      /\ u.passed + old.tc + old.te <= 2 * p.cbs + p.cir * (old.time - u.since)
      /\ p.cbs <= u.passed + old.tc
  BY <1>1 DEF BucketInv, Accounted
<1>4. /\ old \in Buckets /\ p \in Profiles /\ now[k] \in Times /\ now[k] \in Nat
      /\ old.time \in Nat /\ old.tc \in Nat /\ old.te \in Nat /\ p.cir \in Nat /\ p.cbs \in Nat
      /\ u.since \in Nat /\ u.passed \in Nat /\ Length \in Nat
  BY <1>1, BucketTypes, MetersAssumption
<1>5. /\ b \in Buckets /\ b.time = now[k]
      /\ b.tc + b.te <= old.tc + old.te + p.cir * (now[k] - old.time)
      /\ b.tc = p.cbs \/ old.tc <= b.tc
  BY <1>2, <1>4, RefillFacts
<1>6. /\ a \in Buckets /\ a.time = b.time
      /\ Dropped(Color(b)) => a = b /\ b.tc < Length
      /\ ~Dropped(Color(b)) => a.tc + a.te = b.tc + b.te - Length
      /\ ~Dropped(Color(b)) => b.tc <= a.tc + Length
  BY <1>5, ChargeFacts
<1>7. b.tc \in Nat /\ b.te \in Nat /\ a.tc \in Nat /\ a.te \in Nat
  BY <1>5, <1>6 DEF Buckets
<1>8. p.cir * (now[k] - u.since) = p.cir * (old.time - u.since) + p.cir * (now[k] - old.time)
  <2>1. old.time - u.since \in Nat /\ now[k] - old.time \in Nat
    BY <1>2, <1>3, <1>4
  <2>2. now[k] - u.since = (old.time - u.since) + (now[k] - old.time)
    BY <1>4
  <2> QED
    BY <1>4, <2>1, <2>2, ProductOfSum
<1>9. /\ p.cir * (old.time - u.since) \in Nat /\ p.cir * (now[k] - old.time) \in Nat
  BY <1>2, <1>3, <1>4, ProductIsNat
<1> DEFINE before == p.cir * (old.time - u.since)
           since == p.cir * (now[k] - old.time)
<1> HIDE DEF p, old, u, before, since
<1>10. passed + a.tc + a.te <= 2 * p.cbs + before + since
  BY <1>3, <1>4, <1>5, <1>6, <1>7, <1>9 DEF u, before, since
<1>11. p.cbs <= passed + a.tc
  BY <1>3, <1>4, <1>5, <1>6, <1>7 DEF u
<1>12. Dropped(Color(b)) => p.cbs < u.passed + Length
  BY <1>3, <1>4, <1>5, <1>6, <1>7
<1>13. u.since <= a.time /\ a.time = now[k]
  BY <1>2, <1>3, <1>4, <1>5, <1>6
<1>14. 2 * p.cbs + before + since = 2 * p.cbs + p.cir * (a.time - u.since)
  BY <1>4, <1>8, <1>9, <1>13 DEF before, since
<1> QED
  BY <1>10, <1>11, <1>12, <1>13, <1>14 DEF u, p
LEMMA StoreKeepsBuckets ==
  ASSUME TypeOK, BucketInv, NEW k \in Lcores, StoreBucket(k)
  PROVE  BucketInv'
<1>0. PICK x, b : x = rule_id[k] /\ b = Refilled(reg[k].bucket, reg[k].profile, now[k])
  OBVIOUS
<1> DEFINE a == Taken(b)
<1>1. CoreTypes /\ MeterTypes
  BY DEF TypeOK
<1>2. /\ x \in MeterIds /\ pc[k] = "store"
      /\ UNCHANGED <<clock, g_meter_profiles, now>>
  BY <1>0, <1>1 DEF StoreBucket, controlVars, CoreTypes
<1>3. g_meters'[x] = a /\ \A y \in MeterIds \ {x} : g_meters'[y] = g_meters[y]
  BY <1>0, <1>1, <1>2 DEF StoreBucket, MeterTypes
<1>4. /\ pc'[k] = "idle"
      /\ \A j \in Lcores \ {k} : pc'[j] = pc[j] /\ reg'[j] = reg[j] /\ rule_id'[j] = rule_id[j]
  BY <1>1 DEF StoreBucket, NextPacket, CoreTypes
<1>5. \A y \in MeterIds \ {x} : use'[y] = use[y]
  BY <1>0, <1>1, <1>2 DEF StoreBucket, MeterTypes
<1>6. ASSUME Exact(x)'
      PROVE  /\ Exact(x) /\ use'[x].since = use[x].since
             /\ use'[x].passed = use[x].passed + IF Dropped(Color(b)) THEN 0 ELSE Length
  <2>1. Exact(x)
    BY <1>0, <1>6 DEF StoreBucket, Exact
  <2>2. use[x] \in [since : Times, passed : Nat, cores : SUBSET Lcores]
    BY <1>1, <1>2, <2>1 DEF MeterTypes, Exact
  <2>3. CASE Dropped(Color(b))
    <3>1. use' = use
      BY <1>0, <2>3 DEF StoreBucket
    <3> QED
      BY <2>1, <2>2, <2>3, <3>1
  <2>4. CASE ~Dropped(Color(b))
    <3>1. use' = [use EXCEPT ![x].passed = @ + Length]
      BY <1>0, <2>1, <2>4 DEF StoreBucket
    <3>2. use'[x] = [use[x] EXCEPT !.passed = @ + Length]
      BY <1>1, <1>2, <3>1 DEF MeterTypes
    <3> QED
      BY <2>1, <2>2, <2>4, <3>2
  <2> QED
    BY <2>3, <2>4
<1>7. Exact(x)' => Accounted(x)'
  <2> SUFFICES ASSUME Exact(x)' PROVE Accounted(x)'
    OBVIOUS
  <2>1. /\ use[x].since <= a.time
        /\ use'[x].passed + a.tc + a.te
             <= 2 * g_meter_profiles[x].cbs + g_meter_profiles[x].cir * (a.time - use[x].since)
        /\ g_meter_profiles[x].cbs <= use'[x].passed + a.tc
    BY <1>0, <1>2, <1>6, StoreAccounts
  <2> QED
    BY <1>2, <1>3, <1>6, <2>1 DEF Accounted
<1>8. a.time = now[k]
  <2>1. reg[k] \in [bucket : Buckets, profile : Profiles] /\ now[k] \in Times
    BY <1>1 DEF CoreTypes
  <2> QED
    BY <1>0, <2>1, RefillFacts, ChargeFacts
<1> HIDE DEF a
<1>9. \A y \in MeterIds \ {x} : Exact(y)' => Accounted(y)'
  BY <1>2, <1>3, <1>5 DEF BucketInv, Exact, Accounted
<1>10. ASSUME NEW j \in Lcores, pc'[j] = "store", Exact(rule_id[j])' PROVE Undisturbed(j)'
  <2>1. j # k
    BY <1>4, <1>10
  <2>2. pc[j] = "store" /\ reg'[j] = reg[j] /\ rule_id'[j] = rule_id[j] /\ rule_id[j] \in MeterIds
    BY <1>1, <1>4, <1>10, <2>1 DEF CoreTypes
  <2>3. rule_id[j] # x
    <3> SUFFICES ASSUME rule_id[j] = x PROVE FALSE
      OBVIOUS
    <3>1. Exact(x)'
      BY <1>10, <2>2 DEF Exact
    <3>2. use[x].cores = {j} /\ use[x].cores = {k}
      BY <1>0, <1>2, <1>6, <2>2, <3>1 DEF BucketInv, Undisturbed
    <3> QED
      BY <2>1, <3>2
  <2>4. use'[rule_id[j]] = use[rule_id[j]] /\ Exact(rule_id[j])
    BY <1>5, <1>10, <2>2, <2>3 DEF Exact
  <2>5. Undisturbed(j)
    BY <2>2, <2>4 DEF BucketInv
  <2> QED
    BY <1>2, <1>3, <2>2, <2>3, <2>4, <2>5 DEF Undisturbed
<1>11. /\ \A y \in MeterIds : g_meter_profiles'[y].ebs = g_meter_profiles'[y].cbs /\ g_meters'[y].time <= clock'
       /\ \A j \in Lcores : now'[j] <= clock'
  BY <1>2, <1>3, <1>8 DEF BucketInv
<1> QED
  BY <1>7, <1>9, <1>10, <1>11 DEF BucketInv

LEMMA BucketNext ==
  ASSUME TypeOK, BucketInv, [Next]_vars
  PROVE  BucketInv'
<1>1. CASE ConfigAction
  BY <1>1, BucketKept DEF ConfigAction, Boot, Reloaded, Refused, Command, Goto, BucketState, meterVars
<1>2. CASE ClearValid \/ SkipRule \/ SetValid \/ MetersReady \/ UNCHANGED vars
  BY <1>2, BucketKept DEF ClearValid, SkipRule, SetValid, MetersReady, vars, Goto, BucketState, meterVars
<1>3. ASSUME NEW k \in Lcores, CoreStep(k) PROVE BucketInv'
  BY <1>3, CoreKeepsBuckets, ReadKeepsBuckets, StoreKeepsBuckets DEF CoreStep
<1> QED
  BY <1>1, <1>2, <1>3, TickKeepsBuckets, ProfileKeepsBuckets, BucketKeepsBuckets
  DEF Next, ControlStep, ConfigAction

LEMMA BucketInvariant == Spec => [](TypeOK /\ BucketInv)
  BY BucketStart, BucketNext, MetersTyped, PTL DEF Spec

(* A meter one core uses, clear of a reconfiguration and by a clock that   *)
(* does not go back, passes no more than the two bursts and the committed  *)
(* rate allow, for every rate, packet length and sequence of packets       *)
THEOREM RateIsKept == Spec => []RateConforms
<1>1. ASSUME TypeOK, BucketInv PROVE RateConforms
  <2> SUFFICES ASSUME NEW x \in MeterIds, Exact(x)
               PROVE  use[x].passed <= 2 * g_meter_profiles[x].cbs
                                         + g_meter_profiles[x].cir * (clock - use[x].since)
    BY DEF RateConforms
  <2> DEFINE p == g_meter_profiles[x]
             b == g_meters[x]
             u == use[x]
  <2>1. /\ u.since <= b.time /\ b.time <= clock
        /\ u.passed + b.tc + b.te <= 2 * p.cbs + p.cir * (b.time - u.since)
    BY <1>1 DEF BucketInv, Accounted
  <2>2. /\ b.time \in Nat /\ b.tc \in Nat /\ b.te \in Nat /\ p.cir \in Nat /\ p.cbs \in Nat
        /\ u.since \in Nat /\ u.passed \in Nat /\ clock \in Nat
    BY <1>1, BucketTypes
  <2>3. /\ p.cir * (clock - u.since) = p.cir * (b.time - u.since) + p.cir * (clock - b.time)
        /\ p.cir * (clock - b.time) \in Nat /\ p.cir * (b.time - u.since) \in Nat
    <3>1. b.time - u.since \in Nat /\ clock - b.time \in Nat
      BY <2>1, <2>2
    <3>2. clock - u.since = (b.time - u.since) + (clock - b.time)
      BY <2>2
    <3> HIDE DEF p, b, u
    <3> QED
      BY <2>2, <3>1, <3>2, ProductOfSum
  <2> DEFINE before == p.cir * (b.time - u.since)
             since == p.cir * (clock - b.time)
  <2> HIDE DEF before, since, p, b, u
  <2>4. u.passed <= 2 * p.cbs + before + since
    BY <2>1, <2>2, <2>3 DEF before, since
  <2>5. 2 * p.cbs + before + since = 2 * p.cbs + p.cir * (clock - u.since)
    BY <2>2, <2>3 DEF before, since
  <2> QED
    BY <2>4, <2>5 DEF p, u
<1> QED
  BY <1>1, BucketInvariant, PTL

(* ... and drops a packet only if the committed burst is used up: no rate, *)
(* elapsed time or wrap of the clock makes traffic within its limit red    *)
THEOREM DropsAreDue == Spec => DropIsDue
<1>1. ASSUME TypeOK, BucketInv, [Next]_vars, NEW k \in Lcores,
             pc[k] = "store", pc'[k] = "idle", Exact(rule_id[k]), use' = use
      PROVE  use[rule_id[k]].passed + Length > reg[k].profile.cbs
  <2>0. PICK x, b : x = rule_id[k] /\ b = Refilled(reg[k].bucket, reg[k].profile, now[k])
    OBVIOUS
  <2>1. x \in MeterIds /\ MeterTypes /\ CoreTypes
    BY <1>1, <2>0 DEF TypeOK, CoreTypes
  <2>2. StoreBucket(k)
    <3>1. ASSUME UNCHANGED coreVars PROVE FALSE
      BY <1>1, <3>1 DEF coreVars
    <3>2. CASE Tick \/ ControlStep \/ UNCHANGED vars
      BY <3>1, <3>2 DEF Tick, ControlStep, Boot, Reloaded, Refused, Command, ClearValid, SkipRule,
                        SetProfile, SetBucket, SetValid, MetersReady, Goto, vars
    <3>3. ASSUME NEW j \in Lcores, CoreStep(j) PROVE StoreBucket(k)
      <4>1. j = k
        BY <1>1, <2>1, <3>3 DEF CoreStep, Burst, Match, NoMeter, HasMeter, ReadBucket, StoreBucket,
                               NextPacket, CoreTypes
      <4> QED
        BY <1>1, <3>3, <4>1 DEF CoreStep, Burst, Match, NoMeter, HasMeter, ReadBucket
    <3> QED
      BY <1>1, <3>2, <3>3 DEF Next
  <2>3. Dropped(Color(b))
    <3> SUFFICES ASSUME ~Dropped(Color(b)) PROVE FALSE
      OBVIOUS
    <3>1. use' = [use EXCEPT ![x].passed = @ + Length]
      BY <1>1, <2>0, <2>2 DEF StoreBucket
    <3>2. use[x] \in [since : Times, passed : Nat, cores : SUBSET Lcores]
      BY <1>1, <2>0, <2>1 DEF MeterTypes, Exact
    <3>3. use'[x].passed = use[x].passed + Length
      BY <2>1, <3>1, <3>2 DEF MeterTypes
    <3>4. use[x].passed \in Nat /\ Length \in Nat \ {0}
      BY <3>2, MetersAssumption
    <3> QED
      BY <1>1, <3>3, <3>4
  <2>4. g_meter_profiles[x].cbs < use[x].passed + Length
    BY <1>1, <2>0, <2>3, StoreAccounts
  <2>5. reg[k].profile = g_meter_profiles[x]
    <3>1. Undisturbed(k)
      BY <1>1 DEF BucketInv
    <3>2. reg[k] = [bucket |-> g_meters[x], profile |-> g_meter_profiles[x]]
      BY <2>0, <3>1 DEF Undisturbed
    <3> QED
      BY <3>2
  <2>6. g_meter_profiles[x].cbs \in Nat /\ use[x].passed \in Nat /\ Length \in Nat
    BY <1>1, <2>0, <2>1, BucketTypes, MetersAssumption
  <2> QED
    BY <2>0, <2>4, <2>5, <2>6
<1>2. TypeOK /\ BucketInv /\ [Next]_vars =>
        [\A k \in Lcores :
           pc[k] = "store" /\ pc'[k] = "idle" /\ Exact(rule_id[k]) /\ use' = use =>
             use[rule_id[k]].passed + Length > reg[k].profile.cbs]_vars
  BY <1>1
<1> QED
  BY <1>2, BucketInvariant, PTL DEF DropIsDue, Spec
=============================================================================
