--------------------------- MODULE PipelineProofs ---------------------------
(***************************************************************************)
(* Proofs about Pipeline, for any number of forwarding cores and mbufs and *)
(* any MAX_BURST: no mbuf is leaked or freed twice (MbufsOwned), no step   *)
(* but one touches an mbuf that is not the core's (OwnTouched), packets    *)
(* stay in order (OrderKept) and each is counted exactly once more         *)
(* (CountersBalance, SnapshotsBalance).                                    *)
(***************************************************************************)
EXTENDS Pipeline, FiniteSetTheorems, SequenceTheorems, TLAPS

Pcs == {"rx", "classify", "filter", "account", "stopped"}

Typed ==
  /\ owner \in [Mbufs -> Lcores \cup {Pool, Nic}]
  /\ pc \in [Lcores -> Pcs]
  /\ rx_pkts \in [Lcores -> Seq(Mbufs)]
  /\ tx_pkts \in [Lcores -> Seq(Mbufs)]
  /\ i \in [Lcores -> Nat]
  /\ sent \in [Lcores -> Nat]
  /\ stats \in [Counters -> Nat] /\ snap \in [Counters -> Nat]
  /\ g_force_quit \in BOOLEAN /\ quiet \in BOOLEAN
  /\ loaded \subseteq Counters

Rx(k) == 1 .. Len(rx_pkts[k])
Tx(k) == 1 .. Len(tx_pkts[k])

(* Where a core is in its bursts *)
Bounds(k) ==
  /\ Len(rx_pkts[k]) <= MaxBurst
  /\ \A x, y \in Rx(k) : rx_pkts[k][x] = rx_pkts[k][y] => x = y
  /\ pc[k] \in {"rx", "stopped"} =>
       Len(rx_pkts[k]) = 0 /\ Len(tx_pkts[k]) = 0 /\ i[k] = 1 /\ sent[k] = 0
  /\ pc[k] = "classify" => i[k] \in Rx(k) /\ Len(tx_pkts[k]) = 0 /\ sent[k] = 0
  /\ pc[k] = "filter" =>
       i[k] \in 1 .. Len(rx_pkts[k]) + 1 /\ Len(tx_pkts[k]) < i[k] /\ sent[k] = 0
  /\ pc[k] = "account" =>
       /\ Len(tx_pkts[k]) <= Len(rx_pkts[k])
       /\ i[k] \in 1 .. Len(tx_pkts[k]) + 1 /\ sent[k] \in 0 .. Len(tx_pkts[k])

(* The queue holds packets of the burst that were looked at, in its order *)
Ordered(k) ==
  /\ pc[k] = "filter" =>
       \A x \in Tx(k) : \E u \in Rx(k) : u < i[k] /\ rx_pkts[k][u] = tx_pkts[k][x]
  /\ \A x, y \in Tx(k) : x < y =>
       \E u, v \in Rx(k) :
         u < v /\ rx_pkts[k][u] = tx_pkts[k][x] /\ rx_pkts[k][v] = tx_pkts[k][y]

(* The mbuf is one core k has still to send or to free *)
ToDo(k, m) ==
  \/ pc[k] = "classify" /\ \E x \in Rx(k) : rx_pkts[k][x] = m
  \/ pc[k] = "filter" /\ \E x \in Rx(k) : x >= i[k] /\ rx_pkts[k][x] = m
  \/ pc[k] = "filter" /\ \E x \in Tx(k) : tx_pkts[k][x] = m
  \/ pc[k] = "account" /\ \E x \in Tx(k) : x > sent[k] /\ x >= i[k] /\ tx_pkts[k][x] = m

Owns(k) == \A m \in Mbufs : owner[m] = k <=> ToDo(k, m)

CoreInv(k) == Bounds(k) /\ Ordered(k) /\ Owns(k)

BurstInv == Typed /\ \A k \in Lcores : CoreInv(k)

-----------------------------------------------------------------------------
(* What a step of one core leaves to the others *)

LocalsKept(l) ==
  /\ pc'[l] = pc[l] /\ rx_pkts'[l] = rx_pkts[l] /\ tx_pkts'[l] = tx_pkts[l]
  /\ i'[l] = i[l] /\ sent'[l] = sent[l]

LEMMA OtherCores ==
  ASSUME NEW l \in Lcores, CoreInv(l), LocalsKept(l),
         \A m \in Mbufs : owner'[m] = l <=> owner[m] = l
  PROVE  CoreInv(l)'
BY DEF CoreInv, LocalsKept, Bounds, Ordered, Owns, ToDo, Rx, Tx

(* No mbuf is in the queue twice, and none is also in the rest of the burst *)
LEMMA QueueDistinct ==
  ASSUME NEW k \in Lcores, Typed, Bounds(k), Ordered(k)
  PROVE  /\ \A x, y \in Tx(k) : tx_pkts[k][x] = tx_pkts[k][y] => x = y
         /\ pc[k] = "filter" => \A x \in Tx(k), y \in Rx(k) :
              y >= i[k] => rx_pkts[k][y] # tx_pkts[k][x]
<1>. Len(rx_pkts[k]) \in Nat /\ Len(tx_pkts[k]) \in Nat /\ i[k] \in Nat
  BY LenProperties DEF Typed
<1>1. ASSUME NEW x \in Tx(k), NEW y \in Tx(k), x < y
      PROVE  tx_pkts[k][x] # tx_pkts[k][y]
  <2>1. PICK u \in Rx(k), v \in Rx(k) :
          u < v /\ rx_pkts[k][u] = tx_pkts[k][x] /\ rx_pkts[k][v] = tx_pkts[k][y]
    BY <1>1 DEF Ordered
  <2>. QED BY <2>1 DEF Bounds, Rx
<1>2. ASSUME NEW x \in Tx(k), NEW y \in Tx(k), tx_pkts[k][x] = tx_pkts[k][y]
      PROVE  x = y
  <2>1. ~(x < y) /\ ~(y < x) BY <1>1, <1>2
  <2>. QED BY <2>1 DEF Tx
<1>3. ASSUME pc[k] = "filter", NEW x \in Tx(k), NEW y \in Rx(k), y >= i[k]
      PROVE  rx_pkts[k][y] # tx_pkts[k][x]
  <2>1. PICK u \in Rx(k) : u < i[k] /\ rx_pkts[k][u] = tx_pkts[k][x]
    BY <1>3 DEF Ordered
  <2>. QED BY <1>3, <2>1 DEF Bounds, Rx
<1>. QED BY <1>2, <1>3

-----------------------------------------------------------------------------
(* Every step keeps the types *)

LEMMA TypedInit == Init => Typed
<1>. SUFFICES ASSUME Init PROVE Typed OBVIOUS
<1>1. << >> \in Seq(Mbufs) BY EmptySeq
<1>. QED BY <1>1 DEF Init, Typed, Pcs, Counters, Zero

LEMMA BurstIsSeq ==
  ASSUME NEW b \in Bursts
  PROVE  /\ b \in Seq(Mbufs) /\ Len(b) \in 1 .. MaxBurst
         /\ \A x \in 1 .. Len(b) : b[x] \in Mbufs /\ owner[b[x]] = Pool
         /\ \A x, y \in 1 .. Len(b) : b[x] = b[y] => x = y
         /\ Range(b) = {b[x] : x \in 1 .. Len(b)}
<1>1. PICK n \in 1 .. MaxBurst : b \in [1 .. n -> Mbufs] BY DEF Bursts
<1>2. n \in Nat BY PipelineAssumption
<1>3. b \in Seq(Mbufs) BY <1>1, <1>2
<1>4. Len(b) = n /\ DOMAIN b = 1 .. n BY <1>1, <1>2, <1>3
<1>. QED BY <1>1, <1>3, <1>4 DEF Bursts, IsInjective, Range

(* What a step of core k leaves alone *)
Frame(k) ==
  \A l \in Lcores \ {k} :
    LocalsKept(l) /\ \A m \in Mbufs : owner'[m] = l <=> owner[m] = l

Good(k) == Typed' /\ CoreInv(k)' /\ Frame(k)

LEMMA InBurst ==
  ASSUME NEW k \in Lcores, Typed
  PROVE  /\ Len(rx_pkts[k]) \in Nat /\ Len(tx_pkts[k]) \in Nat
         /\ \A x \in Rx(k) : rx_pkts[k][x] \in Mbufs
         /\ \A x \in Tx(k) : tx_pkts[k][x] \in Mbufs
BY LenProperties, ElementOfSeq DEF Typed, Rx, Tx

LEMMA Counted ==
  ASSUME Typed, NEW c \in Counters, stats' = [stats EXCEPT ![c] = @ + 1]
  PROVE  stats' \in [Counters -> Nat]
BY DEF Typed

LEMMA RxBurstStep ==
  ASSUME NEW k \in Lcores, Typed, CoreInv(k), RxBurst(k)
  PROVE  Good(k)
<1>1. PICK b \in Bursts :
        /\ rx_pkts' = [rx_pkts EXCEPT ![k] = b]
        /\ owner' = [m \in Mbufs |-> IF m \in Range(b) THEN k ELSE owner[m]]
  BY DEF RxBurst
<1>2. /\ b \in Seq(Mbufs) /\ Len(b) \in 1 .. MaxBurst
      /\ \A x \in 1 .. Len(b) : b[x] \in Mbufs /\ owner[b[x]] = Pool
      /\ \A x, y \in 1 .. Len(b) : b[x] = b[y] => x = y
      /\ Range(b) = {b[x] : x \in 1 .. Len(b)}
  BY BurstIsSeq
<1>3. Typed' BY <1>1, <1>2 DEF RxBurst, Typed, Pcs
<1>4. Frame(k)
  BY <1>1, <1>2, PipelineAssumption DEF RxBurst, Frame, LocalsKept, Typed
<1>5. /\ rx_pkts'[k] = b /\ tx_pkts'[k] = tx_pkts[k] /\ i'[k] = 1 /\ sent'[k] = 0
      /\ pc'[k] = "classify" /\ pc[k] = "rx" /\ Len(tx_pkts[k]) = 0
  BY <1>1 DEF RxBurst, Typed, CoreInv, Bounds
<1>6. Bounds(k)' BY <1>2, <1>5, PipelineAssumption DEF Bounds, Rx
<1>7. Ordered(k)' BY <1>5 DEF Ordered, Tx
<1>8. \A m \in Mbufs : owner[m] # k
  BY <1>5 DEF CoreInv, Owns, ToDo
<1>9. Owns(k)' BY <1>1, <1>2, <1>5, <1>8 DEF Owns, ToDo, Rx
<1>. QED BY <1>3, <1>4, <1>6, <1>7, <1>9 DEF Good, CoreInv

LEMMA StopStep ==
  ASSUME NEW k \in Lcores, Typed, CoreInv(k), Stop(k)
  PROVE  Good(k)
<1>1. Typed' BY DEF Stop, Typed, Pcs, snapVars
<1>2. Frame(k) BY DEF Stop, Frame, LocalsKept, Typed
<1>3. CoreInv(k)' BY DEF Stop, CoreInv, Bounds, Ordered, Owns, ToDo, Rx, Tx, Typed
<1>. QED BY <1>1, <1>2, <1>3 DEF Good

LEMMA ClassifyStep ==
  ASSUME NEW k \in Lcores, Typed, CoreInv(k), Classify(k)
  PROVE  Good(k)
<1>. USE InBurst
<1>0. stats' \in [Counters -> Nat] BY Counted DEF Classify, Counters
<1>1. Typed'
  <2>1. i' \in [Lcores -> Nat] /\ pc' \in [Lcores -> Pcs]
    <3>1. \/ i' = [i EXCEPT ![k] = i[k] + 1] /\ pc' = pc
          \/ i' = [i EXCEPT ![k] = 1] /\ pc' = [pc EXCEPT ![k] = "filter"]
      BY DEF Classify, Typed
    <3>2. i[k] \in Nat /\ i[k] + 1 \in Nat BY DEF Typed
    <3>3. i' \in [Lcores -> Nat] BY <3>1, <3>2 DEF Typed
    <3>4. pc' \in [Lcores -> Pcs] BY <3>1 DEF Typed, Pcs
    <3>. QED BY <3>3, <3>4
  <2>2. UNCHANGED <<owner, rx_pkts, tx_pkts, sent, g_force_quit, snap, loaded, quiet>>
    BY DEF Classify, snapVars
  <2>. QED BY <1>0, <2>1, <2>2 DEF Typed
<1>2. Frame(k) BY DEF Classify, Frame, LocalsKept, Typed
<1>3. Bounds(k)' BY DEF Classify, CoreInv, Bounds, Rx, Typed
<1>4. Len(tx_pkts[k]) = 0 /\ tx_pkts' = tx_pkts BY DEF Classify, CoreInv, Bounds
<1>5. Ordered(k)' BY <1>4 DEF Ordered, Tx
<1>6. \/ pc'[k] = "classify"
      \/ pc'[k] = "filter" /\ i'[k] = 1
  BY DEF Classify, Typed
<1>7. Owns(k)' BY <1>4, <1>6 DEF Classify, CoreInv, Owns, ToDo, Rx, Tx
<1>. QED BY <1>1, <1>2, <1>3, <1>5, <1>7 DEF Good, CoreInv

LEMMA KeepStep ==
  ASSUME NEW k \in Lcores, Typed, CoreInv(k), Keep(k)
  PROVE  Good(k)
<1>. DEFINE q == tx_pkts[k]  r == rx_pkts[k]  n == i[k]
<1>0. pc[k] = "filter" /\ pc' = pc /\ rx_pkts' = rx_pkts /\ sent' = sent /\ owner' = owner
  BY DEF Keep
<1>1. n \in Rx(k) /\ r[n] \in Mbufs /\ q \in Seq(Mbufs) /\ Len(q) \in Nat /\ Len(r) \in Nat
  BY <1>0, InBurst DEF Keep, CoreInv, Bounds, Rx, Typed
<1>2. /\ Append(q, r[n]) \in Seq(Mbufs) /\ Len(Append(q, r[n])) = Len(q) + 1
      /\ Append(q, r[n])[Len(q) + 1] = r[n]
      /\ \A x \in 1 .. Len(q) : Append(q, r[n])[x] = q[x]
  BY <1>1
<1>3. tx_pkts'[k] = Append(q, r[n]) /\ i'[k] = n + 1
  BY DEF Keep, Queued, Typed
<1>4. Typed' BY <1>2 DEF Keep, Queued, Typed, snapVars
<1>5. Frame(k) BY DEF Keep, Frame, LocalsKept, Typed
<1>. HIDE DEF q, r, n
<1>6. Bounds(k)'
  BY <1>0, <1>1, <1>2, <1>3 DEF CoreInv, Bounds, Rx, q, r, n
<1>7. ASSUME NEW x \in 1 .. Len(q)
      PROVE  \E u \in Rx(k) : u < n /\ r[u] = q[x]
  BY <1>0 DEF CoreInv, Ordered, Tx, q, r, n
<1>8. ASSUME NEW x \in Tx(k)'
      PROVE  \E u \in Rx(k)' : u < i'[k] /\ rx_pkts'[k][u] = tx_pkts'[k][x]
  <2>1. CASE x = Len(q) + 1
    BY <1>0, <1>1, <1>2, <1>3, <2>1 DEF Rx, r, n
  <2>2. CASE x \in 1 .. Len(q)
    <3>1. PICK u \in Rx(k) : u < n /\ r[u] = q[x] BY <1>7, <2>2
    <3>. QED BY <1>0, <1>1, <1>2, <1>3, <2>2, <3>1 DEF Rx, r
  <2>. QED BY <1>1, <1>2, <1>3, <2>1, <2>2 DEF Tx
<1>9. ASSUME NEW x \in Tx(k)', NEW y \in Tx(k)', x < y
      PROVE  \E u, v \in Rx(k)' :
               u < v /\ rx_pkts'[k][u] = tx_pkts'[k][x] /\ rx_pkts'[k][v] = tx_pkts'[k][y]
  <2>1. x \in 1 .. Len(q) /\ (y \in 1 .. Len(q) \/ y = Len(q) + 1)
    BY <1>1, <1>2, <1>3, <1>9 DEF Tx
  <2>2. CASE y = Len(q) + 1
    <3>1. PICK u \in Rx(k) : u < n /\ r[u] = q[x] BY <1>7, <2>1
    <3>. QED BY <1>0, <1>1, <1>2, <1>3, <2>1, <2>2, <3>1 DEF Rx, r
  <2>3. CASE y \in 1 .. Len(q)
    <3>1. PICK u \in Rx(k), v \in Rx(k) : u < v /\ r[u] = q[x] /\ r[v] = q[y]
      BY <1>9, <2>1, <2>3 DEF CoreInv, Ordered, Tx, q, r
    <3>. QED BY <1>0, <1>2, <1>3, <2>1, <2>3, <3>1 DEF Rx, r
  <2>. QED BY <2>1, <2>2, <2>3
<1>10. Ordered(k)' BY <1>8, <1>9 DEF Ordered
<1>11. ASSUME NEW m \in Mbufs
       PROVE  ToDo(k, m)' <=> ToDo(k, m)
  <2>1. ToDo(k, m) <=> \/ \E x \in Rx(k) : x >= n /\ r[x] = m
                       \/ \E x \in 1 .. Len(q) : q[x] = m
    BY <1>0 DEF ToDo, Tx, q, r, n
  <2>2. ToDo(k, m)' <=> \/ \E x \in Rx(k) : x >= n + 1 /\ r[x] = m
                        \/ \E x \in 1 .. Len(q) + 1 : Append(q, r[n])[x] = m
    BY <1>0, <1>2, <1>3 DEF ToDo, Rx, Tx, r
  <2>3. (\E x \in 1 .. Len(q) + 1 : Append(q, r[n])[x] = m)
        <=> (r[n] = m \/ \E x \in 1 .. Len(q) : q[x] = m)
    BY <1>1, <1>2
  <2>4. (\E x \in Rx(k) : x >= n /\ r[x] = m)
        <=> (r[n] = m \/ \E x \in Rx(k) : x >= n + 1 /\ r[x] = m)
    BY <1>1 DEF Rx
  <2>. QED BY <2>1, <2>2, <2>3, <2>4
<1>12. Owns(k)' BY <1>0, <1>11 DEF CoreInv, Owns
<1>. QED BY <1>4, <1>5, <1>6, <1>10, <1>12 DEF Good, CoreInv

LEMMA DropStep ==
  ASSUME NEW k \in Lcores, Typed, CoreInv(k), Drop(k)
  PROVE  Good(k)
<1>. DEFINE n == i[k]
<1>0. /\ pc[k] = "filter" /\ pc' = pc /\ rx_pkts' = rx_pkts /\ tx_pkts' = tx_pkts
      /\ sent' = sent /\ i'[k] = n + 1
  BY DEF Drop, Typed
<1>1. n \in Rx(k) /\ rx_pkts[k][n] \in Mbufs /\ Len(rx_pkts[k]) \in Nat
  BY <1>0, InBurst DEF Drop, CoreInv, Bounds, Rx
<1>2. owner[rx_pkts[k][n]] = k BY <1>0, <1>1 DEF CoreInv, Owns, ToDo, Rx
<1>3. stats' \in [Counters -> Nat] BY Counted DEF Drop, Counters
<1>4. Typed'
  <2>1. i' = [i EXCEPT ![k] = i[k] + 1] /\ i[k] + 1 \in Nat
    BY DEF Drop, Typed
  <2>2. owner' = [owner EXCEPT ![rx_pkts[k][n]] = Pool] BY DEF Drop
  <2>3. i' \in [Lcores -> Nat] BY <2>1 DEF Typed
  <2>4. owner' \in [Mbufs -> Lcores \cup {Pool, Nic}] BY <2>2 DEF Typed
  <2>5. UNCHANGED <<pc, rx_pkts, tx_pkts, sent, g_force_quit, snap, loaded, quiet>>
    BY DEF Drop, snapVars
  <2>. QED BY <1>3, <2>3, <2>4, <2>5 DEF Typed
<1>5. Frame(k)
  BY <1>1, <1>2, PipelineAssumption DEF Drop, Frame, LocalsKept, Typed
<1>6. Bounds(k)' BY <1>0, <1>1 DEF CoreInv, Bounds, Rx
<1>7. Ordered(k)'
  <2>1. \A x \in Tx(k) : \E u \in Rx(k) : u < n + 1 /\ rx_pkts[k][u] = tx_pkts[k][x]
    BY <1>0, <1>1 DEF CoreInv, Ordered, Rx
  <2>. QED BY <1>0, <2>1 DEF CoreInv, Ordered, Rx, Tx
<1>8. ASSUME NEW m \in Mbufs
      PROVE  owner'[m] = k <=> ToDo(k, m)'
  <2>1. owner'[m] = k <=> owner[m] = k /\ m # rx_pkts[k][n]
    BY <1>1, PipelineAssumption DEF Drop, Typed
  <2>2. ToDo(k, m)' <=> ToDo(k, m) /\ m # rx_pkts[k][n]
    <3>1. ToDo(k, m)' <=> \/ \E x \in Rx(k) : x >= n + 1 /\ rx_pkts[k][x] = m
                          \/ \E x \in Tx(k) : tx_pkts[k][x] = m
      BY <1>0 DEF ToDo, Rx, Tx
    <3>2. ToDo(k, m) <=> \/ \E x \in Rx(k) : x >= n /\ rx_pkts[k][x] = m
                         \/ \E x \in Tx(k) : tx_pkts[k][x] = m
      BY <1>0 DEF ToDo
    <3>3. \A x \in Tx(k) : tx_pkts[k][x] # rx_pkts[k][n]
      BY <1>0, <1>1, QueueDistinct DEF CoreInv, Rx
    <3>4. \A x \in Rx(k) : rx_pkts[k][x] = rx_pkts[k][n] => x = n
      BY <1>1 DEF CoreInv, Bounds
    <3>. QED BY <1>1, <3>1, <3>2, <3>3, <3>4 DEF Rx
  <2>. QED BY <2>1, <2>2 DEF CoreInv, Owns
<1>9. Owns(k)' BY <1>8 DEF Owns
<1>. QED BY <1>4, <1>5, <1>6, <1>7, <1>9 DEF Good, CoreInv

LEMMA NextTurnStep ==
  ASSUME NEW k \in Lcores, Typed, CoreInv(k), NothingToSend(k) \/ Accounted(k)
  PROVE  Good(k)
<1>. USE InBurst
<1>0. /\ NextTurn(k) /\ owner' = owner
      /\ UNCHANGED <<stats, g_force_quit, snapVars>>
  BY DEF NothingToSend, Accounted
<1>1. << >> \in Seq(Mbufs) /\ Len(<< >>) = 0 BY EmptySeq
<1>2. Typed' BY <1>0, <1>1 DEF NextTurn, Typed, Pcs, snapVars
<1>3. Frame(k) BY <1>0 DEF NextTurn, Frame, LocalsKept, Typed
<1>4. /\ pc'[k] = "rx" /\ rx_pkts'[k] = << >> /\ tx_pkts'[k] = << >>
      /\ i'[k] = 1 /\ sent'[k] = 0
  BY <1>0 DEF NextTurn, Typed
<1>5. Bounds(k)' /\ Ordered(k)'
  BY <1>1, <1>4, PipelineAssumption DEF Bounds, Ordered, Rx, Tx
<1>6. \A m \in Mbufs : ~ToDo(k, m)
  <2>1. CASE NothingToSend(k)
    BY <1>1, <2>1 DEF NothingToSend, CoreInv, Bounds, ToDo, Rx, Tx
  <2>2. CASE Accounted(k)
    BY <2>2 DEF Accounted, CoreInv, Bounds, ToDo, Rx, Tx
  <2>. QED BY <2>1, <2>2
<1>7. Owns(k)' BY <1>0, <1>4, <1>6 DEF CoreInv, Owns, ToDo
<1>. QED BY <1>2, <1>3, <1>5, <1>7 DEF Good, CoreInv

LEMMA TxBurstStep ==
  ASSUME NEW k \in Lcores, Typed, CoreInv(k), TxBurst(k)
  PROVE  Good(k)
<1>. USE InBurst
<1>1. PICK n \in 0 .. Len(tx_pkts[k]) :
        /\ sent' = [sent EXCEPT ![k] = n]
        /\ owner' = [m \in Mbufs |->
                       IF \E x \in 1 .. n : tx_pkts[k][x] = m THEN Nic ELSE owner[m]]
  BY DEF TxBurst
<1>2. /\ pc[k] = "filter" /\ pc'[k] = "account" /\ i'[k] = 1 /\ sent'[k] = n
      /\ rx_pkts' = rx_pkts /\ tx_pkts' = tx_pkts /\ i[k] > Len(rx_pkts[k])
  BY <1>1 DEF TxBurst, Typed
<1>3. Typed' BY <1>1 DEF TxBurst, Typed, Pcs, snapVars
<1>4. \A x \in 1 .. n : owner[tx_pkts[k][x]] = k
  BY <1>2 DEF CoreInv, Owns, ToDo, Tx
<1>5. Frame(k)
  BY <1>1, <1>4, PipelineAssumption DEF TxBurst, Frame, LocalsKept, Typed
<1>6. Bounds(k)' BY <1>2 DEF CoreInv, Bounds, Rx
<1>7. Ordered(k)'
  <2>1. Rx(k)' = Rx(k) /\ Tx(k)' = Tx(k) BY <1>2 DEF Rx, Tx
  <2>. QED BY <1>2, <2>1 DEF CoreInv, Ordered
<1>8. ASSUME NEW m \in Mbufs
      PROVE  owner'[m] = k <=> ToDo(k, m)'
  <2>1. owner'[m] = k <=> owner[m] = k /\ ~\E x \in 1 .. n : tx_pkts[k][x] = m
    BY <1>1, PipelineAssumption
  <2>2. owner[m] = k <=> \E x \in Tx(k) : tx_pkts[k][x] = m
    <3>1. \A x \in Rx(k) : ~(x >= i[k]) BY <1>2 DEF Rx, Typed
    <3>. QED BY <1>2, <3>1 DEF CoreInv, Owns, ToDo
  <2>3. \A x, y \in Tx(k) : tx_pkts[k][x] = tx_pkts[k][y] => x = y
    BY QueueDistinct DEF CoreInv
  <2>4. ToDo(k, m)' <=> \E x \in Tx(k) : x > n /\ tx_pkts[k][x] = m
    BY <1>2 DEF ToDo, Tx
  <2>. QED BY <2>1, <2>2, <2>3, <2>4 DEF Tx
<1>9. Owns(k)' BY <1>8 DEF Owns
<1>. QED BY <1>3, <1>5, <1>6, <1>7, <1>9 DEF Good, CoreInv

LEMMA CountSentStep ==
  ASSUME NEW k \in Lcores, Typed, CoreInv(k), CountSent(k)
  PROVE  Good(k)
<1>. USE InBurst
<1>1. stats' \in [Counters -> Nat] BY Counted DEF CountSent, Counters
<1>2. Typed' BY <1>1 DEF CountSent, Typed, snapVars
<1>3. Frame(k) BY DEF CountSent, Frame, LocalsKept, Typed
<1>4. Bounds(k)' BY DEF CountSent, CoreInv, Bounds, Rx, Typed
<1>5. Ordered(k)' BY DEF CountSent, CoreInv, Ordered, Rx, Tx
<1>6. Owns(k)'
  <2>1. /\ pc[k] = "account" /\ pc' = pc /\ tx_pkts' = tx_pkts /\ sent' = sent
        /\ owner' = owner /\ i'[k] = i[k] + 1 /\ i[k] <= sent[k]
        /\ i[k] \in Nat /\ sent[k] \in Nat
    BY DEF CountSent, Typed
  <2>2. ASSUME NEW m \in Mbufs PROVE ToDo(k, m)' <=> ToDo(k, m)
    <3>1. Tx(k)' = Tx(k) BY <2>1 DEF Tx
    <3>2. \A x \in Tx(k) : x > sent[k] => x >= i[k] /\ x >= i[k] + 1
      BY <2>1 DEF Tx
    <3>. QED BY <2>1, <3>1, <3>2 DEF ToDo
  <2>. QED BY <2>1, <2>2 DEF CoreInv, Owns
<1>. QED BY <1>2, <1>3, <1>4, <1>5, <1>6 DEF Good, CoreInv

LEMMA FreeUnsentStep ==
  ASSUME NEW k \in Lcores, Typed, CoreInv(k), FreeUnsent(k)
  PROVE  Good(k)
<1>. USE InBurst
<1>. DEFINE n == i[k]
<1>0. /\ pc[k] = "account" /\ pc' = pc /\ rx_pkts' = rx_pkts /\ tx_pkts' = tx_pkts
      /\ sent' = sent /\ i'[k] = n + 1 /\ n > sent[k]
  BY DEF FreeUnsent, AfterUnsent, Typed
<1>1. n \in Tx(k) /\ tx_pkts[k][n] \in Mbufs /\ sent[k] \in Nat
  BY <1>0 DEF FreeUnsent, CoreInv, Bounds, Tx
<1>2. owner[tx_pkts[k][n]] = k BY <1>0, <1>1 DEF CoreInv, Owns, ToDo, Tx
<1>3. stats' \in [Counters -> Nat] BY Counted DEF FreeUnsent, UnsentCounted, Counters
<1>4. Typed' BY <1>1, <1>3 DEF FreeUnsent, AfterUnsent, Typed, snapVars
<1>5. Frame(k)
  BY <1>1, <1>2, PipelineAssumption DEF FreeUnsent, Frame, LocalsKept, Typed
<1>6. Bounds(k)' BY <1>0, <1>1 DEF CoreInv, Bounds, Rx, Tx
<1>7. Ordered(k)' BY <1>0 DEF CoreInv, Ordered, Rx, Tx
<1>8. ASSUME NEW m \in Mbufs
      PROVE  owner'[m] = k <=> ToDo(k, m)'
  <2>1. owner'[m] = k <=> owner[m] = k /\ m # tx_pkts[k][n]
    BY <1>1, PipelineAssumption DEF FreeUnsent, Typed
  <2>2. \A x, y \in Tx(k) : tx_pkts[k][x] = tx_pkts[k][y] => x = y
    BY QueueDistinct DEF CoreInv
  <2>3. ToDo(k, m)' <=> \E x \in Tx(k) : x > sent[k] /\ x >= n + 1 /\ tx_pkts[k][x] = m
    BY <1>0 DEF ToDo, Tx
  <2>4. ToDo(k, m) <=> \E x \in Tx(k) : x > sent[k] /\ x >= n /\ tx_pkts[k][x] = m
    BY <1>0 DEF ToDo
  <2>5. ToDo(k, m)' <=> ToDo(k, m) /\ m # tx_pkts[k][n]
    BY <1>0, <1>1, <2>2, <2>3, <2>4 DEF Tx
  <2>. QED BY <2>1, <2>5 DEF CoreInv, Owns
<1>9. Owns(k)' BY <1>8 DEF Owns
<1>. QED BY <1>4, <1>5, <1>6, <1>7, <1>9 DEF Good, CoreInv

LEMMA TurnStepGood ==
  ASSUME NEW k \in Lcores, Typed, CoreInv(k), RxBurst(k) \/ TurnStep(k)
  PROVE  Good(k)
BY RxBurstStep, StopStep, ClassifyStep, KeepStep, DropStep, NextTurnStep,
   TxBurstStep, CountSentStep, FreeUnsentStep DEF TurnStep

(* What is no step of a core *)
LEMMA OutsideStep ==
  ASSUME BurstInv,
         \/ \E m \in Mbufs : NicFrees(m)
         \/ Signal \/ SnapshotBegin \/ SnapshotLoad
         \/ UNCHANGED vars
  PROVE  BurstInv'
<1>0. UNCHANGED coreVars /\ Typed
  BY DEF NicFrees, Signal, SnapshotBegin, SnapshotLoad, vars, BurstInv
<1>1. \A l \in Lcores : LocalsKept(l) BY <1>0 DEF coreVars, LocalsKept
<1>2. Typed'
  <2>1. CASE \E m \in Mbufs : NicFrees(m) BY <1>0, <2>1 DEF NicFrees, snapVars, coreVars, Typed
  <2>2. CASE Signal BY <1>0, <2>2 DEF Signal, snapVars, coreVars, Typed
  <2>3. CASE SnapshotBegin
    BY <1>0, <2>3 DEF SnapshotBegin, coreVars, Typed, Zero, AllBetweenTurns
  <2>4. CASE SnapshotLoad
    <3>1. PICK c \in Counters : snap' = [snap EXCEPT ![c] = stats[c]] /\ loaded' = loaded \cup {c}
      BY <2>4 DEF SnapshotLoad, Loads
    <3>2. snap' \in [Counters -> Nat] /\ loaded' \subseteq Counters BY <1>0, <3>1 DEF Typed
    <3>. QED BY <1>0, <2>4, <3>2 DEF SnapshotLoad, coreVars, Typed
  <2>5. CASE UNCHANGED vars BY <1>0, <2>5 DEF vars, coreVars, snapVars, Typed
  <2>. QED BY <2>1, <2>2, <2>3, <2>4, <2>5
<1>3. ASSUME NEW l \in Lcores, NEW m \in Mbufs
      PROVE  owner'[m] = l <=> owner[m] = l
  <2>1. CASE \E f \in Mbufs : NicFrees(f)
    BY <1>0, <2>1, PipelineAssumption DEF NicFrees, Typed
  <2>2. CASE owner' = owner BY <2>2
  <2>. QED BY <2>1, <2>2 DEF Signal, SnapshotBegin, SnapshotLoad, vars
<1>4. \A l \in Lcores : CoreInv(l)' BY <1>1, <1>3, OtherCores DEF BurstInv
<1>. QED BY <1>2, <1>4 DEF BurstInv

LEMMA BurstStable == BurstInv /\ [Next]_vars => BurstInv'
<1>. SUFFICES ASSUME BurstInv, [Next]_vars PROVE BurstInv' OBVIOUS
<1>1. ASSUME NEW k \in Lcores, RxBurst(k) \/ TurnStep(k)
      PROVE  BurstInv'
  <2>1. Good(k) BY <1>1, TurnStepGood DEF BurstInv
  <2>2. \A l \in Lcores \ {k} : CoreInv(l)'
    BY <2>1, OtherCores DEF Good, Frame, BurstInv
  <2>. QED BY <2>1, <2>2 DEF Good, BurstInv
<1>. QED BY <1>1, OutsideStep DEF Next

LEMMA BurstInit == Init => BurstInv
<1>. SUFFICES ASSUME Init PROVE BurstInv OBVIOUS
<1>1. << >> \in Seq(Mbufs) /\ Len(<< >>) = 0 BY EmptySeq
<1>2. ASSUME NEW k \in Lcores PROVE CoreInv(k)
  BY <1>1, PipelineAssumption DEF Init, CoreInv, Bounds, Ordered, Owns, ToDo, Rx, Tx
<1>. QED BY <1>2, TypedInit DEF BurstInv

LEMMA BurstAlways == Spec => []BurstInv
BY BurstInit, BurstStable, PTL DEF Spec

-----------------------------------------------------------------------------
(* Every variable keeps its type, and no array of MAX_BURST is overrun *)
THEOREM TypeCorrect == Spec => []TypeOK
<1>1. ASSUME BurstInv PROVE TypeOK
  <2>1. ASSUME NEW k \in Lcores
        PROVE  /\ Len(rx_pkts[k]) <= MaxBurst /\ Range(rx_pkts[k]) \subseteq Mbufs
               /\ Len(tx_pkts[k]) <= MaxBurst /\ Range(tx_pkts[k]) \subseteq Mbufs
               /\ i[k] \in 1 .. MaxBurst + 1
               /\ sent[k] \in 0 .. Len(tx_pkts[k])
    <3>1. /\ Len(rx_pkts[k]) \in Nat /\ DOMAIN rx_pkts[k] = Rx(k)
          /\ Len(tx_pkts[k]) \in Nat /\ DOMAIN tx_pkts[k] = Tx(k)
      BY <1>1, LenProperties DEF BurstInv, Typed, Rx, Tx
    <3>2. Range(rx_pkts[k]) \subseteq Mbufs /\ Range(tx_pkts[k]) \subseteq Mbufs
      BY <1>1, <3>1, InBurst DEF BurstInv, Range
    <3>3. Bounds(k) /\ pc[k] \in Pcs /\ MaxBurst \in Nat \ {0}
      BY <1>1, PipelineAssumption DEF BurstInv, CoreInv, Typed
    <3>4. /\ Len(rx_pkts[k]) <= MaxBurst /\ Len(tx_pkts[k]) <= MaxBurst
          /\ i[k] \in 1 .. MaxBurst + 1 /\ sent[k] \in 0 .. Len(tx_pkts[k])
      BY <3>1, <3>3 DEF Bounds, Rx, Pcs
    <3>. QED BY <3>2, <3>4
  <2>. QED BY <1>1, <2>1 DEF BurstInv, Typed, TypeOK, Pcs
<1>. QED BY <1>1, BurstAlways, PTL

(* No mbuf is leaked, and none is freed or sent that is not the core's *)
THEOREM MbufsOwned == Spec => []OwnsPending
<1>1. ASSUME BurstInv, NEW k \in Lcores
      PROVE  {m \in Mbufs : owner[m] = k} = Pending(k)
  <2>. DEFINE r == rx_pkts[k]  q == tx_pkts[k]  n == i[k]
  <2>1. /\ Len(r) \in Nat /\ DOMAIN r = Rx(k) /\ Len(q) \in Nat /\ DOMAIN q = Tx(k)
        /\ n \in Nat /\ pc[k] \in Pcs
    BY <1>1, LenProperties DEF BurstInv, Typed, Rx, Tx
  <2>2. (\A x \in Rx(k) : r[x] \in Mbufs) /\ \A x \in Tx(k) : q[x] \in Mbufs
    BY <1>1, InBurst DEF BurstInv
  <2>3. {m \in Mbufs : owner[m] = k} = {m \in Mbufs : ToDo(k, m)}
    BY <1>1 DEF BurstInv, CoreInv, Owns
  <2>4. ASSUME pc[k] = "filter"
        PROVE  Range(SubSeq(r, n, Len(r))) = {r[x] : x \in {y \in Rx(k) : y >= n}}
    <3>1. n \in 1 .. Len(r) + 1 BY <1>1, <2>4 DEF BurstInv, CoreInv, Bounds
    <3>. DEFINE t == SubSeq(r, n, Len(r))
    <3>2. \A x \in n .. Len(r) : r[x] \in Mbufs BY <2>1, <2>2, <3>1 DEF Rx
    <3>3. /\ t \in Seq(Mbufs) /\ Len(t) = IF n <= Len(r) THEN Len(r) - n + 1 ELSE 0
          /\ \A x \in 1 .. Len(r) - n + 1 : t[x] = r[n + x - 1]
      BY <2>1, <3>2, SubSeqProperties
    <3>4. DOMAIN t = 1 .. Len(r) - n + 1
      <4>1. DOMAIN t = 1 .. Len(t) BY <3>3, LenProperties
      <4>. QED BY <2>1, <3>1, <3>3, <4>1
    <3>. HIDE DEF t
    <3>5. ASSUME NEW x \in DOMAIN t PROVE t[x] \in {r[z] : z \in {y \in Rx(k) : y >= n}}
      <4>1. n + x - 1 \in Rx(k) /\ n + x - 1 >= n BY <2>1, <3>1, <3>4, <3>5 DEF Rx
      <4>. QED BY <3>3, <3>4, <4>1
    <3>6. ASSUME NEW y \in Rx(k), y >= n PROVE r[y] \in {t[x] : x \in DOMAIN t}
      <4>1. y - n + 1 \in DOMAIN t /\ n + (y - n + 1) - 1 = y
        BY <2>1, <3>1, <3>4, <3>6 DEF Rx
      <4>. QED BY <3>3, <3>4, <4>1
    <3>7. Range(t) = {r[x] : x \in {y \in Rx(k) : y >= n}} BY <3>5, <3>6 DEF Range
    <3>. QED BY <3>7 DEF t
  <2>. HIDE DEF r, q, n
  <2>5. CASE pc[k] = "classify"
    BY <2>1, <2>2, <2>3, <2>5 DEF Pending, ToDo, Range, r
  <2>6. CASE pc[k] = "filter"
    <3>1. Pending(k) = {r[x] : x \in {y \in Rx(k) : y >= n}} \cup {q[x] : x \in Tx(k)}
      BY <2>1, <2>4, <2>6 DEF Pending, Range, r, q, n
    <3>2. \A m : ToDo(k, m) <=> \/ \E x \in Rx(k) : x >= n /\ r[x] = m
                                \/ \E x \in Tx(k) : q[x] = m
      BY <2>6 DEF ToDo, r, q, n
    <3>. QED BY <2>2, <2>3, <3>1, <3>2
  <2>7. CASE pc[k] = "account"
    BY <2>1, <2>2, <2>3, <2>7 DEF Pending, ToDo, q, n
  <2>8. CASE pc[k] \in {"rx", "stopped"}
    BY <2>3, <2>8 DEF Pending, ToDo
  <2>. QED BY <2>1, <2>5, <2>6, <2>7, <2>8 DEF Pcs
<1>2. BurstInv => OwnsPending BY <1>1 DEF OwnsPending
<1>. QED BY <1>2, BurstAlways, PTL

(* Only the length of a packet that was sent is read from an mbuf that is  *)
(* not the core's; whatever else a core does, it does to its own           *)
THEOREM OwnTouched == Spec => []TouchesOwn
<1>1. ASSUME BurstInv, NEW k \in Lcores, NEW m \in Touched(k)
      PROVE  owner[m] = k <=> ~Counting(k)
  <2>1. /\ DOMAIN rx_pkts[k] = Rx(k) /\ DOMAIN tx_pkts[k] = Tx(k)
        /\ Len(rx_pkts[k]) \in Nat /\ Len(tx_pkts[k]) \in Nat
        /\ i[k] \in Nat /\ sent[k] \in Nat /\ pc[k] \in Pcs
    BY <1>1, LenProperties DEF BurstInv, Typed, Rx, Tx
  <2>2. /\ \A x \in Rx(k) : rx_pkts[k][x] \in Mbufs
        /\ \A x \in Tx(k) : tx_pkts[k][x] \in Mbufs
        /\ \A n \in Mbufs : owner[n] = k <=> ToDo(k, n)
        /\ Bounds(k)
    BY <1>1, InBurst DEF BurstInv, CoreInv, Owns
  <2>3. CASE pc[k] = "classify"
    <3>1. m \in Range(rx_pkts[k]) BY <2>3 DEF Touched
    <3>. QED BY <2>1, <2>2, <2>3, <3>1 DEF Range, Counting, ToDo
  <2>4. CASE pc[k] = "filter" /\ i[k] <= Len(rx_pkts[k])
    <3>1. m = rx_pkts[k][i[k]] /\ i[k] \in Rx(k)
      BY <2>1, <2>2, <2>4 DEF Touched, Bounds, Rx
    <3>. QED BY <2>2, <2>4, <3>1 DEF Counting, ToDo, Rx
  <2>5. CASE pc[k] = "filter" /\ i[k] > Len(rx_pkts[k])
    <3>1. m \in Range(tx_pkts[k]) BY <2>1, <2>5 DEF Touched
    <3>. QED BY <2>1, <2>2, <2>5, <3>1 DEF Range, Counting, ToDo
  <2>6. CASE pc[k] = "account" /\ i[k] <= Len(tx_pkts[k])
    <3>1. m = tx_pkts[k][i[k]] /\ i[k] \in Tx(k)
      BY <2>1, <2>2, <2>6 DEF Touched, Bounds, Tx
    <3>2. \A x, y \in Tx(k) : tx_pkts[k][x] = tx_pkts[k][y] => x = y
      BY <1>1, QueueDistinct DEF BurstInv, CoreInv
    <3>3. ToDo(k, m) <=> i[k] > sent[k]
      BY <2>1, <2>6, <3>1, <3>2 DEF ToDo, Tx
    <3>. QED BY <2>1, <2>2, <2>6, <3>1, <3>3 DEF Counting
  <2>7. CASE pc[k] \in {"rx", "stopped"} \/ (pc[k] = "account" /\ i[k] > Len(tx_pkts[k]))
    BY <1>1, <2>1, <2>7 DEF Touched
  <2>. QED BY <2>1, <2>3, <2>4, <2>5, <2>6, <2>7 DEF Pcs
<1>2. BurstInv => TouchesOwn BY <1>1 DEF TouchesOwn
<1>. QED BY <1>2, BurstAlways, PTL

(* Packets leave in the order they came *)
THEOREM OrderKept == Spec => []InOrder
<1>1. ASSUME BurstInv PROVE InOrder
  <2>1. ASSUME NEW k \in Lcores
        PROVE  DOMAIN rx_pkts[k] = Rx(k) /\ DOMAIN tx_pkts[k] = Tx(k) /\ Ordered(k)
    BY <1>1, LenProperties DEF BurstInv, CoreInv, Typed, Rx, Tx
  <2>. QED BY <2>1 DEF InOrder, Ordered
<1>. QED BY <1>1, BurstAlways, PTL

-----------------------------------------------------------------------------
(* Counting.  Of what was received, some packets are not yet counted as    *)
(* sent or dropped; they are the pairs of a core and a number up to Todo.  *)

Todo(k) ==
  CASE pc[k] = "classify" -> i[k] - 1
    [] pc[k] = "filter" -> Len(rx_pkts[k]) - i[k] + 1 + Len(tx_pkts[k])
    [] pc[k] = "account" -> Len(tx_pkts[k]) - i[k] + 1
    [] OTHER -> 0

TodoOf == [k \in Lcores |-> Todo(k)]
Pairs(c) == {p \in Lcores \X (1 .. MaxBurst) : p[2] <= c[p[1]]}
Ways == [Lcores -> 0 .. MaxBurst]

CountInv ==
  stats["rx"] = stats["tx"] + stats["dropped"] + Cardinality(Pairs(TodoOf))

LEMMA PairsFinite ==
  ASSUME NEW c \in Ways
  PROVE  IsFiniteSet(Pairs(c)) /\ Cardinality(Pairs(c)) \in Nat
<1>1. IsFiniteSet(1 .. MaxBurst) BY FS_Interval, PipelineAssumption
<1>2. IsFiniteSet(Lcores \X (1 .. MaxBurst)) BY <1>1, FS_Product, PipelineAssumption
<1>3. IsFiniteSet(Pairs(c)) BY <1>2, FS_Subset DEF Pairs
<1>. QED BY <1>3, FS_CardinalityType

LEMMA OneMore ==
  ASSUME NEW c \in Ways, NEW d \in Ways, NEW k \in Lcores,
         d = [c EXCEPT ![k] = c[k] + 1]
  PROVE  Cardinality(Pairs(d)) = Cardinality(Pairs(c)) + 1
<1>. DEFINE new == <<k, c[k] + 1>>
<1>1. c[k] \in Nat /\ c[k] + 1 \in 1 .. MaxBurst /\ MaxBurst \in Nat
  BY PipelineAssumption DEF Ways
<1>2. new \notin Pairs(c) BY <1>1 DEF Pairs
<1>3. Pairs(d) = Pairs(c) \cup {new}
  <2>1. ASSUME NEW l \in Lcores, NEW x \in 1 .. MaxBurst
        PROVE  x <= d[l] <=> x <= c[l] \/ (l = k /\ x = c[k] + 1)
    BY <1>1 DEF Ways
  <2>2. ASSUME NEW p \in Lcores \X (1 .. MaxBurst)
        PROVE  p \in Pairs(d) <=> p \in Pairs(c) \/ p = new
    <3>1. PICK l \in Lcores, x \in 1 .. MaxBurst : p = <<l, x>> BY <2>2
    <3>. QED BY <2>1, <3>1 DEF Pairs
  <2>3. new \in Lcores \X (1 .. MaxBurst) BY <1>1
  <2>. QED BY <2>2, <2>3 DEF Pairs
<1>. QED BY <1>2, <1>3, PairsFinite, FS_AddElement

LEMMA OneLess ==
  ASSUME NEW c \in Ways, NEW d \in Ways, NEW k \in Lcores, NEW n \in Nat,
         d = [c EXCEPT ![k] = n], c[k] = n + 1
  PROVE  Cardinality(Pairs(c)) = Cardinality(Pairs(d)) + 1
<1>1. c = [d EXCEPT ![k] = d[k] + 1] BY DEF Ways
<1>. QED BY <1>1, OneMore

TodoSmall == TodoOf \in Ways

LEMMA TodoBounded == BurstInv => TodoSmall
<1>. SUFFICES ASSUME BurstInv PROVE TodoSmall OBVIOUS
<1>1. ASSUME NEW k \in Lcores PROVE Todo(k) \in 0 .. MaxBurst
  <2>1. /\ Bounds(k) /\ Len(rx_pkts[k]) \in Nat /\ Len(tx_pkts[k]) \in Nat
        /\ MaxBurst \in Nat /\ i[k] \in Nat
    BY InBurst, PipelineAssumption DEF BurstInv, CoreInv, Typed
  <2>2. CASE pc[k] = "classify" BY <2>1, <2>2 DEF Bounds, Rx, Todo
  <2>3. CASE pc[k] = "filter" BY <2>1, <2>3 DEF Bounds, Rx, Todo
  <2>4. CASE pc[k] = "account" BY <2>1, <2>4 DEF Bounds, Rx, Todo
  <2>5. CASE pc[k] \notin {"classify", "filter", "account"} BY <2>1, <2>5 DEF Todo
  <2>. QED BY <2>2, <2>3, <2>4, <2>5
<1>. QED BY <1>1 DEF TodoSmall, TodoOf, Ways

(* What a step of core k does to Todo(k), and to the counters *)
Moves(k, d, c) ==
  /\ Todo(k)' = Todo(k) + d
  /\ stats' = [stats EXCEPT ![c] = @ + 1]

LEMMA TurnMoves ==
  ASSUME NEW k \in Lcores, BurstInv, BurstInv', RxBurst(k) \/ TurnStep(k)
  PROVE  \/ Moves(k, 1, "rx") \/ Moves(k, -1, "tx") \/ Moves(k, -1, "dropped")
         \/ Todo(k)' = Todo(k) /\ UNCHANGED stats
<1>0. /\ Bounds(k) /\ Len(rx_pkts[k]) \in Nat /\ Len(tx_pkts[k]) \in Nat /\ i[k] \in Nat
      /\ pc \in [Lcores -> Pcs] /\ i \in [Lcores -> Nat] /\ tx_pkts \in [Lcores -> Seq(Mbufs)]
      /\ rx_pkts \in [Lcores -> Seq(Mbufs)]
  BY InBurst DEF BurstInv, CoreInv, Typed
<1>1. CASE RxBurst(k) BY <1>0, <1>1 DEF RxBurst, Todo, Bounds
<1>2. CASE Stop(k) BY <1>0, <1>2 DEF Stop, Todo
<1>3. CASE Classify(k)
  <2>1. Todo(k) = i[k] - 1 BY <1>3 DEF Classify, Todo
  <2>2. CASE i[k] < Len(rx_pkts[k])
    <3>1. pc'[k] = "classify" /\ i'[k] = i[k] + 1 BY <1>0, <1>3, <2>2 DEF Classify
    <3>2. Todo(k)' = i[k] BY <1>0, <3>1 DEF Todo
    <3>. QED BY <1>0, <1>3, <2>1, <3>2 DEF Classify, Moves
  <2>3. CASE ~(i[k] < Len(rx_pkts[k]))
    <3>1. /\ pc'[k] = "filter" /\ i'[k] = 1 /\ i[k] = Len(rx_pkts[k])
          /\ rx_pkts' = rx_pkts /\ tx_pkts' = tx_pkts /\ Len(tx_pkts[k]) = 0
      BY <1>0, <1>3, <2>3 DEF Classify, Bounds, Rx
    <3>2. Todo(k)' = i[k] BY <1>0, <3>1 DEF Todo
    <3>. QED BY <1>0, <1>3, <2>1, <3>2 DEF Classify, Moves
  <2>. QED BY <2>2, <2>3
<1>4. CASE Keep(k)
  <2>1. rx_pkts[k][i[k]] \in Mbufs BY <1>0, <1>4, InBurst DEF Keep, Bounds, Rx, BurstInv
  <2>2. tx_pkts'[k] = Append(tx_pkts[k], rx_pkts[k][i[k]]) /\ i'[k] = i[k] + 1
    BY <1>0, <1>4 DEF Keep, Queued
  <2>3. Len(tx_pkts'[k]) = Len(tx_pkts[k]) + 1 BY <1>0, <2>1, <2>2
  <2>4. pc[k] = "filter" /\ pc' = pc /\ rx_pkts' = rx_pkts /\ stats' = stats
    BY <1>4 DEF Keep
  <2>5. Todo(k) = Len(rx_pkts[k]) - i[k] + 1 + Len(tx_pkts[k]) BY <2>4 DEF Todo
  <2>6. Todo(k)' = Len(rx_pkts[k]) - (i[k] + 1) + 1 + (Len(tx_pkts[k]) + 1)
    BY <2>2, <2>3, <2>4 DEF Todo
  <2>. QED BY <1>0, <2>4, <2>5, <2>6
<1>5. CASE Drop(k)
  <2>1. i'[k] = i[k] + 1 BY <1>0, <1>5 DEF Drop
  <2>. QED BY <1>0, <1>5, <2>1 DEF Drop, Todo, Moves
<1>6. CASE NothingToSend(k) \/ Accounted(k)
  <2>1. pc'[k] = "rx" BY <1>0, <1>6 DEF NothingToSend, Accounted, NextTurn
  <2>2. Todo(k)' = 0 BY <2>1 DEF Todo
  <2>3. Todo(k) = 0
    <3>1. CASE NothingToSend(k)
      <4>1. pc[k] = "filter" /\ Len(tx_pkts[k]) = 0 /\ i[k] = Len(rx_pkts[k]) + 1
        BY <1>0, <3>1, EmptySeq DEF NothingToSend, Bounds
      <4>. QED BY <1>0, <4>1 DEF Todo
    <3>2. CASE Accounted(k)
      <4>1. pc[k] = "account" /\ i[k] = Len(tx_pkts[k]) + 1
        BY <1>0, <3>2 DEF Accounted, Bounds
      <4>. QED BY <1>0, <4>1 DEF Todo
    <3>. QED BY <1>6, <3>1, <3>2
  <2>. QED BY <1>6, <2>2, <2>3 DEF NothingToSend, Accounted
<1>7. CASE TxBurst(k)
  <2>1. /\ pc'[k] = "account" /\ i'[k] = 1 /\ tx_pkts' = tx_pkts
        /\ i[k] = Len(rx_pkts[k]) + 1 /\ pc[k] = "filter"
    BY <1>0, <1>7 DEF TxBurst, Bounds
  <2>. QED BY <1>0, <1>7, <2>1 DEF TxBurst, Todo
<1>8. CASE CountSent(k)
  <2>1. i'[k] = i[k] + 1 BY <1>0, <1>8 DEF CountSent
  <2>. QED BY <1>0, <1>8, <2>1 DEF CountSent, Todo, Moves
<1>9. CASE FreeUnsent(k)
  <2>1. i'[k] = i[k] + 1 BY <1>0, <1>9 DEF FreeUnsent, AfterUnsent
  <2>. QED BY <1>0, <1>9, <2>1 DEF FreeUnsent, UnsentCounted, Todo, Moves
<1>. QED BY <1>1, <1>2, <1>3, <1>4, <1>5, <1>6, <1>7, <1>8, <1>9 DEF TurnStep

LEMMA CountStable == BurstInv /\ BurstInv' /\ CountInv /\ [Next]_vars => CountInv'
<1>. SUFFICES ASSUME BurstInv, BurstInv', CountInv, [Next]_vars PROVE CountInv' OBVIOUS
<1>1. /\ TodoOf \in Ways /\ TodoOf' \in Ways
      /\ stats \in [Counters -> Nat] /\ "rx" \in Counters /\ "tx" \in Counters
      /\ "dropped" \in Counters
  <2>1. TodoSmall /\ TodoSmall' BY TodoBounded, PTL
  <2>. QED BY <2>1 DEF TodoSmall, BurstInv, Typed, Counters
<1>2. Cardinality(Pairs(TodoOf)) \in Nat /\ Cardinality(Pairs(TodoOf')) \in Nat
  BY <1>1, PairsFinite
<1>3. ASSUME NEW k \in Lcores, RxBurst(k) \/ TurnStep(k)
      PROVE  CountInv'
  <2>1. Frame(k) BY <1>3, TurnStepGood DEF BurstInv, Good
  <2>2. \A l \in Lcores \ {k} : Todo(l)' = Todo(l)
    BY <2>1 DEF Frame, LocalsKept, Todo
  <2>3. TodoOf' = [TodoOf EXCEPT ![k] = Todo(k)'] BY <2>2 DEF TodoOf
  <2>4. TodoOf[k] = Todo(k) /\ TodoOf'[k] = Todo(k)' /\ Todo(k) \in Nat /\ Todo(k)' \in Nat
    BY <1>1 DEF TodoOf, Ways
  <2>5. CASE Moves(k, 1, "rx")
    <3>1. Cardinality(Pairs(TodoOf')) = Cardinality(Pairs(TodoOf)) + 1
      BY <1>1, <2>3, <2>4, <2>5, OneMore DEF Moves
    <3>2. stats' = [stats EXCEPT !["rx"] = stats["rx"] + 1] BY <2>5 DEF Moves
    <3>. QED BY <1>1, <1>2, <3>1, <3>2 DEF CountInv, Counters
  <2>6. ASSUME NEW c \in {"tx", "dropped"}, Moves(k, -1, c)
        PROVE  CountInv'
    <3>1. TodoOf[k] = Todo(k)' + 1 BY <2>4, <2>6 DEF Moves
    <3>2. Cardinality(Pairs(TodoOf)) = Cardinality(Pairs(TodoOf')) + 1
      BY <1>1, <2>3, <2>4, <3>1, OneLess
    <3>3. stats' = [stats EXCEPT ![c] = stats[c] + 1] BY <2>6 DEF Moves
    <3>. QED BY <1>1, <1>2, <3>2, <3>3 DEF CountInv, Counters
  <2>7. CASE Todo(k)' = Todo(k) /\ UNCHANGED stats
    <3>1. TodoOf' = TodoOf BY <2>3, <2>4, <2>7 DEF TodoOf
    <3>. QED BY <2>7, <3>1 DEF CountInv
  <2>. QED BY <1>3, <2>5, <2>6, <2>7, TurnMoves
<1>4. ASSUME UNCHANGED <<coreVars, stats>> PROVE CountInv'
  BY <1>4 DEF CountInv, coreVars, TodoOf, Todo
<1>5. CASE \/ \E m \in Mbufs : NicFrees(m)
           \/ Signal \/ SnapshotBegin \/ SnapshotLoad
           \/ UNCHANGED vars
  BY <1>4, <1>5 DEF NicFrees, Signal, SnapshotBegin, SnapshotLoad, vars
<1>. QED BY <1>3, <1>5 DEF Next

LEMMA CountInit == Init => CountInv
<1>. SUFFICES ASSUME Init PROVE CountInv OBVIOUS
<1>1. \A k \in Lcores : Todo(k) = 0 BY DEF Init, Todo
<1>2. Pairs(TodoOf) = {} BY <1>1 DEF Pairs, TodoOf
<1>. QED BY <1>2, FS_EmptySet DEF Init, CountInv, Zero, Counters

LEMMA CountAlways == Spec => []CountInv
BY BurstInit, BurstStable, CountInit, CountStable, PTL DEF Spec

LEMMA NothingInFlight ==
  ASSUME CountInv, AllBetweenTurns, BurstInv
  PROVE  stats["rx"] = stats["tx"] + stats["dropped"]
<1>1. \A k \in Lcores : Todo(k) = 0 BY DEF AllBetweenTurns, Todo
<1>2. Pairs(TodoOf) = {} BY <1>1 DEF Pairs, TodoOf
<1>3. stats["tx"] \in Nat /\ stats["dropped"] \in Nat BY DEF BurstInv, Typed, Counters
<1>. QED BY <1>2, <1>3, FS_EmptySet DEF CountInv

(* Between bursts every packet received is counted once, as sent or dropped *)
THEOREM CountersBalance == Spec => []Balanced
<1>1. BurstInv /\ CountInv => Balanced BY NothingInFlight DEF Balanced
<1>. QED BY <1>1, BurstAlways, CountAlways, PTL

(* While quiet holds, the counters are what the snapshot loaded *)
QuietInv == quiet => AllBetweenTurns /\ \A c \in loaded : snap[c] = stats[c]

LEMMA QuietStable == BurstInv /\ QuietInv /\ [Next]_vars => QuietInv'
<1>. SUFFICES ASSUME BurstInv, QuietInv, [Next]_vars PROVE QuietInv' OBVIOUS
<1>1. ASSUME NEW k \in Lcores, RxBurst(k) PROVE QuietInv'
  BY <1>1 DEF RxBurst, QuietInv
<1>2. ASSUME NEW k \in Lcores, Stop(k) PROVE QuietInv'
  BY <1>2 DEF Stop, QuietInv, AllBetweenTurns, snapVars, BurstInv, Typed
<1>3. ASSUME NEW k \in Lcores, TurnStep(k), ~Stop(k) PROVE QuietInv'
  <2>1. pc[k] \notin {"rx", "stopped"} /\ quiet' = quiet
    BY <1>3 DEF TurnStep, Classify, Keep, Drop, NothingToSend, TxBurst, CountSent,
                FreeUnsent, Accounted, snapVars
  <2>. QED BY <2>1 DEF QuietInv, AllBetweenTurns
<1>4. CASE SnapshotBegin
  BY <1>4 DEF SnapshotBegin, QuietInv, AllBetweenTurns, coreVars
<1>5. CASE SnapshotLoad
  <2>1. PICK c \in Counters : snap' = [snap EXCEPT ![c] = stats[c]] /\ loaded' = loaded \cup {c}
    BY <1>5 DEF SnapshotLoad, Loads
  <2>. QED BY <1>5, <2>1 DEF SnapshotLoad, QuietInv, AllBetweenTurns, coreVars, BurstInv, Typed
<1>6. CASE (\E m \in Mbufs : NicFrees(m)) \/ Signal \/ UNCHANGED vars
  BY <1>6 DEF NicFrees, Signal, vars, coreVars, snapVars, QuietInv, AllBetweenTurns
<1>. QED BY <1>1, <1>2, <1>3, <1>4, <1>5, <1>6 DEF Next

LEMMA QuietAlways == Spec => []QuietInv
<1>1. Init => QuietInv BY DEF Init, QuietInv, AllBetweenTurns
<1>. QED BY <1>1, BurstInit, BurstStable, QuietStable, PTL DEF Spec

(* A snapshot that no burst overlaps balances *)
THEOREM SnapshotsBalance == Spec => []QuietSnapshot
<1>1. BurstInv /\ CountInv /\ QuietInv => QuietSnapshot
  BY NothingInFlight DEF QuietSnapshot, QuietInv, Loads, Counters
<1>. QED BY <1>1, BurstAlways, CountAlways, QuietAlways, PTL
=============================================================================
