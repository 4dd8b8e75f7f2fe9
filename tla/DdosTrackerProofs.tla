------------------------- MODULE DdosTrackerProofs -------------------------
(***************************************************************************)
(* Proofs about DdosTracker, for any number of cores, sources and kinds    *)
(* and any thresholds: whom ddos_update blocks, for what, and whom it must *)
(* block.                                                                  *)
(*                                                                         *)
(* Any number of cores at one entry.  A packet is counted at most once,    *)
(* but between its arrival and the load of its counter it is not yet; a    *)
(* core that loads the counter then may add one to a value another core    *)
(* stores later, or lose what that one stored.  What no race can exceed is *)
(* the number of packets sent less those whose counter has not been loaded *)
(* (Room): the load gives its own packet to the register, and nothing      *)
(* takes it back.                                                          *)
(*                                                                         *)
(* One core at an entry.  The counters are the packets of the window since *)
(* the last block; the packets of the last window_ns before that window    *)
(* were packets of the one before, so there are no more of them than the   *)
(* threshold either, and a stretch shorter than window_ns meets no third.  *)
(***************************************************************************)
EXTENDS DdosTracker, FiniteSetTheorems, TLAPS

Entries == [kind : Kinds \cup {Other}, at : Nat, core : Lcores]

(* Where a core has a packet whose counter it has not loaded *)
Uncounted == {"window", "reset", "count"}

Typed ==
  /\ clock \in Nat /\ now \in [Lcores -> Nat]
  /\ count \in [Ips -> [Kinds -> Nat]]
  /\ until \in [Ips -> Nat]
  /\ pc \in [Lcores -> Uncounted \cup {"idle", "store", "block", "clear"}]
  /\ ip \in [Lcores -> Ips \cup {Nobody}]
  /\ kind \in [Lcores -> Kinds \cup {Other}]
  /\ reg \in [Lcores -> Nat]
  /\ todo \in [Lcores -> SUBSET (Kinds \cup {"start"})]
  /\ log \in [Ips -> Seq(Entries)]

(* A core at work has a source and, from its counter on, a kind that is    *)
(* counted; only a reset has fields left to store                          *)
AtWork(k) ==
  /\ pc[k] # "idle" => ip[k] \in Ips
  /\ pc[k] \in {"count", "store", "block", "clear"} => kind[k] \in Kinds
  /\ todo[k] # {} => pc[k] \in {"reset", "clear"}

SentInAll(i, x) == {n \in 1 .. Len(log[i]) : log[i][n].kind = x}
Coming(i, x) == {k \in Lcores : pc[k] \in Uncounted /\ ip[k] = i /\ kind[k] = x}

Room(i, x) == Cardinality(SentInAll(i, x)) - Cardinality(Coming(i, x))

CountInv == \A i \in Ips, x \in Kinds : count[i][x] <= Room(i, x)

RegInv(k) ==
  /\ pc[k] \in {"store", "block"} =>
       \A i \in Ips, x \in Kinds : i = ip[k] /\ x = kind[k] => reg[k] <= Room(i, x)
  /\ pc[k] = "block" => Exceeds(reg[k], kind[k])

Shape == Typed /\ \A k \in Lcores : AtWork(k)
CounterInv == CountInv /\ \A k \in Lcores : RegInv(k)
Guilty == \A i \in Ips : until[i] > 0 =>
            \E x \in Kinds : Cardinality(SentInAll(i, x)) > Threshold[x]
DdosInv == Shape /\ CounterInv /\ Guilty

-----------------------------------------------------------------------------
(* The two numbers a Room is made of                                       *)

LEMMA RoomIsInt ==
  ASSUME Shape, NEW i \in Ips, NEW x \in Kinds
  PROVE  /\ IsFiniteSet(SentInAll(i, x)) /\ Cardinality(SentInAll(i, x)) \in Nat
         /\ IsFiniteSet(Coming(i, x)) /\ Cardinality(Coming(i, x)) \in Nat
         /\ Room(i, x) \in Int
<1>1. Len(log[i]) \in Nat BY DEF Shape, Typed
<1>2. IsFiniteSet(1 .. Len(log[i])) BY <1>1, FS_Interval
<1>3. IsFiniteSet(SentInAll(i, x)) BY <1>2, FS_Subset DEF SentInAll
<1>4. IsFiniteSet(Coming(i, x)) BY FS_Subset, DdosAssumption DEF Coming
<1>. QED BY <1>3, <1>4, FS_CardinalityType DEF Room

(* As long as the log stays and no core gets a packet, no Room shrinks *)
LEMMA RoomKept ==
  ASSUME Shape, NEW i \in Ips, NEW x \in Kinds,
         log' = log, Coming(i, x)' \subseteq Coming(i, x)
  PROVE  Room(i, x)' \in Int /\ Room(i, x)' >= Room(i, x)
<1>1. SentInAll(i, x)' = SentInAll(i, x) BY DEF SentInAll
<1>2. /\ IsFiniteSet(Coming(i, x)')
      /\ Cardinality(Coming(i, x)') <= Cardinality(Coming(i, x))
  BY RoomIsInt, FS_Subset
<1>3. Cardinality(Coming(i, x)') \in Nat BY <1>2, FS_CardinalityType
<1>. QED BY <1>1, <1>2, <1>3, RoomIsInt DEF Room

(* The load of a counter makes room for its packet *)
LEMMA RoomMade ==
  ASSUME Shape, NEW i \in Ips, NEW x \in Kinds, NEW k \in Lcores,
         log' = log, k \in Coming(i, x), Coming(i, x)' = Coming(i, x) \ {k}
  PROVE  Room(i, x)' \in Int /\ Room(i, x)' = Room(i, x) + 1
<1>1. SentInAll(i, x)' = SentInAll(i, x) BY DEF SentInAll
<1>2. Cardinality(Coming(i, x)') = Cardinality(Coming(i, x)) - 1
  BY RoomIsInt, FS_RemoveElement
<1>. QED BY <1>1, <1>2, RoomIsInt DEF Room

(* One more packet in the log *)
LEMMA OneMoreSent ==
  ASSUME Shape, NEW i \in Ips, NEW e \in Entries, log' = [log EXCEPT ![i] = Append(@, e)],
         NEW h \in Ips, NEW x \in Kinds
  PROVE  /\ IsFiniteSet(SentInAll(h, x)')
         /\ Cardinality(SentInAll(h, x)') =
              IF h = i /\ e.kind = x THEN Cardinality(SentInAll(h, x)) + 1
              ELSE Cardinality(SentInAll(h, x))
<1>. DEFINE n == Len(log[i]) + 1
<1>1. log[i] \in Seq(Entries) /\ log \in [Ips -> Seq(Entries)] BY DEF Shape, Typed
<1>2. CASE h # i
  <2>1. SentInAll(h, x)' = SentInAll(h, x) BY <1>1, <1>2 DEF SentInAll
  <2>. QED BY <2>1, <1>2, RoomIsInt
<1>3. CASE h = i
  <2>1. log'[i] = Append(log[i], e) BY <1>1
  <2>2. Len(log'[i]) = n /\ log'[i][n] = e /\ n \in Nat BY <1>1, <2>1
  <2>3. \A y \in 1 .. Len(log[i]) : log'[i][y] = log[i][y] BY <1>1, <2>1
  <2>4. n \notin SentInAll(i, x) BY <1>1 DEF SentInAll
  <2>5. 1 .. n = (1 .. Len(log[i])) \cup {n} BY <1>1
  <2>6. SentInAll(i, x)' = SentInAll(i, x) \cup (IF e.kind = x THEN {n} ELSE {})
    BY <2>2, <2>3, <2>5 DEF SentInAll
  <2>7. CASE e.kind = x
    <3>1. SentInAll(i, x)' = SentInAll(i, x) \cup {n} BY <2>6, <2>7
    <3>2. IsFiniteSet(SentInAll(i, x)) /\ Cardinality(SentInAll(i, x)) \in Nat BY RoomIsInt
    <3>3. /\ IsFiniteSet(SentInAll(i, x) \cup {n})
          /\ Cardinality(SentInAll(i, x) \cup {n}) = Cardinality(SentInAll(i, x)) + 1
      BY <2>4, <3>2, FS_AddElement
    <3>. QED BY <3>1, <3>3, <1>3, <2>7
  <2>8. CASE e.kind # x
    <3>1. SentInAll(i, x)' = SentInAll(i, x) BY <2>6, <2>8
    <3>. QED BY <3>1, <1>3, <2>8, RoomIsInt
  <2>. QED BY <2>7, <2>8
<1>. QED BY <1>2, <1>3

-----------------------------------------------------------------------------
(* Types, and what a core has in hand                                      *)

LEMMA ShapeInit == Init => Shape
BY DdosAssumption DEF Init, Shape, Typed, AtWork, Uncounted

(* The end of ddos_update *)
LEMMA ShapeDone ==
  ASSUME Shape, NEW k \in Lcores, Done(k), clock' = clock, now' = now, until' = until, log' = log,
         count' \in [Ips -> [Kinds -> Nat]], todo' \in [Lcores -> SUBSET (Kinds \cup {"start"})],
         todo'[k] = {}, \A l \in Lcores \ {k} : todo'[l] = todo[l]
  PROVE  Shape'
<1>1. Typed' BY DEF Shape, Typed, Done
<1>2. ASSUME NEW l \in Lcores PROVE AtWork(l)'
  <2>1. CASE l = k BY <2>1 DEF Shape, Typed, AtWork, Done
  <2>2. CASE l # k
    <3>1. pc'[l] = pc[l] /\ ip'[l] = ip[l] /\ kind'[l] = kind[l] /\ todo'[l] = todo[l]
      BY <2>2 DEF Shape, Typed, Done
    <3>. QED BY <3>1 DEF Shape, AtWork
  <2>. QED BY <2>1, <2>2
<1>. QED BY <1>1, <1>2 DEF Shape

LEMMA ShapeStable == Shape /\ [Next]_vars => Shape'
<1>. SUFFICES ASSUME Shape, [Next]_vars PROVE Shape' OBVIOUS
<1>. USE DEF Shape, Typed, AtWork, Uncounted
<1>1. CASE Tick BY <1>1 DEF Tick, entryVars, coreVars
<1>2. ASSUME NEW k \in Lcores, Burst(k) PROVE Shape' BY <1>2 DEF Burst, entryVars
<1>3. ASSUME NEW k \in Lcores, NEW i \in Ips, NEW x \in Kinds \cup {Other}, Packet(k, i, x)
      PROVE  Shape'
  <2>1. [kind |-> x, at |-> now[k], core |-> k] \in Entries BY DEF Entries
  <2>2. log' \in [Ips -> Seq(Entries)] BY <1>3, <2>1 DEF Packet
  <2>3. CASE HasEntry(i)
    <3>1. Typed'
      <4>1. /\ pc' = [pc EXCEPT ![k] = "window"]
            /\ ip' = [ip EXCEPT ![k] = i] /\ kind' = [kind EXCEPT ![k] = x]
        BY <1>3, <2>3 DEF Packet
      <4>2. UNCHANGED <<clock, now, count, until, reg, todo>> BY <1>3 DEF Packet
      <4>. QED BY <2>2, <4>1, <4>2
    <3>2. ASSUME NEW l \in Lcores PROVE AtWork(l)'
      <4>1. todo'[l] = todo[l] BY <1>3 DEF Packet
      <4>2. CASE l = k BY <1>3, <2>3, <4>1, <4>2 DEF Packet
      <4>3. CASE l # k BY <1>3, <2>3, <4>1, <4>3 DEF Packet
      <4>. QED BY <4>2, <4>3
    <3>. QED BY <3>1, <3>2
  <2>4. CASE ~HasEntry(i) BY <1>3, <2>2, <2>4 DEF Packet
  <2>. QED BY <2>3, <2>4
<1>4. ASSUME NEW k \in Lcores, ReadWindow(k) PROVE Shape'
  <2>1. CASE Expired(now[k], start[ip[k]])
    BY <1>4, <2>1 DEF ReadWindow, Goto, entryVars, ResetFields
  <2>2. CASE ~Expired(now[k], start[ip[k]]) /\ kind[k] = Other
    BY <1>4, <2>2, ShapeDone DEF ReadWindow, ToCount, entryVars
  <2>3. CASE ~Expired(now[k], start[ip[k]]) /\ kind[k] # Other
    BY <1>4, <2>3 DEF ReadWindow, ToCount, Goto, entryVars
  <2>. QED BY <2>1, <2>2, <2>3
<1>5. ASSUME NEW k \in Lcores, ResetField(k) PROVE Shape'
  <2>1. PICK f \in todo[k] :
          /\ todo' = [todo EXCEPT ![k] = @ \ {f}]
          /\ count' = IF f = "start" THEN count ELSE [count EXCEPT ![ip[k]][f] = 0]
    BY <1>5 DEF ResetField
  <2>2. count' \in [Ips -> [Kinds -> Nat]] BY <2>1
  <2>3. CASE todo'[k] # {} BY <1>5, <2>1, <2>2, <2>3 DEF ResetField, Goto
  <2>4. CASE todo'[k] = {} /\ pc[k] = "reset" /\ kind[k] # Other
    BY <1>5, <2>1, <2>2, <2>4 DEF ResetField, ToCount, Goto
  <2>5. CASE todo'[k] = {} /\ ~(pc[k] = "reset" /\ kind[k] # Other)
    BY <1>5, <2>1, <2>2, <2>5, ShapeDone DEF ResetField, ToCount
  <2>. QED BY <2>3, <2>4, <2>5
<1>6. ASSUME NEW k \in Lcores, LoadCount(k) PROVE Shape'
  BY <1>6, DdosAssumption DEF LoadCount, entryVars
<1>7. ASSUME NEW k \in Lcores, StoreCount(k) PROVE Shape'
  <2>1. count' \in [Ips -> [Kinds -> Nat]] BY <1>7 DEF StoreCount
  <2>2. CASE Exceeds(reg[k], kind[k]) BY <1>7, <2>1, <2>2 DEF StoreCount, Goto
  <2>3. CASE ~Exceeds(reg[k], kind[k]) BY <1>7, <2>1, <2>3, ShapeDone DEF StoreCount
  <2>. QED BY <2>2, <2>3
<1>8. ASSUME NEW k \in Lcores, Block(k) PROVE Shape'
  BY <1>8, DdosAssumption DEF Block, Goto, entryVars
<1>9. CASE UNCHANGED vars BY <1>9 DEF vars, entryVars, coreVars
<1>. QED BY <1>1, <1>2, <1>3, <1>4, <1>5, <1>6, <1>7, <1>8, <1>9 DEF Next

-----------------------------------------------------------------------------
(* Counters and registers                                                  *)

(* What a core that keeps what it knows or knows nothing makes of the rest *)
LEMMA CountersKept ==
  ASSUME Shape, Shape', CounterInv, NEW k \in Lcores,
         log' = log,
         \A h \in Ips, y \in Kinds : Coming(h, y)' \subseteq Coming(h, y),
         \A h \in Ips, y \in Kinds : count'[h][y] \in {0, count[h][y]},
         \A l \in Lcores \ {k} :
           pc'[l] = pc[l] /\ reg'[l] = reg[l] /\ ip'[l] = ip[l] /\ kind'[l] = kind[l],
         pc'[k] \notin {"store", "block"}
  PROVE  CounterInv'
<1>1. \A h \in Ips, y \in Kinds :
        Room(h, y) \in Int /\ Room(h, y)' \in Int /\ Room(h, y)' >= Room(h, y)
  BY RoomKept, RoomIsInt
<1>2. ASSUME NEW h \in Ips, NEW y \in Kinds PROVE count'[h][y] <= Room(h, y)'
  <2>1. count[h][y] \in Nat /\ count[h][y] <= Room(h, y)
    BY DEF Shape, Typed, CounterInv, CountInv
  <2>. QED BY <2>1, <1>1
<1>3. ASSUME NEW l \in Lcores PROVE RegInv(l)'
  <2>1. CASE l = k BY <2>1 DEF RegInv
  <2>2. CASE l # k /\ pc[l] \in {"store", "block"}
    <3>1. reg'[l] \in Nat BY <2>2 DEF Shape, Typed
    <3>2. ASSUME NEW h \in Ips, NEW y \in Kinds, h = ip'[l], y = kind'[l]
          PROVE  reg'[l] <= Room(h, y)'
      <4>1. reg[l] <= Room(h, y) BY <2>2, <3>2 DEF CounterInv, RegInv
      <4>. QED BY <4>1, <3>1, <2>2, <1>1
    <3>. QED BY <3>2, <2>2 DEF CounterInv, RegInv, Exceeds
  <2>3. CASE l # k /\ pc[l] \notin {"store", "block"} BY <2>3 DEF RegInv
  <2>. QED BY <2>1, <2>2, <2>3
<1>. QED BY <1>2, <1>3 DEF CounterInv, CountInv

(* Where the packets whose counter is not loaded are *)
LEMMA ComingShrinks ==
  ASSUME Shape, NEW k \in Lcores,
         \A l \in Lcores \ {k} : pc'[l] = pc[l] /\ ip'[l] = ip[l] /\ kind'[l] = kind[l],
         \/ pc'[k] \notin Uncounted
         \/ pc[k] \in Uncounted /\ ip'[k] = ip[k] /\ kind'[k] = kind[k],
         NEW h \in Ips, NEW y \in Kinds
  PROVE  Coming(h, y)' \subseteq Coming(h, y)
BY DEF Coming

LEMMA PacketKeepsCounters ==
  ASSUME Shape, Shape', CounterInv,
         NEW k \in Lcores, NEW i \in Ips, NEW x \in Kinds \cup {Other}, Packet(k, i, x)
  PROVE  CounterInv'
<1>. DEFINE e == [kind |-> x, at |-> now[k], core |-> k]
<1>1. e \in Entries /\ e.kind = x BY DEF Entries, Shape, Typed
<1>2. log' = [log EXCEPT ![i] = Append(@, e)] BY DEF Packet
<1>3. ASSUME NEW h \in Ips, NEW y \in Kinds
      PROVE  Room(h, y) \in Int /\ Room(h, y)' \in Int /\ Room(h, y)' >= Room(h, y)
  <2>. DEFINE old == Cardinality(SentInAll(h, y))  new == Cardinality(SentInAll(h, y)')
              was == Cardinality(Coming(h, y))  is == Cardinality(Coming(h, y)')
  <2>1. new = IF h = i /\ x = y THEN old + 1 ELSE old BY <1>1, <1>2, OneMoreSent
  <2>2. old \in Nat /\ was \in Nat /\ IsFiniteSet(Coming(h, y)) BY RoomIsInt
  <2>3. IF h = i /\ x = y THEN is \in {was, was + 1} ELSE is = was
    <3>1. CASE HasEntry(i) /\ h = i /\ x = y
      <4>1. Coming(h, y)' = Coming(h, y) \cup {k}
        BY <3>1 DEF Packet, Coming, Shape, Typed, Uncounted
      <4>2. Cardinality(Coming(h, y) \cup {k}) \in {was, was + 1} BY <2>2, FS_AddElement
      <4>. QED BY <4>1, <4>2, <3>1
    <3>2. CASE ~(HasEntry(i) /\ h = i /\ x = y)
      <4>1. Coming(h, y)' = Coming(h, y)
        BY <3>2 DEF Packet, Coming, Shape, Typed, Uncounted
      <4>. QED BY <4>1
    <3>. QED BY <3>1, <3>2
  <2>. QED BY <2>1, <2>2, <2>3 DEF Room
<1>4. ASSUME NEW h \in Ips, NEW y \in Kinds PROVE count'[h][y] <= Room(h, y)'
  <2>1. count' = count /\ count[h][y] \in Nat /\ count[h][y] <= Room(h, y)
    BY DEF Packet, Shape, Typed, CounterInv, CountInv
  <2>. QED BY <2>1, <1>3
<1>5. ASSUME NEW l \in Lcores PROVE RegInv(l)'
  <2>1. CASE pc'[l] \in {"store", "block"}
    <3>1. /\ pc'[l] = pc[l] /\ ip'[l] = ip[l] /\ kind'[l] = kind[l]
          /\ reg'[l] = reg[l] /\ reg[l] \in Nat
      BY <2>1 DEF Packet, Shape, Typed
    <3>2. ASSUME NEW h \in Ips, NEW y \in Kinds, h = ip'[l], y = kind'[l]
          PROVE  reg'[l] <= Room(h, y)'
      <4>1. reg[l] <= Room(h, y) BY <2>1, <3>1, <3>2 DEF CounterInv, RegInv
      <4>. QED BY <4>1, <3>1, <1>3
    <3>. QED BY <2>1, <3>1, <3>2 DEF CounterInv, RegInv, Exceeds
  <2>2. CASE pc'[l] \notin {"store", "block"} BY <2>2 DEF RegInv
  <2>. QED BY <2>1, <2>2
<1>. QED BY <1>4, <1>5 DEF CounterInv, CountInv

(* The load gives the packet of core k to its register *)
LEMMA LoadKeepsCounters ==
  ASSUME Shape, Shape', CounterInv, NEW k \in Lcores, LoadCount(k)
  PROVE  CounterInv'
<1>1. ip[k] \in Ips /\ kind[k] \in Kinds /\ pc[k] = "count"
  BY DEF LoadCount, Shape, AtWork
<1>2. /\ log' = log /\ count' = count /\ ip' = ip /\ kind' = kind
      /\ pc' = [pc EXCEPT ![k] = "store"]
      /\ reg' = [reg EXCEPT ![k] = count[ip[k]][kind[k]] + 1]
  BY DEF LoadCount, entryVars
<1>3. ASSUME NEW h \in Ips, NEW y \in Kinds
      PROVE  /\ Room(h, y) \in Int /\ Room(h, y)' \in Int
             /\ Room(h, y)' >= Room(h, y)
             /\ h = ip[k] /\ y = kind[k] => Room(h, y)' = Room(h, y) + 1
  <2>1. CASE h = ip[k] /\ y = kind[k]
    <3>1. k \in Coming(h, y) /\ Coming(h, y)' = Coming(h, y) \ {k}
      BY <1>1, <1>2, <2>1 DEF Coming, Shape, Typed, Uncounted
    <3>. QED BY <3>1, <1>2, RoomMade, RoomIsInt
  <2>2. CASE ~(h = ip[k] /\ y = kind[k])
    <3>1. Coming(h, y)' \subseteq Coming(h, y)
      BY <1>2 DEF Coming, Shape, Typed, Uncounted
    <3>. QED BY <3>1, <1>2, <2>2, RoomKept, RoomIsInt
  <2>. QED BY <2>1, <2>2
<1>4. ASSUME NEW h \in Ips, NEW y \in Kinds PROVE count'[h][y] <= Room(h, y)'
  <2>1. count[h][y] \in Nat /\ count[h][y] <= Room(h, y)
    BY DEF Shape, Typed, CounterInv, CountInv
  <2>. QED BY <2>1, <1>2, <1>3
<1>5. ASSUME NEW l \in Lcores PROVE RegInv(l)'
  <2>1. CASE l = k
    <3>1. ASSUME NEW h \in Ips, NEW y \in Kinds, h = ip'[k], y = kind'[k]
          PROVE  reg'[k] <= Room(h, y)'
      <4>1. reg'[k] = count[h][y] + 1 BY <1>2, <3>1 DEF Shape, Typed
      <4>2. count[h][y] \in Nat /\ count[h][y] <= Room(h, y)
        BY DEF Shape, Typed, CounterInv, CountInv
      <4>. QED BY <4>1, <4>2, <1>2, <1>3, <3>1
    <3>2. pc'[k] = "store" BY <1>2 DEF Shape, Typed
    <3>. QED BY <2>1, <3>1, <3>2 DEF RegInv
  <2>2. CASE l # k /\ pc[l] \in {"store", "block"}
    <3>1. pc'[l] = pc[l] /\ reg'[l] = reg[l] /\ reg[l] \in Nat
      BY <1>2, <2>2 DEF Shape, Typed
    <3>2. ASSUME NEW h \in Ips, NEW y \in Kinds, h = ip'[l], y = kind'[l]
          PROVE  reg'[l] <= Room(h, y)'
      <4>1. reg[l] <= Room(h, y) BY <2>2, <1>2, <3>2 DEF CounterInv, RegInv
      <4>. QED BY <4>1, <3>1, <1>3
    <3>. QED BY <2>2, <3>1, <3>2, <1>2 DEF CounterInv, RegInv, Exceeds
  <2>3. CASE l # k /\ pc[l] \notin {"store", "block"} BY <1>2, <2>3 DEF RegInv
  <2>. QED BY <2>1, <2>2, <2>3
<1>. QED BY <1>4, <1>5 DEF CounterInv, CountInv

(* The register is no greater than there is room, whatever was stored since *)
LEMMA StoreKeepsCounters ==
  ASSUME Shape, Shape', CounterInv, NEW k \in Lcores, StoreCount(k)
  PROVE  CounterInv'
<1>1. ip[k] \in Ips /\ kind[k] \in Kinds /\ pc[k] = "store"
  BY DEF StoreCount, Shape, AtWork
<1>2. /\ log' = log
      /\ count' = [count EXCEPT ![ip[k]][kind[k]] = reg[k]]
      /\ \/ /\ Exceeds(reg[k], kind[k]) /\ pc' = [pc EXCEPT ![k] = "block"]
            /\ ip' = ip /\ kind' = kind /\ reg' = reg
         \/ Done(k)
  BY DEF StoreCount, Goto
<1>3. \A l \in Lcores \ {k} :
        pc'[l] = pc[l] /\ reg'[l] = reg[l] /\ ip'[l] = ip[l] /\ kind'[l] = kind[l]
  BY <1>2 DEF Done, Shape, Typed
<1>4. pc'[k] \in {"idle", "block"} BY <1>2 DEF Done, Shape, Typed
<1>5. ASSUME NEW h \in Ips, NEW y \in Kinds
      PROVE  Room(h, y) \in Int /\ Room(h, y)' \in Int /\ Room(h, y)' >= Room(h, y)
  <2>1. Coming(h, y)' \subseteq Coming(h, y) BY <1>3, <1>4, ComingShrinks DEF Uncounted
  <2>. QED BY <2>1, <1>2, RoomKept, RoomIsInt
<1>6. ASSUME NEW h \in Ips, NEW y \in Kinds PROVE count'[h][y] <= Room(h, y)'
  <2>1. count[h][y] \in Nat /\ count[h][y] <= Room(h, y) /\ reg[k] \in Nat
    BY DEF Shape, Typed, CounterInv, CountInv
  <2>2. h = ip[k] /\ y = kind[k] => reg[k] <= Room(h, y) BY <1>1 DEF CounterInv, RegInv
  <2>3. count'[h][y] = IF h = ip[k] /\ y = kind[k] THEN reg[k] ELSE count[h][y]
    BY <1>1, <1>2 DEF Shape, Typed
  <2>. QED BY <2>1, <2>2, <2>3, <1>5
<1>7. ASSUME NEW l \in Lcores PROVE RegInv(l)'
  <2>1. CASE pc'[l] \in {"store", "block"}
    <3>1. /\ pc[l] \in {"store", "block"} /\ ip'[l] = ip[l] /\ kind'[l] = kind[l]
          /\ reg'[l] = reg[l] /\ reg[l] \in Nat
          /\ pc'[l] = "block" => Exceeds(reg[l], kind[l])
      <4>1. CASE l = k BY <1>1, <1>2, <1>4, <2>1, <4>1 DEF Done, Shape, Typed
      <4>2. CASE l # k BY <1>3, <2>1, <4>2 DEF Shape, Typed, CounterInv, RegInv
      <4>. QED BY <4>1, <4>2
    <3>2. ASSUME NEW h \in Ips, NEW y \in Kinds, h = ip'[l], y = kind'[l]
          PROVE  reg'[l] <= Room(h, y)'
      <4>1. reg[l] <= Room(h, y) BY <3>1, <3>2 DEF CounterInv, RegInv
      <4>. QED BY <4>1, <3>1, <1>5
    <3>. QED BY <2>1, <3>1, <3>2 DEF RegInv, Exceeds
  <2>2. CASE pc'[l] \notin {"store", "block"} BY <2>2 DEF RegInv
  <2>. QED BY <2>1, <2>2
<1>. QED BY <1>6, <1>7 DEF CounterInv, CountInv

LEMMA CountersInit == Init => CounterInv
<1>. SUFFICES ASSUME Init PROVE CounterInv OBVIOUS
<1>1. Shape BY ShapeInit
<1>2. ASSUME NEW i \in Ips, NEW x \in Kinds PROVE count[i][x] <= Room(i, x)
  <2>1. Coming(i, x) = {} BY DEF Init, Coming, Uncounted
  <2>2. Cardinality(Coming(i, x)) = 0 BY <2>1, FS_EmptySet
  <2>3. count[i][x] = 0 BY DEF Init
  <2>. QED BY <1>1, <2>2, <2>3, RoomIsInt DEF Room
<1>3. ASSUME NEW k \in Lcores PROVE RegInv(k) BY DEF Init, RegInv
<1>. QED BY <1>2, <1>3 DEF CounterInv, CountInv

LEMMA CountersStable == Shape /\ Shape' /\ CounterInv /\ [Next]_vars => CounterInv'
<1>. SUFFICES ASSUME Shape, Shape', CounterInv, [Next]_vars PROVE CounterInv' OBVIOUS
<1>1. ASSUME UNCHANGED <<count, reg, pc, ip, kind, log>> PROVE CounterInv'
  BY <1>1 DEF CounterInv, CountInv, RegInv, Room, SentInAll, Coming, Exceeds
<1>2. CASE Tick BY <1>1, <1>2 DEF Tick, entryVars, coreVars
<1>3. ASSUME NEW k \in Lcores, Burst(k) PROVE CounterInv' BY <1>1, <1>3 DEF Burst, entryVars
<1>4. ASSUME NEW k \in Lcores, NEW i \in Ips, NEW x \in Kinds \cup {Other}, Packet(k, i, x)
      PROVE  CounterInv'
  BY <1>4, PacketKeepsCounters
<1>5. ASSUME NEW k \in Lcores, pc[k] \in {"window", "reset", "block", "clear"}, log' = log,
             \A h \in Ips, y \in Kinds : count'[h][y] \in {0, count[h][y]},
             \/ Done(k)
             \/ Goto(k, "reset") /\ pc[k] \in Uncounted
             \/ Goto(k, "count") /\ pc[k] \in Uncounted
             \/ Goto(k, "clear")
      PROVE  CounterInv'
  <2>1. /\ \A l \in Lcores \ {k} :
             pc'[l] = pc[l] /\ reg'[l] = reg[l] /\ ip'[l] = ip[l] /\ kind'[l] = kind[l]
        /\ \/ pc'[k] \notin Uncounted
           \/ pc[k] \in Uncounted /\ ip'[k] = ip[k] /\ kind'[k] = kind[k]
        /\ pc'[k] \notin {"store", "block"}
    BY <1>5 DEF Done, Goto, Shape, Typed, Uncounted
  <2>2. \A h \in Ips, y \in Kinds : Coming(h, y)' \subseteq Coming(h, y)
    BY <2>1, ComingShrinks
  <2>. QED BY <1>5, <2>1, <2>2, CountersKept
<1>6. ASSUME NEW k \in Lcores, ReadWindow(k) PROVE CounterInv'
  BY <1>5, <1>6 DEF ReadWindow, ToCount, entryVars, Uncounted
<1>7. ASSUME NEW k \in Lcores, ResetField(k) PROVE CounterInv'
  <2>1. pc[k] \in {"reset", "clear"} /\ log' = log BY <1>7 DEF ResetField, Shape, AtWork
  <2>2. \A h \in Ips, y \in Kinds : count'[h][y] \in {0, count[h][y]}
    <3>1. PICK f : count' = IF f = "start" THEN count ELSE [count EXCEPT ![ip[k]][f] = 0]
      BY <1>7 DEF ResetField
    <3>. QED BY <3>1 DEF Shape, Typed
  <2>3. \/ Done(k)
        \/ Goto(k, "reset") /\ pc[k] \in Uncounted
        \/ Goto(k, "count") /\ pc[k] \in Uncounted
        \/ Goto(k, "clear")
    BY <1>7, <2>1 DEF ResetField, ToCount, Uncounted
  <2>. QED BY <2>1, <2>2, <2>3, <1>5
<1>8. ASSUME NEW k \in Lcores, LoadCount(k) PROVE CounterInv' BY <1>8, LoadKeepsCounters
<1>9. ASSUME NEW k \in Lcores, StoreCount(k) PROVE CounterInv' BY <1>9, StoreKeepsCounters
<1>10. ASSUME NEW k \in Lcores, Block(k) PROVE CounterInv'
  BY <1>5, <1>10 DEF Block, entryVars
<1>11. CASE UNCHANGED vars BY <1>1, <1>11 DEF vars, entryVars, coreVars
<1>. QED BY <1>2, <1>3, <1>4, <1>6, <1>7, <1>8, <1>9, <1>10, <1>11 DEF Next

-----------------------------------------------------------------------------
(* The blocks                                                              *)

(* The log only grows *)
LEMMA SentGrows ==
  ASSUME Shape, [Next]_vars, NEW h \in Ips, NEW x \in Kinds
  PROVE  /\ Cardinality(SentInAll(h, x)') \in Nat
         /\ Cardinality(SentInAll(h, x)') >= Cardinality(SentInAll(h, x))
<1>1. CASE log' = log
  <2>1. SentInAll(h, x)' = SentInAll(h, x) BY <1>1 DEF SentInAll
  <2>. QED BY <2>1, RoomIsInt
<1>2. ASSUME NEW k \in Lcores, NEW i \in Ips, NEW y \in Kinds \cup {Other}, Packet(k, i, y)
      PROVE  /\ Cardinality(SentInAll(h, x)') \in Nat
             /\ Cardinality(SentInAll(h, x)') >= Cardinality(SentInAll(h, x))
  <2>. DEFINE e == [kind |-> y, at |-> now[k], core |-> k]
  <2>1. e \in Entries /\ log' = [log EXCEPT ![i] = Append(@, e)]
    BY <1>2 DEF Entries, Packet, Shape, Typed
  <2>2. Cardinality(SentInAll(h, x)) \in Nat BY RoomIsInt
  <2>3. Cardinality(SentInAll(h, x)') \in
          {Cardinality(SentInAll(h, x)), Cardinality(SentInAll(h, x)) + 1}
    BY <2>1, OneMoreSent
  <2>. QED BY <2>2, <2>3
<1>. QED
  BY <1>1, <1>2
  DEF Next, vars, Tick, Burst, ReadWindow, ResetField, LoadCount, StoreCount, Block

LEMMA GuiltyStable == DdosInv /\ [Next]_vars => Guilty'
<1>. SUFFICES ASSUME DdosInv, [Next]_vars, NEW i \in Ips, until'[i] > 0
              PROVE  \E x \in Kinds : Cardinality(SentInAll(i, x)') > Threshold[x]
  BY DEF Guilty, SentInAll
<1>1. ASSUME NEW x \in Kinds, Cardinality(SentInAll(i, x)) > Threshold[x]
      PROVE  Cardinality(SentInAll(i, x)') > Threshold[x]
  BY <1>1, SentGrows, RoomIsInt, DdosAssumption DEF DdosInv
<1>2. CASE until[i] > 0 BY <1>1, <1>2 DEF DdosInv, Guilty
<1>3. CASE ~(until[i] > 0)
  <2>1. PICK k \in Lcores : Block(k) /\ ip[k] = i
    BY <1>3 DEF Next, vars, entryVars, Tick, Burst, Packet, ReadWindow, ResetField, LoadCount,
                StoreCount, Block, DdosInv, Shape, Typed
  <2>. DEFINE x == kind[k]
  <2>2. x \in Kinds /\ pc[k] = "block" BY <2>1 DEF Block, DdosInv, Shape, AtWork
  <2>3. reg[k] <= Room(i, x) /\ reg[k] > Threshold[x] /\ reg[k] \in Nat
    BY <2>1, <2>2 DEF DdosInv, CounterInv, RegInv, Exceeds, Shape, Typed
  <2>4. Cardinality(SentInAll(i, x)) > Threshold[x]
    <3>1. /\ Cardinality(SentInAll(i, x)) \in Nat /\ Cardinality(Coming(i, x)) \in Nat
          /\ Threshold[x] \in Nat
      BY <2>2, RoomIsInt, DdosAssumption DEF DdosInv
    <3>. QED BY <3>1, <2>3 DEF Room
  <2>. QED BY <1>1, <2>2, <2>4
<1>. QED BY <1>2, <1>3

LEMMA Invariant == Spec => []DdosInv
<1>1. Init => Guilty BY DEF Init, Guilty
<1>. QED BY <1>1, ShapeInit, ShapeStable, CountersInit, CountersStable, GuiltyStable, PTL
         DEF Spec, DdosInv

(* However the cores race for an entry, whatever increments and resets are *)
(* lost or come back: ddos_update blocks a source only if it has sent more *)
(* packets of one kind than the threshold of that kind                     *)
THEOREM InnocentsPass == Spec => []NoInnocent
<1>1. DdosInv => NoInnocent
  BY DEF DdosInv, Guilty, NoInnocent, Sent, SentInAll
<1>. QED BY <1>1, Invariant, PTL

-----------------------------------------------------------------------------
(* Sources that one core sees: the windows                                 *)

(* What belongs to a source, and what a core has in hand *)
Entry(i) == [log |-> log[i], start |-> start[i], count |-> count[i], judged |-> judged[i]]
Core(k) ==
  [id |-> k, pc |-> pc[k], kind |-> kind[k], now |-> now[k], reg |-> reg[k], todo |-> todo[k]]

EntryType == [log : Seq(Entries), start : Nat, count : [Kinds -> Nat], judged : Nat]

(* The packets since the last block, up to the m-th of the source: those   *)
(* of the present window, those of less than window_ns before s, and those *)
(* from the a-th to the b-th                                               *)
Current(e, x, m) == {n \in e.judged + 1 .. m : e.log[n].kind = x /\ e.log[n].at >= e.start}
Before(e, x, s, m) ==
  {n \in e.judged + 1 .. m : e.log[n].kind = x /\ e.log[n].at < s /\ s - e.log[n].at < Window}
Stretch(e, x, a, b) == {n \in a .. b : e.log[n].kind = x}

Counted(e, m) ==
  \A x \in Kinds : /\ e.count[x] = Cardinality(Current(e, x, m))
                   /\ e.count[x] <= Threshold[x]
Calm(e, s, m) == \A x \in Kinds : Cardinality(Before(e, x, s, m)) <= Threshold[x]
NoFlood(e, m) ==
  \A x \in Kinds : \A a, b \in e.judged + 1 .. m :
    a <= b /\ e.log[b].at - e.log[a].at < Window =>
      Cardinality(Stretch(e, x, a, b)) <= 2 * Threshold[x]
Past(e, m) == \A n \in 1 .. m : e.log[n].at < e.start + Window

InWindow(e, m) == Counted(e, m) /\ Calm(e, e.start, m) /\ NoFlood(e, m) /\ Past(e, m)

(* Core c is at work on the packet after the m-th, the last of its source *)
Resetting(e, c, m) ==
  /\ Calm(e, c.now, m) /\ NoFlood(e, m)
  /\ \A n \in 1 .. m : e.log[n].at < c.now
  /\ "start" \notin c.todo => e.start = c.now
  /\ \A x \in Kinds \ c.todo : e.count[x] = 0

Blocking(e, c, m) ==
  /\ Past(e, m + 1)
  /\ c.reg = Cardinality(Current(e, c.kind, m + 1))

Clearing(e, c, m) ==
  /\ Past(e, m + 1) /\ e.judged = m + 1 /\ "start" \notin c.todo
  /\ \A x \in Kinds \ c.todo : e.count[x] = 0

AtStage(e, c, m) ==
  /\ c.pc # "clear" => e.judged <= m
  /\ c.pc \in {"window", "count", "store"} => InWindow(e, m)
  /\ c.pc \in {"count", "store"} => c.now < e.start + Window
  /\ c.pc = "store" => c.reg = e.count[c.kind] + 1
  /\ c.pc = "reset" => Resetting(e, c, m)
  /\ c.pc = "block" => Blocking(e, c, m)
  /\ c.pc = "clear" => Clearing(e, c, m)

(* The packet the core is at work on is the last of the source *)
IsLast(e, c) ==
  /\ e.log # << >>
  /\ e.log[Len(e.log)] = [kind |-> c.kind, at |-> c.now, core |-> c.id]

Sorted(e) == \A a, b \in DOMAIN e.log : a <= b => e.log[a].at <= e.log[b].at
Begun(e) == e.start = 0 \/ \E n \in DOMAIN e.log : e.start <= e.log[n].at

(* Without an entry nothing is counted, and an entry is there from the     *)
(* first packet on or never                                                *)
Fresh(e) ==
  /\ e.start = 0 /\ e.judged = 0 /\ \A x \in Kinds : e.count[x] = 0
  /\ e.log = << >> \/ Cardinality(tracked) >= HashEntries

Busy(i, k) == pc[k] # "idle" /\ ip[k] = i

SourceInv(i) ==
  /\ Sorted(Entry(i)) /\ Begun(Entry(i))
  /\ i \notin tracked => Fresh(Entry(i))
  /\ \A k \in Lcores : Busy(i, k) =>
       /\ i \in tracked
       /\ IsLast(Entry(i), Core(k))
       /\ AtStage(Entry(i), Core(k), Len(log[i]) - 1)
  /\ i \in tracked /\ (\A k \in Lcores : ~Busy(i, k)) => InWindow(Entry(i), Len(log[i]))

Timed ==
  /\ clock \in Nat /\ clock <= MaxTime + Window
  /\ \A k \in Lcores : now[k] <= clock
  /\ start \in [Ips -> Nat] /\ judged \in [Ips -> Nat]
  /\ tracked \subseteq Ips /\ IsFiniteSet(tracked)
  /\ \A i \in Ips : judged[i] <= Len(log[i])
  /\ \A i \in Ips : \A n \in DOMAIN log[i] : log[i][n].at <= now[log[i][n].core]

WindowInv == Timed /\ \A i \in Ips : OneCore(i) => SourceInv(i)

-----------------------------------------------------------------------------
(* Windows and the packets in them                                         *)

LEMMA StretchFinite ==
  ASSUME NEW a \in Int, NEW b \in Int, NEW S \in SUBSET (a .. b)
  PROVE  IsFiniteSet(S) /\ Cardinality(S) \in Nat
BY FS_Interval, FS_Subset, FS_CardinalityType

LEMMA CurrentFinite ==
  ASSUME NEW e \in EntryType, NEW x, NEW m \in Int
  PROVE  IsFiniteSet(Current(e, x, m)) /\ Cardinality(Current(e, x, m)) \in Nat
<1>1. e.judged + 1 \in Int BY DEF EntryType
<1>2. Current(e, x, m) \in SUBSET (e.judged + 1 .. m) BY DEF Current
<1>. QED BY <1>1, <1>2, StretchFinite

LEMMA BeforeFinite ==
  ASSUME NEW e \in EntryType, NEW x, NEW s, NEW m \in Int
  PROVE  IsFiniteSet(Before(e, x, s, m)) /\ Cardinality(Before(e, x, s, m)) \in Nat
<1>1. e.judged + 1 \in Int BY DEF EntryType
<1>2. Before(e, x, s, m) \in SUBSET (e.judged + 1 .. m) BY DEF Before
<1>. QED BY <1>1, <1>2, StretchFinite

(* What the entries of a log are *)
LEMMA PacketTyped ==
  ASSUME NEW L \in Seq(Entries), NEW n \in 1 .. Len(L)
  PROVE  L[n].at \in Nat /\ L[n].core \in Lcores
<1>1. L[n] \in Entries OBVIOUS
<1>. QED BY <1>1 DEF Entries

(* A packet of the present window *)
LEMMA CurrentGrows ==
  ASSUME NEW e \in EntryType, NEW m \in Nat, Len(e.log) = m + 1, e.judged <= m,
         e.start <= e.log[m + 1].at, NEW x \in Kinds
  PROVE  Cardinality(Current(e, x, m + 1)) =
           IF e.log[m + 1].kind = x THEN Cardinality(Current(e, x, m)) + 1
           ELSE Cardinality(Current(e, x, m))
<1>1. e.judged \in Nat BY DEF EntryType
<1>2. e.judged + 1 .. m + 1 = (e.judged + 1 .. m) \cup {m + 1} /\ m + 1 \notin Current(e, x, m)
  BY <1>1 DEF Current
<1>3. IsFiniteSet(Current(e, x, m)) /\ Cardinality(Current(e, x, m)) \in Nat BY CurrentFinite
<1>4. CASE e.log[m + 1].kind = x
  <2>1. Current(e, x, m + 1) = Current(e, x, m) \cup {m + 1} BY <1>2, <1>4 DEF Current
  <2>. QED BY <1>2, <1>3, <1>4, <2>1, FS_AddElement
<1>5. CASE e.log[m + 1].kind # x
  <2>1. Current(e, x, m + 1) = Current(e, x, m) BY <1>2, <1>5 DEF Current
  <2>. QED BY <1>5, <2>1
<1>. QED BY <1>4, <1>5

(* No more of them in less than window_ns than of the present window and   *)
(* of the time before it together                                          *)
LEMMA TwoWindows ==
  ASSUME NEW e \in EntryType, NEW m \in Nat, Len(e.log) = m + 1, Sorted(e),
         e.start <= e.log[m + 1].at, NEW x \in Kinds, NEW a \in e.judged + 1 .. m + 1,
         e.log[m + 1].at - e.log[a].at < Window
  PROVE  Cardinality(Stretch(e, x, a, m + 1)) <=
           Cardinality(Current(e, x, m + 1)) + Cardinality(Before(e, x, e.start, m))
<1>. DEFINE S == Stretch(e, x, a, m + 1)
            C == Current(e, x, m + 1)
            B == Before(e, x, e.start, m)
<1>1. e.judged \in Nat /\ e.start \in Nat /\ \A n \in 1 .. m + 1 : e.log[n] \in Entries
  BY DEF EntryType
<1>2. S \subseteq C \cup B
  <2>. SUFFICES ASSUME NEW n \in S PROVE n \in C \cup B OBVIOUS
  <2>1. n \in a .. m + 1 /\ e.log[n].kind = x /\ n \in e.judged + 1 .. m + 1 /\ a \in Nat
    BY <1>1 DEF Stretch
  <2>2. e.log[n].at \in Nat /\ e.log[a].at \in Nat /\ e.log[m + 1].at \in Nat
    BY <1>1, <2>1 DEF Entries
  <2>3. e.log[a].at <= e.log[n].at /\ e.log[n].at <= e.log[m + 1].at
    BY <1>1, <2>1 DEF Sorted, EntryType
  <2>4. CASE e.log[n].at >= e.start BY <2>1, <2>4 DEF Current
  <2>5. CASE ~(e.log[n].at >= e.start)
    <3>1. n # m + 1 BY <1>1, <2>2, <2>5
    <3>2. n \in e.judged + 1 .. m BY <1>1, <2>1, <3>1
    <3>3. e.log[n].at < e.start /\ e.start - e.log[n].at < Window
      <4>1. Window \in Nat BY DdosAssumption
      <4>2. \A s, t, u, v, w \in Nat : s <= t /\ u <= v /\ t - u < w /\ v < s => s - v < w
        OBVIOUS
      <4>3. e.log[n].at < e.start BY <1>1, <2>2, <2>5
      <4>. QED BY <1>1, <2>2, <2>3, <4>1, <4>2, <4>3
    <3>. QED BY <2>1, <3>2, <3>3 DEF Before
  <2>. QED BY <2>4, <2>5
<1>3. /\ IsFiniteSet(C) /\ Cardinality(C) \in Nat
      /\ IsFiniteSet(B) /\ Cardinality(B) \in Nat
  BY CurrentFinite, BeforeFinite
<1>4. /\ IsFiniteSet(C \cup B)
      /\ Cardinality(C \cup B) = Cardinality(C) + Cardinality(B) - Cardinality(C \cap B)
      /\ Cardinality(C \cap B) \in Nat
  <2>1. IsFiniteSet(C \cap B) BY <1>3, FS_Subset
  <2>. QED BY <1>3, <2>1, FS_Union, FS_CardinalityType
<1>5. Cardinality(S) <= Cardinality(C \cup B) /\ Cardinality(S) \in Nat
  BY <1>2, <1>4, FS_Subset, FS_CardinalityType
<1>. HIDE DEF S, C, B
<1>6. Cardinality(S) <= Cardinality(C) + Cardinality(B) BY <1>3, <1>4, <1>5
<1>. QED BY <1>6 DEF S, C, B

(* The last packet of the source has been counted *)
LEMMA PacketCounted ==
  ASSUME NEW e \in EntryType, NEW f \in EntryType, NEW m \in Nat, Len(e.log) = m + 1,
         Sorted(e), InWindow(e, m), e.judged <= m,
         e.start <= e.log[m + 1].at, e.log[m + 1].at < e.start + Window,
         f.log = e.log, f.start = e.start, f.judged = e.judged,
         \A x \in Kinds :
           /\ f.count[x] = IF e.log[m + 1].kind = x THEN e.count[x] + 1 ELSE e.count[x]
           /\ f.count[x] <= Threshold[x]
  PROVE  InWindow(f, m + 1)
<1>1. e.judged \in Nat /\ e.start \in Nat BY DEF EntryType
<1>2. \A x : Current(f, x, m + 1) = Current(e, x, m + 1) BY DEF Current
<1>3. Counted(f, m + 1)
  <2>. SUFFICES ASSUME NEW x \in Kinds
                PROVE  f.count[x] = Cardinality(Current(f, x, m + 1))
    BY DEF Counted
  <2>1. e.count[x] = Cardinality(Current(e, x, m)) BY DEF InWindow, Counted
  <2>. QED BY <1>2, <2>1, CurrentGrows
<1>4. Calm(f, f.start, m + 1)
  <2>. SUFFICES ASSUME NEW x \in Kinds
                PROVE  Cardinality(Before(f, x, f.start, m + 1)) <= Threshold[x]
    BY DEF Calm
  <2>1. m + 1 \in 1 .. Len(e.log) /\ e.log[m + 1].at \in Nat BY PacketTyped DEF EntryType
  <2>2. ~(e.log[m + 1].at < e.start) BY <1>1, <2>1
  <2>3. \A n \in e.judged + 1 .. m + 1 : n \in e.judged + 1 .. m \/ n = m + 1 BY <1>1
  <2>4. e.judged + 1 .. m \subseteq e.judged + 1 .. m + 1 BY <1>1
  <2>5. Before(f, x, f.start, m + 1) = Before(e, x, e.start, m)
    BY <2>2, <2>3, <2>4 DEF Before
  <2>. QED BY <2>5 DEF InWindow, Calm
<1>5. NoFlood(f, m + 1)
  <2>. SUFFICES ASSUME NEW x \in Kinds, NEW a \in e.judged + 1 .. m + 1,
                       NEW b \in e.judged + 1 .. m + 1,
                       a <= b, e.log[b].at - e.log[a].at < Window
                PROVE  Cardinality(Stretch(e, x, a, b)) <= 2 * Threshold[x]
    BY DEF NoFlood, Stretch
  <2>1. CASE b = m + 1
    <3>1. Cardinality(Stretch(e, x, a, m + 1)) <=
            Cardinality(Current(e, x, m + 1)) + Cardinality(Before(e, x, e.start, m))
      BY <2>1, TwoWindows
    <3>2. /\ Cardinality(Current(e, x, m + 1)) <= Threshold[x]
          /\ Cardinality(Before(e, x, e.start, m)) <= Threshold[x]
      BY <1>2, <1>3 DEF InWindow, Calm, Counted
    <3>3. /\ Cardinality(Current(e, x, m + 1)) \in Nat
          /\ Cardinality(Before(e, x, e.start, m)) \in Nat
      BY CurrentFinite, BeforeFinite
    <3>4. Cardinality(Stretch(e, x, a, m + 1)) \in Nat
      <4>1. Stretch(e, x, a, m + 1) \in SUBSET (a .. m + 1) BY DEF Stretch
      <4>2. a \in Int /\ m + 1 \in Int BY <1>1
      <4>. QED BY <4>1, <4>2, StretchFinite
    <3>5. Threshold[x] \in Nat BY DdosAssumption
    <3>. QED BY <2>1, <3>1, <3>2, <3>3, <3>4, <3>5
  <2>2. CASE b # m + 1
    <3>1. a \in e.judged + 1 .. m /\ b \in e.judged + 1 .. m BY <1>1, <2>2
    <3>. QED BY <3>1 DEF InWindow, NoFlood
  <2>. QED BY <2>1, <2>2
<1>6. Past(f, m + 1)
  <2>1. \A n \in 1 .. m + 1 : n \in 1 .. m \/ n = m + 1 OBVIOUS
  <2>. QED BY <2>1 DEF InWindow, Past
<1>. QED BY <1>3, <1>4, <1>5, <1>6 DEF InWindow

(* Nothing has come since the last block, or ever *)
LEMMA NothingSince ==
  ASSUME NEW e \in EntryType, NEW m \in Nat, m <= e.judged,
         \A x \in Kinds : e.count[x] = 0, Past(e, m)
  PROVE  InWindow(e, m)
<1>1. e.judged + 1 .. m = {} BY DEF EntryType
<1>2. \A x : Current(e, x, m) = {} /\ Before(e, x, e.start, m) = {} BY <1>1 DEF Current, Before
<1>3. Cardinality({}) = 0 BY FS_EmptySet
<1>4. Counted(e, m) /\ Calm(e, e.start, m) BY <1>2, <1>3, DdosAssumption DEF Counted, Calm
<1>5. NoFlood(e, m) BY <1>1 DEF NoFlood
<1>. QED BY <1>4, <1>5 DEF InWindow

(* The window is over at s: what came in less than window_ns before came   *)
(* within it                                                               *)
LEMMA WindowEnds ==
  ASSUME NEW e \in EntryType, NEW m \in Nat, m <= Len(e.log), InWindow(e, m),
         NEW s \in Nat, s - e.start >= Window
  PROVE  Calm(e, s, m) /\ \A n \in 1 .. m : e.log[n].at < s
<1>1. /\ e.judged \in Nat /\ e.start \in Nat /\ Window \in Nat
      /\ \A n \in 1 .. m : e.log[n].at \in Nat
  <2>1. e.log \in Seq(Entries) /\ e.judged \in Nat /\ e.start \in Nat BY DEF EntryType
  <2>2. \A n \in 1 .. m : n \in 1 .. Len(e.log) BY <2>1
  <2>. QED BY <2>1, <2>2, PacketTyped, DdosAssumption
<1>2. \A n \in 1 .. m : e.log[n].at < s BY <1>1 DEF InWindow, Past
<1>3. ASSUME NEW x \in Kinds PROVE Cardinality(Before(e, x, s, m)) <= Threshold[x]
  <2>1. Before(e, x, s, m) \subseteq Current(e, x, m)
    <3>1. \A n \in e.judged + 1 .. m : n \in 1 .. m BY <1>1
    <3>2. \A n \in e.judged + 1 .. m : s - e.log[n].at < Window => e.log[n].at >= e.start
      BY <1>1, <3>1
    <3>. QED BY <3>2 DEF Before, Current
  <2>2. Cardinality(Before(e, x, s, m)) <= Cardinality(Current(e, x, m))
    BY <2>1, CurrentFinite, FS_Subset
  <2>3. Threshold[x] \in Nat BY DdosAssumption
  <2>4. Cardinality(Current(e, x, m)) \in Nat /\ Cardinality(Before(e, x, s, m)) \in Nat
    BY CurrentFinite, BeforeFinite
  <2>5. Cardinality(Current(e, x, m)) <= Threshold[x] BY DEF InWindow, Counted
  <2>. QED BY <2>2, <2>3, <2>4, <2>5
<1>. QED BY <1>2, <1>3 DEF Calm

(* The next window begins at s *)
LEMMA WindowBegins ==
  ASSUME NEW e \in EntryType, NEW f \in EntryType, NEW m \in Nat, m <= Len(e.log), NEW s \in Nat,
         Calm(e, s, m), NoFlood(e, m), \A n \in 1 .. m : e.log[n].at < s,
         f.log = e.log, f.judged = e.judged, f.start = s, \A x \in Kinds : f.count[x] = 0
  PROVE  InWindow(f, m)
<1>1. e.judged \in Nat /\ Window \in Nat \ {0} /\ \A n \in 1 .. m : e.log[n].at \in Nat
  <2>1. e.log \in Seq(Entries) /\ e.judged \in Nat BY DEF EntryType
  <2>2. \A n \in 1 .. m : n \in 1 .. Len(e.log) BY <2>1
  <2>. QED BY <2>1, <2>2, PacketTyped, DdosAssumption
<1>2. \A n \in e.judged + 1 .. m : n \in 1 .. m BY <1>1
<1>3. \A x : Current(f, x, m) = {} BY <1>1, <1>2 DEF Current
<1>4. Counted(f, m)
  <2>1. Cardinality({}) = 0 BY FS_EmptySet
  <2>2. \A x \in Kinds : Threshold[x] \in Nat BY DdosAssumption
  <2>3. \A x \in Kinds : f.count[x] = 0 /\ Cardinality(Current(f, x, m)) = 0 BY <1>3, <2>1
  <2>. QED BY <2>2, <2>3 DEF Counted
<1>5. Calm(f, f.start, m)
  <2>1. \A x : Before(f, x, f.start, m) = Before(e, x, s, m) BY DEF Before
  <2>. QED BY <2>1 DEF Calm
<1>6. NoFlood(f, m)
  <2>1. \A x, a, b : Stretch(f, x, a, b) = Stretch(e, x, a, b) BY DEF Stretch
  <2>. QED BY <2>1 DEF NoFlood
<1>7. Past(f, m) BY <1>1 DEF Past
<1>. QED BY <1>4, <1>5, <1>6, <1>7 DEF InWindow

(* A packet that is not yet counted *)
LEMMA WindowKept ==
  ASSUME NEW e \in EntryType, NEW f \in EntryType, NEW p \in Entries,
         InWindow(e, Len(e.log)), f.log = Append(e.log, p),
         f.start = e.start, f.judged = e.judged, f.count = e.count
  PROVE  InWindow(f, Len(e.log))
<1>. DEFINE m == Len(e.log)
<1>1. m \in Nat /\ e.judged \in Nat /\ \A n \in 1 .. m : f.log[n] = e.log[n] BY DEF EntryType
<1>. HIDE DEF m
<1>2. \A n \in e.judged + 1 .. m : f.log[n] = e.log[n]
  <2>1. \A n \in e.judged + 1 .. m : n \in 1 .. m BY <1>1
  <2>. QED BY <1>1, <2>1
<1>3. \A x, s : Current(f, x, m) = Current(e, x, m) /\ Before(f, x, s, m) = Before(e, x, s, m)
  BY <1>2 DEF Current, Before
<1>4. \A x : \A a, b \in e.judged + 1 .. m : Stretch(f, x, a, b) = Stretch(e, x, a, b)
  <2>. SUFFICES ASSUME NEW x, NEW a \in e.judged + 1 .. m, NEW b \in e.judged + 1 .. m
                PROVE  Stretch(f, x, a, b) = Stretch(e, x, a, b)
    OBVIOUS
  <2>1. \A n \in a .. b : n \in 1 .. m BY <1>1
  <2>. QED BY <1>1, <2>1 DEF Stretch
<1>5. InWindow(e, m) BY DEF m
<1>6. Counted(f, m) /\ Calm(f, f.start, m) BY <1>3, <1>5 DEF InWindow, Counted, Calm
<1>7. NoFlood(f, m)
  <2>. SUFFICES ASSUME NEW x \in Kinds, NEW a \in e.judged + 1 .. m, NEW b \in e.judged + 1 .. m,
                       a <= b, f.log[b].at - f.log[a].at < Window
                PROVE  Cardinality(Stretch(f, x, a, b)) <= 2 * Threshold[x]
    BY DEF NoFlood
  <2>1. e.log[b].at - e.log[a].at < Window BY <1>2
  <2>2. Cardinality(Stretch(e, x, a, b)) <= 2 * Threshold[x]
    BY <1>5, <2>1 DEF InWindow, NoFlood
  <2>. QED BY <1>4, <2>2
<1>8. Past(f, m) BY <1>1, <1>5 DEF InWindow, Past
<1>. QED BY <1>6, <1>7, <1>8 DEF InWindow, m

-----------------------------------------------------------------------------
(* The steps                                                               *)

(* The unsigned difference of two times *)
LEMMA Elapsed ==
  ASSUME NEW t \in Nat, NEW s \in Nat, s <= t, t < TimeMod
  PROVE  Minus(t, s) = t - s
<1>1. TimeMod \in Nat \ {0} /\ t - s \in 0 .. TimeMod - 1 BY DdosAssumption
<1>2. (t - s) % TimeMod = t - s BY <1>1
<1>. QED BY <1>2 DEF Minus

LEMMA EntryTyped ==
  ASSUME Shape, Timed, NEW i \in Ips
  PROVE  Entry(i) \in EntryType /\ Len(log[i]) \in Nat
BY DEF Shape, Typed, Timed, Entry, EntryType

LEMMA TimedInit == Init => Timed
<1>. SUFFICES ASSUME Init PROVE Timed OBVIOUS
<1>1. MaxTime \in Nat /\ Window \in Nat BY DdosAssumption
<1>2. IsFiniteSet({}) BY FS_EmptySet
<1>. QED BY <1>1, <1>2 DEF Init, Timed

LEMMA TimedStable == Shape /\ Shape' /\ Timed /\ [Next]_vars => Timed'
<1>. SUFFICES ASSUME Shape, Shape', Timed, [Next]_vars PROVE Timed' OBVIOUS
<1>1. ASSUME UNCHANGED <<clock, now, start, judged, tracked, log>> PROVE Timed'
  BY <1>1 DEF Timed
<1>2. CASE Tick
  <2>1. clock' \in Nat /\ clock' <= MaxTime + Window /\ clock' >= clock
    BY <1>2, DdosAssumption DEF Tick, Timed
  <2>2. \A k \in Lcores : now[k] \in Nat BY DEF Shape, Typed
  <2>. QED BY <1>2, <2>1, <2>2 DEF Tick, entryVars, coreVars, Timed
<1>3. ASSUME NEW k \in Lcores, Burst(k) PROVE Timed'
  <2>1. \A l \in Lcores : now'[l] \in {now[l], clock} /\ now[l] \in Nat /\ now[l] <= clock
    BY <1>3 DEF Burst, Shape, Typed, Timed
  <2>2. \A i \in Ips : \A n \in DOMAIN log[i] : log[i][n].core \in Lcores /\ log[i][n].at \in Nat
    <3>1. ASSUME NEW i \in Ips PROVE log[i] \in Seq(Entries) /\ DOMAIN log[i] = 1 .. Len(log[i])
      BY DEF Shape, Typed
    <3>. QED BY <3>1, PacketTyped
  <2>3. \A i \in Ips : \A n \in DOMAIN log[i] : log[i][n].at <= now'[log[i][n].core]
    BY <2>1, <2>2 DEF Timed
  <2>4. UNCHANGED <<clock, start, judged, tracked, log>> BY <1>3 DEF Burst, entryVars
  <2>. QED BY <2>1, <2>3, <2>4 DEF Timed
<1>4. ASSUME NEW k \in Lcores, NEW h \in Ips, NEW x \in Kinds \cup {Other}, Packet(k, h, x)
      PROVE  Timed'
  <2>. DEFINE p == [kind |-> x, at |-> now[k], core |-> k]
  <2>1. /\ UNCHANGED <<clock, now, start, judged>>
        /\ log' = [log EXCEPT ![h] = Append(@, p)]
        /\ tracked' \in {tracked, tracked \cup {h}}
    BY <1>4 DEF Packet
  <2>2. tracked' \subseteq Ips /\ IsFiniteSet(tracked')
    BY <2>1, FS_AddElement DEF Timed
  <2>3. ASSUME NEW i \in Ips
        PROVE  judged[i] <= Len(log'[i]) /\
               \A n \in DOMAIN log'[i] : log'[i][n].at <= now[log'[i][n].core]
    <3>1. log[i] \in Seq(Entries) /\ judged[i] \in Nat /\ judged[i] <= Len(log[i])
      BY DEF Shape, Typed, Timed
    <3>2. p \in Entries /\ p.at <= now[p.core] BY DEF Entries, Shape, Typed
    <3>3. log'[i] \in {log[i], Append(log[i], p)} BY <2>1 DEF Shape, Typed
    <3>4. CASE log'[i] = log[i] BY <3>1, <3>4 DEF Timed
    <3>5. CASE log'[i] = Append(log[i], p)
      <4>1. Len(log'[i]) = Len(log[i]) + 1 BY <3>1, <3>2, <3>5
      <4>2. ASSUME NEW n \in DOMAIN log'[i] PROVE log'[i][n].at <= now[log'[i][n].core]
        <5>1. (n \in DOMAIN log[i] /\ log'[i][n] = log[i][n]) \/ log'[i][n] = p
          BY <3>1, <3>2, <3>5
        <5>. QED BY <5>1, <3>2 DEF Timed
      <4>. QED BY <3>1, <4>1, <4>2
    <3>. QED BY <3>3, <3>4, <3>5
  <2>. QED BY <2>1, <2>2, <2>3 DEF Timed
<1>5. ASSUME NEW k \in Lcores, ReadWindow(k) PROVE Timed'
  BY <1>1, <1>5 DEF ReadWindow, entryVars
<1>6. ASSUME NEW k \in Lcores, ResetField(k) PROVE Timed'
  <2>1. start' \in [Ips -> Nat] BY <1>6 DEF ResetField, Timed, Shape, Typed
  <2>2. UNCHANGED <<clock, now, judged, tracked, log>> BY <1>6 DEF ResetField
  <2>. QED BY <2>1, <2>2 DEF Timed
<1>7. ASSUME NEW k \in Lcores, LoadCount(k) PROVE Timed'
  BY <1>1, <1>7 DEF LoadCount, entryVars
<1>8. ASSUME NEW k \in Lcores, StoreCount(k) PROVE Timed' BY <1>1, <1>8 DEF StoreCount
<1>9. ASSUME NEW k \in Lcores, Block(k) PROVE Timed'
  <2>1. \A i \in Ips : Len(log[i]) \in Nat BY DEF Shape, Typed
  <2>2. ip[k] \in Ips BY <1>9 DEF Block, Shape, AtWork
  <2>3. /\ judged' \in [Ips -> Nat]
        /\ \A i \in Ips : judged'[i] \in {judged[i], Len(log[i])}
    BY <1>9, <2>1, <2>2 DEF Block, Timed
  <2>4. UNCHANGED <<clock, now, start, tracked, log>> BY <1>9 DEF Block, entryVars
  <2>. QED BY <2>1, <2>3, <2>4 DEF Timed
<1>10. CASE UNCHANGED vars BY <1>1, <1>10 DEF vars, entryVars, coreVars
<1>. QED BY <1>2, <1>3, <1>4, <1>5, <1>6, <1>7, <1>8, <1>9, <1>10 DEF Next

(* A step that is about no packet of the source *)
LEMMA Unmoved ==
  ASSUME Timed, Timed', NEW i \in Ips, Entry(i)' = Entry(i),
         tracked \subseteq tracked', i \in tracked' => i \in tracked,
         \A k \in Lcores : /\ Busy(i, k)' <=> Busy(i, k)
                           /\ Busy(i, k) => Core(k)' = Core(k),
         OneCore(i) => SourceInv(i)
  PROVE  OneCore(i)' => SourceInv(i)'
<1>. SUFFICES ASSUME OneCore(i)' PROVE SourceInv(i)' OBVIOUS
<1>1. log'[i] = log[i] BY DEF Entry
<1>2. SourceInv(i) BY <1>1 DEF OneCore
<1>3. Fresh(Entry(i)) => Fresh(Entry(i))'
  <2>1. Cardinality(tracked) <= Cardinality(tracked') BY FS_Subset DEF Timed
  <2>2. Cardinality(tracked) \in Nat /\ Cardinality(tracked') \in Nat
    BY FS_CardinalityType DEF Timed
  <2>3. HashEntries \in Nat BY DdosAssumption
  <2>. QED BY <2>1, <2>2, <2>3 DEF Fresh, Entry
<1>. QED BY <1>1, <1>2, <1>3 DEF SourceInv

(* What a core at work on a source of its own knows *)
LEMMA WorkerFacts ==
  ASSUME Shape, Timed, NEW i \in Ips, NEW k \in Lcores, Busy(i, k), OneCore(i), SourceInv(i)
  PROVE  /\ Len(log[i]) - 1 \in Nat
         /\ log[i][Len(log[i])] = [kind |-> kind[k], at |-> now[k], core |-> k]
         /\ AtStage(Entry(i), Core(k), Len(log[i]) - 1)
         /\ start[i] <= now[k] /\ now[k] < TimeMod
         /\ i \in tracked /\ Sorted(Entry(i))
         /\ \A l \in Lcores \ {k} : ~Busy(i, l)
<1>1. \A l \in Lcores : Busy(i, l) =>
        /\ log[i] # << >>
        /\ log[i][Len(log[i])] = [kind |-> kind[l], at |-> now[l], core |-> l]
  BY DEF SourceInv, IsLast, Entry, Core
<1>2. Len(log[i]) \in DOMAIN log[i] /\ Len(log[i]) - 1 \in Nat
  <2>1. log[i] \in Seq(Entries) /\ log[i] # << >> BY <1>1 DEF Shape, Typed
  <2>. QED BY <2>1
<1>3. \A n \in DOMAIN log[i] : log[i][n].core = k
  <2>0. log[i][Len(log[i])] = [kind |-> kind[k], at |-> now[k], core |-> k] BY <1>1
  <2>1. log[i][Len(log[i])].core = k BY <2>0
  <2>. QED BY <1>2, <2>1 DEF OneCore
<1>4. \A n \in DOMAIN log[i] : log[i][n].at \in Nat /\ log[i][n].at <= now[k]
  <2>1. log[i] \in Seq(Entries) BY DEF Shape, Typed
  <2>2. DOMAIN log[i] = 1 .. Len(log[i]) BY <2>1
  <2>3. \A n \in DOMAIN log[i] : log[i][n].at \in Nat BY <2>1, <2>2, PacketTyped
  <2>4. \A n \in DOMAIN log[i] : log[i][n].at <= now[log[i][n].core] BY DEF Timed
  <2>. QED BY <1>3, <2>3, <2>4
<1>5. now[k] \in Nat /\ now[k] <= clock /\ clock \in Nat /\ clock < TimeMod /\ start[i] \in Nat
  BY DdosAssumption DEF Timed, Shape, Typed
<1>6. start[i] <= now[k] BY <1>4, <1>5 DEF SourceInv, Begun, Entry
<1>7. ASSUME NEW l \in Lcores, Busy(i, l) PROVE l = k
  <2>0. log[i][Len(log[i])] = [kind |-> kind[l], at |-> now[l], core |-> l] BY <1>1, <1>7
  <2>1. log[i][Len(log[i])].core = l BY <2>0
  <2>. QED BY <1>2, <1>3, <2>1
<1>8. now[k] < TimeMod
  <2>1. TimeMod \in Nat BY DdosAssumption
  <2>. QED BY <1>5, <2>1
<1>. QED BY <1>1, <1>2, <1>6, <1>7, <1>8 DEF SourceInv

(* One step of that core, to the next stage or to the end of ddos_update *)
LEMMA WorkerStep ==
  ASSUME Shape, Timed, NEW i \in Ips, NEW k \in Lcores, Busy(i, k), OneCore(i), SourceInv(i),
         log' = log, tracked' = tracked, now' = now,
         \A l \in Lcores \ {k} : pc'[l] = pc[l] /\ ip'[l] = ip[l],
         start'[i] \in {start[i], now[k]},
         \/ pc'[k] = "idle" /\ InWindow(Entry(i)', Len(log[i]))
         \/ /\ pc'[k] # "idle" /\ ip'[k] = ip[k] /\ kind'[k] = kind[k]
            /\ AtStage(Entry(i)', Core(k)', Len(log[i]) - 1)
  PROVE  SourceInv(i)'
<1>. DEFINE N == Len(log[i])
<1>1. /\ N - 1 \in Nat /\ log[i][N] = [kind |-> kind[k], at |-> now[k], core |-> k]
      /\ i \in tracked /\ Sorted(Entry(i)) /\ \A l \in Lcores \ {k} : ~Busy(i, l)
  BY WorkerFacts
<1>2. Sorted(Entry(i)') BY <1>1 DEF Sorted, Entry
<1>3. Begun(Entry(i)')
  <2>1. N \in DOMAIN log[i] /\ log[i][N].at = now[k] /\ now[k] \in Nat
    BY <1>1 DEF Shape, Typed
  <2>2. CASE start'[i] = now[k] BY <2>1, <2>2 DEF Begun, Entry
  <2>3. CASE start'[i] = start[i] BY <2>3 DEF SourceInv, Begun, Entry
  <2>. QED BY <2>2, <2>3
<1>4. \A l \in Lcores \ {k} : ~Busy(i, l)' BY <1>1 DEF Busy
<1>5. CASE pc'[k] = "idle" /\ InWindow(Entry(i)', N)
  <2>1. ~Busy(i, k)' BY <1>5 DEF Busy
  <2>. QED BY <1>1, <1>2, <1>3, <1>4, <1>5, <2>1 DEF SourceInv
<1>6. CASE /\ pc'[k] # "idle" /\ ip'[k] = ip[k] /\ kind'[k] = kind[k]
           /\ AtStage(Entry(i)', Core(k)', N - 1)
  <2>1. Busy(i, k)' BY <1>6 DEF Busy
  <2>2. IsLast(Entry(i)', Core(k)')
    <3>1. log[i] # << >> BY <1>1 DEF Shape, Typed
    <3>. QED BY <1>1, <1>6, <3>1 DEF IsLast, Entry, Core
  <2>. QED BY <1>1, <1>2, <1>3, <1>4, <1>6, <2>1, <2>2 DEF SourceInv
<1>. QED BY <1>5, <1>6

(* What Calm and NoFlood say depends on the log only *)
LEMMA SameLog ==
  ASSUME NEW e, NEW f, NEW m, f.log = e.log, f.judged = e.judged
  PROVE  /\ \A s : Calm(e, s, m) => Calm(f, s, m)
         /\ NoFlood(e, m) => NoFlood(f, m)
<1>1. \A x, s : Before(f, x, s, m) = Before(e, x, s, m) BY DEF Before
<1>2. \A x, a, b : Stretch(f, x, a, b) = Stretch(e, x, a, b) BY DEF Stretch
<1>. QED BY <1>1, <1>2 DEF Calm, NoFlood

(* A packet of a source that is seen by this core only: either it has an   *)
(* entry, from its first packet on, or it never will                       *)
LEMMA PacketKeepsWindow ==
  ASSUME Shape, Shape', Timed, Timed', NEW k \in Lcores, NEW i \in Ips,
         NEW x \in Kinds \cup {Other}, Packet(k, i, x), OneCore(i)', OneCore(i) => SourceInv(i)
  PROVE  SourceInv(i)'
<1>0. PICK e, f, p, m :
        /\ e = Entry(i) /\ f = Entry(i)' /\ m = Len(log[i])
        /\ p = [kind |-> x, at |-> now[k], core |-> k]
  OBVIOUS
<1>1. e \in EntryType /\ f \in EntryType /\ m \in Nat /\ p \in Entries /\ e.log = log[i]
  BY <1>0, EntryTyped DEF Entries, Shape, Typed, Timed, Entry, EntryType
<1>2. /\ log'[i] = Append(log[i], p) /\ f.log = Append(e.log, p)
      /\ f.start = e.start /\ f.count = e.count /\ f.judged = e.judged
  BY <1>0 DEF Packet, Entry, Shape, Typed
<1>3. /\ Len(log'[i]) = m + 1 /\ log'[i][m + 1] = p
      /\ \A n \in 1 .. m : log'[i][n] = log[i][n]
      /\ DOMAIN log[i] = 1 .. m /\ DOMAIN log'[i] = 1 .. m + 1
  BY <1>0, <1>1, <1>2
<1>4. \A n \in 1 .. m : log[i][n].core = k
  <2>1. \A n \in 1 .. m : n \in 1 .. m + 1 /\ m + 1 \in 1 .. m + 1 BY <1>1
  <2>. QED BY <1>0, <1>3, <2>1 DEF OneCore
<1>5. OneCore(i) /\ SourceInv(i) BY <1>3, <1>4 DEF OneCore
<1>6. \A l \in Lcores : ~Busy(i, l)
  <2>. SUFFICES ASSUME NEW l \in Lcores, Busy(i, l) PROVE FALSE OBVIOUS
  <2>1. log[i][m] = [kind |-> kind[l], at |-> now[l], core |-> l] /\ m - 1 \in Nat
    BY <1>0, <1>5, WorkerFacts
  <2>2. m \in 1 .. m BY <2>1, <1>1
  <2>3. l = k BY <1>4, <2>1, <2>2
  <2>. QED BY <2>3 DEF Busy, Packet
<1>7. \A n \in 1 .. m : log[i][n].at <= now[k] BY <1>3, <1>4 DEF Timed
<1>8. Sorted(f)
  <2>1. \A n \in 1 .. m + 1 : n \in 1 .. m \/ n = m + 1 BY <1>1
  <2>2. p.at = now[k] /\ now[k] \in Nat BY <1>0 DEF Shape, Typed
  <2>3. ASSUME NEW a \in 1 .. m + 1, NEW b \in 1 .. m + 1, a <= b
        PROVE  log'[i][a].at <= log'[i][b].at
    <3>1. CASE b \in 1 .. m
      <4>1. a \in 1 .. m BY <1>1, <2>3, <3>1
      <4>. QED BY <1>0, <1>3, <1>5, <2>3, <3>1, <4>1 DEF SourceInv, Sorted, Entry
    <3>2. CASE b = m + 1
      <4>1. log'[i][b].at = now[k] BY <1>3, <2>2, <3>2
      <4>2. log'[i][a].at <= now[k] BY <1>3, <1>7, <2>1, <2>2
      <4>. QED BY <4>1, <4>2
    <3>. QED BY <2>1, <3>1, <3>2
  <2>4. f.log = log'[i] BY <1>0 DEF Entry
  <2>. QED BY <1>3, <2>3, <2>4 DEF Sorted
<1>9. Begun(f)
  <2>1. Begun(e) BY <1>0, <1>5 DEF SourceInv
  <2>2. \A n \in DOMAIN e.log : n \in DOMAIN f.log /\ f.log[n] = e.log[n] BY <1>1, <1>2
  <2>. QED BY <1>2, <2>1, <2>2 DEF Begun
<1>10. CASE HasEntry(i)
  <2>1. /\ tracked' = tracked \cup {i} /\ pc' = [pc EXCEPT ![k] = "window"]
        /\ ip' = [ip EXCEPT ![k] = i] /\ kind' = [kind EXCEPT ![k] = x] /\ now' = now
    BY <1>10 DEF Packet
  <2>2. \A l \in Lcores : Busy(i, l)' => l = k BY <1>6, <2>1 DEF Busy, Shape, Typed
  <2>3. Busy(i, k)' BY <2>1 DEF Busy, Shape, Typed
  <2>4. IsLast(f, Core(k)')
    <3>1. f.log # << >> /\ Len(f.log) = m + 1 /\ f.log[m + 1] = p
      <4>1. f.log = log'[i] BY <1>0 DEF Entry
      <4>2. Len(<< >>) = 0 /\ m + 1 # 0 BY <1>1
      <4>. QED BY <1>3, <4>1, <4>2
    <3>. QED BY <1>0, <2>1, <3>1 DEF IsLast, Core, Shape, Typed
  <2>5. InWindow(f, m)
    <3>1. CASE i \in tracked
      <4>1. InWindow(e, m) BY <1>0, <1>5, <1>6, <3>1 DEF SourceInv
      <4>. QED BY <1>0, <1>1, <1>2, <4>1, WindowKept
    <3>2. CASE i \notin tracked
      <4>1. Fresh(e) BY <1>0, <1>5, <3>2 DEF SourceInv
      <4>2. e.log = << >>
        <5>1. Cardinality(tracked) \in Nat /\ HashEntries \in Nat
          BY FS_CardinalityType, DdosAssumption DEF Timed
        <5>2. ~(Cardinality(tracked) >= HashEntries) BY <1>10, <3>2, <5>1 DEF HasEntry
        <5>. QED BY <4>1, <5>2 DEF Fresh
      <4>3. m = 0 BY <1>0, <1>1, <4>2
      <4>4. Past(f, m) /\ m <= f.judged /\ \A y \in Kinds : f.count[y] = 0
        BY <1>1, <1>2, <4>1, <4>3 DEF Past, Fresh, EntryType
      <4>. QED BY <1>1, <4>4, NothingSince
    <3>. QED BY <3>1, <3>2
  <2>6. f.judged <= m BY <1>0, <1>2 DEF Timed, Entry
  <2>7. AtStage(f, Core(k)', m)
    <3>1. Core(k)'.pc = "window" BY <2>1 DEF Core, Shape, Typed
    <3>. QED BY <2>5, <2>6, <3>1 DEF AtStage
  <2>8. i \in tracked' /\ Len(log'[i]) - 1 = m BY <1>1, <1>3, <2>1
  <2>. QED BY <1>0, <1>8, <1>9, <2>2, <2>3, <2>4, <2>7, <2>8 DEF SourceInv
<1>11. CASE ~HasEntry(i)
  <2>1. UNCHANGED <<tracked, pc, ip>> BY <1>11 DEF Packet
  <2>2. i \notin tracked /\ Fresh(e) BY <1>0, <1>5, <1>11 DEF HasEntry, SourceInv
  <2>3. Cardinality(tracked) >= HashEntries
    <3>1. Cardinality(tracked) \in Nat /\ HashEntries \in Nat
      BY FS_CardinalityType, DdosAssumption DEF Timed
    <3>. QED BY <1>11, <3>1 DEF HasEntry
  <2>4. Fresh(Entry(i))'
    <3>1. /\ f.start = 0 /\ f.judged = 0 /\ \A y \in Kinds : f.count[y] = 0
      BY <1>2, <2>2 DEF Fresh
    <3>. QED BY <1>0, <2>1, <2>3, <3>1 DEF Fresh
  <2>5. \A l \in Lcores : ~Busy(i, l)' BY <1>6, <2>1 DEF Busy
  <2>. QED BY <1>0, <1>8, <1>9, <2>1, <2>2, <2>4, <2>5 DEF SourceInv
<1>. QED BY <1>10, <1>11

(* The branches of ddos_update; m counts the packets before the one core k *)
(* is at work on                                                           *)

LEMMA ReadWindowKeepsWindow ==
  ASSUME Shape, Shape', Timed, NEW k \in Lcores, NEW i \in Ips, Busy(i, k), ReadWindow(k),
         OneCore(i), SourceInv(i)
  PROVE  SourceInv(i)'
<1>0. PICK e, m : e = Entry(i) /\ m = Len(log[i]) - 1 OBVIOUS
<1>1. /\ m \in Nat /\ m + 1 = Len(log[i]) /\ e \in EntryType /\ now[k] \in Nat
      /\ e.log = log[i] /\ e.start = start[i] /\ e.judged = judged[i] /\ e.count = count[i]
  <2>1. m \in Nat BY <1>0, WorkerFacts
  <2>2. e \in EntryType /\ Len(log[i]) \in Nat BY <1>0, EntryTyped
  <2>3. now[k] \in Nat BY DEF Shape, Typed
  <2>. QED BY <1>0, <2>1, <2>2, <2>3 DEF Entry
<1>2. /\ e.log[m + 1] = [kind |-> kind[k], at |-> now[k], core |-> k]
      /\ e.start <= now[k] /\ now[k] < TimeMod /\ Sorted(e)
  BY <1>0, <1>1, WorkerFacts
<1>3. e.judged <= m /\ InWindow(e, m)
  <2>1. AtStage(e, Core(k), m) BY <1>0, WorkerFacts
  <2>. QED BY <2>1 DEF AtStage, Core, ReadWindow
<1>4. ip[k] = i /\ pc[k] = "window" BY DEF Busy, ReadWindow
<1>5. Entry(i)' = e BY <1>0 DEF ReadWindow, entryVars, Entry
<1>6. Minus(now[k], start[i]) = now[k] - start[i] /\ e.start \in Nat /\ Window \in Nat \ {0}
  BY <1>1, <1>2, Elapsed, DdosAssumption DEF EntryType
<1>7. CASE Expired(now[k], start[i])
  <2>1. /\ todo' = [todo EXCEPT ![k] = ResetFields] /\ pc' = [pc EXCEPT ![k] = "reset"]
        /\ UNCHANGED <<ip, kind, reg, now, log, tracked, start>>
    BY <1>4, <1>7 DEF ReadWindow, Goto, entryVars
  <2>2. Core(k)'.pc = "reset" /\ Core(k)'.now = now[k] /\ Core(k)'.todo = Kinds \cup {"start"}
    BY <2>1 DEF Core, Shape, Typed, ResetFields
  <2>3. now[k] - e.start >= Window BY <1>1, <1>6, <1>7 DEF Expired
  <2>4. Calm(e, now[k], m) /\ \A n \in 1 .. m : e.log[n].at < now[k]
    BY <1>1, <1>3, <2>3, WindowEnds
  <2>5. Resetting(e, Core(k)', m) BY <1>3, <2>2, <2>4 DEF Resetting, InWindow
  <2>6. AtStage(e, Core(k)', m) BY <1>3, <2>2, <2>5 DEF AtStage
  <2>7. pc'[k] # "idle" /\ \A l \in Lcores \ {k} : pc'[l] = pc[l] BY <2>1 DEF Shape, Typed
  <2>. QED BY <1>0, <1>5, <2>1, <2>6, <2>7, WorkerStep
<1>8. CASE ~Expired(now[k], start[i])
  <2>1. /\ UNCHANGED <<todo, now, log, tracked, start>> /\ ToCount(k)
    BY <1>4, <1>8 DEF ReadWindow, entryVars
  <2>2. now[k] < e.start + Window BY <1>1, <1>6, <1>8 DEF Expired
  <2>3. CASE kind[k] = Other
    <3>1. Done(k) BY <2>1, <2>3 DEF ToCount
    <3>2. \A x \in Kinds : e.count[x] <= Threshold[x] /\ kind[k] # x
      BY <1>3, <2>3, DdosAssumption DEF InWindow, Counted
    <3>3. InWindow(e, m + 1) BY <1>1, <1>2, <1>3, <2>2, <3>2, PacketCounted
    <3>4. /\ pc'[k] = "idle"
          /\ \A l \in Lcores \ {k} : pc'[l] = pc[l] /\ ip'[l] = ip[l]
      BY <3>1 DEF Done, Shape, Typed
    <3>. QED BY <1>1, <1>5, <2>1, <3>3, <3>4, WorkerStep
  <2>4. CASE kind[k] # Other
    <3>1. pc' = [pc EXCEPT ![k] = "count"] /\ UNCHANGED <<ip, kind, reg>>
      BY <2>1, <2>4 DEF ToCount, Goto
    <3>2. Core(k)'.pc = "count" /\ Core(k)'.now = now[k]
      BY <2>1, <3>1 DEF Core, Shape, Typed
    <3>3. AtStage(e, Core(k)', m) BY <1>3, <2>2, <3>2 DEF AtStage
    <3>4. pc'[k] # "idle" /\ \A l \in Lcores \ {k} : pc'[l] = pc[l] BY <3>1 DEF Shape, Typed
    <3>. QED BY <1>0, <1>5, <2>1, <3>1, <3>3, <3>4, WorkerStep
  <2>. QED BY <2>3, <2>4
<1>. QED BY <1>7, <1>8

LEMMA ResetKeepsWindow ==
  ASSUME Shape, Shape', Timed, Timed', NEW k \in Lcores, NEW i \in Ips, Busy(i, k), ResetField(k),
         OneCore(i), SourceInv(i)
  PROVE  SourceInv(i)'
<1>0. PICK e, f, m : e = Entry(i) /\ f = Entry(i)' /\ m = Len(log[i]) - 1 OBVIOUS
<1>1. /\ m \in Nat /\ m + 1 = Len(log[i]) /\ e \in EntryType /\ now[k] \in Nat
      /\ e.log = log[i] /\ e.start = start[i] /\ e.judged = judged[i] /\ e.count = count[i]
  <2>1. m \in Nat BY <1>0, WorkerFacts
  <2>2. e \in EntryType /\ Len(log[i]) \in Nat BY <1>0, EntryTyped
  <2>3. now[k] \in Nat BY DEF Shape, Typed
  <2>. QED BY <1>0, <2>1, <2>2, <2>3 DEF Entry
<1>2. /\ e.log[m + 1] = [kind |-> kind[k], at |-> now[k], core |-> k]
      /\ e.start <= now[k] /\ Sorted(e) /\ AtStage(e, Core(k), m)
  BY <1>0, <1>1, WorkerFacts
<1>3. ip[k] = i /\ pc[k] \in {"reset", "clear"}
  BY DEF Busy, ResetField, Shape, AtWork
<1>4. PICK x \in todo[k] :
        /\ todo' = [todo EXCEPT ![k] = @ \ {x}]
        /\ start' = IF x = "start" THEN [start EXCEPT ![i] = now[k]] ELSE start
        /\ count' = IF x = "start" THEN count ELSE [count EXCEPT ![i][x] = 0]
  BY <1>3 DEF ResetField
<1>5. /\ UNCHANGED <<clock, tracked, until, now, log, judged>>
      /\ IF todo'[k] # {} THEN Goto(k, pc[k])
         ELSE IF pc[k] = "reset" THEN ToCount(k) ELSE Done(k)
  BY DEF ResetField
<1>6. /\ f \in EntryType /\ f.log = e.log /\ f.judged = e.judged
      /\ f.start = IF x = "start" THEN now[k] ELSE e.start
      /\ x # "start" => x \in Kinds /\ f.count[x] = 0
      /\ \A y \in Kinds \ {x} : f.count[y] = e.count[y]
  <2>1. x \in Kinds \cup {"start"} BY DEF Shape, Typed
  <2>2. f \in EntryType BY <1>0 DEF Entry, EntryType, Shape, Typed, Timed
  <2>3. f.log = e.log /\ f.judged = e.judged BY <1>0, <1>5 DEF Entry
  <2>4. f.start = start'[i] /\ f.count = count'[i] BY <1>0 DEF Entry
  <2>5. start'[i] = IF x = "start" THEN now[k] ELSE start[i] BY <1>4 DEF Timed
  <2>6. /\ x # "start" => count'[i][x] = 0
        /\ \A y \in Kinds \ {x} : count'[i][y] = count[i][y]
    BY <1>4, <2>1 DEF Shape, Typed
  <2>. QED BY <1>1, <2>1, <2>2, <2>3, <2>4, <2>5, <2>6
<1>7. start'[i] \in {start[i], now[k]} BY <1>4 DEF Timed
<1>8. todo'[k] = todo[k] \ {x} BY <1>4 DEF Shape, Typed
<1>9. CASE pc[k] = "reset"
  <2>1. Resetting(e, Core(k), m) /\ e.judged <= m
    BY <1>2, <1>9 DEF AtStage, Core
  <2>2. /\ Calm(e, now[k], m) /\ NoFlood(e, m) /\ \A n \in 1 .. m : e.log[n].at < now[k]
        /\ "start" \notin todo[k] => e.start = now[k]
        /\ \A y \in Kinds \ todo[k] : e.count[y] = 0
    BY <2>1 DEF Resetting, Core
  <2>3. /\ "start" \notin todo'[k] => f.start = now[k]
        /\ \A y \in Kinds \ todo'[k] : f.count[y] = 0
    <3>1. CASE x = "start" BY <1>6, <1>8, <2>2, <3>1, DdosAssumption
    <3>2. CASE x # "start" BY <1>6, <1>8, <2>2, <3>2
    <3>. QED BY <3>1, <3>2
  <2>4. CASE todo'[k] # {}
    <3>1. pc' = pc /\ UNCHANGED <<ip, kind, reg>>
      BY <1>5, <2>4 DEF Goto, Shape, Typed
    <3>2. Resetting(f, Core(k)', m)
      <4>1. Calm(f, now[k], m) /\ NoFlood(f, m) BY <1>6, <2>2, SameLog
      <4>. QED BY <1>5, <1>6, <2>2, <2>3, <4>1 DEF Resetting, Core
    <3>3. Core(k)'.pc = "reset" BY <1>9, <3>1 DEF Core
    <3>4. AtStage(f, Core(k)', m) BY <1>6, <2>1, <3>2, <3>3 DEF AtStage
    <3>. QED BY <1>0, <1>5, <1>7, <1>9, <3>1, <3>4, WorkerStep
  <2>5. CASE todo'[k] = {}
    <3>1. ToCount(k) BY <1>5, <1>9, <2>5
    <3>2. f.start = now[k] /\ \A y \in Kinds : f.count[y] = 0 BY <2>3, <2>5
    <3>3. InWindow(f, m) BY <1>1, <1>6, <2>2, <3>2, WindowBegins
    <3>4. f.start <= now[k] /\ now[k] < f.start + Window BY <1>1, <3>2, DdosAssumption
    <3>5. CASE kind[k] = Other
      <4>1. Done(k) BY <3>1, <3>5 DEF ToCount
      <4>2. \A y \in Kinds : f.count[y] <= Threshold[y] /\ kind[k] # y
        BY <3>3, <3>5, DdosAssumption DEF InWindow, Counted
      <4>3. Sorted(f) BY <1>2, <1>6 DEF Sorted
      <4>4. InWindow(f, m + 1)
        BY <1>1, <1>2, <1>6, <2>1, <3>3, <3>4, <4>2, <4>3, PacketCounted
      <4>5. /\ pc'[k] = "idle"
            /\ \A l \in Lcores \ {k} : pc'[l] = pc[l] /\ ip'[l] = ip[l]
        BY <4>1 DEF Done, Shape, Typed
      <4>. QED BY <1>0, <1>1, <1>5, <1>7, <4>4, <4>5, WorkerStep
    <3>6. CASE kind[k] # Other
      <4>1. pc' = [pc EXCEPT ![k] = "count"] /\ UNCHANGED <<ip, kind, reg>>
        BY <3>1, <3>6 DEF ToCount, Goto
      <4>2. Core(k)'.pc = "count" /\ Core(k)'.now = now[k]
        BY <1>5, <4>1 DEF Core, Shape, Typed
      <4>3. AtStage(f, Core(k)', m) BY <1>6, <2>1, <3>3, <3>4, <4>2 DEF AtStage
      <4>4. pc'[k] # "idle" /\ \A l \in Lcores \ {k} : pc'[l] = pc[l] BY <4>1 DEF Shape, Typed
      <4>. QED BY <1>0, <1>5, <1>7, <4>1, <4>3, <4>4, WorkerStep
    <3>. QED BY <3>5, <3>6
  <2>. QED BY <2>4, <2>5
<1>10. CASE pc[k] = "clear"
  <2>1. Clearing(e, Core(k), m) BY <1>2, <1>10 DEF AtStage, Core
  <2>2. /\ Past(e, m + 1) /\ e.judged = m + 1 /\ x # "start"
        /\ \A y \in Kinds \ todo[k] : e.count[y] = 0
    BY <2>1 DEF Clearing, Core
  <2>3. Past(f, m + 1) /\ \A y \in Kinds \ todo'[k] : f.count[y] = 0
    BY <1>6, <1>8, <2>2 DEF Past
  <2>4. CASE todo'[k] # {}
    <3>1. pc' = pc /\ UNCHANGED <<ip, kind, reg>>
      BY <1>5, <2>4 DEF Goto, Shape, Typed
    <3>2. "start" \notin todo'[k] BY <1>8, <2>1 DEF Clearing, Core
    <3>3. Clearing(f, Core(k)', m)
      BY <1>6, <2>2, <2>3, <3>2 DEF Clearing, Core
    <3>4. Core(k)'.pc = "clear" BY <1>10, <3>1 DEF Core
    <3>5. AtStage(f, Core(k)', m) BY <3>3, <3>4 DEF AtStage
    <3>. QED BY <1>0, <1>5, <1>7, <1>10, <3>1, <3>5, WorkerStep
  <2>5. CASE todo'[k] = {}
    <3>1. Done(k) BY <1>5, <1>10, <2>5
    <3>2. InWindow(f, m + 1) BY <1>1, <1>6, <2>2, <2>3, <2>5, NothingSince
    <3>3. /\ pc'[k] = "idle"
          /\ \A l \in Lcores \ {k} : pc'[l] = pc[l] /\ ip'[l] = ip[l]
      BY <3>1 DEF Done, Shape, Typed
    <3>. QED BY <1>0, <1>1, <1>5, <1>7, <3>2, <3>3, WorkerStep
  <2>. QED BY <2>4, <2>5
<1>. QED BY <1>3, <1>9, <1>10

LEMMA LoadKeepsWindow ==
  ASSUME Shape, Shape', Timed, NEW k \in Lcores, NEW i \in Ips, Busy(i, k), LoadCount(k),
         OneCore(i), SourceInv(i)
  PROVE  SourceInv(i)'
<1>0. PICK e, m : e = Entry(i) /\ m = Len(log[i]) - 1 OBVIOUS
<1>1. e.count = count[i] /\ AtStage(e, Core(k), m) BY <1>0, WorkerFacts DEF Entry
<1>2. ip[k] = i /\ pc[k] = "count" BY DEF Busy, LoadCount
<1>3. /\ reg' = [reg EXCEPT ![k] = count[i][kind[k]] + 1] /\ pc' = [pc EXCEPT ![k] = "store"]
      /\ UNCHANGED <<entryVars, now, ip, kind, todo, log, judged>>
  BY <1>2 DEF LoadCount
<1>4. Entry(i)' = e BY <1>0, <1>3 DEF Entry, entryVars
<1>5. /\ Core(k)'.pc = "store" /\ Core(k)'.now = now[k] /\ Core(k)'.kind = kind[k]
      /\ Core(k)'.reg = e.count[kind[k]] + 1
  BY <1>1, <1>3 DEF Core, Shape, Typed
<1>6. e.judged <= m /\ InWindow(e, m) /\ now[k] < e.start + Window
  BY <1>1, <1>2 DEF AtStage, Core
<1>7. AtStage(e, Core(k)', m) BY <1>5, <1>6 DEF AtStage
<1>8. pc'[k] # "idle" /\ \A l \in Lcores \ {k} : pc'[l] = pc[l] BY <1>3 DEF Shape, Typed
<1>. QED BY <1>0, <1>3, <1>4, <1>7, <1>8, WorkerStep DEF entryVars

LEMMA StoreKeepsWindow ==
  ASSUME Shape, Shape', Timed, Timed', NEW k \in Lcores, NEW i \in Ips, Busy(i, k), StoreCount(k),
         OneCore(i), SourceInv(i)
  PROVE  SourceInv(i)'
<1>0. PICK e, f, m : e = Entry(i) /\ f = Entry(i)' /\ m = Len(log[i]) - 1 OBVIOUS
<1>1. /\ m \in Nat /\ m + 1 = Len(log[i]) /\ e \in EntryType /\ now[k] \in Nat
      /\ e.log = log[i] /\ e.start = start[i] /\ e.judged = judged[i] /\ e.count = count[i]
  <2>1. m \in Nat BY <1>0, WorkerFacts
  <2>2. e \in EntryType /\ Len(log[i]) \in Nat BY <1>0, EntryTyped
  <2>3. now[k] \in Nat BY DEF Shape, Typed
  <2>. QED BY <1>0, <2>1, <2>2, <2>3 DEF Entry
<1>2. /\ e.log[m + 1] = [kind |-> kind[k], at |-> now[k], core |-> k]
      /\ e.start <= now[k] /\ Sorted(e) /\ AtStage(e, Core(k), m)
  BY <1>0, <1>1, WorkerFacts
<1>3. ip[k] = i /\ pc[k] = "store" /\ kind[k] \in Kinds
  BY DEF Busy, StoreCount, Shape, AtWork
<1>4. /\ count' = [count EXCEPT ![i][kind[k]] = reg[k]]
      /\ UNCHANGED <<clock, tracked, start, until, now, todo, log, judged>>
      /\ IF Exceeds(reg[k], kind[k]) THEN Goto(k, "block") ELSE Done(k)
  BY <1>3 DEF StoreCount
<1>5. /\ e.judged <= m /\ InWindow(e, m) /\ now[k] < e.start + Window
      /\ reg[k] = e.count[kind[k]] + 1
  BY <1>2, <1>3 DEF AtStage, Core
<1>6. /\ f \in EntryType /\ f.log = e.log /\ f.start = e.start /\ f.judged = e.judged
      /\ \A y \in Kinds : f.count[y] = IF kind[k] = y THEN e.count[y] + 1 ELSE e.count[y]
  <2>1. f \in EntryType BY <1>0 DEF Entry, EntryType, Shape, Typed, Timed
  <2>2. f.log = e.log /\ f.start = e.start /\ f.judged = e.judged BY <1>0, <1>4 DEF Entry
  <2>3. f.count = count'[i] BY <1>0 DEF Entry
  <2>4. \A y \in Kinds : count'[i][y] = IF kind[k] = y THEN reg[k] ELSE count[i][y]
    BY <1>3, <1>4 DEF Shape, Typed
  <2>. QED BY <1>1, <1>5, <2>1, <2>2, <2>3, <2>4
<1>7. CASE Exceeds(reg[k], kind[k])
  <2>1. pc' = [pc EXCEPT ![k] = "block"] /\ UNCHANGED <<ip, kind, reg>>
    BY <1>4, <1>7 DEF Goto
  <2>2. /\ Core(k)'.pc = "block" /\ Core(k)'.kind = kind[k] /\ Core(k)'.reg = reg[k]
    BY <2>1 DEF Core, Shape, Typed
  <2>3. Past(f, m + 1)
    <3>1. \A n \in 1 .. m + 1 : n \in 1 .. m \/ n = m + 1 BY <1>1
    <3>. QED BY <1>2, <1>5, <1>6, <3>1 DEF InWindow, Past
  <2>4. reg[k] = Cardinality(Current(f, kind[k], m + 1))
    <3>1. Current(f, kind[k], m + 1) = Current(e, kind[k], m + 1) BY <1>6 DEF Current
    <3>2. e.count[kind[k]] = Cardinality(Current(e, kind[k], m))
      BY <1>3, <1>5 DEF InWindow, Counted
    <3>3. Cardinality(Current(e, kind[k], m + 1)) = Cardinality(Current(e, kind[k], m)) + 1
      BY <1>1, <1>2, <1>3, <1>5, CurrentGrows
    <3>. QED BY <1>5, <3>1, <3>2, <3>3
  <2>5. Blocking(f, Core(k)', m) BY <2>2, <2>3, <2>4 DEF Blocking
  <2>6. AtStage(f, Core(k)', m) BY <1>5, <1>6, <2>2, <2>5 DEF AtStage
  <2>7. pc'[k] # "idle" /\ \A l \in Lcores \ {k} : pc'[l] = pc[l] BY <2>1 DEF Shape, Typed
  <2>. QED BY <1>0, <1>4, <2>1, <2>6, <2>7, WorkerStep
<1>8. CASE ~Exceeds(reg[k], kind[k])
  <2>1. Done(k) BY <1>4, <1>8
  <2>2. \A y \in Kinds : f.count[y] <= Threshold[y]
    <3>. SUFFICES ASSUME NEW y \in Kinds PROVE f.count[y] <= Threshold[y] OBVIOUS
    <3>1. CASE y = kind[k]
      <4>1. f.count[y] = reg[k] BY <1>5, <1>6, <3>1
      <4>2. reg[k] \in Nat /\ Threshold[y] \in Nat BY DdosAssumption DEF Shape, Typed
      <4>. QED BY <1>8, <3>1, <4>1, <4>2 DEF Exceeds
    <3>2. CASE y # kind[k] BY <1>5, <1>6, <3>2 DEF InWindow, Counted
    <3>. QED BY <3>1, <3>2
  <2>3. InWindow(f, m + 1) BY <1>1, <1>2, <1>5, <1>6, <2>2, PacketCounted
  <2>4. /\ pc'[k] = "idle"
        /\ \A l \in Lcores \ {k} : pc'[l] = pc[l] /\ ip'[l] = ip[l]
    BY <2>1 DEF Done, Shape, Typed
  <2>. QED BY <1>0, <1>1, <1>4, <2>3, <2>4, WorkerStep
<1>. QED BY <1>7, <1>8

LEMMA BlockKeepsWindow ==
  ASSUME Shape, Shape', Timed, NEW k \in Lcores, NEW i \in Ips, Busy(i, k), Block(k),
         OneCore(i), SourceInv(i)
  PROVE  SourceInv(i)'
<1>0. PICK e, f, m : e = Entry(i) /\ f = Entry(i)' /\ m = Len(log[i]) - 1 OBVIOUS
<1>1. m + 1 = Len(log[i]) /\ AtStage(e, Core(k), m)
  <2>1. Len(log[i]) \in Nat BY EntryTyped
  <2>2. AtStage(e, Core(k), m) BY <1>0, WorkerFacts
  <2>. QED BY <1>0, <2>1, <2>2
<1>2. ip[k] = i /\ pc[k] = "block" BY DEF Busy, Block
<1>3. /\ judged' = [judged EXCEPT ![i] = Len(log[i])]
      /\ todo' = [todo EXCEPT ![k] = Kinds] /\ pc' = [pc EXCEPT ![k] = "clear"]
      /\ UNCHANGED <<entryVars, now, ip, kind, reg, log>>
  BY <1>2 DEF Block, Goto
<1>4. f.log = e.log /\ f.start = e.start /\ f.judged = m + 1
  BY <1>0, <1>1, <1>3 DEF Entry, entryVars, Timed
<1>5. Core(k)'.pc = "clear" /\ Core(k)'.todo = Kinds BY <1>3 DEF Core, Shape, Typed
<1>6. Past(e, m + 1) BY <1>1, <1>2 DEF AtStage, Core, Blocking
<1>7. Past(f, m + 1) BY <1>4, <1>6 DEF Past
<1>8. AtStage(f, Core(k)', m) BY <1>4, <1>5, <1>7, DdosAssumption DEF AtStage, Clearing
<1>9. pc'[k] # "idle" /\ \A l \in Lcores \ {k} : pc'[l] = pc[l] BY <1>3 DEF Shape, Typed
<1>. QED BY <1>0, <1>3, <1>8, <1>9, WorkerStep DEF entryVars

-----------------------------------------------------------------------------
(* The invariant and what it says                                          *)

LEMMA WindowInit == Init => WindowInv
<1>. SUFFICES ASSUME Init, NEW i \in Ips PROVE SourceInv(i)
  BY TimedInit DEF WindowInv
<1>1. /\ Entry(i).log = << >> /\ Entry(i).start = 0 /\ Entry(i).judged = 0
      /\ \A x \in Kinds : Entry(i).count[x] = 0
      /\ tracked = {} /\ \A k \in Lcores : ~Busy(i, k)
  BY DEF Init, Entry, Busy
<1>. QED BY <1>1 DEF SourceInv, Sorted, Begun, Fresh

LEMMA WindowStable == Shape /\ Shape' /\ WindowInv /\ [Next]_vars => WindowInv'
<1>. SUFFICES ASSUME Shape, Shape', WindowInv, [Next]_vars, NEW i \in Ips, OneCore(i)'
              PROVE  SourceInv(i)'
  BY TimedStable DEF WindowInv
<1>1. Timed /\ Timed' /\ (OneCore(i) => SourceInv(i)) BY TimedStable DEF WindowInv
<1>2. ASSUME UNCHANGED <<start, count, log, judged, tracked, pc, ip, kind, reg, todo>>,
             \A k \in Lcores : pc[k] # "idle" => now'[k] = now[k]
      PROVE  SourceInv(i)'
  <2>1. Entry(i)' = Entry(i) BY <1>2 DEF Entry
  <2>2. \A k \in Lcores : /\ Busy(i, k)' <=> Busy(i, k)
                          /\ Busy(i, k) => Core(k)' = Core(k)
    BY <1>2 DEF Busy, Core
  <2>. QED BY <1>1, <1>2, <2>1, <2>2, Unmoved
<1>3. CASE Tick BY <1>2, <1>3 DEF Tick, entryVars, coreVars
<1>4. ASSUME NEW k \in Lcores, Burst(k) PROVE SourceInv(i)'
  BY <1>2, <1>4 DEF Burst, entryVars, Shape, Typed
<1>5. ASSUME NEW k \in Lcores, NEW h \in Ips, NEW x \in Kinds \cup {Other}, Packet(k, h, x)
      PROVE  SourceInv(i)'
  <2>1. CASE h = i BY <1>1, <1>5, <2>1, PacketKeepsWindow
  <2>2. CASE h # i
    <3>1. Entry(i)' = Entry(i) BY <1>5, <2>2 DEF Packet, Entry, Shape, Typed
    <3>2. tracked \subseteq tracked' /\ (i \in tracked' => i \in tracked)
      BY <1>5, <2>2 DEF Packet
    <3>3. ASSUME NEW l \in Lcores
          PROVE  (Busy(i, l)' <=> Busy(i, l)) /\ (Busy(i, l) => Core(l)' = Core(l))
      BY <1>5, <2>2 DEF Packet, Busy, Core, Shape, Typed
    <3>. QED BY <1>1, <3>1, <3>2, <3>3, Unmoved
  <2>. QED BY <2>1, <2>2
<1>6. ASSUME NEW k \in Lcores, pc[k] # "idle", ip[k] # i, UNCHANGED <<tracked, now, log>>,
             \A h \in Ips \ {ip[k]} :
               start'[h] = start[h] /\ count'[h] = count[h] /\ judged'[h] = judged[h],
             \A l \in Lcores \ {k} : /\ pc'[l] = pc[l] /\ ip'[l] = ip[l] /\ kind'[l] = kind[l]
                                     /\ reg'[l] = reg[l] /\ todo'[l] = todo[l],
             pc'[k] = "idle" \/ ip'[k] = ip[k]
      PROVE  SourceInv(i)'
  <2>1. Entry(i)' = Entry(i) BY <1>6 DEF Entry
  <2>2. ASSUME NEW l \in Lcores
        PROVE  (Busy(i, l)' <=> Busy(i, l)) /\ (Busy(i, l) => Core(l)' = Core(l))
    BY <1>6 DEF Busy, Core
  <2>. QED BY <1>1, <1>6, <2>1, <2>2, Unmoved
<1>7. ASSUME NEW k \in Lcores, ReadWindow(k) PROVE SourceInv(i)'
  <2>1. CASE ip[k] = i
    <3>1. OneCore(i) BY <1>7 DEF ReadWindow, OneCore
    <3>. QED BY <1>1, <1>7, <2>1, <3>1, ReadWindowKeepsWindow DEF Busy, ReadWindow
  <2>2. CASE ip[k] # i
    BY <1>6, <1>7, <2>2 DEF ReadWindow, ToCount, Goto, Done, entryVars, Shape, Typed
  <2>. QED BY <2>1, <2>2
<1>8. ASSUME NEW k \in Lcores, ResetField(k) PROVE SourceInv(i)'
  <2>0. pc[k] \in {"reset", "clear"} BY <1>8 DEF ResetField, Shape, AtWork
  <2>1. CASE ip[k] = i
    <3>1. OneCore(i) BY <1>8 DEF ResetField, OneCore
    <3>. QED BY <1>1, <1>8, <2>0, <2>1, <3>1, ResetKeepsWindow DEF Busy
  <2>2. CASE ip[k] # i
    <3>1. PICK x \in todo[k] :
            /\ todo' = [todo EXCEPT ![k] = @ \ {x}]
            /\ start' = IF x = "start" THEN [start EXCEPT ![ip[k]] = now[k]] ELSE start
            /\ count' = IF x = "start" THEN count ELSE [count EXCEPT ![ip[k]][x] = 0]
      BY <1>8 DEF ResetField
    <3>2. /\ UNCHANGED <<tracked, now, log, judged>>
          /\ Goto(k, pc[k]) \/ Goto(k, "count") \/ Done(k)
      BY <1>8 DEF ResetField, ToCount
    <3>3. \A h \in Ips \ {ip[k]} : start'[h] = start[h] /\ count'[h] = count[h]
      BY <3>1 DEF Shape, Typed, Timed
    <3>4. /\ \A l \in Lcores \ {k} : /\ pc'[l] = pc[l] /\ ip'[l] = ip[l] /\ kind'[l] = kind[l]
                                     /\ reg'[l] = reg[l] /\ todo'[l] = todo[l]
          /\ pc'[k] = "idle" \/ ip'[k] = ip[k]
      BY <3>1, <3>2 DEF Goto, Done, Shape, Typed
    <3>. QED BY <1>6, <2>0, <2>2, <3>2, <3>3, <3>4
  <2>. QED BY <2>1, <2>2
<1>9. ASSUME NEW k \in Lcores, LoadCount(k) PROVE SourceInv(i)'
  <2>1. CASE ip[k] = i
    <3>1. OneCore(i) BY <1>9 DEF LoadCount, OneCore
    <3>. QED BY <1>1, <1>9, <2>1, <3>1, LoadKeepsWindow DEF Busy, LoadCount
  <2>2. CASE ip[k] # i
    BY <1>6, <1>9, <2>2 DEF LoadCount, entryVars, Shape, Typed
  <2>. QED BY <2>1, <2>2
<1>10. ASSUME NEW k \in Lcores, StoreCount(k) PROVE SourceInv(i)'
  <2>1. CASE ip[k] = i
    <3>1. OneCore(i) BY <1>10 DEF StoreCount, OneCore
    <3>. QED BY <1>1, <1>10, <2>1, <3>1, StoreKeepsWindow DEF Busy, StoreCount
  <2>2. CASE ip[k] # i
    <3>1. /\ pc[k] = "store" /\ UNCHANGED <<tracked, start, now, log, judged, todo>>
          /\ count' = [count EXCEPT ![ip[k]][kind[k]] = reg[k]]
          /\ Goto(k, "block") \/ Done(k)
      BY <1>10 DEF StoreCount
    <3>2. \A h \in Ips \ {ip[k]} : count'[h] = count[h] BY <3>1 DEF Shape, Typed
    <3>3. /\ \A l \in Lcores \ {k} : /\ pc'[l] = pc[l] /\ ip'[l] = ip[l] /\ kind'[l] = kind[l]
                                     /\ reg'[l] = reg[l] /\ todo'[l] = todo[l]
          /\ pc'[k] = "idle" \/ ip'[k] = ip[k]
      BY <3>1 DEF Goto, Done, Shape, Typed
    <3>. QED BY <1>6, <2>2, <3>1, <3>2, <3>3
  <2>. QED BY <2>1, <2>2
<1>11. ASSUME NEW k \in Lcores, Block(k) PROVE SourceInv(i)'
  <2>1. CASE ip[k] = i
    <3>1. OneCore(i) BY <1>11 DEF Block, OneCore
    <3>. QED BY <1>1, <1>11, <2>1, <3>1, BlockKeepsWindow DEF Busy, Block
  <2>2. CASE ip[k] # i
    <3>1. /\ pc[k] = "block" /\ UNCHANGED <<tracked, start, count, now, log, ip, kind, reg>>
          /\ judged' = [judged EXCEPT ![ip[k]] = Len(log[ip[k]])]
          /\ pc' = [pc EXCEPT ![k] = "clear"] /\ todo' = [todo EXCEPT ![k] = Kinds]
      BY <1>11 DEF Block, Goto, entryVars
    <3>2. \A h \in Ips \ {ip[k]} : judged'[h] = judged[h] BY <1>1, <3>1 DEF Timed
    <3>3. \A l \in Lcores \ {k} : pc'[l] = pc[l] /\ todo'[l] = todo[l]
      BY <3>1 DEF Shape, Typed
    <3>. QED BY <1>6, <2>2, <3>1, <3>2, <3>3
  <2>. QED BY <2>1, <2>2
<1>12. CASE UNCHANGED vars BY <1>2, <1>12 DEF vars, entryVars, coreVars
<1>. QED BY <1>3, <1>4, <1>5, <1>7, <1>8, <1>9, <1>10, <1>11, <1>12 DEF Next

LEMMA Windows == Spec => [](DdosInv /\ WindowInv)
<1>1. DdosInv => Shape BY DEF DdosInv
<1>. QED BY <1>1, Invariant, WindowInit, WindowStable, PTL DEF Spec

(* A core blocks a source that it alone sees only for packets of one kind  *)
(* that came in less than window_ns since the last block, more of them     *)
(* than the threshold, whatever it is                                      *)
THEOREM BlocksAreEarned == Spec => []BlockIsEarned
<1>1. ASSUME DdosInv, WindowInv, NEW k \in Lcores, pc[k] = "block", OneCore(ip[k])
      PROVE  Cardinality({n \in judged[ip[k]] + 1 .. Len(log[ip[k]]) :
                            /\ log[ip[k]][n].kind = kind[k]
                            /\ now[k] - log[ip[k]][n].at < Window}) > Threshold[kind[k]]
  <2>0. PICK i, m, e : i = ip[k] /\ m = Len(log[i]) - 1 /\ e = Entry(i) OBVIOUS
  <2>1. /\ Shape /\ Timed /\ i \in Ips /\ kind[k] \in Kinds /\ Busy(i, k)
        /\ OneCore(i) /\ SourceInv(i)
    BY <1>1, <2>0 DEF DdosInv, WindowInv, Shape, AtWork, Busy
  <2>2. /\ m \in Nat /\ m + 1 = Len(log[i]) /\ AtStage(e, Core(k), m)
        /\ log[i][m + 1].at = now[k] /\ now[k] \in Nat /\ e \in EntryType
    <3>1. m \in Nat /\ AtStage(e, Core(k), m) BY <2>0, <2>1, WorkerFacts
    <3>2. e \in EntryType /\ Len(log[i]) \in Nat BY <2>0, <2>1, EntryTyped
    <3>3. log[i][Len(log[i])].at = now[k]
      <4>1. log[i][Len(log[i])] = [kind |-> kind[k], at |-> now[k], core |-> k]
        BY <2>1, WorkerFacts
      <4>. QED BY <4>1
    <3>4. now[k] \in Nat BY <2>1 DEF Shape, Typed
    <3>. QED BY <2>0, <3>1, <3>2, <3>3, <3>4
  <2>3. Past(e, m + 1) /\ reg[k] = Cardinality(Current(e, kind[k], m + 1))
    BY <1>1, <2>2 DEF AtStage, Blocking, Core
  <2>. DEFINE recent == {n \in judged[i] + 1 .. m + 1 :
                           log[i][n].kind = kind[k] /\ now[k] - log[i][n].at < Window}
  <2>4. e.log = log[i] /\ e.start = start[i] /\ e.judged = judged[i] /\ judged[i] \in Nat
    BY <2>0, <2>1 DEF Entry, Timed
  <2>5. now[k] < start[i] + Window
    <3>1. m + 1 \in 1 .. m + 1 BY <2>2
    <3>. QED BY <2>2, <2>3, <2>4, <3>1 DEF Past
  <2>6. Current(e, kind[k], m + 1) \subseteq recent
    <3>1. \A n \in judged[i] + 1 .. m + 1 : log[i][n].at \in Nat
      <4>1. \A n \in judged[i] + 1 .. m + 1 : n \in 1 .. Len(log[i]) BY <2>2, <2>4
      <4>. QED BY <2>1, <4>1, PacketTyped DEF Shape, Typed
    <3>2. start[i] \in Nat /\ Window \in Nat BY <2>1, DdosAssumption DEF Timed
    <3>. QED BY <2>2, <2>4, <2>5, <3>1, <3>2 DEF Current
  <2>7. /\ IsFiniteSet(recent) /\ Cardinality(recent) \in Nat
        /\ Cardinality(Current(e, kind[k], m + 1)) <= Cardinality(recent)
    <3>1. recent \in SUBSET (judged[i] + 1 .. m + 1) OBVIOUS
    <3>2. judged[i] + 1 \in Int /\ m + 1 \in Int BY <2>2, <2>4
    <3>. HIDE DEF recent
    <3>3. IsFiniteSet(recent) /\ Cardinality(recent) \in Nat BY <3>1, <3>2, StretchFinite
    <3>. QED BY <2>6, <3>3, FS_Subset
  <2>8. reg[k] > Threshold[kind[k]] /\ reg[k] \in Nat /\ Threshold[kind[k]] \in Nat
    BY <1>1, <2>1, DdosAssumption DEF DdosInv, CounterInv, RegInv, Exceeds, Shape, Typed
  <2>9. Cardinality(recent) > Threshold[kind[k]]
    <3>. HIDE DEF recent
    <3>. QED BY <2>3, <2>7, <2>8
  <2>. QED BY <2>0, <2>2, <2>9
<1>2. DdosInv /\ WindowInv => BlockIsEarned BY <1>1 DEF BlockIsEarned
<1>. QED BY <1>2, Windows, PTL

(* The windows do not slide, but twice the threshold is the limit: a       *)
(* source that one core sees and that has an entry never gets more packets *)
(* of a kind than that through in less than window_ns without being        *)
(* blocked, for any thresholds and any window                              *)
THEOREM FloodsAreBlocked == Spec => []FloodIsBlocked
<1>1. ASSUME WindowInv, NEW i \in tracked, OneCore(i), ~Working(i),
             NEW x \in Kinds, NEW a \in judged[i] + 1 .. Len(log[i]),
             NEW b \in judged[i] + 1 .. Len(log[i]),
             a <= b, log[i][b].at - log[i][a].at < Window
      PROVE  Sent(i, x, a, b) <= 2 * Threshold[x]
  <2>1. i \in Ips /\ SourceInv(i) BY <1>1 DEF WindowInv, Timed
  <2>2. \A k \in Lcores : ~Busy(i, k) BY <1>1 DEF Working, Busy
  <2>3. NoFlood(Entry(i), Len(log[i])) BY <2>1, <2>2 DEF SourceInv, InWindow
  <2>4. Entry(i).log = log[i] /\ Entry(i).judged = judged[i] BY DEF Entry
  <2>5. Cardinality(Stretch(Entry(i), x, a, b)) <= 2 * Threshold[x]
    BY <1>1, <2>3, <2>4 DEF NoFlood
  <2>. QED BY <2>4, <2>5 DEF Sent, Stretch
<1>2. WindowInv => FloodIsBlocked BY <1>1 DEF FloodIsBlocked
<1>. QED BY <1>2, Windows, PTL
=============================================================================
