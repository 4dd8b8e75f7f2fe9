--------------------------- MODULE BlacklistProofs ---------------------------
(***************************************************************************)
(* Proofs about Blacklist, for any number of forwarding cores, addresses,  *)
(* positions and durations: as long as no two operations on one address    *)
(* overlap, no verdict is wrong (BlocksAreDue, PassesAreFree) and no block *)
(* is forgotten (BlocksAreKept), however addresses and positions change    *)
(* hands.                                                                  *)
(***************************************************************************)
EXTENDS Blacklist, TLAPS

Pcs == {"idle", "list", "found", "evict", "passed", "blocked", "store", "full"}

(* The operations that have the position of their address in hand *)
Holding == {"found", "evict", "blocked", "store"}

(* Types; an address in the hash has a position of its own, and a core is  *)
(* about an address while it is in an operation                            *)
Typed ==
  /\ clock \in Nat
  /\ position \in [Ips -> Positions \cup {NoPos}]
  /\ expires \in [Positions -> Nat]
  /\ pc \in [Cores -> Pcs]
  /\ ip \in [Cores -> Ips \cup {NoIp}]
  /\ now \in [Cores -> Nat]
  /\ pos \in [Cores -> Positions \cup {NoPos}]
  /\ until \in [Cores -> Nat]
  /\ due \in [Ips -> Nat]
  /\ overlap \in BOOLEAN

Apart ==
  /\ \A i, j \in Ips : position[i] # NoPos /\ position[i] = position[j] => i = j
  /\ \A k \in Cores :
       /\ now[k] <= clock
       /\ pc[k] \in {"idle", "list"} \/ ip[k] \in Ips
       /\ pc[k] \in Holding => pos[k] \in Positions

(* As long as nothing has overlapped: an operation has its address for     *)
(* itself and the position it looked up is still the right one; the expiry *)
(* of an address in the hash is the one asked for, unless it is just being *)
(* stored, and then what is to be stored is (Asked); and of one that is    *)
(* not in the hash no block is due                                         *)
Alone == \A k, l \in Cores : ip[k] = ip[l] /\ ip[k] \in Ips => k = l
Held == \A k \in Cores : pc[k] \in Holding => position[ip[k]] = pos[k]
Storing(i) == \E k \in Cores : pc[k] = "store" /\ ip[k] = i
Kept == \A i \in Ips : position[i] # NoPos /\ ~Storing(i) => expires[position[i]] = due[i]
Asked == \A k \in Cores : pc[k] = "store" => until[k] = due[ip[k]]
Free == \A i \in Ips : position[i] = NoPos => due[i] <= clock
Seen ==
  \A k \in Cores :
    /\ pc[k] \in {"evict", "passed"} => due[ip[k]] <= clock
    /\ pc[k] = "blocked" => due[ip[k]] > now[k]

Exact == Alone /\ Held /\ Kept /\ Asked /\ Free /\ Seen

BlacklistInv == Typed /\ Apart /\ (~overlap => Exact)

-----------------------------------------------------------------------------
(* The steps, whoever takes them: forwarding core or control core *)

Waits(k) ==
  /\ pc[k] \in {"idle", "list"} /\ \E p \in {"idle", "list"} : pc' = [pc EXCEPT ![k] = p]
  /\ \E t \in {now[k], clock} : now' = [now EXCEPT ![k] = t]
  /\ UNCHANGED <<clock, position, expires, ip, pos, until, due, overlap>>

Looks(k, i) ==
  /\ pc[k] \in {"idle", "list"}
  /\ Lookup(k, i)
  /\ pc' = [pc EXCEPT ![k] = IF position[i] = NoPos THEN "passed" ELSE "found"]

(* A block begins: a command, or what follows a packet that passed *)
Begins(k, i) ==
  \/ pc[k] = "idle" /\ Take(k, i)
  \/ pc[k] = "passed" /\ ip[k] = i /\ UNCHANGED <<ip, overlap>>

Step(k) ==
  \/ Waits(k)
  \/ \E i \in Ips : Looks(k, i)
  \/ ReadExpiry(k) \/ Evict(k) \/ NextPacket(k) \/ StoreExpiry(k) \/ IgnoreFull(k)
  \/ \E i \in Ips, d \in Durations : Begins(k, i) /\ (AddKey(k, i, d) \/ AddFull(k, i))

LEMMA CoresOfTwoKinds == Control \in Cores /\ Lcores \subseteq Cores
BY DEF Cores

LEMMA Steps ==
  ASSUME Typed, Apart, [Next]_vars
  PROVE  (\E k \in Cores : Step(k)) \/ (\E i \in Ips : Unblock(i)) \/ Tick \/ UNCHANGED vars
<1>. USE CoresOfTwoKinds
<1>1. CASE \E k \in Lcores : Burst(k)
  <2>1. PICK k \in Lcores : Burst(k) BY <1>1
  <2>2. pc' = [pc EXCEPT ![k] = "idle"] BY <2>1 DEF Burst, Typed
  <2>3. Waits(k) BY <2>1, <2>2 DEF Burst, Waits
  <2>. QED BY <2>3 DEF Step
<1>2. CASE ListBegin \/ ListEnd
  <2>1. now' = [now EXCEPT ![Control] = now[Control]] \/ now' = [now EXCEPT ![Control] = clock]
    BY <1>2 DEF ListBegin, ListEnd, Typed
  <2>2. Waits(Control) BY <1>2, <2>1 DEF ListBegin, ListEnd, Waits
  <2>. QED BY <2>2 DEF Step
<1>3. CASE \E k \in Lcores, i \in Ips : Check(k, i)
  BY <1>3 DEF Check, Looks, Step
<1>4. ASSUME NEW i \in Ips, ListVisit(i)
      PROVE  Step(Control)
  BY <1>4 DEF ListVisit, Listed, Looks, Step
<1>5. ASSUME NEW k \in Lcores, NEW d \in Durations, Exceed(k, d)
      PROVE  Step(k)
  <2>1. ip[k] \in Ips BY <1>5 DEF Exceed, Apart
  <2>. QED BY <1>5, <2>1 DEF Exceed, Begins, Step
<1>6. ASSUME NEW i \in Ips, NEW d \in Durations, Block(i, d)
      PROVE  Step(Control)
  BY <1>6 DEF Block, Begins, Step
<1>7. CASE \E k \in Cores :
             ReadExpiry(k) \/ Evict(k) \/ NextPacket(k) \/ StoreExpiry(k) \/ IgnoreFull(k)
  BY <1>7 DEF Step
<1>. QED BY <1>1, <1>2, <1>3, <1>4, <1>5, <1>6, <1>7 DEF Next

-----------------------------------------------------------------------------
(* rte_hash_add_key gives an address the position it has or one that no    *)
(* other address has                                                       *)
LEMMA KeyAdded ==
  ASSUME Typed, Apart, NEW k \in Cores, NEW i \in Ips, NEW d \in Durations, AddKey(k, i, d)
  PROVE  \E p \in Positions :
           /\ position' = [position EXCEPT ![i] = p] /\ pos' = [pos EXCEPT ![k] = p]
           /\ \A j \in Ips : position[j] = p => j = i
<1>1. PICK p \in IF i \in Listed THEN {position[i]} ELSE FreePositions :
        position' = [position EXCEPT ![i] = p] /\ pos' = [pos EXCEPT ![k] = p]
  BY DEF AddKey
<1>2. CASE i \in Listed
  <2>1. p = position[i] /\ p \in Positions BY <1>1, <1>2 DEF Listed, Typed
  <2>. QED BY <1>1, <2>1, BlacklistAssumption DEF Apart
<1>3. CASE i \notin Listed
  <2>1. p \in Positions /\ \A j \in Ips : position[j] # p BY <1>1, <1>3 DEF FreePositions
  <2>. QED BY <1>1, <2>1
<1>. QED BY <1>2, <1>3

LEMMA TypesKept ==
  ASSUME Typed, Apart, [Next]_vars
  PROVE  Typed' /\ Apart'
<1>. USE DEF Typed, Apart, Pcs, Holding
<1>1. CASE Tick
  BY <1>1 DEF Tick, coreVars
<1>2. CASE UNCHANGED vars
  BY <1>2 DEF vars, coreVars
<1>3. CASE \E i \in Ips : Unblock(i)
  BY <1>3 DEF Unblock, coreVars, InHand
<1>4. ASSUME NEW k \in Cores, Step(k)
      PROVE  Typed' /\ Apart'
  <2>1. CASE Waits(k)
    BY <2>1 DEF Waits
  <2>2. ASSUME NEW i \in Ips, Looks(k, i)
        PROVE  Typed' /\ Apart'
    BY <2>2 DEF Looks, Lookup, Take, InHand
  <2>3. CASE ReadExpiry(k)
    BY <2>3 DEF ReadExpiry
  <2>4. CASE Evict(k)
    BY <2>4 DEF Evict
  <2>5. CASE NextPacket(k) \/ IgnoreFull(k)
    BY <2>5 DEF NextPacket, IgnoreFull, Leave
  <2>6. CASE StoreExpiry(k)
    BY <2>6 DEF StoreExpiry, Leave, Stored
  <2>7. ASSUME NEW i \in Ips, NEW d \in Durations, Begins(k, i), AddKey(k, i, d)
        PROVE  Typed' /\ Apart'
    <3>1. d \in Nat BY BlacklistAssumption
    <3>2. PICK p \in Positions :
            /\ position' = [position EXCEPT ![i] = p] /\ pos' = [pos EXCEPT ![k] = p]
            /\ \A j \in Ips : position[j] = p => j = i
      BY <2>7, KeyAdded
    <3>3. /\ ip' \in [Cores -> Ips \cup {NoIp}] /\ overlap' \in BOOLEAN
          /\ ip'[k] = i /\ \A l \in Cores \ {k} : ip'[l] = ip[l]
      BY <2>7 DEF Begins, Take, InHand
    <3>4. until' \in [Cores -> Nat] /\ pc' = [pc EXCEPT ![k] = "store"]
          /\ UNCHANGED <<clock, expires, now>>
          /\ due' \in [Ips -> Nat]
      BY <2>7, <3>1 DEF AddKey
    <3>5. Typed' BY <3>2, <3>3, <3>4
    <3>6. Apart' BY <3>2, <3>3, <3>4
    <3>. QED BY <3>5, <3>6
  <2>8. ASSUME NEW i \in Ips, Begins(k, i), AddFull(k, i)
        PROVE  Typed' /\ Apart'
    BY <2>8 DEF Begins, Take, InHand, AddFull
  <2>. QED BY <1>4, <2>1, <2>2, <2>3, <2>4, <2>5, <2>6, <2>7, <2>8 DEF Step
<1>. QED BY <1>1, <1>2, <1>3, <1>4, Steps

-----------------------------------------------------------------------------
(* What holds as long as nothing has overlapped *)

(* Whoever takes an address is the only one to have it *)
LEMMA Untaken ==
  ASSUME Typed, Alone, ~overlap', NEW k \in Cores, NEW i \in Ips, Take(k, i) \/ Begins(k, i)
  PROVE  /\ ip' = [ip EXCEPT ![k] = i]
         /\ \A l \in Cores \ {k} : ip[l] # i
BY DEF Begins, Take, InHand, Alone, Typed

LEMMA LooksExact ==
  ASSUME Typed, Apart, Exact, ~overlap', NEW k \in Cores, NEW i \in Ips, Looks(k, i)
  PROVE  Exact'
<1>. USE DEF Typed, Exact
<1>1. ip' = [ip EXCEPT ![k] = i] /\ \A l \in Cores \ {k} : ip[l] # i
  BY Untaken DEF Looks, Lookup
<1>2. /\ pos' = [pos EXCEPT ![k] = position[i]]
      /\ pc' = [pc EXCEPT ![k] = IF position[i] = NoPos THEN "passed" ELSE "found"]
      /\ pc[k] \in {"idle", "list"}
      /\ UNCHANGED <<clock, position, expires, now, until, due>>
  BY DEF Looks, Lookup
<1>3. Alone' BY <1>1 DEF Alone
<1>4. Held' BY <1>1, <1>2 DEF Held, Holding
<1>5. Kept'
  <2>1. \A j \in Ips : Storing(j) => Storing(j)' BY <1>1, <1>2 DEF Storing
  <2>. QED BY <1>2, <2>1 DEF Kept
<1>6. Free' BY <1>2 DEF Free
<1>7. Seen' BY <1>1, <1>2 DEF Seen, Free
<1>8. Asked' BY <1>1, <1>2 DEF Asked
<1>. QED BY <1>3, <1>4, <1>5, <1>6, <1>7, <1>8

(* The expiry that is read is the one asked for *)
LEMMA ReadsExact ==
  ASSUME Typed, Apart, Exact, NEW k \in Cores, ReadExpiry(k)
  PROVE  Exact'
<1>. USE DEF Typed, Exact
<1>1. /\ pc[k] = "found" /\ pos[k] \in Positions /\ ip[k] \in Ips /\ now[k] <= clock
      /\ pc' = [pc EXCEPT ![k] = IF now[k] >= expires[pos[k]] THEN "evict" ELSE "blocked"]
      /\ UNCHANGED <<clock, position, expires, ip, now, pos, until, due>>
  BY DEF ReadExpiry, Expired, Apart, Holding
<1>2. position[ip[k]] = pos[k] BY <1>1 DEF Held, Holding
<1>3. ~Storing(ip[k]) BY <1>1 DEF Storing, Alone
<1>4. expires[pos[k]] = due[ip[k]]
  BY <1>1, <1>2, <1>3, BlacklistAssumption DEF Kept
<1>5. Alone' BY <1>1 DEF Alone
<1>6. Held' BY <1>1 DEF Held, Holding
<1>7. Kept'
  <2>1. \A j \in Ips : Storing(j) => Storing(j)' BY <1>1 DEF Storing
  <2>. QED BY <1>1, <2>1 DEF Kept
<1>8. Free' BY <1>1 DEF Free
<1>9. Seen'
  <2>1. pc'[k] = "evict" => due[ip[k]] <= clock
    <3>1. expires[pos[k]] \in Nat /\ now[k] \in Nat BY <1>1
    <3>. QED BY <1>1, <1>4, <3>1
  <2>2. pc'[k] = "blocked" => due[ip[k]] > now[k]
    <3>1. expires[pos[k]] \in Nat /\ now[k] \in Nat BY <1>1
    <3>. QED BY <1>1, <1>4, <3>1
  <2>3. pc'[k] \in {"evict", "blocked"} BY <1>1
  <2>. QED BY <1>1, <2>1, <2>2, <2>3 DEF Seen
<1>10. Asked' BY <1>1 DEF Asked
<1>. QED BY <1>5, <1>6, <1>7, <1>8, <1>9, <1>10

LEMMA EvictsExact ==
  ASSUME Typed, Apart, Exact, NEW k \in Cores, Evict(k)
  PROVE  Exact'
<1>. USE DEF Typed, Exact
<1>1. /\ pc[k] = "evict" /\ ip[k] \in Ips
      /\ position' = [position EXCEPT ![ip[k]] = NoPos]
      /\ pc' = [pc EXCEPT ![k] = "passed"]
      /\ UNCHANGED <<clock, expires, ip, now, pos, until, due>>
  BY DEF Evict, Apart
<1>2. \A l \in Cores \ {k} : ip[l] # ip[k] BY <1>1 DEF Alone
<1>3. due[ip[k]] <= clock BY <1>1 DEF Seen
<1>4. Alone' BY <1>1 DEF Alone
<1>5. Held'
  <2>1. \A l \in Cores : pc'[l] \in Holding => l # k /\ pc[l] \in Holding /\ ip[l] \in Ips
    BY <1>1 DEF Holding, Apart
  <2>. QED BY <1>1, <1>2, <2>1 DEF Held
<1>6. Kept'
  <2>1. \A j \in Ips : Storing(j) => Storing(j)' BY <1>1 DEF Storing
  <2>. QED BY <1>1, <2>1 DEF Kept
<1>7. Free' BY <1>1, <1>3 DEF Free
<1>8. Seen' BY <1>1, <1>3 DEF Seen
<1>9. Asked' BY <1>1 DEF Asked
<1>. QED BY <1>4, <1>5, <1>6, <1>7, <1>8, <1>9

(* The operation is over, or the core only waits or reads the time *)
LEMMA EndsExact ==
  ASSUME Typed, Apart, Exact, NEW k \in Cores, Waits(k) \/ NextPacket(k) \/ IgnoreFull(k)
  PROVE  Exact'
<1>. USE DEF Typed, Exact
<1>1. /\ pc[k] \notin {"store"} /\ pc'[k] \in {"idle", "list"}
      /\ ip'[k] \in {ip[k], NoIp}
      /\ pc' \in [Cores -> Pcs]
      /\ \A l \in Cores \ {k} :
           pc'[l] = pc[l] /\ ip'[l] = ip[l] /\ pos'[l] = pos[l] /\ now'[l] = now[l]
           /\ until'[l] = until[l]
      /\ UNCHANGED <<clock, position, expires, due>>
  BY DEF Waits, NextPacket, IgnoreFull, Leave, Pcs
<1>2. Alone' BY <1>1, BlacklistAssumption DEF Alone
<1>3. Held' BY <1>1 DEF Held, Holding
<1>4. Kept'
  <2>1. \A j \in Ips : Storing(j) => Storing(j)' BY <1>1 DEF Storing
  <2>. QED BY <1>1, <2>1 DEF Kept
<1>5. Free' BY <1>1 DEF Free
<1>6. Seen' BY <1>1 DEF Seen
<1>7. Asked' BY <1>1 DEF Asked
<1>. QED BY <1>2, <1>3, <1>4, <1>5, <1>6, <1>7

(* The expiry is stored where the address still is, and nobody else is *)
LEMMA StoresExact ==
  ASSUME Typed, Apart, Exact, NEW k \in Cores, StoreExpiry(k)
  PROVE  Exact'
<1>. USE DEF Typed, Exact
<1>1. /\ pc[k] = "store" /\ pos[k] \in Positions /\ ip[k] \in Ips
      /\ expires' = [expires EXCEPT ![pos[k]] = until[k]]
      /\ until[k] = due[ip[k]]
      /\ pc' = [pc EXCEPT ![k] = "idle"] /\ ip' = [ip EXCEPT ![k] = NoIp]
      /\ pos' = [pos EXCEPT ![k] = NoPos]
      /\ \A l \in Cores \ {k} : until'[l] = until[l]
      /\ UNCHANGED <<clock, position, now, due>>
  BY DEF StoreExpiry, Stored, Leave, Apart, Holding, Asked
<1>2. position[ip[k]] = pos[k] /\ pos[k] # NoPos
  BY <1>1, BlacklistAssumption DEF Held, Holding
<1>3. \A l \in Cores \ {k} : ip[l] # ip[k] BY <1>1 DEF Alone
<1>4. Alone' BY <1>1, BlacklistAssumption DEF Alone
<1>5. Held' BY <1>1 DEF Held, Holding
<1>6. Kept'
  <2>1. ASSUME NEW j \in Ips, position'[j] # NoPos, ~Storing(j)'
        PROVE  expires'[position'[j]] = due'[j]
    <3>1. CASE j = ip[k] BY <1>1, <1>2, <3>1
    <3>2. CASE j # ip[k]
      <4>1. position[j] \in Positions /\ position[j] # pos[k]
        BY <1>1, <1>2, <2>1, <3>2 DEF Apart
      <4>2. ~Storing(j) BY <1>1, <2>1, <3>2 DEF Storing
      <4>3. expires[position[j]] = due[j] BY <1>1, <2>1, <4>2 DEF Kept
      <4>. QED BY <1>1, <3>2, <4>1, <4>3
    <3>. QED BY <3>1, <3>2
  <2>. QED BY <2>1 DEF Kept
<1>7. Free' BY <1>1, <1>2 DEF Free
<1>8. Seen'
  <2>1. \A l \in Cores : pc'[l] \in {"evict", "passed", "blocked"} => l # k /\ ip[l] \in Ips
    BY <1>1 DEF Apart
  <2>. QED BY <1>1, <1>3, <2>1 DEF Seen
<1>9. Asked' BY <1>1 DEF Asked
<1>. QED BY <1>4, <1>5, <1>6, <1>7, <1>8, <1>9

LEMMA AddsExact ==
  ASSUME Typed, Apart, Exact, ~overlap', NEW k \in Cores, NEW i \in Ips, NEW d \in Durations,
         Begins(k, i), AddKey(k, i, d) \/ AddFull(k, i)
  PROVE  Exact'
<1>. USE DEF Typed, Exact
<1>1. ip' = [ip EXCEPT ![k] = i] /\ \A l \in Cores \ {k} : ip[l] # i
  BY Untaken
<1>2. /\ pc[k] \in {"idle", "passed"}
      /\ \E c \in {"store", "full"} : pc' = [pc EXCEPT ![k] = c]
      /\ \A l \in Cores \ {k} : pos'[l] = pos[l] /\ until'[l] = until[l]
      /\ \A j \in Ips \ {i} : due'[j] = due[j]
      /\ UNCHANGED <<clock, expires, now>>
  BY DEF Begins, AddKey, AddFull
<1>3. Alone' BY <1>1 DEF Alone
<1>4. Seen'
  <2>1. \A l \in Cores : pc'[l] \in {"evict", "passed", "blocked"} => l # k /\ ip[l] \in Ips \ {i}
    BY <1>1, <1>2 DEF Apart
  <2>. QED BY <1>1, <1>2, <2>1 DEF Seen
<1>5. \A j \in Ips : Storing(j) => Storing(j)' BY <1>1, <1>2 DEF Storing
<1>6. CASE AddKey(k, i, d)
  <2>1. PICK p \in Positions :
          /\ position' = [position EXCEPT ![i] = p] /\ pos' = [pos EXCEPT ![k] = p]
          /\ \A j \in Ips : position[j] = p => j = i
    BY <1>6, KeyAdded
  <2>2. /\ pc' = [pc EXCEPT ![k] = "store"]
        /\ until' = [until EXCEPT ![k] = clock + d] /\ due' = [due EXCEPT ![i] = clock + d]
    BY <1>6 DEF AddKey
  <2>3. Storing(i)' BY <1>1, <2>2 DEF Storing
  <2>4. Held'
    <3>1. \A l \in Cores \ {k} : pc[l] \in Holding => ip[l] \in Ips \ {i} BY <1>1 DEF Apart, Holding
    <3>. QED BY <1>1, <1>2, <2>1, <2>2, <3>1 DEF Held
  <2>5. Kept' BY <1>2, <1>5, <2>1, <2>3 DEF Kept
  <2>6. Free' BY <1>2, <2>1, BlacklistAssumption DEF Free
  <2>7. Asked'
    <3>1. \A l \in Cores \ {k} : pc[l] = "store" => ip[l] \in Ips \ {i} BY <1>1 DEF Apart
    <3>. QED BY <1>1, <1>2, <2>2, <3>1 DEF Asked
  <2>. QED BY <1>3, <1>4, <2>4, <2>5, <2>6, <2>7
<1>7. CASE AddFull(k, i)
  <2>1. UNCHANGED <<position, pos, until, due>> /\ pc' = [pc EXCEPT ![k] = "full"] BY <1>7 DEF AddFull
  <2>2. Held' BY <1>1, <2>1 DEF Held, Holding
  <2>3. Kept' BY <1>2, <1>5, <2>1 DEF Kept
  <2>4. Free' BY <1>2, <2>1 DEF Free
  <2>5. Asked' BY <1>1, <2>1 DEF Asked
  <2>. QED BY <1>3, <1>4, <2>2, <2>3, <2>4, <2>5
<1>. QED BY <1>6, <1>7

LEMMA UnblocksExact ==
  ASSUME Typed, Apart, Exact, ~overlap', NEW i \in Ips, Unblock(i)
  PROVE  Exact'
<1>. USE DEF Typed, Exact
<1>1. /\ position' = [position EXCEPT ![i] = NoPos] /\ due' = [due EXCEPT ![i] = 0]
      /\ UNCHANGED <<clock, expires, pc, ip, now, pos, until>>
      /\ \A k \in Cores : ip[k] # i
  BY DEF Unblock, InHand, coreVars
<1>2. Alone' BY <1>1 DEF Alone
<1>3. Held'
  <2>1. \A k \in Cores : pc[k] \in Holding => ip[k] \in Ips BY DEF Apart, Holding
  <2>. QED BY <1>1, <2>1 DEF Held
<1>4. Kept'
  <2>1. \A j \in Ips : Storing(j) => Storing(j)' BY <1>1 DEF Storing
  <2>. QED BY <1>1, <2>1 DEF Kept
<1>5. Free' BY <1>1 DEF Free
<1>6. Seen'
  <2>1. \A k \in Cores : pc[k] \in {"evict", "passed", "blocked"} => ip[k] \in Ips BY DEF Apart
  <2>. QED BY <1>1, <2>1 DEF Seen
<1>7. Asked'
  <2>1. \A k \in Cores : pc[k] = "store" => ip[k] \in Ips \ {i} BY <1>1 DEF Apart
  <2>. QED BY <1>1, <2>1 DEF Asked
<1>. QED BY <1>2, <1>3, <1>4, <1>5, <1>6, <1>7

LEMMA TicksExact ==
  ASSUME Typed, Apart, Exact, Tick \/ UNCHANGED vars
  PROVE  Exact'
<1>. USE DEF Typed, Exact
<1>1. /\ UNCHANGED <<position, expires, pc, ip, now, pos, until, due>>
      /\ clock' \in Nat /\ clock <= clock'
  BY DEF Tick, vars, coreVars
<1>2. Alone' /\ Held' /\ Asked' BY <1>1 DEF Alone, Held, Asked
<1>3. Kept'
  <2>1. \A j \in Ips : Storing(j) => Storing(j)' BY <1>1 DEF Storing
  <2>. QED BY <1>1, <2>1 DEF Kept
<1>4. Free'
  <2>1. \A i \in Ips : due[i] \in Nat OBVIOUS
  <2>. QED BY <1>1, <2>1 DEF Free
<1>5. Seen'
  <2>1. \A k \in Cores : pc[k] \in {"evict", "passed"} => due[ip[k]] \in Nat BY DEF Apart
  <2>. QED BY <1>1, <2>1 DEF Seen
<1>. QED BY <1>2, <1>3, <1>4, <1>5

(* What has overlapped stays so *)
LEMMA OverlapStays ==
  ASSUME Typed, Apart, [Next]_vars, overlap
  PROVE  overlap'
<1>1. ASSUME NEW k \in Cores, Step(k)
      PROVE  overlap'
  BY <1>1 DEF Step, Waits, Looks, Lookup, Take, Begins, ReadExpiry, Evict, NextPacket, IgnoreFull,
       StoreExpiry, Leave
<1>2. ASSUME NEW i \in Ips, Unblock(i)
      PROVE  overlap'
  BY <1>2 DEF Unblock
<1>3. CASE Tick \/ UNCHANGED vars
  BY <1>3 DEF Tick, vars
<1>. QED BY <1>1, <1>2, <1>3, Steps

LEMMA InvInit == Init => BlacklistInv
<1>. SUFFICES ASSUME Init PROVE BlacklistInv
  OBVIOUS
<1>1. Typed BY DEF Init, Typed, Pcs
<1>2. Apart BY DEF Init, Apart, Holding
<1>3. \A k \in Cores : pc[k] = "idle" /\ ip[k] = NoIp BY DEF Init
<1>4. \A i \in Ips : position[i] = NoPos /\ due[i] = 0 /\ clock = 0 BY DEF Init
<1>5. Exact BY <1>3, <1>4, BlacklistAssumption DEF Exact, Alone, Held, Kept, Asked, Free, Seen, Holding
<1>. QED BY <1>1, <1>2, <1>5 DEF BlacklistInv

LEMMA InvStable == BlacklistInv /\ [Next]_vars => BlacklistInv'
<1>. SUFFICES ASSUME BlacklistInv, [Next]_vars PROVE BlacklistInv'
  OBVIOUS
<1>1. Typed /\ Apart BY DEF BlacklistInv
<1>2. Typed' /\ Apart' BY <1>1, TypesKept
<1>3. ASSUME ~overlap'
      PROVE  Exact'
  <2>1. Exact BY <1>1, <1>3, OverlapStays DEF BlacklistInv
  <2>2. ASSUME NEW k \in Cores, Step(k)
        PROVE  Exact'
    BY <1>1, <1>3, <2>1, <2>2, LooksExact, ReadsExact, EvictsExact, EndsExact, StoresExact,
       AddsExact DEF Step
  <2>3. ASSUME NEW i \in Ips, Unblock(i)
        PROVE  Exact'
    BY <1>1, <1>3, <2>1, <2>3, UnblocksExact
  <2>4. CASE Tick \/ UNCHANGED vars
    BY <1>1, <2>1, <2>4, TicksExact
  <2>. QED BY <1>1, <2>2, <2>3, <2>4, Steps
<1>. QED BY <1>2, <1>3 DEF BlacklistInv

LEMMA Invariant == Spec => []BlacklistInv
BY InvInit, InvStable, PTL DEF Spec

(* An address is reported blocked only if its last block is due *)
THEOREM BlocksAreDue == Spec => []BlockedIsDue
<1>1. BlacklistInv => BlockedIsDue BY DEF BlacklistInv, Exact, Seen, BlockedIsDue
<1>. QED BY <1>1, Invariant, PTL

(* ... and passes only if it is not *)
THEOREM PassesAreFree == Spec => []PassedIsFree
<1>1. BlacklistInv => PassedIsFree BY DEF BlacklistInv, Exact, Seen, PassedIsFree
<1>. QED BY <1>1, Invariant, PTL

(* No block is forgotten *)
THEOREM BlocksAreKept == Spec => []DueIsKept
<1>1. BlacklistInv => DueIsKept
  <2>. SUFFICES ASSUME BlacklistInv, ~overlap, NEW i \in Ips, due[i] > clock, ~InHand(i)
                PROVE  i \in Listed /\ expires[position[i]] = due[i]
    BY DEF DueIsKept
  <2>1. due[i] \in Nat /\ clock \in Nat BY DEF BlacklistInv, Typed
  <2>2. position[i] # NoPos BY <2>1 DEF BlacklistInv, Exact, Free
  <2>3. ~Storing(i) BY DEF Storing, InHand
  <2>. QED BY <2>2, <2>3 DEF BlacklistInv, Exact, Kept, Listed
<1>. QED BY <1>1, Invariant, PTL
=============================================================================
