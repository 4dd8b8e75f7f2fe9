----------------------------- MODULE Blacklist -----------------------------
(***************************************************************************)
(* The blacklist of src/ddos.c: a hash of blocked addresses, shared by the *)
(* forwarding cores (blacklist_check for every packet, blacklist_add from  *)
(* ddos_update) and the control core (blacklist_add, _del and _list from   *)
(* src/mgmt.c), and an array of expiry times that no lock covers.          *)
(*                                                                         *)
(* rte_hash is external: with RTE_HASH_EXTRA_FLAGS_RW_CONCURRENCY each of  *)
(* its operations is atomic, a new key takes any free position, and the    *)
(* position is stable until the key is deleted.  Every access to           *)
(* g_blacklist_expires is a step of its own, after the hash operation that *)
(* returned the position.  Time is the TSC, cut at MaxTime.                *)
(***************************************************************************)
EXTENDS Integers, FiniteSets

CONSTANTS
  Ips,         \* source addresses
  Positions,   \* positions of the hash, HASH_ENTRIES of them
  NoPos,       \* the address is not in the hash
  NoIp,        \* the core is about no address
  Lcores,      \* forwarding cores
  Control,     \* the control core
  Durations,   \* what a block may last
  MaxTime      \* bound of the clock

ASSUME BlacklistAssumption ==
  /\ NoPos \notin Positions /\ NoIp \notin Ips
  /\ Control \notin Lcores
  /\ Durations \subseteq Nat
  /\ MaxTime \in Nat

VARIABLES
  clock,       \* rte_get_tsc_cycles()
  position,    \* g_blacklist_hash
  expires,     \* g_blacklist_expires
  pc,          \* what each core is doing
  ip,          \* the address it is about
  now,         \* the time it goes by: of the burst, or of the list
  pos,         \* the position the hash returned
  until,       \* the expiry blacklist_add is to store
  \* history
  due,         \* the expiry of the last block to add its key, 0 if lifted
  overlap      \* two operations on one address have overlapped

coreVars == <<pc, ip, now, pos, until>>
vars == <<clock, position, expires, coreVars, due, overlap>>

Cores == Lcores \cup {Control}

Listed == {i \in Ips : position[i] # NoPos}
FreePositions == Positions \ {position[i] : i \in Ips}

InHand(i) == \E k \in Cores : ip[k] = i

(* memset in ddos_init: the expiry of a position never used is 0 *)
Init ==
  /\ clock = 0
  /\ position = [i \in Ips |-> NoPos]
  /\ expires = [p \in Positions |-> 0]
  /\ pc = [k \in Cores |-> "idle"]
  /\ ip = [k \in Cores |-> NoIp]
  /\ now = [k \in Cores |-> 0]
  /\ pos = [k \in Cores |-> NoPos]
  /\ until = [k \in Cores |-> 0]
  /\ due = [i \in Ips |-> 0]
  /\ overlap = FALSE

Tick ==
  /\ clock < MaxTime
  /\ clock' = clock + 1
  /\ UNCHANGED <<position, expires, coreVars, due, overlap>>

(* An operation of core k on address i begins *)
Take(k, i) ==
  /\ ip' = [ip EXCEPT ![k] = i]
  /\ overlap' = (overlap \/ InHand(i))

(* ... and ends: the core is about to be at p *)
Leave(k, p) ==
  /\ pc' = [pc EXCEPT ![k] = p]
  /\ ip' = [ip EXCEPT ![k] = NoIp]
  /\ pos' = [pos EXCEPT ![k] = NoPos]
  /\ until' = [until EXCEPT ![k] = 0]
  /\ UNCHANGED <<now, overlap>>

-----------------------------------------------------------------------------
(* The checks: blacklist_check on a forwarding core, and the same steps in *)
(* blacklist_list on the control core                                      *)

(* now_cycles is read once for a burst *)
Burst(k) ==
  /\ pc[k] = "idle"
  /\ now' = [now EXCEPT ![k] = clock]
  /\ UNCHANGED <<clock, position, expires, pc, ip, pos, until, due, overlap>>

(* rte_hash_lookup *)
Lookup(k, i) ==
  /\ Take(k, i)
  /\ pos' = [pos EXCEPT ![k] = position[i]]
  /\ UNCHANGED <<clock, position, expires, now, until, due>>

Check(k, i) ==
  /\ pc[k] = "idle"
  /\ Lookup(k, i)
  /\ pc' = [pc EXCEPT ![k] = IF position[i] = NoPos THEN "passed" ELSE "found"]

ExpiredLater(t, e) == t > e
Expired(t, e) == t >= e

(* The expiry is read; an expired entry is to be deleted *)
ReadExpiry(k) ==
  /\ pc[k] = "found"
  /\ pc' = [pc EXCEPT ![k] = IF Expired(now[k], expires[pos[k]]) THEN "evict" ELSE "blocked"]
  /\ UNCHANGED <<clock, position, expires, ip, now, pos, until, due, overlap>>

(* rte_hash_del_key of what looked expired *)
Evict(k) ==
  /\ pc[k] = "evict"
  /\ position' = [position EXCEPT ![ip[k]] = NoPos]
  /\ pc' = [pc EXCEPT ![k] = "passed"]
  /\ UNCHANGED <<clock, expires, ip, now, pos, until, due, overlap>>

(* The packet is dropped, or forwarded; the list goes on *)
NextPacket(k) ==
  /\ pc[k] \in {"passed", "blocked"}
  /\ Leave(k, IF k = Control THEN "list" ELSE "idle")
  /\ UNCHANGED <<clock, position, expires, due>>

(* blacklist_list: rte_hash_iterate visits keys one by one *)
ListBegin ==
  /\ pc[Control] = "idle"
  /\ pc' = [pc EXCEPT ![Control] = "list"]
  /\ now' = [now EXCEPT ![Control] = clock]
  /\ UNCHANGED <<clock, position, expires, ip, pos, until, due, overlap>>

ListVisit(i) ==
  /\ pc[Control] = "list"
  /\ i \in Listed
  /\ Lookup(Control, i)
  /\ pc' = [pc EXCEPT ![Control] = "found"]

ListEnd ==
  /\ pc[Control] = "list"
  /\ pc' = [pc EXCEPT ![Control] = "idle"]
  /\ UNCHANGED <<clock, position, expires, ip, now, pos, until, due, overlap>>

-----------------------------------------------------------------------------
(* blacklist_add and blacklist_del                                         *)

(* rte_hash_add_key: the position of a key it has, or a free one; the key  *)
(* is visible from here on, and the block is due: an unblock that comes    *)
(* after it, and before the store, lifts it                                *)
AddKey(k, i, d) ==
  /\ until' = [until EXCEPT ![k] = clock + d]
  /\ \E p \in IF i \in Listed THEN {position[i]} ELSE FreePositions :
       /\ position' = [position EXCEPT ![i] = p]
       /\ pos' = [pos EXCEPT ![k] = p]
  /\ pc' = [pc EXCEPT ![k] = "store"]
  /\ due' = [due EXCEPT ![i] = clock + d]
  /\ UNCHANGED <<clock, expires, now>>

(* The hash is full: the address is not blocked, and nobody is told *)
AddFull(k, i) ==
  /\ i \notin Listed
  /\ FreePositions = {}
  /\ pc' = [pc EXCEPT ![k] = "full"]
  /\ UNCHANGED <<clock, position, expires, now, pos, until, due>>

(* cmd_blacklist_add *)
Block(i, d) ==
  /\ pc[Control] = "idle"
  /\ Take(Control, i)
  /\ AddKey(Control, i, d) \/ AddFull(Control, i)

(* ddos_update: the packet that passed takes its source over a threshold *)
Exceed(k, d) ==
  /\ k \in Lcores
  /\ pc[k] = "passed"
  /\ AddKey(k, ip[k], d) \/ AddFull(k, ip[k])
  /\ UNCHANGED <<ip, overlap>>

StoredIfLater(k) == IF until[k] > expires[pos[k]] THEN until[k] ELSE expires[pos[k]]
StoredIfUnset(k) == IF expires[pos[k]] = 0 THEN until[k] ELSE expires[pos[k]]
Stored(k) == until[k]

StoreExpiry(k) ==
  /\ pc[k] = "store"
  /\ expires' = [expires EXCEPT ![pos[k]] = Stored(k)]
  /\ Leave(k, "idle")
  /\ UNCHANGED <<clock, position, due>>

(* The warning is logged; the handler answers ok all the same *)
IgnoreFull(k) ==
  /\ pc[k] = "full"
  /\ Leave(k, "idle")
  /\ UNCHANGED <<clock, position, expires, due>>

(* cmd_blacklist_del *)
Unblock(i) ==
  /\ pc[Control] = "idle"
  /\ position' = [position EXCEPT ![i] = NoPos]
  /\ due' = [due EXCEPT ![i] = 0]
  /\ overlap' = (overlap \/ InHand(i))
  /\ UNCHANGED <<clock, expires, coreVars>>

Next ==
  \/ Tick
  \/ \E k \in Lcores :
       \/ Burst(k)
       \/ \E i \in Ips : Check(k, i)
       \/ \E d \in Durations : Exceed(k, d)
  \/ \E k \in Cores :
       ReadExpiry(k) \/ Evict(k) \/ NextPacket(k) \/ StoreExpiry(k) \/ IgnoreFull(k)
  \/ ListBegin \/ ListEnd
  \/ \E i \in Ips :
       ListVisit(i) \/ Unblock(i) \/ \E d \in Durations : Block(i, d)

Spec == Init /\ [][Next]_vars

-----------------------------------------------------------------------------
(* While no two operations on one address overlap, an address is reported  *)
(* blocked only if its last block has not expired, although positions, and *)
(* the expiries left in them, pass from one address to another             *)
BlockedIsDue ==
  \A k \in Cores : pc[k] = "blocked" /\ ~overlap => due[ip[k]] > now[k]

(* ... and passes only if its last block has expired or was lifted *)
PassedIsFree ==
  \A k \in Cores : pc[k] = "passed" /\ ~overlap => due[ip[k]] <= clock

(* While no two operations on one address overlap, no block is forgotten:  *)
(* an address nobody is working on is in the hash, with the expiry asked   *)
(* for, as long as the block is due                                        *)
DueIsKept ==
  ~overlap => \A i \in Ips : due[i] > clock /\ ~InHand(i) =>
                i \in Listed /\ expires[position[i]] = due[i]

(* blacklist_add blocks the address until expire_cycles (include/ddos.h),  *)
(* whoever looks at it meanwhile                                           *)
BlockHolds ==
  \A i \in Ips : due[i] > clock /\ ~InHand(i) => i \in Listed
=============================================================================
