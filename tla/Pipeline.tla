----------------------------- MODULE Pipeline -----------------------------
(***************************************************************************)
(* pipeline_lcore_main() of src/pipeline.c on every forwarding core, the   *)
(* counters of src/stats.c they share, and stats_get_snapshot() on the     *)
(* control core.                                                           *)
(*                                                                         *)
(* What is at stake is who owns each mbuf and whether every packet is      *)
(* counted.  The verdicts of the blacklist, the rules and the meters are   *)
(* abstracted to "a packet is kept or dropped" (RuleEngine and Blacklist   *)
(* say which).  The drivers and the mempool are external: rte_eth_rx_burst *)
(* hands over mbufs from the pool, rte_eth_tx_burst takes some of what it  *)
(* is given, and what it took goes back to the pool at any later time.     *)
(* Packets are counted and their bytes are not; the lengths are read all   *)
(* the same, and Touched says from whose mbufs.                            *)
(***************************************************************************)
EXTENDS Integers, Sequences, FiniteSets, SequencesExt

CONSTANTS
  Lcores,      \* forwarding cores
  Mbufs,       \* the mempool
  Pool, Nic,   \* owners that are not cores
  MaxBurst,    \* MAX_BURST
  MaxRx        \* bound: packets received in all

ASSUME PipelineAssumption ==
  /\ IsFiniteSet(Lcores)
  /\ {Pool, Nic} \cap Lcores = {} /\ Pool # Nic
  /\ MaxBurst \in Nat \ {0}
  /\ MaxRx \in Nat

VARIABLES
  owner,       \* who owns each mbuf
  pc,          \* stage of each core
  rx_pkts,
  tx_pkts,
  i,           \* the loop variable
  sent,
  stats,       \* the counters s_rx_pkts, s_tx_pkts, s_dropped_pkts
  g_force_quit,
  snap,        \* the snapshot being taken, or the last one
  loaded,      \* its counters that have been loaded
  quiet        \* history: no core has had a burst since the snapshot began

coreVars == <<pc, rx_pkts, tx_pkts, i, sent>>
snapVars == <<snap, loaded, quiet>>
vars == <<owner, coreVars, stats, g_force_quit, snapVars>>

Counters == {"rx", "tx", "dropped"}
Zero == [c \in Counters |-> 0]

Init ==
  /\ owner = [m \in Mbufs |-> Pool]
  /\ pc = [k \in Lcores |-> "rx"]
  /\ rx_pkts = [k \in Lcores |-> << >>]
  /\ tx_pkts = [k \in Lcores |-> << >>]
  /\ i = [k \in Lcores |-> 1]
  /\ sent = [k \in Lcores |-> 0]
  /\ stats = Zero
  /\ g_force_quit = FALSE
  /\ snap = Zero
  /\ loaded = {}
  /\ quiet = TRUE

QuitHoisted == FALSE
QuitSeen == g_force_quit

(* Bursts of distinct free mbufs *)
Bursts == {b \in UNION {[1 .. n -> Mbufs] : n \in 1 .. MaxBurst} :
             /\ \A x \in DOMAIN b : owner[b[x]] = Pool
             /\ IsInjective(b)}

(* Stage 1: a burst arrives; an empty one changes nothing *)
RxBurst(k) ==
  /\ pc[k] = "rx"
  /\ ~QuitSeen
  /\ \E b \in Bursts :
       /\ stats["rx"] + Len(b) <= MaxRx
       /\ rx_pkts' = [rx_pkts EXCEPT ![k] = b]
       /\ owner' = [m \in Mbufs |-> IF m \in Range(b) THEN k ELSE owner[m]]
  /\ pc' = [pc EXCEPT ![k] = "classify"]
  /\ quiet' = FALSE
  /\ UNCHANGED <<tx_pkts, i, sent, stats, g_force_quit, snap, loaded>>

(* The loop ends, and the function returns *)
Stop(k) ==
  /\ pc[k] = "rx"
  /\ QuitSeen
  /\ pc' = [pc EXCEPT ![k] = "stopped"]
  /\ UNCHANGED <<owner, rx_pkts, tx_pkts, i, sent, stats, g_force_quit, snapVars>>

(* Stage 2: classify_pkt and stats_inc_rx *)
Classify(k) ==
  /\ pc[k] = "classify"
  /\ stats' = [stats EXCEPT !["rx"] = @ + 1]
  /\ IF i[k] < Len(rx_pkts[k])
     THEN i' = [i EXCEPT ![k] = @ + 1] /\ UNCHANGED pc
     ELSE i' = [i EXCEPT ![k] = 1] /\ pc' = [pc EXCEPT ![k] = "filter"]
  /\ UNCHANGED <<owner, rx_pkts, tx_pkts, sent, g_force_quit, snapVars>>

QueuedFirst(q, m) == << m >> \o q
Queued(q, m) == Append(q, m)

(* Stages 3 to 6 keep the packet ... *)
Keep(k) ==
  /\ pc[k] = "filter"
  /\ i[k] <= Len(rx_pkts[k])
  /\ tx_pkts' = [tx_pkts EXCEPT ![k] = Queued(@, rx_pkts[k][i[k]])]
  /\ i' = [i EXCEPT ![k] = @ + 1]
  /\ UNCHANGED <<owner, pc, rx_pkts, sent, stats, g_force_quit, snapVars>>

(* ... or drop it.  The mbuf is freed, then the packet is counted: one     *)
(* step, as nothing reads the mbuf in between.                             *)
Drop(k) ==
  /\ pc[k] = "filter"
  /\ i[k] <= Len(rx_pkts[k])
  /\ owner' = [owner EXCEPT ![rx_pkts[k][i[k]]] = Pool]
  /\ stats' = [stats EXCEPT !["dropped"] = @ + 1]
  /\ i' = [i EXCEPT ![k] = @ + 1]
  /\ UNCHANGED <<pc, rx_pkts, tx_pkts, sent, g_force_quit, snapVars>>

(* The locals of one turn of the loop are gone *)
NextTurn(k) ==
  /\ pc' = [pc EXCEPT ![k] = "rx"]
  /\ rx_pkts' = [rx_pkts EXCEPT ![k] = << >>]
  /\ tx_pkts' = [tx_pkts EXCEPT ![k] = << >>]
  /\ i' = [i EXCEPT ![k] = 1]
  /\ sent' = [sent EXCEPT ![k] = 0]

NothingToSend(k) ==
  /\ pc[k] = "filter"
  /\ i[k] > Len(rx_pkts[k])
  /\ tx_pkts[k] = << >>
  /\ NextTurn(k)
  /\ UNCHANGED <<owner, stats, g_force_quit, snapVars>>

(* Stage 7: the driver takes the first packets of the queue *)
TxBurst(k) ==
  /\ pc[k] = "filter"
  /\ i[k] > Len(rx_pkts[k])
  /\ \E n \in 0 .. Len(tx_pkts[k]) :
       /\ tx_pkts[k] # << >>
       /\ sent' = [sent EXCEPT ![k] = n]
       /\ owner' = [m \in Mbufs |->
                      IF \E x \in 1 .. n : tx_pkts[k][x] = m THEN Nic ELSE owner[m]]
  /\ i' = [i EXCEPT ![k] = 1]
  /\ pc' = [pc EXCEPT ![k] = "account"]
  /\ UNCHANGED <<rx_pkts, tx_pkts, stats, g_force_quit, snapVars>>

(* What was sent is counted, and its length is read from the mbuf the      *)
(* driver has taken (Counting): s_tx_bytes, which is not modelled, is      *)
(* added whatever length the mbuf has by now                               *)
CountSent(k) ==
  /\ pc[k] = "account"
  /\ i[k] <= sent[k]
  /\ stats' = [stats EXCEPT !["tx"] = @ + 1]
  /\ i' = [i EXCEPT ![k] = @ + 1]
  /\ UNCHANGED <<owner, pc, rx_pkts, tx_pkts, sent, g_force_quit, snapVars>>

UnsentSkipped == 0
UnsentCounted == 1

AfterUnsentByTwo(k) == i[k] + 2
AfterUnsent(k) == i[k] + 1

(* What the driver refused is counted and freed *)
FreeUnsent(k) ==
  /\ pc[k] = "account"
  /\ i[k] > sent[k]
  /\ i[k] <= Len(tx_pkts[k])
  /\ stats' = [stats EXCEPT !["dropped"] = @ + UnsentCounted]
  /\ owner' = [owner EXCEPT ![tx_pkts[k][i[k]]] = Pool]
  /\ i' = [i EXCEPT ![k] = AfterUnsent(k)]
  /\ UNCHANGED <<pc, rx_pkts, tx_pkts, sent, g_force_quit, snapVars>>

Accounted(k) ==
  /\ pc[k] = "account"
  /\ i[k] > Len(tx_pkts[k])
  /\ NextTurn(k)
  /\ UNCHANGED <<owner, stats, g_force_quit, snapVars>>

(* The driver has transmitted the mbuf and frees it *)
NicFrees(m) ==
  /\ owner[m] = Nic
  /\ owner' = [owner EXCEPT ![m] = Pool]
  /\ UNCHANGED <<coreVars, stats, g_force_quit, snapVars>>

(* handle_sigint *)
Signal ==
  /\ ~g_force_quit
  /\ g_force_quit' = TRUE
  /\ UNCHANGED <<owner, coreVars, stats, snapVars>>

-----------------------------------------------------------------------------
(* stats_get_snapshot: the counters are loaded one by one, in any order:   *)
(* the loads are relaxed, and so are the additions                         *)

LoadsNoDrops == {"rx", "tx"}
Loads == Counters

AllBetweenTurns == \A k \in Lcores : pc[k] \in {"rx", "stopped"}

SnapshotBegin ==
  /\ loaded = Loads
  /\ loaded' = {}
  /\ snap' = Zero /\ quiet' = AllBetweenTurns
  /\ UNCHANGED <<owner, coreVars, stats, g_force_quit>>

SnapshotLoad ==
  /\ \E c \in Loads \ loaded :
       /\ snap' = [snap EXCEPT ![c] = stats[c]]
       /\ loaded' = loaded \cup {c}
  /\ UNCHANGED <<owner, coreVars, stats, g_force_quit, quiet>>

-----------------------------------------------------------------------------
TurnStep(k) ==
  \/ Stop(k) \/ Classify(k) \/ Keep(k) \/ Drop(k) \/ NothingToSend(k)
  \/ TxBurst(k) \/ CountSent(k) \/ FreeUnsent(k) \/ Accounted(k)

Next ==
  \/ \E k \in Lcores : RxBurst(k) \/ TurnStep(k)
  \/ \E m \in Mbufs : NicFrees(m)
  \/ Signal
  \/ SnapshotBegin \/ SnapshotLoad

Spec == Init /\ [][Next]_vars

(* A forwarding core never blocks.  Nothing makes packets, signals or      *)
(* requests for a snapshot come.                                           *)
FairSpec == Spec /\ \A k \in Lcores : WF_vars(TurnStep(k))

-----------------------------------------------------------------------------
(* Every variable keeps its type: no array of MAX_BURST is overrun *)
TypeOK ==
  /\ owner \in [Mbufs -> Lcores \cup {Pool, Nic}]
  /\ pc \in [Lcores -> {"rx", "classify", "filter", "account", "stopped"}]
  /\ \A k \in Lcores :
       /\ \A q \in {rx_pkts[k], tx_pkts[k]} : Len(q) <= MaxBurst /\ Range(q) \subseteq Mbufs
       /\ i[k] \in 1 .. MaxBurst + 1
       /\ sent[k] \in 0 .. Len(tx_pkts[k])
  /\ stats \in [Counters -> Nat] /\ snap \in [Counters -> Nat]
  /\ g_force_quit \in BOOLEAN
  /\ loaded \subseteq Counters

(* The mbufs a core still has to send or to free *)
Pending(k) ==
  CASE pc[k] = "classify" -> Range(rx_pkts[k])
    [] pc[k] = "filter" -> Range(SubSeq(rx_pkts[k], i[k], Len(rx_pkts[k]))) \cup Range(tx_pkts[k])
    [] pc[k] = "account" -> {tx_pkts[k][x] : x \in {y \in DOMAIN tx_pkts[k] : y > sent[k] /\ y >= i[k]}}
    [] OTHER -> {}

(* A core owns exactly the mbufs it has still to send or to free: none is  *)
(* leaked, on no path and however few the driver takes, and none is freed  *)
(* that another core or the driver owns by now                             *)
OwnsPending == \A k \in Lcores : {m \in Mbufs : owner[m] = k} = Pending(k)

(* The mbufs the next step of core k reads, writes, sends or frees: the    *)
(* prefetch of the classifier runs ahead in the burst                      *)
Touched(k) ==
  CASE pc[k] = "classify" -> Range(rx_pkts[k])
    [] pc[k] = "filter" /\ i[k] <= Len(rx_pkts[k]) -> {rx_pkts[k][i[k]]}
    [] pc[k] = "filter" /\ i[k] > Len(rx_pkts[k]) -> Range(tx_pkts[k])
    [] pc[k] = "account" /\ i[k] <= Len(tx_pkts[k]) -> {tx_pkts[k][i[k]]}
    [] OTHER -> {}

Counting(k) == pc[k] = "account" /\ i[k] <= sent[k]

(* A core touches no mbuf but its own, with one exception: the length of a *)
(* packet that was sent is read from an mbuf that is the driver's, back in *)
(* the pool, or another core's by now                                      *)
TouchesOwn ==
  \A k \in Lcores : \A m \in Touched(k) : owner[m] = k <=> ~Counting(k)

(* The packets a core queues are in the order they were received *)
InOrder ==
  \A k \in Lcores : pc[k] \in {"filter", "account"} =>
    \A x, y \in DOMAIN tx_pkts[k] : x < y =>
      \E u, v \in DOMAIN rx_pkts[k] :
        u < v /\ rx_pkts[k][u] = tx_pkts[k][x] /\ rx_pkts[k][v] = tx_pkts[k][y]

(* When no core is in the middle of a burst every packet received has been *)
(* counted exactly once more, as sent or as dropped                        *)
Balanced == AllBetweenTurns => stats["rx"] = stats["tx"] + stats["dropped"]

(* A snapshot during which no core had a burst in hand balances as well: it *)
(* shows all that was ever received.  One taken under traffic promises     *)
(* nothing of the kind.                                                    *)
QuietSnapshot == loaded = Loads /\ quiet => snap["rx"] = snap["tx"] + snap["dropped"]

(* After SIGINT every core ends its burst and stops, so main() can go on   *)
(* to stop the ports                                                       *)
QuitStops == g_force_quit ~> \A k \in Lcores : pc[k] = "stopped"
=============================================================================
