# Verification of dpdk_firewall

TLA+ models of the firewall's own logic, the TLC runs that check them on small
instances, and TLAPS proofs of what matters most. All paths of code below are
those of the repository, with its root written `src/`: `src/src/ddos.c` is
`src/ddos.c` of the repository. `PROJECT.json` maps every definition to the
lines it stands for.

## 1. The system

The firewall is a bridge between two DPDK ports. Two *forwarding cores* run
`pipeline_lcore_main()`, one for each direction; core 0, the *control core*,
runs `mgmt_server_run()`, which serves a UNIX socket, SIGHUP and the statistics.
The cores share memory and little else: of the state below only the ACL context
pointer has a lock of its own and only the counters of `stats.c` are atomic.

| Component | State | Operations | Used by |
|---|---|---|---|
| Rule engine (`rule_engine.c`) | `g_rules[MAX_RULES]`, `g_n_rules`, `g_next_id`, `g_acl_ctx` under `g_acl_rwlock`, the counters of each rule | `rule_match` on forwarding cores; `rule_add`, `rule_del`, `rule_flush`, `rule_list`, `rule_engine_reload_from_config` on the control core | pipeline, mgmt, config |
| Blacklist (`ddos.c`) | `g_blacklist_hash` (rte_hash), `g_blacklist_expires[]` | `blacklist_check` on forwarding cores, `blacklist_add` on all, `blacklist_del`, `blacklist_list` on the control core | pipeline, DDoS tracker, mgmt |
| DDoS tracker (`ddos.c`) | `g_ddos_hash`, `g_ddos_entries[]` | `ddos_update` on forwarding cores | pipeline |
| Rate limiting (`ddos.c`) | `g_meters[]`, `g_meter_valid[]` | `meter_check` on forwarding cores, `meter_init_all` on the control core | pipeline, mgmt, main |
| Forwarding pipeline (`pipeline.c`) | the bursts of each core, mbufs | `pipeline_lcore_main`, `classify_pkt` | main |
| Statistics (`stats.c`) | five atomic counters | `stats_inc_*`, `stats_get_snapshot`, `stats_periodic_dump` | pipeline, mgmt |
| Configuration (`config.c`) | `g_fw_config`, the static `new_cfg` of reloads, the automatic rule ids, `g_default_policy` | `config_load`, `config_reload`, `config_get` | main, mgmt |
| Management server (`mgmt.c`) | sockets, epoll, `g_sighup_flag` | one handler for each command, SIGHUP | fw_ctl |
| `fw_ctl` (`cli/fw_ctl.c`) | one connection | one request, one reply | the operator |
| Startup and shutdown (`main.c`) | `g_force_quit`, EAL, the order of initialisation | `main`, `handle_sigint` | - |
| Ports (`port.c`) | which ports are started | `port_init_all`, `port_stop_all` | main |
| Logging, build, scripts, tests | none worth a model | | |

How they interact. A packet passes `blacklist_check`, `rule_match`, for
RATE_LIMIT rules `meter_check`, then `ddos_update`, which may call
`blacklist_add`. A command on the socket, or SIGHUP, changes rules, blacklist
or policy while the forwarding cores go on. `config_reload` sets the policy,
then the rules; its callers in `mgmt.c` set the meters.

What is hard here:

* **The table of rules is not under the lock.** `rule_match` unlocks before it
  scans; the control core moves, writes and copies slots meanwhile.
* **Publication and reclamation** of ACL contexts: swap under the write lock,
  free after it.
* **A build that fails** leaves the table changed and the context as it was.
* **Ids** come from the file, from a counter of `config.c` and from `g_next_id`.
* **The blacklist is two structures**: a key in the hash and an expiry in an
  array, written in two steps and read in two steps, by all cores.
* **mbufs change owner** four times on a path of a packet; the driver takes any
  part of a burst and frees what it took at any time.
* **Counters** are added to by two cores and read one by one.
* **Two entries of plain memory are shared by both cores**: the window and
  counters of a source, the token bucket of a rule.
* **Static structures outlive a failed load** of the configuration.
* **Parsers, comparisons and lists are written twice**, in two programs.
* **Timeouts, interrupted calls and closed sockets** between the control core
  and `fw_ctl`, which send and receive in pieces.
* **Liveness**: the writer against readers that keep coming; SIGINT, SIGHUP.

What makes each component correct:

* rule engine: the decision is the one of the table in force; every index is
  inside the array; a context in use is not freed and none is leaked; ids are
  fresh; every operation and every call ends;
* blacklist: an address is blocked exactly until its block expires or is
  lifted; two addresses never share an expiry;
* DDoS tracker: a source that exceeds a threshold within a window is blocked,
  one that does not is not;
* rate limiting: no more than the bursts and the rate pass, nothing within them
  is dropped; a rule keeps its own bucket;
* pipeline and statistics: each mbuf is sent or freed exactly once, in order,
  and counted exactly once; the cores stop after SIGINT;
* configuration: what is in force is the last file that was accepted, as a
  whole; ids are distinct; a rule matches what its text says;
* management and `fw_ctl`: what `fw_ctl` returns is true, SIGHUP is not lost,
  and every call and the process itself end;
* life of the process: a core forwards only between ports that are started.

`PROJECT.json` lists the hazards, each at its line, with the properties that
would catch it, or the reason why none does.

## 2. The plan

1. `RuleData`, `RuleEngine` (core), its abstract specification
   `FirewallPolicy`, the refinement, the first proofs. *Done.*
2. `Blacklist`. *Done.*
3. `Pipeline` with the statistics. *Done.*
4. `DdosTracker`. *Done.*
5. `Config` and, composed with it, `Meters`. *Done.*
6. `RuleText`: parsers, `classify_pkt`, the comparison, the list. *Done.*
7. `Lifecycle` and, composed with it, `ControlPlane`: server, signals, `fw_ctl`.
   *Done.*

Proofs: every safety property of `RuleEngine` with its refinement of
`FirewallPolicy`, of `Blacklist`, `Pipeline`, `DdosTracker`, `Config`, `Meters`,
`ControlPlane` and `RuleText` is proved (section 5). What is left of the model: the
counters of each rule and `rule_list`, whose copy a list must show while the cores
count.

## 3. The modules

### RuleData, RuleEngine

`RuleData` holds rules, packets and verdicts. A packet is a class of packets
that no rule tells apart; the selector of a rule is the set of the classes it
matches, because nothing in the control flow of the engine depends on *which*
field mismatched. `ZeroRule` is the slot of zero bytes a static array begins
with: it has priority 0, action ACCEPT, and matches some packets (`ZeroSel`).
`IsDecision` is the decision a table should make.

`RuleEngine` is `rule_engine.c` step by step with its callers.

| Model | Code |
|---|---|
| `g_rules`, `g_n_rules`, `g_next_id`, `g_acl_ctx`, `g_default_policy` | the variables of those names |
| `live_ctx`, `readers`, `writer` | contexts of librte_acl in existence; the state of `g_acl_rwlock` (external) |
| `cpc`, `job`, `pos`, `counted`, `new_ctx`, `old_ctx`, `reply` | where the control core is in the operation in progress, its locals, and what it answered |
| `pc`, `pkt`, `ctx`, `idx`, `lim`, `best`, `res`, `verdict` | the call of `rule_match` on each forwarding core and its locals |
| `RuleAdd`, `RuleDel`, `RuleFlush`, `ConfigReload`, `SetDefaultPolicy` and their refusals | the handlers up to their first write to the table |
| `CopyHead`, `CopyTail`, `StoreCount`, `CopyDone` | the assignment, `memmove` or `memcpy` of slots and the store of the count |
| `BuildOk`, `BuildEmpty`, `BuildFail` | `build_acl_ctx` and the early return of `rule_engine_rebuild` |
| `WriteWait`, `WriteLock`, `Swap`, `WriteUnlock`, `FreeOld` | the rest of `rule_engine_rebuild` |
| `ReadLock` ... `Return` | `rule_match`, one action for each access to shared state |

Decisions about the races, all on the side of more behaviours: a slot is
copied in two halves (id, priority and selector; action), because `memcpy` and
`memmove` promise no atomicity; the count may be stored at any point of the
copy, because neither store is ordered; the loop of the scan may test a count
loaded now or the one it tested last (`Counts`), because nothing tells the
compiler that `g_n_rules` changes. A build may fail at any time (memory), and
does fail in the code for a priority librte_acl refuses (`Compiles`).

`clean[l]` is history: no operation has changed anything since the call on core
`l` began. Every guarantee about a verdict is about clean calls, and the run
`torn` shows that this is not an omission: with an operation in progress a
verdict may mix several tables.

### FirewallPolicy, RuleEngineRefinement

`FirewallPolicy` is what the engine promises: the table changes by whole
operations, each is acknowledged, the table starts or stops being consulted
(`armed`) when an operation is acknowledged, a call that no operation overlaps
gets the decision of the table. `RuleEngineRefinement` maps the engine to it:
`AbstractTable` and `AbstractLastId` change when an operation begins (`job.tab`),
`AbstractArmed` and `AbstractAnswer` when it ends; `AbstractOpen` and
`AbstractTold` are the calls in progress and what the finished ones returned.

### Blacklist

`position` is `g_blacklist_hash`: the position of each key, from a set that all
addresses compete for. `expires` is the array. `Check`, `ReadExpiry`, `Evict`
are the three accesses of `blacklist_check`; `AddKey` and `StoreExpiry` the two
of `blacklist_add`; `ListBegin`, `ListVisit`, `ListEnd` walk the hash with the
steps of a check for each entry. `Exceed` is `ddos_update` asking for a block:
when it does is left open. `due` and `overlap` are history: the expiry that
the last block asked for, from the step on that makes its key visible until an
unblock lifts it, and whether two operations on one address have ever
overlapped. The first three properties are about runs in which they have not;
`BlockHolds` is about all and is violated: an unblock that comes between the two
steps of an add lifts the block, but a check that comes there deletes a block
nobody lifted.

### DdosTracker

`ddos_update` with every load and store of an entry a step, because the entries
are plain memory shared by the cores: `ReadWindow`, `ResetField` (the stores of a
reset in any order), `LoadCount` and `StoreCount` (`++e->count`), `Block`. `now`
is the time of the burst, `clock` that of the block. A `HashEntries` below the
number of sources gives the case without room. `log` and `judged` are history:
the packets that passed the blacklist, and how many of them the last block of a
source had seen. The three properties say who may be blocked (`NoInnocent`, for
any races), for what (`BlockIsEarned`), and who must be (`FloodIsBlocked`).

### Config and Meters

`Config` is `config.c`: `DoLoad` is `do_load` as a function of the file, of the
structure it writes over and of the automatic ids; `Load`, `Reload`,
`RefusedReload` are the uses main and `config_reload` make of it. A load is one
step because no other core reads the structures. `new_cfg` is the static
structure that keeps what a refused file left in it.

`Meters` extends it: `ClearValid`, `SkipRule`, `SetProfile`, `SetBucket`,
`SetValid` are `meter_init_all`, called after `main`'s load, a reload, and a
SIGHUP even when the file was refused (`Refused`); `HasMeter`, `NoMeter`,
`ReadBucket`, `StoreBucket` are `meter_check` with the read and the store of a
bucket apart. `use` is history: what a meter has passed since it was configured,
as long as one core uses it, its clock does not go back, and no configuration
crossed its use. `Refilled` is modular (`TimeMod`), because the code subtracts
unsigned times.

### RuleText

What a rule *means*: `ConfigRule` and `MgmtRule` are the two parsers, `Classified`
is `classify_pkt`, `Matches` the conditions of the scan, `FwRuleToAcl` with
`AclMatches` the rte_acl rule, `Listed` what the list shows. Widths are parameters,
so that masks, wraps and the borders of ranges are those of the code in small. An
address or a mask is the set of the bits that are 1 in it: `&` is an intersection,
`~` a complement, `<<` a translation cut at the width, and `(1u << n) - 1` the set
of the positions below `n`; `__builtin_ctz` is the least position. The theorems
about them need no arithmetic of powers of 2. `Says` is the reference: what the text
of a rule says of a frame, one field after the other, without masks. This is what
`RuleEngine` abstracts to the set of packets a rule matches.

### Pipeline

`owner` says who owns each mbuf: the pool, a core, or the driver. The actions
are the stages of `pipeline_lcore_main`; the verdict on a packet is a free
choice between `Keep` and `Drop`. `TxBurst` takes any prefix of the queue,
`NicFrees` returns an mbuf to the pool at any later time. `SnapshotLoad` loads
the counters one by one in any order, as loads and additions are relaxed.
`quiet` is history. `Touched` says from or to which mbufs the next step of a core
reads or writes: `CountSent` reads the lengths of packets the driver has taken
(`Counting`), and `TouchesOwn` says that nothing else does.

### Lifecycle and ControlPlane

`Lifecycle` is `main` as a sequence of stages, each of which may fail, the ports
of `port.c`, and the cores from launch to the end of their loop. `rte_exit` is one
step where no core runs. When the launch of the second core fails the first one
goes on, so there it is a stage (`cleanup`), in which `rte_eal_cleanup` may take the
ports (`TakePort`) before the process ends (`CleanedUp`). `ControlPlane`
extends it with what happens in the stage `serve` and with the processes on the
other side of the socket.

| Model | Code |
|---|---|
| `pc` | where the control core is in `mgmt_server_run`, `fallback_loop` or `handle_client` |
| `sighup`, `forceQuit` | `g_sighup_flag`, `g_force_quit` |
| `queue`, `serving`, `conn` | connections not accepted, `client_fd`, the server's end of each |
| `sent`, `answer` | what is in the socket, in each direction |
| `client`, `call` | where each client is, and what it asks for |
| `TestHup`, `ReadFile`, `Reload` | the branch of the loop that serves SIGHUP, with a SIGHUP possible between any two |
| `PollTimeout`, `PollFails`, `Accept`, `AcceptFails` | `epoll_wait` and `accept4` |
| `RecvNothing`, `Recv`, `Dispatch`, `Send`, `SendNewline`, `Close` | `handle_client` |
| `Quit`, `Hup` with `Interrupted` | the handlers, and the system call they interrupt: they are installed without `SA_RESTART` |
| `Begin` ... `Reply` | a call of `fw_ctl` |
| `RawSends`, `RawCloses` | any other program on the socket: it may send half a request or nothing, and never reads |

`result` (the status the command was executed with) and `owed` (a SIGHUP for
which the file has not been read) are history.

### MC modules

`MCRuleEngine`, `MCBlacklist`, `MCDdosTracker`, `MCMeters`, `MCRuleText` and
`MCControlPlane` give the constants their values and hold properties that only a
run with a known violation checks. The operators that no action uses and that
stand just before one with the same parameters (`NextIdUnraised` before
`NextId`, ...) are the slips each property was run against.

## 4. The runs

| Run | Checks | Shows |
|---|---|---|
| `verdict` | `TypeOK`, `CtxAlive`, `NoLeak`, `CleanVerdict`, `AckedArmed`, `AddIsFresh`, `ImplementsFirewallPolicy` | one forwarding core against every sequence of operations; the engine implements its abstract specification |
| `live` | `OpCompletes`, `CallReturns` | two readers and the writer: nobody waits for ever |
| `torn` | `IdIsOfAMatch`, violated | a scan that `rule_del` overlaps answers with a rule that does not match |
| `blacklist_exact` | `BlockedIsDue`, `PassedIsFree`, `DueIsKept` | without overlap on one address every verdict is exact |
| `blacklist_lost` | `BlockHolds`, violated | a check that reads the expiry before it is stored deletes a block that is being made |
| `ddos` | `NoInnocent`, `BlockIsEarned`, `FloodIsBlocked` | no race of the cores blocks a source that did not exceed a threshold; a flood one core sees is blocked |
| `rate` | `TypeOK`, `InForceIsTheFile`, `IdsAreUsable`, `RateConforms`, `NoForeignMeter`, `FileIsMetered`, `DropIsDue` | files good and bad, commands, and meters set up under the cores: the last good file is in force, an undisturbed meter passes its rate and drops nothing below it |
| `unmetered` | `IdsInMeterRange`, violated | ids outgrow the array of meters |
| `meaning` | `TypeOK`, `MatchAsWritten`, `ParsersAgree`, `ScanIsAcl`, `ListedIsTheRule` | a rule matches the frames its text speaks of, whoever parses it |
| `pipeline` | `TypeOK`, `OwnsPending`, `InOrder`, `Balanced`, `QuietSnapshot`, `QuitStops` | no mbuf leaked or freed twice; order; each packet counted once; both cores stop after SIGINT |
| `control` | `TypeOK`, `CoresHaveTheirPorts`, `ExitIsTruth`, `HupNotLost`, `HupServed`, `QuitExits`, `FwCtlEnds` | the process from start to end with signals, faults and clients |
| `exit_code` | `DoneExitsZero`, violated | `fw_ctl` dies of SIGPIPE although its command was executed |

### Bounds, and why they are enough

* Rule engine. `MaxRules = 2`: full, one and no rule, a deletion that moves a slot
  and one that does not, a file shorter or longer than the table. Two classes of
  packets and three priorities (of librte_acl, refused by it, equal to `PrioMax`)
  give every case of a match and of a tie. `IdLimit = 2` lets `rule_add` run until
  ids of deleted rules could come back with a reload; `IdMod` is above it: what
  happens when the counter wraps is in section 6. Two handles: one in use, one being
  built; a third is never alive; they are symmetric. One forwarding core in
  `verdict`: cores share only the lock, and its contention is what `live` has two of
  them for, with a table of one slot, a rule that matches the packet and one that
  does not.
* Blacklist. Two addresses and one position: the least in which a position
  passes from one address to another and in which the hash is full. One
  forwarding core and the control core, which takes the same steps as a second
  forwarding core in `blacklist_list` and `blacklist_add`; with two addresses a
  third core could only add an overlap. `MaxTime = 4` with durations 1 and 3: a
  block that expires within the run, one that does not, one that extends and
  one that shortens another.
* Pipeline. Two cores, two mbufs, bursts of at most two: a core may take what
  the other's driver has just freed, a burst may be sent in part or not at all.
  `MaxRx = 3` packets in all, so that both cores have a burst in hand, and one
  of them a second after its first.
* DDoS tracker. Two sources, one entry: one is tracked and one is not. A
  threshold of 1 and `MaxPackets = 4` let a source exceed it, within a window and
  across two, and twice; two kinds show that counts are apart. The clock starts
  at `Window = 2`, as the machine has been up longer than that, and reaches 4:
  a window that ends and a block that does. Addresses, cores and kinds are
  symmetric.
* Meters. `MaxRules = 2`, five files (ids of its own and a third rule that is cut
  off, automatic ids, both in one file so that they collide, a rule that is refused
  after one that is not, a policy that is refused), two reloads or commands after the
  first load, `IdLimit = 4` above `MaxRules`: ids in and out of the range of meters. A
  rate of one packet of burst and one for each tick, a rate `rte_meter` refuses, and
  none; one tick; four packets by two cores.
* Rule text. Addresses of 3 bits, ports and bytes of 2: every prefix, mask and
  border of a range. A text has a protocol and any two further fields: the
  parsers and the comparison treat the fields independently, so a third adds
  nothing. Frames of every protocol, with addresses within and outside every
  prefix.
* Control plane. Two clients with one call each, one failing system call
  (`MaxFaults`), any number of signals, `Backlog = 0` (one connection waits, the
  next waits in `connect`). One client asks for what must be executed, the other is
  in turn a list that fits no buffer, a call without an option, and a program that
  does not read. `exit_code` needs no more. `control` has the mode with two ports;
  the one with a single port is in `exit_code`, and `PortsOutliveCores` is proved
  for both.

`CHECK_DEADLOCK FALSE` stands where the system may stop: clocks and bounds of
`DdosTracker` and `Meters` end, a rule of `RuleText` has been matched, and the
process of `ControlPlane` exits.

### Fairness

`FairSpec` of `RuleEngine` and `Pipeline` assumes weak fairness of the steps of
each core: every core runs one pinned thread that never blocks except on the
lock, whose waiting is a disabled action here. Nothing makes a packet, a command
or a signal arrive. Weak fairness is enough for the writer because the wait bit
of `rte_rwlock` keeps new readers out (`CanRead`).

`FairSpec` of `ControlPlane` assumes weak fairness of main, of each forwarding
core, of the control core and of each `fw_ctl`: each is a thread or a process of
its own whose blocking calls are disabled actions. `epoll_wait` and `recv` end by
their timeouts, so `PollTimeout` and `RecvNothing` are steps the control core
owes; `send` has no timeout and waits for the client (`Waits`). Signals and other
programs owe nothing. The liveness properties name the one state in which they
would be false, a client that does not read a long answer (`Stuck`); `HupServed`
also leaves out the loop that an error of `epoll_wait` has ended.

## 5. What is proved

TLAPS checks the theorems below for every value of the constants that satisfies the
assumptions of its module: any number of cores, any `MAX_RULES`, any rules, packets
and files; any number of addresses and positions of the hash; any number of mbufs
and any `MAX_BURST`; any thresholds; any number of clients and calls, any backlog,
any number of system calls that fail. The assumptions say that the constants have
their types, that a file holds at most `MAX_RULES` rules (the parser of `config.c`
stops there), that NULL is not the address of a context, that only lists have long
answers, and, for `Pipeline` and `DdosTracker`, that there are finitely many cores:
their proofs count them. For `Config` they say what a file may hold: flags that are
true or false, a policy that is known, absent or bad, rules with an id and a rate
that are naturals; a file may be longer than `MAX_RULES`. For `Meters` the modulus
of the clock is above every time, and for `DdosTracker` above `MaxTime + Window`:
the TSC does not wrap while the program runs. The ids of `Config` are naturals,
bounded by `IdLimit` in `rule_add` only; their wrap is in section 6. For `RuleText`
they say what jansson and `atoi` give for a field of a text (a rate is not
negative), what the headers of a frame hold, and that the names for a missing field,
a bad address and a refused rule are no values.

| Theorem | Module | Property |
|---|---|---|
| `TypeCorrect` | `RuleEngineProofs` | `TypeOK` |
| `ContextsAlive`, `ContextsNotLeaked` | `RuleEngineProofs` | `CtxAlive`, `NoLeak` |
| `AcknowledgedArmed` | `RuleEngineProofs` | `AckedArmed` |
| `IdsStayBelow`, `AddsAreFresh` | `RuleEngineProofs` | `IdsBelowNext`, `AddIsFresh`, given `IdLimit < IdMod - 1` |
| `CleanVerdicts` | `RuleEngineProofs` | `CleanVerdict` |
| `EngineImplementsPolicy` | `RuleEngineRefinementProofs` | `ImplementsFirewallPolicy`, given `IdLimit < IdMod - 1` |
| `BlocksAreDue`, `PassesAreFree`, `BlocksAreKept` | `BlacklistProofs` | `BlockedIsDue`, `PassedIsFree`, `DueIsKept` |
| `InnocentsPass`, `BlocksAreEarned`, `FloodsAreBlocked` | `DdosTrackerProofs` | `NoInnocent`, `BlockIsEarned`, `FloodIsBlocked` |
| `MetersTyped` | `MetersProofs` | `TypeOK` |
| `InForceCorrect`, `IdsUsable` | `MetersProofs` | `InForceIsTheFile`, `IdsAreUsable` |
| `OwnMeter`, `MeterForEachRule` | `MetersProofs` | `NoForeignMeter`, `FileIsMetered` |
| `RateIsKept`, `DropsAreDue` | `MetersProofs` | `RateConforms`, `DropIsDue` |
| `RulesTyped`, `MatchesAsWritten`, `ParsersAgreeAlways` | `RuleTextProofs` | `TypeOK`, `MatchAsWritten`, `ParsersAgree` |
| `ScansAsAcl`, `ListsTheRule` | `RuleTextProofs` | `ScanIsAcl`, `ListedIsTheRule` |
| `TypeCorrect` | `PipelineProofs` | `TypeOK` |
| `MbufsOwned`, `OrderKept` | `PipelineProofs` | `OwnsPending`, `InOrder` |
| `OwnTouched` | `PipelineProofs` | `TouchesOwn` |
| `CountersBalance`, `SnapshotsBalance` | `PipelineProofs` | `Balanced`, `QuietSnapshot` |
| `TypeCorrect` | `ControlPlaneProofs` | `TypeOK` |
| `PortsOutliveCores` | `ControlPlaneProofs` | `CoresHaveTheirPorts` |
| `SigHupKept` | `ControlPlaneProofs` | `HupNotLost` |
| `ExitsAreTrue` | `ControlPlaneProofs` | `ExitIsTruth` |

* **Types.** `TypeOK` is inductive as it stands; its part about `res` and the
  part about `pos` are what keeps every index in the array.
* **Contexts** (`CtxSafe`). `CtxAlive` is not inductive. `LockInv` says that the
  read lock is held exactly between `ReadLock` and `ReadUnlock`, the write lock
  exactly around the swap, and never both. `CtxInv` says which contexts exist at
  each point of a rebuild, and that a core which has loaded the pointer holds
  the *published* context. At the swap no core has one, because the write lock
  excludes them; at the free every core that has one loaded the new one.
* **Acknowledgements** (`ArmedInv`). A build that succeeds yields a context
  exactly when there are rules, the swap publishes that one, and a build that
  fails is not acknowledged, except by a reload.
* **Ids** (`IdsSafe`). Between operations no id is above `g_next_id`; during the
  copy nothing of the kind holds of the slots in between. `CopyInv` says that
  the slots still to be copied are the only ones that differ from the table the
  operation leaves, a half-copied slot included, so that at the end of the copy
  the bound holds again: for a reload because `g_next_id` is raised over what was
  loaded, for the rest because the table they leave has no id above it. The
  hypothesis `IdLimit < IdMod - 1` says that `rule_add` is not called with
  `g_next_id` at its greatest value. `IdsBelowNext` itself is a lemma with a name:
  no run checks it, because `AddIsFresh` is what it is for.
* **Verdicts** (`ScanSafe`). For a clean call, `res` and `best` are the winner of
  the slots before `idx` (`WinnerSoFar`), and the count the loop tests is the
  count of the table. The step that takes one more slot is the heart of the
  proof (`ScanOneSlot`); the re-check after the scan never fails for a clean
  call (`ScanRecheck`). Every operation that changes anything ends the cleanness
  of all calls in progress, which is why the invariant may speak of the present
  table.
* **The refinement** (`EngineInv`). It is the conjunction of the invariants above
  and of `LeftInv`: from the end of the copy on, the table is the one the operation
  leaves. A step of the control core maps to the beginning of an abstract
  operation, to its answer, or to nothing (the copy, the build, the swap); a step
  of a core to the beginning or the end of a call, or to nothing. What has to be
  shown of the data is that the slots an operation leaves, read as a sequence, are
  the old table with a rule appended, removed, or replaced by the file
  (`PrefixIsTable` and its relatives), and that the verdict of a call that is still
  clean is a decision of the abstract table, which is `CleanVerdict`.

* **Blacklist** (`BlacklistInv`). `Apart` holds in every behaviour: two addresses
  never have one position, and a core is about an address while it is in an
  operation. The rest is conditional: as long as `overlap` is false, an operation
  has its address for itself (`Alone`), the position it looked up is still the one
  of its address (`Held`), the expiry stored there is the one the last block asked
  for unless it is just being stored (`Kept`), an address without a position has no
  block that is due (`Free`), and a core that has decided has decided by `due`
  (`Seen`), and between its two steps an add has the expiry to store that the block
  asks for (`Asked`). `Held` is what a deletion and the next key for the same
  position could break, and `Alone` excludes it.
* **DDoS tracker** (`DdosInv`). That no counter exceeds what its source has sent is
  not inductive: a core stores a register that was right before another core reset
  or stored the counter. `Room` is the number of packets of a kind sent, less those
  whose counter no core has loaded yet. It never shrinks: an arrival adds to both
  numbers, and the load of a counter makes room for exactly the packet it registers.
  Counters and registers are within `Room` (`CountInv`, `RegInv`), so whoever blocks
  holds more than the threshold of packets that were sent. `BlockIsEarned` and
  `FloodIsBlocked` need `WindowInv`, about the sources that one core sees. At each
  stage of `ddos_update` it relates the entry to the log: in a window (`InWindow`)
  each counter is the number of packets of the window since the last block, and no
  more than the threshold; as many at most came in less than `window_ns` before the
  window began (`Calm`); nothing in the log is later than the end of the window
  (`Past`). `Calm` is what makes twice the threshold the limit: a stretch shorter
  than `window_ns` has packets of the present window and of the time before it only
  (`TwoWindows`). When a window ends, what came in less than `window_ns` before came
  within it (`WindowEnds`), so the bound of the counter becomes that of the next
  `Calm`. A packet that passes without an entry is in the log and in no counter; the
  keys are never deleted, so a full hash stays full, and a source has an entry from
  its first packet on or never (`Fresh`).
* **Configuration** (`ConfigInv`). `InForceIsTheFile` is inductive with the types:
  `do_load` overwrites every part of the static structure that reaches the table, as
  its lemma `LoadFacts` says. `IdsAreUsable` is not: it needs `IdsUpToNext`, no rule
  above `g_next_id`, and from `AutosFacts` and `WithIdsFacts` that automatic ids
  grow with the position of a rule (`AutosGrow`). A file that sets the ids of some
  rules and leaves others may have one id twice (`config.c:264-265`): the property
  allows it for an id the file itself sets, and for no other. `g_next_id` after a
  load is the greatest of a set of ids, and that there is one is a lemma too
  (`GreatestOf`).
* **Meters** (`MeterInv`). While `meter_init_all` is at rule `i`, exactly meters of
  rules before `i` are valid and those of them that can have one have it
  (`SetSoFar`); between two runs a valid meter has an id below `g_next_id` and the
  rate of whatever rule has that id (`MetersOfRules`). A rule that `rule_add` puts
  in has an id above all of them, so no rule comes into the meter of another. This
  is where `NoForeignMeter` needs `IdsUpToNext`, and why the proof is one about
  `Config` and `Meters` together.
* **Rates** (`BucketInv`). For a meter whose use is known (`Exact`), `Accounted`
  says that what has passed and the tokens in both buckets are together no more than
  CBS + EBS + CIR times the age of the bucket, and that what has passed and the
  committed tokens are at least CBS. The first bounds what passes, the second what
  is dropped. Both survive a refill because tokens are only cut at the size of a
  bucket, or added for the time that has passed once (`RefillFacts`), and a charge
  because tokens become packets one for one (`ChargeFacts`). Between its read and
  its store a core relies on nobody else having used the meter (`Undisturbed`): a
  second core, a clock that goes back or a configuration makes the use inexact.
* **The meaning of a rule** (`ReadingInv`). The invariant only says that the rule is
  what the parser made of the text and the answer that of `Matches`; the rest is
  about the operators. Both parsers make of a prefix the mask of that many leading
  ones (`ConfigMaskIs`, `MgmtMaskIs`), `mask_to_prefix` takes it back
  (`PrefixOfMask`), and under such a mask the scan compares what `rte_acl` compares
  (`MaskComparesPrefix`). `RuleFromIs` says when a rule is refused. A text that is
  written well loses nothing to the truncations to 16 and 8 bits (`Uint16Is`,
  `WellWrittenIsAccepted`), and a field that `classify_pkt` leaves zero is one that
  such a text does not constrain, because it names the protocol that has it
  (`MatchesWhatItSays`).
* **Mbufs** (`BurstInv`). `OwnsPending` needs to know where a core is in its two
  arrays: `Bounds` relates the indices to the lengths, `Ordered` embeds the queue in
  the burst in order, and `Owns` says that the mbufs a core owns are those of the
  burst it has not looked at and those of the queue that neither the driver took nor
  the loop has freed (`ToDo`). The mbufs of a burst are distinct because the pool
  owned them. From the same invariant follows `TouchesOwn`: what a core looks at is
  in the part of its arrays it owns, except for the lengths of packets that were
  sent, which are never its own any more.
* **Counters** (`CountInv`, `QuietInv`). At any time the packets received are those
  sent, those dropped, and those a core has still to account for. The last number is
  the size of a set of pairs, of a core and a number up to `Todo`, so that a step of
  one core adds or removes one pair whatever the others have in hand (`OneMore`,
  `OneLess`). A snapshot that no burst crosses loads the present values.

* **Ports** (`PortInv`). The ports are started from the stage `rules` to the stage
  `wait`, and a core runs only between `launch` and `wait`, or in the stage
  `cleanup`, which `CoresHaveTheirPorts` leaves out by name: there it is false. It
  is proved for the steps of `Lifecycle` (`LifeStep`) and for whatever else the
  control core and the clients do, which is summed up in `Serving`.
* **SIGHUP**. `HupNotLost` is inductive as it stands: the flag is cleared before
  the file is read, and only what reads the file pays the debt.
* **Exit codes** (`TalkInv`). `ExitIsTruth` relates two processes that share a
  socket only. `ConnInv`: the connection served is the open one, those in the queue
  are not open yet, nobody is in it twice. `AnswerInv`: what is in the socket is
  the status or a cut list, and a connection is closed without an answer only if
  nothing was executed. `ExitInv`: who has exited without an answer has no
  connection any more, so that nothing can be executed for it later.

The strengthened invariants `CtxSafe`, `IdsSafe`, `ScanSafe`, `TalkInv`,
`BlacklistInv`, the counters of `DdosInv`, `WindowInv`, `ConfigInv`, `MeterInv` and
`BucketInv` were also model-checked, over the state spaces of the runs `verdict`,
`control`, `blacklist_exact`, `ddos` (the counters with one packet less) and
`rate`, before they were proved, and `TouchesOwn` over that of `pipeline`.

Only model-checked: liveness (`OpCompletes`, `CallReturns`, `QuitStops`,
`HupServed`, `QuitExits`, `FwCtlEnds`), which TLAPS cannot reason about under
fairness.

## 6. What is not modelled, and what is abstracted

* In `RuleEngine` a packet is a class, a selector a set of classes; `RuleText`
  says what the fields make of it. `rte_acl` itself decides nothing in this
  program (its classification is not called): of it there are only the contexts
  and the priorities it refuses.
* The counters of each rule (`pkt_count`, `byte_count`) and `rule_list`; the two
  counters of bytes and those of the driver. The length of a packet is read from its
  mbuf after the driver was given it (`pipeline.c:185-186`), so the bytes sent may
  be those of another packet. The read is in the model (`Counting`), its value is
  not: nothing but the number shown depends on it.
* The wrap of `g_next_id`. A file may hold a rule with the id `UINT32_MAX`;
  `rule_add` then hands out 0, which `config.c` reserves, and after it ids that
  are in use. `NextId` is modelled with the wrap, but the runs and the theorems
  about ids stay below it (`IdLimit`).
* The wrap of the ids of `Config`, likewise: `rule_add` stops at `IdLimit`, and the
  theorems have no other bound on ids.
* A meter used by two cores at once, or by a clock that goes back, and a source of
  the DDoS tracker seen by two cores: the races are in the models, but nothing
  exact can be promised of them, and only `NoInnocent` speaks of them.
* Options of `fw_ctl`, its tables, JSON as such, log lines: formatting. A prefix
  or a port that is not a number.
* `ControlPlane` knows of a command only its status, and of a reload that the file
  was read; what commands change is in `RuleEngine`, `Blacklist` and `Meters`,
  where the guard `cpc = "idle"`, `pc[Control] = "idle"` or `ctl = "idle"` says that
  the control core handles one at a time.
* rte_hash, rte_rwlock, rte_acl, rte_meter, rte_ethdev, the mempool, EAL and the
  sockets are external, and modelled by what this program relies on: an atomic
  operation of the hash, a position that is stable while its key is there, a lock
  whose waiting writer keeps readers out, two token buckets, a driver that takes
  any prefix of a burst, a socket buffer that is full or not.
* Descriptors and offloads of ports, logging, the build, the scripts.

## 7. Where the code and its documentation disagree

Four runs show that the program does not do what a comment or the documentation
says; `PROJECT.json` quotes both under "findings": a scan that an operation overlaps
may mix tables (`torn`); a check that comes between the two steps of `blacklist_add`
deletes the block (`blacklist_lost`); ids leave the range of the meters, and rules
are not limited (`unmetered`); `fw_ctl` may die of SIGPIPE after its command was
executed (`exit_code`).

Seen while modelling, in the models, and without a run of their own:
`config_reload` answers 0 when the rebuild failed; after a failed first build the
default policy decides although rules are loaded; expired entries keep the hash of
the blacklist full, and a block that is refused is not reported; a port that is a
JSON number is passed over although `config.c:200` says it may be one; a SIGHUP
with a file that is refused fills all token buckets; a file that sets the ids of
some rules may give one of them to another rule as well; the length of a packet that
was sent is read from an mbuf the driver may have freed; when the second core cannot
be launched the first goes on while `rte_exit` cleans up; an error of `epoll_wait`
leaves the cores forwarding without a control plane until SIGINT.
