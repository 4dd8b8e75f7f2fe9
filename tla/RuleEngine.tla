---------------------------- MODULE RuleEngine ----------------------------
(***************************************************************************)
(* src/rule_engine.c with its callers: config_reload() (src/config.c) and  *)
(* the handlers of src/mgmt.c on the control core, rule_match() on every   *)
(* forwarding core.                                                        *)
(*                                                                         *)
(* The table g_rules[0 .. g_n_rules - 1] is shared plain memory.  The lock *)
(* g_acl_rwlock covers only the pointer g_acl_ctx: rule_match() reads the  *)
(* pointer under the read lock, releases it, and scans the table unlocked, *)
(* while rule_add(), rule_del(), rule_flush() and                          *)
(* rule_engine_reload_from_config() rewrite the table on the control core. *)
(* Table, count and policy are thus written and read in separate steps     *)
(* here, a slot in two halves (id, priority and selector; action), and the *)
(* count at any point of the copy: plain stores have no order.             *)
(***************************************************************************)
EXTENDS RuleData

CONSTANTS
  Lcores,      \* forwarding cores
  MaxRules,    \* MAX_RULES
  AclPrioMax,  \* RTE_ACL_MAX_PRIORITY
  IdLimit,     \* bound: rule_add is not called once g_next_id exceeds it
  NewRules,    \* what rule_add may be asked to add
  Configs,     \* what a configuration file may hold: [rules, policy]
  DelIds,      \* the ids rule_del may be asked for
  Handles,     \* addresses rte_acl_create may return
  NoCtx        \* the NULL context

Tables == {s \in Seq(Rule) : Len(s) <= MaxRules}

ASSUME RuleEngineAssumption ==
  /\ MaxRules \in Nat \ {0}
  /\ AclPrioMax \in Nat
  /\ IdLimit \in Nat
  /\ NewRules \subseteq Rule
  /\ Configs \subseteq [rules : Tables, policy : Actions]
  /\ NoCtx \notin Handles

VARIABLES
  \* src/rule_engine.c
  g_rules,          \* the array
  g_n_rules,
  g_next_id,
  g_acl_ctx,
  \* src/main.c
  g_default_policy,
  \* librte_acl and rte_rwlock
  live_ctx,         \* contexts created and not freed
  readers,          \* cores that hold the read lock
  writer,           \* "free", "waiting" (no new reader) or "held"
  \* the operation in progress on the control core
  cpc,              \* where it is
  job,              \* [op, tab, cnt, hi]: the operation and what it leaves
  pos,              \* the next slot it writes; it stops at job.hi
  counted,          \* g_n_rules has been written
  new_ctx,
  old_ctx,
  reply,            \* [op, rc] of the last one, NoReply until it ends
  \* the call of rule_match in progress on each forwarding core
  pc,
  pkt,              \* the packet
  ctx,              \* the local copy of g_acl_ctx
  idx,              \* i, the next slot of the scan
  lim,              \* the value of g_n_rules the loop last tested
  best,             \* best_prio
  res,              \* result: one more than the best slot, 0 for none
  verdict,          \* what the call returns
  clean             \* no operation has changed anything since it began

engineVars == <<g_rules, g_n_rules, g_next_id, g_acl_ctx, g_default_policy>>
lockVars == <<readers, writer>>
jobVars == <<job, pos, counted, new_ctx, old_ctx, reply>>
callVars == <<pc, pkt, ctx, idx, lim, best, res, verdict>>
vars == <<engineVars, live_ctx, lockVars, cpc, jobVars, callVars, clean>>

Slots == 0 .. MaxRules - 1
Live == 0 .. g_n_rules - 1
LiveTable == Prefix(g_rules, g_n_rules)
NoReply == [op |-> "none", rc |-> "none"]
ZeroVerdict == [id |-> 0, action |-> "accept"]
NoJob == [op |-> "none", tab |-> [s \in Slots |-> ZeroRule], cnt |-> 0, hi |-> 0]

Array(seq, old) ==
  [s \in Slots |-> IF s + 1 \in DOMAIN seq THEN seq[s + 1] ELSE old[s]]

IdsOf(seq) == {seq[k].id : k \in DOMAIN seq}

(* n is the greatest of the numbers of S *)
Greatest(n, S) == n \in S /\ \A m \in S : m <= n

(* rte_acl_add_rules refuses a priority outside 1 .. RTE_ACL_MAX_PRIORITY, *)
(* and fw_rule_to_acl inverts the scale                                    *)
AclAccepts(r) == AclPrioMax - r.prio >= 1

Compiles(tab, n) == \A i \in 0 .. n - 1 : AclAccepts(tab[i])

-----------------------------------------------------------------------------
(* The state once rule_engine_init() has returned 0: g_n_rules counts the  *)
(* rules of the file, and main() goes no further if they do not compile.   *)
Init ==
  /\ \E c \in Configs, h \in Handles :
       /\ g_rules = Array(c.rules, NoJob.tab)
       /\ g_n_rules = Len(c.rules)
       /\ Greatest(g_next_id, IdsOf(c.rules) \cup {0})
       /\ g_default_policy = c.policy
       /\ Compiles(g_rules, g_n_rules)
       /\ g_acl_ctx = IF g_n_rules = 0 THEN NoCtx ELSE h
       /\ live_ctx = {g_acl_ctx} \ {NoCtx}
  /\ readers = {}
  /\ writer = "free"
  /\ cpc = "idle"
  /\ job = NoJob
  /\ pos = 0
  /\ counted = FALSE
  /\ new_ctx = NoCtx
  /\ old_ctx = NoCtx
  /\ reply = NoReply
  /\ pc = [l \in Lcores |-> "idle"]
  /\ pkt \in [Lcores -> Packets]
  /\ ctx = [l \in Lcores |-> NoCtx]
  /\ idx = [l \in Lcores |-> 0]
  /\ lim = [l \in Lcores |-> 0]
  /\ best = [l \in Lcores |-> PrioMax]
  /\ res = [l \in Lcores |-> 0]
  /\ verdict = [l \in Lcores |-> ZeroVerdict]
  /\ clean = [l \in Lcores |-> FALSE]

-----------------------------------------------------------------------------
(* The control core.  A definition that no action uses, just before one    *)
(* with the same parameters, is what a slip in the code would make of it:  *)
(* each property is run against one of these, and must fail.               *)

(* Every call in progress is now overlapped by a change *)
Disturb == clean' = [l \in Lcores |-> FALSE]

(* An operation begins: it is to leave the array tab with n rules and      *)
(* writes the slots from .. to - 1 of it                                   *)
Begin(op, tab, n, from, to) ==
  /\ job' = [op |-> op, tab |-> tab, cnt |-> n, hi |-> to]
  /\ pos' = from
  /\ counted' = FALSE
  /\ cpc' = "copy"
  /\ reply' = NoReply
  /\ Disturb
  /\ UNCHANGED <<g_rules, g_n_rules, g_acl_ctx, live_ctx, lockVars, new_ctx,
                 old_ctx, callVars>>

(* An operation that ends where it began *)
Answer(op, rc) ==
  /\ cpc = "idle"
  /\ reply' = [op |-> op, rc |-> rc]
  /\ UNCHANGED <<g_rules, g_n_rules, g_next_id, g_acl_ctx, live_ctx, lockVars,
                 cpc, job, pos, counted, new_ctx, old_ctx, callVars>>

NextIdUnraised(n) == n
NextId(n) == (n + 1) % IdMod

HasRoomForOneMore == g_n_rules <= MaxRules
HasRoom == g_n_rules < MaxRules

(* rule_add *)
RuleAdd(r) ==
  /\ cpc = "idle"
  /\ HasRoom
  /\ g_next_id <= IdLimit
  /\ g_next_id' = NextId(g_next_id)
  /\ Begin("add", [g_rules EXCEPT ![g_n_rules] = [r EXCEPT !.id = g_next_id']],
           g_n_rules + 1, g_n_rules, g_n_rules + 1)
  /\ UNCHANGED g_default_policy

RuleAddFull ==
  /\ g_n_rules >= MaxRules
  /\ Answer("add", "fail")
  /\ UNCHANGED <<g_default_policy, clean>>

ClosedShort(tab, i, n) ==
  [s \in Slots |-> IF s \in i .. n - 3 THEN tab[s + 1] ELSE tab[s]]

(* The array after the memmove of rule_del *)
Closed(tab, i, n) ==
  [s \in Slots |-> IF s \in i .. n - 2 THEN tab[s + 1] ELSE tab[s]]

IsFirstWith(i, id) ==
  /\ i \in Live /\ g_rules[i].id = id
  /\ \A j \in 0 .. i - 1 : g_rules[j].id # id

(* rule_del *)
RuleDel(id) ==
  /\ cpc = "idle"
  /\ \E i \in Live :
       /\ IsFirstWith(i, id)
       /\ Begin("del", Closed(g_rules, i, g_n_rules), g_n_rules - 1, i, g_n_rules - 1)
  /\ UNCHANGED <<g_next_id, g_default_policy>>

RuleDelMissing(id) ==
  /\ \A i \in Live : g_rules[i].id # id
  /\ Answer("del", "fail")
  /\ UNCHANGED <<g_default_policy, clean>>

(* rule_flush: it writes the count only *)
RuleFlush ==
  /\ cpc = "idle"
  /\ Begin("flush", g_rules, 0, 0, 0)
  /\ UNCHANGED <<g_next_id, g_default_policy>>

(* config_reload once do_load() has succeeded, to the end of the memcpy of *)
(* rule_engine_reload_from_config: the policy is stored first              *)
ConfigReload(c) ==
  /\ cpc = "idle"
  /\ g_default_policy' = c.policy
  /\ Begin("reload", Array(c.rules, g_rules), Len(c.rules), 0, Len(c.rules))
  /\ UNCHANGED g_next_id

(* do_load() has failed *)
ConfigReloadFails ==
  /\ Answer("reload", "fail")
  /\ UNCHANGED <<g_default_policy, clean>>

(* cmd_set_default_policy *)
SetDefaultPolicy(a) ==
  /\ Answer("policy", "ok")
  /\ g_default_policy' = a
  /\ Disturb

(* The store to g_n_rules, at any point of the copy *)
StoreCount ==
  /\ cpc \in {"copy", "tail"}
  /\ ~counted
  /\ counted' = TRUE
  /\ g_n_rules' = job.cnt
  /\ UNCHANGED <<g_rules, g_next_id, g_acl_ctx, g_default_policy, live_ctx,
                 lockVars, cpc, job, pos, new_ctx, old_ctx, reply, callVars, clean>>

(* The two halves of the copy of a slot *)
CopyHead ==
  /\ cpc = "copy"
  /\ pos < job.hi
  /\ g_rules' = [g_rules EXCEPT ![pos] = [job.tab[pos] EXCEPT !.action = g_rules[pos].action]]
  /\ cpc' = "tail"
  /\ UNCHANGED <<g_n_rules, g_next_id, g_acl_ctx, g_default_policy, live_ctx,
                 lockVars, jobVars, callVars, clean>>

CopyTail ==
  /\ cpc = "tail"
  /\ g_rules' = [g_rules EXCEPT ![pos].action = job.tab[pos].action]
  /\ pos' = pos + 1
  /\ cpc' = "copy"
  /\ UNCHANGED <<g_n_rules, g_next_id, g_acl_ctx, g_default_policy, live_ctx, lockVars,
                 job, counted, new_ctx, old_ctx, reply, callVars, clean>>

(* The copy is over; a reload raises g_next_id to the greatest id loaded *)
RaiseNextId ==
  IF job.op = "reload" THEN Greatest(g_next_id', IdsOf(LiveTable) \cup {g_next_id})
  ELSE g_next_id' = g_next_id

CopyDone ==
  /\ cpc = "copy"
  /\ pos >= job.hi
  /\ counted
  /\ RaiseNextId
  /\ cpc' = "build"
  /\ UNCHANGED <<g_rules, g_n_rules, g_acl_ctx, g_default_policy, live_ctx, lockVars,
                 jobVars, callVars, clean>>

-----------------------------------------------------------------------------
(* rule_engine_rebuild *)

BuildOk ==
  /\ cpc = "build"
  /\ g_n_rules > 0
  /\ Compiles(g_rules, g_n_rules)
  /\ new_ctx' \in Handles \ live_ctx
  /\ live_ctx' = live_ctx \cup {new_ctx'}
  /\ cpc' = "lock"
  /\ UNCHANGED <<engineVars, lockVars, job, pos, counted, old_ctx, reply, callVars, clean>>

BuildEmpty ==
  /\ cpc = "build"
  /\ g_n_rules = 0
  /\ new_ctx' = NoCtx
  /\ cpc' = "lock"
  /\ UNCHANGED <<engineVars, live_ctx, lockVars, job, pos, counted, old_ctx, reply,
                 callVars, clean>>

Finish(rc) ==
  /\ cpc' = "idle"
  /\ reply' = [op |-> job.op, rc |-> rc]
  /\ job' = NoJob
  /\ pos' = 0
  /\ counted' = FALSE
  /\ new_ctx' = NoCtx
  /\ old_ctx' = NoCtx

FailIgnored(op) == "ok"

(* The return code of a failed build, after config_reload() dropped it *)
FailRc(op) == IF op = "reload" THEN "ok" ELSE "fail"

(* Memory, or a priority librte_acl refuses: build_acl_ctx frees what it   *)
(* created, and the table stays as changed                                 *)
BuildFail ==
  /\ cpc = "build"
  /\ g_n_rules > 0
  /\ Finish(FailRc(job.op))
  /\ UNCHANGED <<engineVars, live_ctx, lockVars, callVars, clean>>

(* rte_rwlock_write_lock: a writer that finds readers sets the wait bit *)
WriteWait ==
  /\ cpc = "lock"
  /\ writer = "free"
  /\ readers # {}
  /\ writer' = "waiting"
  /\ UNCHANGED <<engineVars, live_ctx, readers, cpc, jobVars, callVars, clean>>

CanWriteAlways == TRUE
CanWrite == readers = {}

WriteLock ==
  /\ cpc = "lock"
  /\ CanWrite
  /\ writer' = "held"
  /\ cpc' = "swap"
  /\ UNCHANGED <<engineVars, live_ctx, readers, jobVars, callVars, clean>>

Swap ==
  /\ cpc = "swap"
  /\ old_ctx' = g_acl_ctx
  /\ g_acl_ctx' = new_ctx
  /\ cpc' = "unlock"
  /\ UNCHANGED <<g_rules, g_n_rules, g_next_id, g_default_policy, live_ctx, lockVars,
                 job, pos, counted, new_ctx, reply, callVars, clean>>

WriteUnlock ==
  /\ cpc = "unlock"
  /\ writer' = "free"
  /\ cpc' = "free"
  /\ UNCHANGED <<engineVars, live_ctx, readers, jobVars, callVars, clean>>

FreedNone(h) == live_ctx
Freed(h) == live_ctx \ {h}

FreeOld ==
  /\ cpc = "free"
  /\ live_ctx' = Freed(old_ctx)
  /\ Finish("ok")
  /\ UNCHANGED <<engineVars, lockVars, callVars, clean>>

ControlBegin ==
  \/ \E r \in NewRules : RuleAdd(r)
  \/ RuleAddFull
  \/ \E id \in DelIds : RuleDel(id) \/ RuleDelMissing(id)
  \/ RuleFlush
  \/ \E c \in Configs : ConfigReload(c)
  \/ ConfigReloadFails
  \/ \E a \in {"accept", "drop"} : SetDefaultPolicy(a)

ControlStep ==
  \/ StoreCount \/ CopyHead \/ CopyTail \/ CopyDone
  \/ BuildOk \/ BuildEmpty \/ BuildFail
  \/ WriteWait \/ WriteLock \/ Swap \/ WriteUnlock \/ FreeOld

-----------------------------------------------------------------------------
(* rule_match() on a forwarding core                                       *)

ctrlVars == <<engineVars, live_ctx, cpc, jobVars>>

(* rte_rwlock_read_lock spins while a writer holds the lock or waits *)
CanRead == writer = "free"

ReadLock(l, p) ==
  /\ pc[l] = "idle"
  /\ CanRead
  /\ readers' = readers \cup {l}
  /\ pc' = [pc EXCEPT ![l] = "locked"]
  /\ pkt' = [pkt EXCEPT ![l] = p]
  /\ clean' = [clean EXCEPT ![l] = (cpc = "idle")]
  /\ UNCHANGED <<ctrlVars, writer, ctx, idx, lim, best, res, verdict>>

ReadCtx(l) ==
  /\ pc[l] = "locked"
  /\ ctx' = [ctx EXCEPT ![l] = g_acl_ctx]
  /\ pc' = [pc EXCEPT ![l] = "loaded"]
  /\ UNCHANGED <<ctrlVars, lockVars, pkt, idx, lim, best, res, verdict, clean>>

ReadersLeft(l) == IF ctx[l] = NoCtx THEN readers ELSE readers \ {l}

(* The unlock, on the path of a NULL context and on the other *)
ReadersAfter(l) == readers \ {l}

ReadUnlock(l) ==
  /\ pc[l] = "loaded"
  /\ readers' = ReadersAfter(l)
  /\ pc' = [pc EXCEPT ![l] = IF ctx[l] = NoCtx THEN "policy" ELSE "scan"]
  /\ lim' = [lim EXCEPT ![l] = g_n_rules]
  /\ UNCHANGED <<ctrlVars, writer, pkt, ctx, idx, best, res, verdict, clean>>

(* A load of g_n_rules may be of now or the one the compiler kept *)
Counts(l) == {lim[l], g_n_rules}

BeatsOrTies(r, b, p) == r.prio <= b /\ p \in r.sel

(* The rule replaces the best one so far: a lesser priority number, and    *)
(* every field matches                                                     *)
Beats(r, b, p) == r.prio < b /\ p \in r.sel

AfterMatchOnly(l) ==
  IF Beats(g_rules[idx[l]], best[l], pkt[l]) THEN idx[l] + 1 ELSE idx[l]
AfterSlot(l) == idx[l] + 1

ScanStep(l) ==
  /\ pc[l] = "scan"
  /\ \E n \in Counts(l) : idx[l] < n /\ lim' = [lim EXCEPT ![l] = n]
  /\ IF Beats(g_rules[idx[l]], best[l], pkt[l])
     THEN /\ best' = [best EXCEPT ![l] = g_rules[idx[l]].prio]
          /\ res' = [res EXCEPT ![l] = idx[l] + 1]
     ELSE UNCHANGED <<best, res>>
  /\ idx' = [idx EXCEPT ![l] = AfterSlot(l)]
  /\ UNCHANGED <<ctrlVars, lockVars, pc, pkt, ctx, verdict, clean>>

ScanEnd(l) ==
  /\ pc[l] = "scan"
  /\ \E n \in Counts(l) : idx[l] >= n /\ lim' = [lim EXCEPT ![l] = n]
  /\ pc' = [pc EXCEPT ![l] = IF res[l] = 0 THEN "policy" ELSE "matched"]
  /\ UNCHANGED <<ctrlVars, lockVars, pkt, ctx, idx, best, res, verdict, clean>>

(* No rule, or none that matches: the default policy *)
DefaultVerdict(l) ==
  /\ pc[l] = "policy"
  /\ verdict' = [verdict EXCEPT ![l] = [id |-> 0, action |-> g_default_policy]]
  /\ pc' = [pc EXCEPT ![l] = "done"]
  /\ UNCHANGED <<ctrlVars, lockVars, pkt, ctx, idx, lim, best, res, clean>>

(* The slot found is no longer in the table *)
RecheckFails(l) ==
  /\ pc[l] = "matched"
  /\ \E n \in Counts(l) : res[l] - 1 >= n
  /\ pc' = [pc EXCEPT ![l] = "policy"]
  /\ UNCHANGED <<ctrlVars, lockVars, pkt, ctx, idx, lim, best, res, verdict, clean>>

ReadRuleId(l) ==
  /\ pc[l] = "matched"
  /\ \E n \in Counts(l) : res[l] - 1 < n
  /\ verdict' = [verdict EXCEPT ![l].id = g_rules[res[l] - 1].id]
  /\ pc' = [pc EXCEPT ![l] = "action"]
  /\ UNCHANGED <<ctrlVars, lockVars, pkt, ctx, idx, lim, best, res, clean>>

ReadRuleAction(l) ==
  /\ pc[l] = "action"
  /\ verdict' = [verdict EXCEPT ![l].action = g_rules[res[l] - 1].action]
  /\ pc' = [pc EXCEPT ![l] = "done"]
  /\ UNCHANGED <<ctrlVars, lockVars, pkt, ctx, idx, lim, best, res, clean>>

(* The call returns and its locals are gone *)
Return(l) ==
  /\ pc[l] = "done"
  /\ pc' = [pc EXCEPT ![l] = "idle"]
  /\ ctx' = [ctx EXCEPT ![l] = NoCtx]
  /\ idx' = [idx EXCEPT ![l] = 0]
  /\ lim' = [lim EXCEPT ![l] = 0]
  /\ best' = [best EXCEPT ![l] = PrioMax]
  /\ res' = [res EXCEPT ![l] = 0]
  /\ verdict' = [verdict EXCEPT ![l] = ZeroVerdict]
  /\ clean' = [clean EXCEPT ![l] = FALSE]
  /\ UNCHANGED <<ctrlVars, lockVars, pkt>>

CallStep(l) ==
  \/ ReadCtx(l) \/ ReadUnlock(l) \/ ScanStep(l) \/ ScanEnd(l) \/ DefaultVerdict(l)
  \/ RecheckFails(l) \/ ReadRuleId(l) \/ ReadRuleAction(l) \/ Return(l)

Next ==
  \/ ControlBegin
  \/ ControlStep
  \/ \E l \in Lcores : CallStep(l) \/ \E p \in Packets : ReadLock(l, p)

Spec == Init /\ [][Next]_vars

(* Every core runs one pinned thread, so what it has begun goes on.        *)
(* Nothing makes a packet or a request arrive.                             *)
FairSpec == Spec /\ WF_vars(ControlStep) /\ \A l \in Lcores : WF_vars(CallStep(l))

-----------------------------------------------------------------------------
(* Properties                                                              *)

Ops == {"add", "del", "flush", "reload"}

EngineType ==
  /\ g_rules \in [Slots -> Rule]
  /\ g_n_rules \in 0 .. MaxRules
  /\ g_next_id \in Ids
  /\ g_acl_ctx \in Handles \cup {NoCtx}
  /\ g_default_policy \in Actions
  /\ live_ctx \subseteq Handles

LockType == readers \subseteq Lcores /\ writer \in {"free", "waiting", "held"}

ControlType ==
  /\ cpc \in {"idle", "copy", "tail", "build", "lock", "swap", "unlock", "free"}
  /\ job \in [op : Ops \cup {"none"}, tab : [Slots -> Rule], cnt : 0 .. MaxRules, hi : 0 .. MaxRules]
  /\ pos \in 0 .. MaxRules
  /\ cpc = "tail" => pos < job.hi
  /\ counted \in BOOLEAN
  /\ new_ctx \in Handles \cup {NoCtx}
  /\ old_ctx \in Handles \cup {NoCtx}
  /\ reply \in [op : Ops \cup {"none", "policy"}, rc : {"none", "ok", "fail"}]

CallType ==
  /\ pc \in [Lcores -> {"idle", "locked", "loaded", "scan", "policy", "matched", "action", "done"}]
  /\ pkt \in [Lcores -> Packets]
  /\ ctx \in [Lcores -> Handles \cup {NoCtx}]
  /\ idx \in [Lcores -> 0 .. MaxRules]
  /\ lim \in [Lcores -> 0 .. MaxRules]
  /\ best \in [Lcores -> 0 .. PrioMax]
  /\ res \in [Lcores -> 0 .. MaxRules]
  /\ verdict \in [Lcores -> Verdict]
  /\ clean \in [Lcores -> BOOLEAN]
  /\ \A l \in Lcores : pc[l] \in {"matched", "action"} => res[l] > 0

(* Every variable keeps its type: the count never exceeds MAX_RULES, and   *)
(* no index with which g_rules is read or written leaves it, although      *)
(* neither is checked where it is used                                     *)
TypeOK == EngineType /\ LockType /\ ControlType /\ CallType

(* rule_engine_rebuild frees the old context after the swap (lines         *)
(* 255-261), yet a core between its lock and its unlock never holds a      *)
(* context that has been freed, whatever operations ran before             *)
CtxAlive ==
  \A l \in Lcores : pc[l] = "loaded" => ctx[l] \in live_ctx \cup {NoCtx}

(* Between operations exactly the published context exists: no rebuild,    *)
(* failed or not, leaks one or frees the one in use                        *)
NoLeak == cpc = "idle" => live_ctx = {g_acl_ctx} \ {NoCtx}

(* A call of rule_match that no operation overlaps returns the decision of *)
(* the table: the least priority number wins, the earliest among equals,   *)
(* and the default policy decides otherwise (lines 297-359)                *)
CleanVerdict ==
  \A l \in Lcores : pc[l] = "done" /\ clean[l] =>
    IsDecision(IF g_acl_ctx = NoCtx THEN <<>> ELSE LiveTable, g_default_policy,
               pkt[l], verdict[l])

(* After an acknowledged rule_add, rule_del or rule_flush the rules are    *)
(* consulted exactly when there are any: a stale NULL context does not     *)
(* survive the first rule, and a stale context does not survive the last   *)
AckedArmed ==
  cpc = "idle" /\ reply.rc = "ok" /\ reply.op \in {"add", "del", "flush"} =>
    (g_acl_ctx # NoCtx <=> g_n_rules > 0)

(* While no operation is in progress no rule has an id above g_next_id, so *)
(* the id of the next rule_add is one that no rule of the table has, not   *)
(* even one that was deleted and came back with a reload (lines 233, 408)  *)
IdsBelowNext ==
  cpc = "idle" => \A i \in Live : g_rules[i].id <= g_next_id

(* rule_add gives its rule an id that no rule of the table has *)
AddIsFresh ==
  [][cpc = "idle" /\ cpc' = "copy" /\ job'.op = "add" =>
       \A i \in Live : g_rules[i].id # job'.tab[g_n_rules].id]_vars

(* An operation that has begun ends: the cores release the read lock and a *)
(* waiting writer keeps new readers out                                    *)
OpCompletes == cpc # "idle" ~> cpc = "idle"

(* A call that has its lock returns, although the count its loop tests may *)
(* change under it                                                         *)
CallReturns == \A l \in Lcores : pc[l] = "locked" ~> pc[l] = "idle"
===========================================================================
