----------------------- MODULE RuleEngineRefinement -----------------------
(***************************************************************************)
(* The rule engine implements FirewallPolicy.  While an operation is in    *)
(* progress the abstract table is already the one the operation leaves;    *)
(* g_next_id of a reload likewise.  A verdict exists once rule_match has   *)
(* read both of its parts.                                                 *)
(***************************************************************************)
EXTENDS RuleEngine, FiniteSetsExt

AbstractTable ==
  IF cpc = "idle" THEN LiveTable ELSE Prefix(job.tab, job.cnt)

(* CopyDone raises g_next_id at the end of the copy of a reload *)
AbstractLastId ==
  IF cpc \in {"copy", "tail"} /\ job.op = "reload"
  THEN Max(IdsOf(AbstractTable) \cup {g_next_id})
  ELSE g_next_id

(* The table is consulted from the swap on; abstractly, from the answer on *)
AbstractArmed ==
  IF cpc \in {"unlock", "free"} THEN old_ctx # NoCtx ELSE g_acl_ctx # NoCtx

AbstractBusy ==
  IF cpc = "idle" THEN "no" ELSE IF job.op = "reload" THEN "reload" ELSE "edit"

AbstractAnswer == IF cpc = "idle" THEN reply.rc ELSE "none"

AbstractOpen == [l \in Lcores |-> pc[l] \notin {"idle", "done"}]

AbstractTold ==
  [l \in Lcores |-> IF pc[l] = "done" THEN verdict[l] ELSE [id |-> -1, action |-> "accept"]]

FP == INSTANCE FirewallPolicy WITH
  table  <- AbstractTable,
  policy <- g_default_policy,
  armed  <- AbstractArmed,
  lastId <- AbstractLastId,
  busy   <- AbstractBusy,
  answer <- AbstractAnswer,
  open   <- AbstractOpen,
  quiet  <- clean,
  asked  <- pkt,
  told   <- AbstractTold

(* Every behaviour of the engine is one FirewallPolicy allows: each        *)
(* operation takes the table from one whole value to the next, and a call  *)
(* that none overlaps gets the decision of the table                       *)
ImplementsFirewallPolicy == FP!Spec
===========================================================================
