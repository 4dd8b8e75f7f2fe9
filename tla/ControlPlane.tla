---------------------------- MODULE ControlPlane ----------------------------
(***************************************************************************)
(* The control core and the processes that talk to it: mgmt_server_run and *)
(* handle_client of src/mgmt.c, the signal handlers of src/main.c, and     *)
(* fw_ctl (cli/fw_ctl.c), one call of which is one connection with one     *)
(* command.  The other kind of client, "raw", is any other program on the  *)
(* socket: it may send nothing, or a part of a request first, never reads  *)
(* and closes when it likes.                                               *)
(*                                                                         *)
(* An answer that "fits" fits the buffer of the socket; a "long" one does  *)
(* not, and send waits for the client to read; one that is "too_long" does *)
(* not fit RESP_BUFSZ of fw_ctl either.  Only lists get long.  What a      *)
(* command does to rules, blacklist and policy is in RuleEngine, Blacklist *)
(* and Meters; here it is its status, and for a reload that the            *)
(* configuration file was read.                                            *)
(***************************************************************************)
EXTENDS Lifecycle

CONSTANTS
  Clients,     \* processes that connect, each once
  Calls,       \* what each of them may ask for
  NoCall,
  NoClient,
  Backlog      \* BACKLOG

VARIABLES
  pc,          \* where the control core is in mgmt_server_run
  sighup,      \* g_sighup_flag
  listening,   \* server_fd is open and listens
  queue,       \* connections not yet accepted
  serving,     \* client_fd
  client,      \* where each client is, or how it ended
  call,        \* what it asks for
  conn,        \* the server's end of its connection
  sent,        \* what of the request is in the socket
  answer,      \* what of the answer is
  \* history
  result,      \* the status its command was executed with
  owed         \* the file has not been read since the last SIGHUP

clientVars == <<client, call, conn, sent, answer, result>>
serverVars == <<pc, sighup, listening, queue, serving>>
controlVars == <<serverVars, clientVars, owed>>
vars == <<lifeVars, controlVars>>

None == "none"

NeedArgs == {"rule_add", "rule_del", "blacklist_add", "blacklist_del", "set_default_policy"}
Lists == {"rule_list", "stats_get", "blacklist_list"}
Commands == NeedArgs \cup Lists \cup {"rule_flush", "config_reload"}

CallType ==
  [kind : {"fw_ctl", "raw"}, cmd : Commands \cup {"unknown"},
   args : {"none", "missing", "wrong", "good"}, size : {"fits", "long", "too_long"}]

ASSUME CallAssumption ==
  /\ Calls \in [Clients -> SUBSET CallType] /\ NoCall \notin CallType
  /\ \A c \in Clients : \A k \in Calls[c] : k.size # "fits" => k.cmd \in Lists
  /\ Backlog \in Nat /\ NoClient \notin Clients

Init ==
  /\ LifeInit
  /\ pc = "create"
  /\ sighup = FALSE /\ listening = FALSE
  /\ queue = <<>>
  /\ serving = NoClient
  /\ client = [c \in Clients |-> "idle"]
  /\ call = [c \in Clients |-> NoCall]
  /\ conn = [c \in Clients |-> None]
  /\ sent = [c \in Clients |-> None]
  /\ answer = [c \in Clients |-> None]
  /\ result = [c \in Clients |-> None]
  /\ owed = FALSE

-----------------------------------------------------------------------------
(* mgmt_server_run                                                         *)

Server(p) == At("serve") /\ pc = p

InQueue == {queue[i] : i \in DOMAIN queue}

(* close(server_fd): what waits to be accepted is reset *)
CloseSocket ==
  /\ listening' = FALSE
  /\ queue' = <<>>
  /\ conn' = [c \in Clients |-> IF c \in InQueue THEN "closed" ELSE conn[c]]

CreateSocket ==
  /\ Server("create")
  /\ listening' = TRUE /\ pc' = "epoll"
  /\ UNCHANGED <<lifeVars, sighup, queue, serving, clientVars, owed>>

(* socket, bind or listen fails: fallback_loop, without a socket *)
CreateFails ==
  /\ Server("create")
  /\ Fault /\ pc' = "top"
  /\ UNCHANGED <<hairpin, stage, exit, port, lcore, forceQuit, sighup, listening, queue, serving,
                 clientVars, owed>>

EpollCreate ==
  /\ Server("epoll")
  /\ pc' = "top"
  /\ UNCHANGED <<lifeVars, sighup, listening, queue, serving, clientVars, owed>>

EpollFails ==
  /\ Server("epoll")
  /\ Fault /\ CloseSocket /\ pc' = "top"
  /\ UNCHANGED <<hairpin, stage, exit, port, lcore, forceQuit, sighup, serving, client, call, sent,
                 answer, result, owed>>

(* while (!g_force_quit), of the loop and of fallback_loop *)
Top ==
  /\ Server("top")
  /\ pc' = IF forceQuit THEN "closing" ELSE "hup"
  /\ UNCHANGED <<lifeVars, sighup, listening, queue, serving, clientVars, owed>>

AfterHup == IF listening THEN "polling" ELSE "top"

(* if (g_sighup_flag) *)
TestHup ==
  /\ Server("hup")
  /\ sighup' = FALSE
  /\ pc' = IF sighup THEN "reload" ELSE AfterHup
  /\ UNCHANGED <<lifeVars, listening, queue, serving, clientVars, owed>>

(* config_reload reads the file, good or not ... *)
ReadFile ==
  /\ Server("reload")
  /\ owed' = FALSE
  /\ pc' = "rebuild"
  /\ UNCHANGED <<lifeVars, sighup, listening, queue, serving, clientVars>>

HupClearedLate == FALSE
HupAfterReload == sighup

(* ... and what was in it comes in force, and meter_init_all is called:    *)
(* a SIGHUP may come meanwhile                                             *)
Reload ==
  /\ Server("rebuild")
  /\ sighup' = HupAfterReload
  /\ pc' = AfterHup
  /\ UNCHANGED <<lifeVars, listening, queue, serving, clientVars, owed>>

PollsForEver == FALSE
PollTimesOut == TRUE

(* epoll_wait: 100 ms without a connection *)
PollTimeout ==
  /\ Server("polling") /\ queue = <<>>
  /\ PollTimesOut
  /\ pc' = "top"
  /\ UNCHANGED <<lifeVars, sighup, listening, queue, serving, clientVars, owed>>

(* ... an error that is not EINTR ends the loop, and not the cores *)
PollFails ==
  /\ Server("polling")
  /\ Fault /\ pc' = "closing"
  /\ UNCHANGED <<hairpin, stage, exit, port, lcore, forceQuit, sighup, listening, queue, serving,
                 clientVars, owed>>

Accept ==
  /\ Server("polling") /\ queue # <<>>
  /\ serving' = Head(queue) /\ queue' = Tail(queue)
  /\ conn' = [conn EXCEPT ![Head(queue)] = "open"]
  /\ pc' = "recv"
  /\ UNCHANGED <<lifeVars, sighup, listening, client, call, sent, answer, result, owed>>

AcceptFailsGoesOn == "recv"
AfterAcceptFails == "top"

AcceptFails ==
  /\ Server("polling") /\ queue # <<>>
  /\ Fault /\ pc' = AfterAcceptFails
  /\ UNCHANGED <<hairpin, stage, exit, port, lcore, forceQuit, sighup, listening, queue, serving,
                 clientVars, owed>>

Gone(c) == client[c] \in {"exit0", "exit1", "sigpipe", "gone"}

RecvForEver == Gone(serving)
RecvEnds == TRUE

(* handle_client: nothing comes in 500 ms, or the client is gone *)
RecvNothing ==
  /\ Server("recv") /\ sent[serving] = None
  /\ RecvEnds
  /\ pc' = "close"
  /\ UNCHANGED <<lifeVars, sighup, listening, queue, serving, clientVars, owed>>

(* One recv: what is there now is the request *)
Recv ==
  /\ Server("recv") /\ sent[serving] # None
  /\ IF sent[serving] = "part"
     THEN pc' = "send" /\ result' = [result EXCEPT ![serving] = "error"]
     ELSE pc' = "dispatch" /\ UNCHANGED result
  /\ UNCHANGED <<lifeVars, sighup, listening, queue, serving, client, call, conn, sent, answer,
                 owed>>

(* The status cmd_<command> may answer with.  A rule may be one too many,  *)
(* unknown, or one librte_acl refuses, and do_load may refuse the file;    *)
(* the lists, the blacklist and the policy cannot fail once the arguments  *)
(* are right.                                                              *)
Statuses(k) ==
  IF k.cmd = "unknown" \/ (k.cmd \in NeedArgs /\ k.args # "good") THEN {"error"}
  ELSE IF k.cmd \in {"rule_add", "rule_del", "rule_flush", "config_reload"} THEN {"ok", "error"}
  ELSE {"ok"}

Dispatch ==
  /\ Server("dispatch")
  /\ \E s \in Statuses(call[serving]) : result' = [result EXCEPT ![serving] = s]
  /\ owed' = (owed /\ call[serving].cmd # "config_reload")
  /\ pc' = "send"
  /\ UNCHANGED <<lifeVars, sighup, listening, queue, serving, client, call, conn, sent, answer>>

(* send waits: the answer does not fit and the client does not read *)
Waits(c) == result[c] = "ok" /\ call[c].size # "fits" /\ client[c] # "reply" /\ ~Gone(c)

Send ==
  /\ Server("send") /\ ~Waits(serving)
  /\ answer' = [answer EXCEPT ![serving] = result[serving]]
  /\ pc' = "newline"
  /\ UNCHANGED <<lifeVars, sighup, listening, queue, serving, client, call, conn, sent, result, owed>>

(* The newline of an answer that was cut needs room as well *)
SendNewline ==
  /\ Server("newline") /\ ~(answer[serving] = "cut" /\ Waits(serving))
  /\ pc' = "close"
  /\ UNCHANGED <<lifeVars, sighup, listening, queue, serving, clientVars, owed>>

Close ==
  /\ Server("close")
  /\ conn' = [conn EXCEPT ![serving] = "closed"]
  /\ serving' = NoClient
  /\ pc' = "top"
  /\ UNCHANGED <<lifeVars, sighup, listening, queue, client, call, sent, answer, result, owed>>

(* The end of mgmt_server_run, or of fallback_loop *)
Closing ==
  /\ Server("closing")
  /\ CloseSocket
  /\ stage' = "wait" /\ pc' = "off"
  /\ UNCHANGED <<hairpin, exit, port, lcore, forceQuit, faults, sighup, serving, client, call, sent,
                 answer, result, owed>>

ControlCore ==
  \/ CreateSocket \/ CreateFails \/ EpollCreate \/ EpollFails
  \/ Top \/ TestHup \/ ReadFile \/ Reload
  \/ PollTimeout \/ PollFails \/ Accept \/ AcceptFails
  \/ RecvNothing \/ Recv \/ Dispatch \/ Send \/ SendNewline \/ Close
  \/ Closing

-----------------------------------------------------------------------------
(* Signals                                                                 *)

(* What a signal makes of the call the control core may be blocked in: the *)
(* handlers are installed without SA_RESTART.  It may also come just       *)
(* before the call, which then is not interrupted.                         *)
Interrupted ==
  \/ UNCHANGED <<pc, answer>>
  \/ Server("polling") /\ queue = <<>> /\ pc' = "top" /\ UNCHANGED answer
  \/ Server("recv") /\ sent[serving] = None /\ pc' = "close" /\ UNCHANGED answer
  \/ /\ Server("send") /\ Waits(serving)
     /\ answer' = [answer EXCEPT ![serving] = "cut"] /\ pc' = "newline"
  \/ /\ Server("newline") /\ answer[serving] = "cut" /\ Waits(serving)
     /\ pc' = "close" /\ UNCHANGED answer

rest == <<listening, queue, serving, client, call, conn, sent, result>>

Quit == SigInt /\ Interrupted /\ UNCHANGED <<rest, sighup, owed>>

(* handle_sighup *)
Hup ==
  /\ Handled
  /\ sighup' = TRUE /\ owed' = TRUE
  /\ Interrupted
  /\ UNCHANGED <<lifeVars, rest>>

(* A signal before the handlers *)
Kill == DefaultAction /\ UNCHANGED controlVars

-----------------------------------------------------------------------------
(* The clients                                                             *)

clientRest == <<lifeVars, pc, sighup, listening, serving, result, owed>>

(* A call of fw_ctl without an option it needs ends before it connects *)
Begin(c, k) ==
  /\ client[c] = "idle"
  /\ call' = [call EXCEPT ![c] = k]
  /\ client' = [client EXCEPT ![c] =
                  IF k.kind = "fw_ctl" /\ k.args = "missing" THEN "exit1" ELSE "connect"]
  /\ UNCHANGED <<clientRest, queue, conn, sent, answer>>

(* connect waits while the queue of the socket is full *)
Connect(c) ==
  /\ client[c] = "connect" /\ listening /\ Len(queue) <= Backlog
  /\ queue' = Append(queue, c)
  /\ conn' = [conn EXCEPT ![c] = "queued"]
  /\ client' = [client EXCEPT ![c] = IF call[c].kind = "raw" THEN "raw" ELSE "request"]
  /\ UNCHANGED <<clientRest, call, sent, answer>>

ConnectFails(c) ==
  /\ client[c] = "connect" /\ ~listening
  /\ client' = [client EXCEPT ![c] = "exit1"]
  /\ UNCHANGED <<clientRest, queue, call, conn, sent, answer>>

(* send_command: the two sends.  To a socket the server has closed they    *)
(* raise SIGPIPE, which fw_ctl does not handle.                            *)
SendRequest(c) ==
  /\ client[c] = "request"
  /\ IF conn[c] = "closed"
     THEN client' = [client EXCEPT ![c] = "sigpipe"] /\ UNCHANGED sent
     ELSE /\ client' = [client EXCEPT ![c] = "newline"]
          /\ sent' = [sent EXCEPT ![c] = "all"]
  /\ UNCHANGED <<clientRest, queue, call, conn, answer>>

EndRequest(c) ==
  /\ client[c] = "newline"
  /\ client' = [client EXCEPT ![c] = IF conn[c] = "closed" THEN "sigpipe" ELSE "reply"]
  /\ UNCHANGED <<clientRest, queue, call, conn, sent, answer>>

AcceptsNoAnswer(a) == a # "error"
Accepted(a) == a = "ok"

(* The answer, or the end of the connection; check_status, and what main   *)
(* returns                                                                 *)
Reply(c) ==
  /\ client[c] = "reply" /\ (answer[c] # None \/ conn[c] = "closed")
  /\ client' = [client EXCEPT ![c] =
                  IF Accepted(answer[c]) /\ call[c].size # "too_long" THEN "exit0" ELSE "exit1"]
  /\ UNCHANGED <<clientRest, queue, call, conn, sent, answer>>

FwCtl(c) == Connect(c) \/ ConnectFails(c) \/ SendRequest(c) \/ EndRequest(c) \/ Reply(c)

RawSends(c) ==
  /\ client[c] = "raw" /\ sent[c] # "all" /\ conn[c] # "closed"
  /\ \E what \in {"part", "all"} : sent' = [sent EXCEPT ![c] = what]
  /\ UNCHANGED <<clientRest, queue, client, call, conn, answer>>

RawCloses(c) ==
  /\ client[c] = "raw"
  /\ client' = [client EXCEPT ![c] = "gone"]
  /\ UNCHANGED <<clientRest, queue, call, conn, sent, answer>>

-----------------------------------------------------------------------------
Next ==
  \/ Main /\ UNCHANGED controlVars
  \/ \E c \in {1, 2} : CoreQuits(c) /\ UNCHANGED controlVars
  \/ ControlCore
  \/ Quit \/ Hup \/ Kill
  \/ \E c \in Clients :
       (\E k \in Calls[c] : Begin(c, k)) \/ FwCtl(c) \/ RawSends(c) \/ RawCloses(c)

Spec == Init /\ [][Next]_vars

(* Every thread runs, and so does every fw_ctl; epoll_wait and recv end by *)
(* their timeouts.  Signals and raw clients owe nothing.                   *)
FairSpec ==
  /\ Spec
  /\ WF_vars(Main /\ UNCHANGED controlVars)
  /\ \A c \in {1, 2} : WF_vars(CoreQuits(c) /\ UNCHANGED controlVars)
  /\ WF_vars(ControlCore)
  /\ \A c \in Clients : WF_vars(FwCtl(c))

-----------------------------------------------------------------------------
ServerPcs ==
  {"create", "epoll", "top", "hup", "reload", "rebuild", "polling",
   "recv", "dispatch", "send", "newline", "close", "closing", "off"}

ClientPcs ==
  {"idle", "connect", "raw", "request", "newline", "reply", "exit0", "exit1", "sigpipe", "gone"}

TypeOK ==
  /\ LifeTypeOK
  /\ pc \in ServerPcs
  /\ sighup \in BOOLEAN /\ listening \in BOOLEAN /\ owed \in BOOLEAN
  /\ queue \in Seq(Clients)
  /\ serving \in Clients \cup {NoClient}
  /\ pc \in {"recv", "dispatch", "send", "newline", "close"} <=> serving \in Clients
  /\ client \in [Clients -> ClientPcs]
  /\ call \in [Clients -> CallType \cup {NoCall}]
  /\ conn \in [Clients -> {None, "queued", "open", "closed"}]
  /\ sent \in [Clients -> {None, "part", "all"}]
  /\ answer \in [Clients -> {None, "ok", "error", "cut"}]
  /\ result \in [Clients -> {None, "ok", "error"}]

IsFwCtl(c) == call[c] # NoCall /\ call[c].kind = "fw_ctl"

(* What fw_ctl returns is true: 0 when its command was executed and        *)
(* answered "ok", 1 only when it was not, over every timeout, interrupted  *)
(* call, shutdown and lost connection between the two processes.  An       *)
(* answer that does not fit the socket may be cut on the way.              *)
ExitIsTruth ==
  \A c \in Clients :
    IsFwCtl(c) =>
      /\ client[c] = "exit0" => result[c] = "ok"
      /\ client[c] = "exit1" /\ call[c].size = "fits" => result[c] # "ok"

(* A SIGHUP is not lost while the control core serves: as long as the file *)
(* has not been read since, the flag is up or the reload is about to begin *)
HupNotLost == owed => sighup \/ pc = "reload"

(* The control core is held by a client that does not read a long answer *)
Stuck ==
  /\ pc \in {"send", "newline"} /\ Waits(serving)
  /\ pc = "newline" => answer[serving] = "cut"

(* ... and it is served, although it may come between the test of the flag *)
(* and epoll_wait, unless the program ends or the loop has broken off      *)
HupServed == owed /\ exit = Running ~> ~owed \/ forceQuit \/ pc = "off" \/ exit # Running \/ Stuck

(* SIGINT ends the process, its cores, its clients and its ports with it *)
QuitExits == forceQuit ~> exit # Running \/ Stuck

(* Every fw_ctl that began ends, behind clients that send nothing or half  *)
(* a request, and when the server goes away                                *)
FwCtlEnds == \A c \in Clients : IsFwCtl(c) ~> Gone(c) \/ Stuck
=============================================================================
