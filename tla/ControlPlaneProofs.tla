------------------------- MODULE ControlPlaneProofs -------------------------
(***************************************************************************)
(* Proofs about ControlPlane and Lifecycle, for any number of clients, any *)
(* calls and any number of faults: the types (TypeCorrect), ports outlive  *)
(* the cores that use them (PortsOutliveCores), no SIGHUP is lost          *)
(* (SigHupKept), and what fw_ctl returns is true (ExitsAreTrue).           *)
(***************************************************************************)
EXTENDS ControlPlane, TLAPS

(* Every step of the life of the process that main or a core takes, or a   *)
(* signal, and every step that leaves it alone                             *)
LifeStep ==
  \/ StepDone \/ StepFails \/ PortFails \/ DdosInit \/ InstallHandlers \/ LaunchFails
  \/ CleanedUp \/ WaitLcores
  \/ \E p \in {0, 1} : StartPort(p) \/ StopPort(p) \/ TakePort(p)
  \/ \E c \in {1, 2} : Launch(c) \/ CoreQuits(c)
  \/ SigInt \/ DefaultAction

(* What the control core and the clients do to the life of the process:    *)
(* they may meet a fault, and the loop of the control core ends            *)
Serving ==
  /\ UNCHANGED <<hairpin, exit, port, lcore, forceQuit>>
  /\ faults' \in {faults, faults + 1} /\ (faults' # faults => faults < MaxFaults)
  /\ stage' = stage \/ (stage = "serve" /\ stage' = "wait" /\ exit = Running)

LEMMA LifeSteps ==
  ASSUME [Next]_vars
  PROVE  LifeStep \/ Serving
<1>1. CASE Main /\ UNCHANGED controlVars
  BY <1>1 DEF Main, LifeStep
<1>2. CASE \E c \in {1, 2} : CoreQuits(c) /\ UNCHANGED controlVars
  BY <1>2 DEF LifeStep
<1>3. CASE ControlCore
  BY <1>3 DEF ControlCore, Serving, lifeVars, CreateSocket, CreateFails, EpollCreate, EpollFails,
       Top, TestHup, ReadFile, Reload, PollTimeout, PollFails, Accept, AcceptFails, RecvNothing,
       Recv, Dispatch, Send, SendNewline, Close, Closing, Server, At, Fault
<1>4. CASE Quit \/ Kill
  BY <1>4 DEF Quit, Kill, LifeStep
<1>5. CASE Hup
  BY <1>5 DEF Hup, Serving, lifeVars
<1>6. CASE \E c \in Clients :
             (\E k \in Calls[c] : Begin(c, k)) \/ FwCtl(c) \/ RawSends(c) \/ RawCloses(c)
  BY <1>6 DEF Serving, Begin, FwCtl, Connect, ConnectFails, SendRequest, EndRequest, Reply,
       RawSends, RawCloses, clientRest, lifeVars
<1>7. CASE UNCHANGED vars
  BY <1>7 DEF vars, Serving, lifeVars
<1>. QED BY <1>1, <1>2, <1>3, <1>4, <1>5, <1>6, <1>7 DEF Next

-----------------------------------------------------------------------------
(* Ports outlive the cores that use them *)

(* The ports are started before rule_engine_init and stay so until the     *)
(* cores have been waited for; a core runs only in between                 *)
PortInv ==
  /\ stage \in {"rules", "ddos", "signals", "launch", "serve", "wait"} =>
       \A p \in PortIds : port[p] = "started"
  /\ \A c \in {1, 2} : exit = Running /\ lcore[c] = "running" =>
       c \in Cores /\ stage \in {"launch", "serve", "wait", "cleanup"}

LifeInv == LifeTypeOK /\ PortInv

LEMMA LifeInit_Inv == Init => LifeInv
<1>. SUFFICES ASSUME LifeInit PROVE LifeInv
  BY DEF Init
<1>1. LifeTypeOK
  <2>1. hairpin \in BOOLEAN /\ forceQuit \in BOOLEAN BY LifeAssumption DEF LifeInit
  <2>2. faults \in 0 .. MaxFaults BY LifeAssumption DEF LifeInit
  <2>3. /\ port \in [{0, 1} -> {"closed", "started", "stopped"}]
        /\ lcore \in [{1, 2} -> {"waiting", "running", "finished"}]
    BY DEF LifeInit
  <2>4. stage = "args" /\ exit = Running BY DEF LifeInit
  <2>. QED BY <2>1, <2>2, <2>3, <2>4 DEF LifeTypeOK, Checked, Running
<1>2. PortInv BY DEF LifeInit, PortInv
<1>. QED BY <1>1, <1>2 DEF LifeInv

LEMMA LifeTypes ==
  ASSUME LifeTypeOK, LifeStep \/ Serving
  PROVE  LifeTypeOK'
<1>1. CASE StepDone
  BY <1>1 DEF LifeTypeOK, StepDone, Checked, After, Running
<1>2. CASE StepFails \/ PortFails \/ LaunchFails \/ CleanedUp
  BY <1>2, LifeAssumption
     DEF LifeTypeOK, StepFails, PortFails, LaunchFails, CleanedUp, At, Fault, Exit, Running
<1>3. CASE DdosInit \/ InstallHandlers \/ WaitLcores
  BY <1>3 DEF LifeTypeOK, DdosInit, InstallHandlers, WaitLcores, At, Checked, Running
<1>4. ASSUME NEW p \in {0, 1}, StartPort(p) \/ StopPort(p) \/ TakePort(p)
      PROVE  LifeTypeOK'
  BY <1>4 DEF LifeTypeOK, StartPort, StopPort, TakePort, At, Exit, Checked, Running
<1>5. ASSUME NEW c \in {1, 2}, Launch(c) \/ CoreQuits(c)
      PROVE  LifeTypeOK'
  BY <1>5 DEF LifeTypeOK, Launch, CoreQuits, At, Checked, Running
<1>6. CASE SigInt
  BY <1>6 DEF LifeTypeOK, SigInt
<1>7. CASE DefaultAction
  BY <1>7 DEF LifeTypeOK, DefaultAction, Exit, Running, Killed
<1>8. CASE Serving
  BY <1>8, LifeAssumption DEF LifeTypeOK, Serving, Checked, Running
<1>. QED BY <1>1, <1>2, <1>3, <1>4, <1>5, <1>6, <1>7, <1>8 DEF LifeStep

LEMMA LifePorts ==
  ASSUME LifeInv, LifeStep \/ Serving
  PROVE  PortInv'
<1>. USE DEF LifeInv, PortInv, PortIds, Cores
<1>1. CASE StepDone
  BY <1>1 DEF StepDone, Checked, After
<1>2. CASE StepFails \/ PortFails \/ LaunchFails \/ CleanedUp
  BY <1>2 DEF StepFails, PortFails, LaunchFails, CleanedUp, At, Fault, Exit, Running
<1>3. CASE DdosInit \/ InstallHandlers
  BY <1>3 DEF DdosInit, InstallHandlers, At
<1>4. ASSUME NEW p \in {0, 1}, StartPort(p)
      PROVE  PortInv'
  BY <1>4 DEF StartPort, Unstarted, At, LifeTypeOK
<1>5. ASSUME NEW p \in {0, 1}, StopPort(p) \/ TakePort(p)
      PROVE  PortInv'
  <2>1. \/ stage = "stop" /\ stage' \in {"stop", "exited"}
        \/ stage = "cleanup" /\ stage' = "cleanup"
    BY <1>5 DEF StopPort, TakePort, Exit, At
  <2>2. UNCHANGED <<hairpin, lcore>> /\ (exit' = Running => exit = Running)
    BY <1>5 DEF StopPort, TakePort, Exit, At, Running
  <2>. QED BY <2>1, <2>2
<1>6. ASSUME NEW c \in {1, 2}, Launch(c)
      PROVE  PortInv'
  BY <1>6 DEF Launch, Unlaunched, At, LifeTypeOK
<1>7. ASSUME NEW c \in {1, 2}, CoreQuits(c)
      PROVE  PortInv'
  BY <1>7 DEF CoreQuits, LifeTypeOK
<1>8. CASE WaitLcores
  (* every core has finished: none is running *)
  <2>1. \A c \in {1, 2} : lcore[c] # "running" BY <1>8 DEF WaitLcores, CoresDone, At
  <2>. QED BY <1>8, <2>1 DEF WaitLcores
<1>9. CASE SigInt \/ DefaultAction
  BY <1>9 DEF SigInt, DefaultAction, Exit, Killed, Running
<1>10. CASE Serving
  BY <1>10 DEF Serving
<1>. QED BY <1>1, <1>2, <1>3, <1>4, <1>5, <1>6, <1>7, <1>8, <1>9, <1>10 DEF LifeStep

LEMMA LifeStable == LifeInv /\ [Next]_vars => LifeInv'
BY LifeSteps, LifeTypes, LifePorts DEF LifeInv

LEMMA LifeInvariant == Spec => []LifeInv
BY LifeInit_Inv, LifeStable, PTL DEF Spec

(* No core forwards between ports that have not been started or are        *)
(* closed, but for the one that is left when rte_exit follows a launch     *)
(* that failed                                                             *)
THEOREM PortsOutliveCores == Spec => []CoresHaveTheirPorts
<1>1. LifeInv => CoresHaveTheirPorts
  BY DEF LifeInv, PortInv, CoresHaveTheirPorts, LifeTypeOK, Cores, PortIds, PortIn, PortOut
<1>. QED BY <1>1, LifeInvariant, PTL

-----------------------------------------------------------------------------
(* No SIGHUP is lost *)

LEMMA HupStable ==
  ASSUME HupNotLost, [Next]_vars
  PROVE  HupNotLost'
<1>. USE DEF HupNotLost
<1>1. CASE Main /\ UNCHANGED controlVars
  BY <1>1 DEF controlVars, serverVars
<1>2. CASE \E c \in {1, 2} : CoreQuits(c) /\ UNCHANGED controlVars
  BY <1>2 DEF controlVars, serverVars
<1>3. CASE ControlCore
  BY <1>3 DEF ControlCore, CreateSocket, CreateFails, EpollCreate, EpollFails, Top, TestHup,
       ReadFile, Reload, HupAfterReload, PollTimeout, PollFails, Accept, AcceptFails,
       AfterAcceptFails, RecvNothing, Recv, Dispatch, Send, SendNewline, Close, Closing, Server
<1>4. CASE Quit
  BY <1>4 DEF Quit, Interrupted, Server
<1>5. CASE Hup
  BY <1>5 DEF Hup
<1>6. CASE Kill
  BY <1>6 DEF Kill, controlVars, serverVars
<1>7. CASE \E c \in Clients :
             (\E k \in Calls[c] : Begin(c, k)) \/ FwCtl(c) \/ RawSends(c) \/ RawCloses(c)
  <2>1. UNCHANGED clientRest
    BY <1>7 DEF Begin, FwCtl, Connect, ConnectFails, SendRequest, EndRequest, Reply,
         RawSends, RawCloses
  <2>. QED BY <2>1 DEF clientRest
<1>8. CASE UNCHANGED vars
  BY <1>8 DEF vars, controlVars, serverVars
<1>. QED BY <1>1, <1>2, <1>3, <1>4, <1>5, <1>6, <1>7, <1>8 DEF Next

(* As long as the file has not been read since the last SIGHUP, the flag   *)
(* is up or the reload is about to begin                                   *)
THEOREM SigHupKept == Spec => []HupNotLost
<1>1. Init => HupNotLost BY DEF Init, HupNotLost
<1>. QED BY <1>1, HupStable, PTL DEF Spec

-----------------------------------------------------------------------------
(* Types *)

ControlTypes ==
  /\ pc \in ServerPcs
  /\ sighup \in BOOLEAN /\ listening \in BOOLEAN /\ owed \in BOOLEAN
  /\ queue \in Seq(Clients)
  /\ serving \in Clients \cup {NoClient}
  /\ pc \in {"recv", "dispatch", "send", "newline", "close"} <=> serving \in Clients
  /\ client \in [Clients -> ClientPcs]
  /\ call \in [Clients -> CallType \cup {NoCall}]
  /\ conn \in [Clients -> {None, "queued", "open", "closed"}]
  /\ sent \in [Clients -> {None, "part", "all"}]
  /\ answer \in [Clients -> {None, "ok", "error", "cut"}]
  /\ result \in [Clients -> {None, "ok", "error"}]

LEMMA TypeInit == Init => TypeOK
<1>. SUFFICES ASSUME Init PROVE ControlTypes
  BY LifeInit_Inv DEF TypeOK, ControlTypes, LifeInv
<1>1. sighup \in BOOLEAN /\ listening \in BOOLEAN /\ owed \in BOOLEAN BY DEF Init
<1>2. queue \in Seq(Clients) BY DEF Init
<1>. QED BY <1>1, <1>2, CallAssumption DEF Init, ControlTypes, ServerPcs, ClientPcs, None

(* The steps between two connections leave the conversations alone *)
talkVars == <<queue, serving, clientVars>>
ServingPcs == {"recv", "dispatch", "send", "newline", "close"}

Between ==
  /\ UNCHANGED talkVars
  /\ pc \notin ServingPcs /\ pc' \in ServerPcs \ ServingPcs
  /\ sighup' \in {sighup, FALSE} /\ listening' \in {listening, TRUE} /\ owed' \in {owed, FALSE}

BetweenStep ==
  \/ CreateSocket \/ CreateFails \/ EpollCreate \/ Top \/ TestHup \/ ReadFile \/ Reload
  \/ PollTimeout \/ PollFails \/ AcceptFails

LEMMA BetweenSteps == BetweenStep => Between
BY DEF BetweenStep, Between, talkVars, clientVars, ServingPcs, ServerPcs, Server, CreateSocket,
     CreateFails, EpollCreate, Top, TestHup, AfterHup, ReadFile, Reload, HupAfterReload,
     PollTimeout, PollFails, AcceptFails, AfterAcceptFails

Silent == UNCHANGED controlVars

LEMMA SilentSteps ==
  (Main /\ UNCHANGED controlVars) \/ (\E c \in {1, 2} : CoreQuits(c) /\ UNCHANGED controlVars)
  \/ Kill \/ UNCHANGED vars => Silent
BY DEF Kill, vars, Silent

LEMMA ServerTypes ==
  ASSUME ControlTypes, ControlCore
  PROVE  ControlTypes'
<1>. USE DEF ControlTypes, ServerPcs, Server
<1>1. CASE BetweenStep
  BY <1>1, BetweenSteps DEF Between, talkVars, clientVars, ServingPcs
<1>2. CASE EpollFails \/ Closing
  <2>1. conn' \in [Clients -> {None, "queued", "open", "closed"}]
    BY <1>2 DEF EpollFails, Closing, CloseSocket
  <2>2. queue' = <<>> /\ listening' = FALSE
    BY <1>2 DEF EpollFails, Closing, CloseSocket
  <2>3. queue' \in Seq(Clients) BY <2>2
  <2>4. listening' \in BOOLEAN BY <2>2
  <2>. QED BY <1>2, <2>1, <2>3, <2>4 DEF EpollFails, Closing
<1>3. CASE Accept
  <2>1. Head(queue) \in Clients /\ Tail(queue) \in Seq(Clients) BY <1>3 DEF Accept
  <2>. QED BY <1>3, <2>1 DEF Accept
<1>4. CASE RecvNothing \/ SendNewline
  BY <1>4 DEF RecvNothing, SendNewline, clientVars
<1>5. CASE Recv
  BY <1>5 DEF Recv
<1>6. CASE Dispatch
  <2>1. owed' \in BOOLEAN BY <1>6 DEF Dispatch
  <2>2. \A k : Statuses(k) \subseteq {"ok", "error"} BY DEF Statuses
  <2>. QED BY <1>6, <2>1, <2>2 DEF Dispatch
<1>7. CASE Send
  BY <1>7 DEF Send
<1>8. CASE Close
  BY <1>8, CallAssumption DEF Close
<1>. QED BY <1>1, <1>2, <1>3, <1>4, <1>5, <1>6, <1>7, <1>8 DEF ControlCore, BetweenStep

LEMMA SignalTypes ==
  ASSUME ControlTypes, Quit \/ Hup
  PROVE  ControlTypes'
<1>1. UNCHANGED rest /\ sighup' \in {sighup, TRUE} /\ owed' \in {owed, TRUE}
  BY DEF Quit, Hup
<1>2. /\ pc' \in ServerPcs /\ answer' \in [Clients -> {None, "ok", "error", "cut"}]
      /\ pc' \in ServingPcs <=> pc \in ServingPcs
  BY DEF ControlTypes, Quit, Hup, Interrupted, Server, ServerPcs, ServingPcs
<1>. QED BY <1>1, <1>2 DEF ControlTypes, rest, ServingPcs

LEMMA ClientTypes ==
  ASSUME ControlTypes, NEW c \in Clients,
         (\E k \in Calls[c] : Begin(c, k)) \/ FwCtl(c) \/ RawSends(c) \/ RawCloses(c)
  PROVE  ControlTypes'
<1>1. UNCHANGED <<pc, sighup, listening, serving, result, owed>>
  <2>1. UNCHANGED clientRest
    BY DEF Begin, FwCtl, Connect, ConnectFails, SendRequest, EndRequest, Reply, RawSends, RawCloses
  <2>. QED BY <2>1 DEF clientRest
<1>. USE <1>1 DEF ControlTypes, ClientPcs
<1>2. CASE \E k \in Calls[c] : Begin(c, k)
  <2>1. PICK k \in Calls[c] : Begin(c, k) BY <1>2
  <2>2. k \in CallType BY CallAssumption
  <2>. QED BY <2>1, <2>2 DEF Begin
<1>3. CASE Connect(c)
  <2>1. queue' \in Seq(Clients) BY <1>3 DEF Connect
  <2>. QED BY <1>3, <2>1 DEF Connect
<1>4. CASE ConnectFails(c) \/ SendRequest(c) \/ EndRequest(c) \/ Reply(c)
  BY <1>4 DEF ConnectFails, SendRequest, EndRequest, Reply
<1>5. CASE RawSends(c) \/ RawCloses(c)
  BY <1>5 DEF RawSends, RawCloses
<1>. QED BY <1>2, <1>3, <1>4, <1>5 DEF FwCtl

LEMMA TypeStable == TypeOK /\ [Next]_vars => TypeOK'
<1>. SUFFICES ASSUME TypeOK, [Next]_vars PROVE TypeOK'
  OBVIOUS
<1>1. LifeTypeOK /\ ControlTypes BY DEF TypeOK, ControlTypes
<1>2. LifeTypeOK' BY <1>1, LifeSteps, LifeTypes
<1>3. CASE Silent
  <2>1. ControlTypes' BY <1>1, <1>3 DEF Silent, controlVars, serverVars, clientVars, ControlTypes
  <2>. QED BY <1>2, <2>1 DEF TypeOK, ControlTypes
<1>4. CASE ControlCore \/ Quit \/ Hup
  <2>1. ControlTypes' BY <1>1, <1>4, ServerTypes, SignalTypes
  <2>. QED BY <1>2, <2>1 DEF TypeOK, ControlTypes
<1>5. ASSUME NEW c \in Clients,
             (\E k \in Calls[c] : Begin(c, k)) \/ FwCtl(c) \/ RawSends(c) \/ RawCloses(c)
      PROVE  TypeOK'
  <2>1. ControlTypes' BY <1>1, <1>5, ClientTypes
  <2>. QED BY <1>2, <2>1 DEF TypeOK, ControlTypes
<1>. QED BY <1>3, <1>4, <1>5, SilentSteps DEF Next

(* The variables of the process, the control core and the clients keep     *)
(* their types                                                             *)
THEOREM TypeCorrect == Spec => []TypeOK
BY TypeInit, TypeStable, PTL DEF Spec

-----------------------------------------------------------------------------
(* What fw_ctl returns is true *)

(* Who is connected: the server's end of the connection it serves is open, *)
(* of those in the queue it is not yet, and a client connects only once    *)
ConnInv ==
  /\ serving = NoClient <=> pc \notin {"recv", "dispatch", "send", "newline", "close"}
  /\ \A c \in Clients : conn[c] = "open" <=> serving = c
  /\ \A i \in DOMAIN queue : conn[queue[i]] = "queued"
  /\ \A i, j \in DOMAIN queue : queue[i] = queue[j] => i = j
  /\ \A c \in Clients : client[c] \in {"idle", "connect"} => conn[c] = None

(* What has been answered: an answer is the status, unless it was cut, and *)
(* a connection is closed without one only if nothing was executed         *)
AnswerInv ==
  /\ \A c \in Clients :
       /\ result[c] # None => conn[c] \in {"open", "closed"}
       /\ answer[c] \in {None, "cut", result[c]}
       /\ answer[c] = "cut" => result[c] = "ok" /\ call[c].size # "fits"
       /\ conn[c] = "closed" /\ answer[c] = None => result[c] = None
  /\ pc \in {"recv", "dispatch"} => result[serving] = None
  /\ pc \in {"recv", "dispatch", "send"} => answer[serving] = None
  /\ pc = "send" => result[serving] # None
  /\ pc = "newline" => answer[serving] # None
  /\ pc = "close" => answer[serving] # None \/ result[serving] = None

(* How clients ended: with the answer, or without one because there can be *)
(* none any more                                                           *)
ExitInv ==
  \A c \in Clients :
    /\ client[c] = "exit0" => answer[c] = "ok"
    /\ client[c] = "exit1" =>
         /\ answer[c] = None => conn[c] \in {None, "closed"}
         /\ call[c].size = "fits" => result[c] # "ok"

Talk == ConnInv /\ AnswerInv /\ ExitInv

LEMMA TalkInit == Init => Talk
<1>. SUFFICES ASSUME Init PROVE Talk
  OBVIOUS
<1>1. serving = NoClient /\ pc = "create" /\ queue = <<>> BY DEF Init
<1>2. \A c \in Clients :
        /\ client[c] = "idle" /\ conn[c] = None /\ answer[c] = None /\ result[c] = None
        /\ serving # c
  BY <1>1, CallAssumption DEF Init
<1>3. ConnInv BY <1>1, <1>2 DEF ConnInv, None
<1>4. AnswerInv BY <1>1, <1>2 DEF AnswerInv, None
<1>5. ExitInv BY <1>2 DEF ExitInv
<1>. QED BY <1>3, <1>4, <1>5 DEF Talk

(* Nothing happens to the conversations *)
LEMMA TalkQuiet ==
  ASSUME Talk, Silent \/ Between
  PROVE  Talk'
<1>1. UNCHANGED <<queue, serving, client, call, conn, answer, result>>
  BY DEF Silent, Between, controlVars, serverVars, talkVars, clientVars
<1>2. pc' = pc \/ (pc \notin ServingPcs /\ pc' \notin ServingPcs)
  BY DEF Silent, Between, controlVars, serverVars
<1>3. ConnInv' BY <1>1, <1>2 DEF Talk, ConnInv, ServingPcs
<1>4. AnswerInv' BY <1>1, <1>2 DEF Talk, AnswerInv, ServingPcs
<1>5. ExitInv' BY <1>1 DEF Talk, ExitInv
<1>. QED BY <1>3, <1>4, <1>5 DEF Talk

(* The connections that wait are reset *)
LEMMA TalkReset ==
  ASSUME ControlTypes, Talk, EpollFails \/ Closing
  PROVE  Talk'
<1>. USE DEF ControlTypes, Talk
<1>1. /\ UNCHANGED <<serving, client, call, answer, result>>
      /\ queue' = <<>>
      /\ conn' = [c \in Clients |-> IF c \in InQueue THEN "closed" ELSE conn[c]]
      /\ pc \notin ServingPcs /\ pc' \notin ServingPcs
  BY DEF EpollFails, Closing, CloseSocket, Server, ServingPcs
<1>2. \A c \in Clients : c \in InQueue => conn[c] = "queued"
  BY DEF ConnInv, InQueue
<1>3. \A c \in Clients : conn'[c] = conn[c] \/ (conn[c] = "queued" /\ conn'[c] = "closed")
  BY <1>1, <1>2
<1>4. \A c \in Clients : conn[c] = "queued" => result[c] = None /\ answer[c] = None
  BY DEF AnswerInv, None
<1>5. ConnInv' BY <1>1, <1>3 DEF ConnInv, ServingPcs, None
<1>6. AnswerInv' BY <1>1, <1>3, <1>4 DEF AnswerInv, ServingPcs
<1>7. ExitInv' BY <1>1, <1>3 DEF ExitInv
<1>. QED BY <1>5, <1>6, <1>7

LEMMA TalkAccept ==
  ASSUME ControlTypes, Talk, Accept
  PROVE  Talk'
<1>. USE DEF ControlTypes, Talk
<1>1. /\ UNCHANGED <<client, call, answer, result>>
      /\ queue # <<>> /\ serving' = Head(queue) /\ queue' = Tail(queue)
      /\ conn' = [conn EXCEPT ![Head(queue)] = "open"]
      /\ pc = "polling" /\ pc' = "recv"
  BY DEF Accept, Server
<1>2. Head(queue) \in Clients /\ Head(queue) = queue[1] /\ 1 \in DOMAIN queue
  BY <1>1
<1>3. conn[Head(queue)] = "queued" BY <1>2 DEF ConnInv
<1>4. \A i \in DOMAIN queue' : i + 1 \in DOMAIN queue /\ queue'[i] = queue[i + 1] /\ i + 1 # 1
  BY <1>1
<1>5. \A i \in DOMAIN queue' : queue'[i] \in Clients /\ queue'[i] # Head(queue)
  BY <1>2, <1>4 DEF ConnInv
<1>6. result[Head(queue)] = None /\ answer[Head(queue)] = None
  BY <1>2, <1>3 DEF AnswerInv, None
<1>7. serving = NoClient BY <1>1 DEF ConnInv
<1>8. ConnInv'
  <2>1. serving' # NoClient BY <1>1, <1>2, CallAssumption
  <2>2. \A c \in Clients : conn'[c] = "open" <=> serving' = c
    BY <1>1, <1>2, <1>7, CallAssumption DEF ConnInv
  <2>3. \A i \in DOMAIN queue' : conn'[queue'[i]] = "queued"
    BY <1>1, <1>4, <1>5 DEF ConnInv
  <2>4. \A i, j \in DOMAIN queue' : queue'[i] = queue'[j] => i = j
    <3>1. TAKE i, j \in DOMAIN queue'
    <3>2. HAVE queue'[i] = queue'[j]
    <3>3. i + 1 = j + 1 BY <1>4, <3>2 DEF ConnInv
    <3>4. i \in Nat /\ j \in Nat BY <1>1
    <3>. QED BY <3>3, <3>4
  <2>5. \A c \in Clients : client'[c] \in {"idle", "connect"} => conn'[c] = None
    BY <1>1, <1>2, <1>3 DEF ConnInv, None
  <2>. QED BY <1>1, <2>1, <2>2, <2>3, <2>4, <2>5 DEF ConnInv
<1>9. AnswerInv' BY <1>1, <1>2, <1>3, <1>6 DEF AnswerInv
<1>10. ExitInv' BY <1>1, <1>2, <1>3, <1>6 DEF ExitInv, None
<1>. QED BY <1>8, <1>9, <1>10

(* handle_client: what it does to the connection it serves, but for close *)
LEMMA TalkServe ==
  ASSUME ControlTypes, Talk, RecvNothing \/ Recv \/ Dispatch \/ Send \/ SendNewline
  PROVE  Talk'
<1>. USE DEF ControlTypes, Talk
<1>1. /\ UNCHANGED <<queue, serving, client, call, conn>>
      /\ pc \in ServingPcs /\ pc' \in ServingPcs
  BY DEF RecvNothing, Recv, Dispatch, Send, SendNewline, clientVars, Server, ServingPcs
<1>2. serving \in Clients /\ conn[serving] = "open"
  BY <1>1 DEF ConnInv, ServingPcs
<1>3. ConnInv' BY <1>1 DEF ConnInv, ServingPcs
<1>4. CASE RecvNothing \/ SendNewline
  <2>1. UNCHANGED <<answer, result>> /\ pc \in {"recv", "newline"} /\ pc' = "close"
    BY <1>4 DEF RecvNothing, SendNewline, clientVars, Server
  <2>. QED BY <1>1, <1>3, <2>1 DEF AnswerInv, ExitInv
<1>5. CASE Recv \/ Dispatch
  <2>1. /\ UNCHANGED answer /\ pc \in {"recv", "dispatch"}
        /\ \/ pc' = "dispatch" /\ result' = result
           \/ pc' = "send" /\ \E s \in {"ok", "error"} : result' = [result EXCEPT ![serving] = s]
    <3>1. \A k : Statuses(k) \subseteq {"ok", "error"} BY DEF Statuses
    <3>. QED BY <1>5, <3>1 DEF Recv, Dispatch, Server
  <2>2. result[serving] = None /\ answer[serving] = None BY <2>1 DEF AnswerInv
  <2>3. AnswerInv' BY <1>1, <1>2, <2>1, <2>2 DEF AnswerInv, None
  <2>4. ExitInv' BY <1>1, <1>2, <2>1, <2>2 DEF ExitInv, None
  <2>. QED BY <1>3, <2>3, <2>4
<1>6. CASE Send
  <2>1. /\ UNCHANGED result /\ pc = "send" /\ pc' = "newline"
        /\ answer' = [answer EXCEPT ![serving] = result[serving]]
    BY <1>6 DEF Send, Server
  <2>2. result[serving] \in {"ok", "error"} /\ answer[serving] = None
    BY <1>2, <2>1 DEF AnswerInv
  <2>3. AnswerInv' BY <1>1, <1>2, <2>1, <2>2 DEF AnswerInv, None
  <2>4. ExitInv' BY <1>1, <1>2, <2>1, <2>2 DEF ExitInv, None
  <2>. QED BY <1>3, <2>3, <2>4
<1>. QED BY <1>4, <1>5, <1>6

LEMMA TalkClose ==
  ASSUME ControlTypes, Talk, Close
  PROVE  Talk'
<1>. USE DEF ControlTypes, Talk
<1>1. /\ UNCHANGED <<queue, client, call, answer, result>>
      /\ conn' = [conn EXCEPT ![serving] = "closed"]
      /\ serving' = NoClient /\ pc = "close" /\ pc' = "top"
  BY DEF Close, Server
<1>2. serving \in Clients /\ conn[serving] = "open" BY <1>1 DEF ConnInv
<1>3. answer[serving] # None \/ result[serving] = None BY <1>1 DEF AnswerInv
<1>4. ConnInv'
  <2>1. \A i \in DOMAIN queue : queue[i] \in Clients /\ queue[i] # serving
    BY <1>2 DEF ConnInv
  <2>. QED BY <1>1, <1>2, <2>1, CallAssumption DEF ConnInv, None
<1>5. AnswerInv' BY <1>1, <1>2, <1>3 DEF AnswerInv
<1>6. ExitInv' BY <1>1, <1>2 DEF ExitInv
<1>. QED BY <1>4, <1>5, <1>6

(* A signal may cut the answer of a list that was executed *)
LEMMA TalkSignal ==
  ASSUME ControlTypes, Talk, Quit \/ Hup
  PROVE  Talk'
<1>. USE DEF ControlTypes, Talk
<1>1. UNCHANGED <<queue, serving, client, call, conn, result>>
  BY DEF Quit, Hup, rest
<1>2. \/ pc' = pc /\ answer' = answer
      \/ pc = "polling" /\ pc' = "top" /\ answer' = answer
      \/ pc \in {"recv", "newline"} /\ pc' = "close" /\ answer' = answer
      \/ /\ pc = "send" /\ pc' = "newline" /\ answer' = [answer EXCEPT ![serving] = "cut"]
         /\ result[serving] = "ok" /\ call[serving].size # "fits"
  BY DEF Quit, Hup, Interrupted, Server, Waits
<1>3. ConnInv' BY <1>1, <1>2 DEF ConnInv
<1>4. AnswerInv'
  <2>1. CASE answer' = answer
    <3>1. \/ pc' = pc \/ pc' = "top"
          \/ pc' = "close" /\ (answer[serving] # None \/ result[serving] = None)
      BY <1>2, <2>1 DEF AnswerInv, None
    <3>2. UNCHANGED <<serving, call, conn, result, answer>> BY <1>1, <2>1
    <3>. QED BY <3>1, <3>2 DEF AnswerInv
  <2>2. CASE answer' # answer
    <3>1. serving \in Clients /\ answer[serving] = None BY <1>2, <2>2 DEF AnswerInv
    <3>. QED BY <1>1, <1>2, <2>2, <3>1 DEF AnswerInv, None
  <2>. QED BY <2>1, <2>2
<1>5. ExitInv'
  <2>1. CASE answer' = answer BY <1>1, <2>1 DEF ExitInv
  <2>2. CASE answer' # answer
    <3>1. serving \in Clients /\ answer[serving] = None BY <1>2, <2>2 DEF AnswerInv
    <3>. QED BY <1>1, <1>2, <2>2, <3>1 DEF ExitInv, None
  <2>. QED BY <2>1, <2>2
<1>. QED BY <1>3, <1>4, <1>5

LEMMA TalkClient ==
  ASSUME ControlTypes, Talk, NEW c \in Clients,
         (\E k \in Calls[c] : Begin(c, k)) \/ FwCtl(c) \/ RawSends(c) \/ RawCloses(c)
  PROVE  Talk'
<1>1. UNCHANGED <<pc, serving, result>>
  <2>1. UNCHANGED clientRest
    BY DEF Begin, FwCtl, Connect, ConnectFails, SendRequest, EndRequest, Reply, RawSends, RawCloses
  <2>. QED BY <2>1 DEF clientRest
<1>. USE <1>1 DEF ControlTypes, Talk
<1>2. CASE \E k \in Calls[c] : Begin(c, k)
  <2>1. PICK k \in Calls[c] : Begin(c, k) BY <1>2
  <2>2. /\ UNCHANGED <<queue, conn, answer>> /\ call' = [call EXCEPT ![c] = k]
        /\ client[c] = "idle"
        /\ \E w \in {"exit1", "connect"} : client' = [client EXCEPT ![c] = w]
    BY <2>1 DEF Begin
  <2>3. conn[c] = None BY <2>2 DEF ConnInv
  <2>4. result[c] = None /\ answer[c] = None BY <2>3 DEF AnswerInv, None
  <2>5. ConnInv' BY <2>2, <2>3 DEF ConnInv
  <2>6. AnswerInv' BY <2>2, <2>4 DEF AnswerInv, None
  <2>7. ExitInv' BY <2>2, <2>3, <2>4 DEF ExitInv, None
  <2>. QED BY <2>5, <2>6, <2>7
<1>3. CASE Connect(c)
  <2>1. /\ UNCHANGED <<call, answer>> /\ client[c] = "connect"
        /\ queue' = Append(queue, c) /\ conn' = [conn EXCEPT ![c] = "queued"]
        /\ \E w \in {"raw", "request"} : client' = [client EXCEPT ![c] = w]
    BY <1>3 DEF Connect
  <2>2. conn[c] = None BY <2>1 DEF ConnInv
  <2>3. \A i \in DOMAIN queue : queue[i] \in Clients /\ queue[i] # c
    BY <2>2 DEF ConnInv, None
  <2>4. result[c] = None /\ answer[c] = None BY <2>2 DEF AnswerInv, None
  <2>5. ConnInv'
    <3>1. serving # c BY <2>2 DEF ConnInv, None
    <3>2. \A i \in DOMAIN queue' :
            \/ i \in DOMAIN queue /\ queue'[i] = queue[i]
            \/ i = Len(queue) + 1 /\ queue'[i] = c
      BY <2>1
    <3>3. \A i \in DOMAIN queue' : conn'[queue'[i]] = "queued"
      BY <2>1, <2>3, <3>2 DEF ConnInv
    <3>4. \A i, j \in DOMAIN queue' : queue'[i] = queue'[j] => i = j
      BY <2>3, <3>2 DEF ConnInv
    <3>. QED BY <2>1, <3>1, <3>3, <3>4 DEF ConnInv
  <2>6. AnswerInv' BY <2>1, <2>4 DEF AnswerInv
  <2>7. ExitInv' BY <2>1, <2>4 DEF ExitInv
  <2>. QED BY <2>5, <2>6, <2>7
<1>4. CASE ConnectFails(c)
  <2>1. /\ UNCHANGED <<queue, call, conn, answer>> /\ client[c] = "connect"
        /\ client' = [client EXCEPT ![c] = "exit1"]
    BY <1>4 DEF ConnectFails
  <2>2. conn[c] = None BY <2>1 DEF ConnInv
  <2>3. result[c] = None /\ answer[c] = None BY <2>2 DEF AnswerInv, None
  <2>4. ConnInv' BY <2>1 DEF ConnInv
  <2>5. AnswerInv' BY <2>1 DEF AnswerInv
  <2>6. ExitInv' BY <2>1, <2>2, <2>3 DEF ExitInv, None
  <2>. QED BY <2>4, <2>5, <2>6
<1>5. CASE Reply(c)
  <2>1. /\ UNCHANGED <<queue, call, conn, answer>>
        /\ client[c] = "reply" /\ (answer[c] # None \/ conn[c] = "closed")
        /\ \/ client' = [client EXCEPT ![c] = "exit0"] /\ answer[c] = "ok"
           \/ /\ client' = [client EXCEPT ![c] = "exit1"]
              /\ answer[c] # "ok" \/ call[c].size = "too_long"
    BY <1>5 DEF Reply, Accepted
  <2>2. answer[c] = None => result[c] = None BY <2>1 DEF AnswerInv
  <2>3. ConnInv' BY <2>1 DEF ConnInv
  <2>4. AnswerInv' BY <2>1 DEF AnswerInv
  <2>5. ExitInv' BY <2>1, <2>2 DEF ExitInv, AnswerInv, None
  <2>. QED BY <2>3, <2>4, <2>5
<1>6. CASE SendRequest(c) \/ EndRequest(c) \/ RawSends(c) \/ RawCloses(c)
  <2>1. /\ UNCHANGED <<queue, call, conn, answer>>
        /\ client[c] \notin {"idle", "connect"}
        /\ \/ UNCHANGED client
           \/ \E w \in {"sigpipe", "newline", "reply", "gone"} : client' = [client EXCEPT ![c] = w]
    BY <1>6 DEF SendRequest, EndRequest, RawSends, RawCloses
  <2>2. ConnInv' BY <2>1 DEF ConnInv
  <2>3. AnswerInv' BY <2>1 DEF AnswerInv
  <2>4. ExitInv' BY <2>1 DEF ExitInv
  <2>. QED BY <2>2, <2>3, <2>4
<1>. QED BY <1>2, <1>3, <1>4, <1>5, <1>6 DEF FwCtl

TalkInv == TypeOK /\ Talk

LEMMA TalkStable == TalkInv /\ [Next]_vars => TalkInv'
<1>. SUFFICES ASSUME TalkInv, [Next]_vars PROVE Talk'
  BY TypeStable DEF TalkInv
<1>1. ControlTypes /\ Talk BY DEF TalkInv, TypeOK, ControlTypes
<1>2. CASE ControlCore
  BY <1>1, <1>2, BetweenSteps, TalkQuiet, TalkReset, TalkAccept, TalkServe, TalkClose
     DEF ControlCore, BetweenStep
<1>3. CASE Quit \/ Hup
  BY <1>1, <1>3, TalkSignal
<1>4. CASE Silent
  BY <1>1, <1>4, TalkQuiet
<1>5. ASSUME NEW c \in Clients,
             (\E k \in Calls[c] : Begin(c, k)) \/ FwCtl(c) \/ RawSends(c) \/ RawCloses(c)
      PROVE  Talk'
  BY <1>1, <1>5, TalkClient
<1>. QED BY <1>2, <1>3, <1>4, <1>5, SilentSteps DEF Next

(* What fw_ctl returns is true: 0 when its command was executed and        *)
(* answered "ok", 1 only when it was not                                   *)
THEOREM ExitsAreTrue == Spec => []ExitIsTruth
<1>1. Init => TalkInv BY TypeInit, TalkInit DEF TalkInv
<1>2. TalkInv => ExitIsTruth
  BY DEF TalkInv, Talk, AnswerInv, ExitInv, ExitIsTruth, None
<1>. QED BY <1>1, <1>2, TalkStable, PTL DEF Spec
=============================================================================
