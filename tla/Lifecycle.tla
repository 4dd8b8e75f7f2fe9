----------------------------- MODULE Lifecycle -----------------------------
(***************************************************************************)
(* The life of the process: main of src/main.c from its arguments to its   *)
(* return, port_init_all and port_stop_all of src/port.c, and the cores it *)
(* launches.  Any step of the initialisation may fail and ends the process *)
(* with rte_exit, which is one step as long as no core forwards; after the *)
(* launch of the second core has failed it is several, and the first goes  *)
(* on meanwhile.  A signal that comes before its handler is installed      *)
(* kills the process.  What the control core does between launch and       *)
(* shutdown is ControlPlane.                                               *)
(*                                                                         *)
(* EAL and ethdev are external.  A port that cannot be made promiscuous or *)
(* whose link stays down is used all the same.                             *)
(***************************************************************************)
EXTENDS Integers, FiniteSets, Sequences

CONSTANTS
  Modes,       \* values of hairpin_mode
  MaxFaults    \* bound of the system calls that fail

ASSUME LifeAssumption == Modes \subseteq BOOLEAN /\ MaxFaults \in Nat

VARIABLES
  hairpin,     \* hairpin_mode: one port, one forwarding core
  stage,       \* the step main is at
  exit,        \* how the process ended, or Running
  port,        \* the ports of ethdev
  lcore,       \* the forwarding cores of EAL
  forceQuit,   \* g_force_quit
  faults       \* history: system calls that failed

lifeVars == <<hairpin, stage, exit, port, lcore, forceQuit, faults>>

Running == -1
Killed == 2

PortIds == IF hairpin THEN {0} ELSE {0, 1}
Cores == IF hairpin THEN {1} ELSE {1, 2}
PortIn(c) == c - 1
PortOut(c) == IF hairpin THEN 0 ELSE 2 - c

LifeInit ==
  /\ hairpin \in Modes
  /\ stage = "args"
  /\ exit = Running
  /\ port = [p \in {0, 1} |-> "closed"]
  /\ lcore = [c \in {1, 2} |-> "waiting"]
  /\ forceQuit = FALSE
  /\ faults = 0

Fault == faults < MaxFaults /\ faults' = faults + 1

Exit(code) == exit' = code /\ stage' = "exited"

At(s) == stage = s /\ exit = Running

-----------------------------------------------------------------------------
(* Initialisation                                                          *)

(* prescan_args and extract_pci_addrs, rte_eal_init, fw_log_init, the      *)
(* check of the lcores, rule_engine_init: done, or the end                 *)
Checked == {"args", "eal", "config", "lcores", "rules"}

After(s) ==
  CASE s = "args" -> "eal" [] s = "eal" -> "config" [] s = "config" -> "lcores"
    [] s = "lcores" -> "ports" [] s = "rules" -> "ddos"

StepDone ==
  /\ exit = Running /\ stage \in Checked
  /\ stage' = After(stage)
  /\ UNCHANGED <<hairpin, exit, port, lcore, forceQuit, faults>>

StepFails ==
  /\ exit = Running /\ stage \in Checked
  /\ Fault /\ Exit(1)
  /\ UNCHANGED <<hairpin, port, lcore, forceQuit>>

Unstarted == {p \in PortIds : port[p] # "started"}

(* port_init_all: one port after the other *)
StartPort(p) ==
  /\ At("ports")
  /\ p \in Unstarted /\ \A q \in Unstarted : p <= q
  /\ port' = [port EXCEPT ![p] = "started"]
  /\ stage' = IF Unstarted = {p} THEN "rules" ELSE stage
  /\ UNCHANGED <<hairpin, exit, lcore, forceQuit, faults>>

(* The number of ports is another, there is no pool, port_configure or     *)
(* rte_eth_dev_start fails: the ports that were started stay so            *)
PortFails ==
  /\ At("ports")
  /\ Fault /\ Exit(1)
  /\ UNCHANGED <<hairpin, port, lcore, forceQuit>>

(* ddos_init and meter_init_all report nothing *)
DdosInit ==
  /\ At("ddos")
  /\ stage' = "signals"
  /\ UNCHANGED <<hairpin, exit, port, lcore, forceQuit, faults>>

InstallHandlers ==
  /\ At("signals")
  /\ stage' = "launch"
  /\ UNCHANGED <<hairpin, exit, port, lcore, forceQuit, faults>>

Unlaunched == {c \in Cores : lcore[c] = "waiting"}

(* rte_eal_remote_launch of pipeline_lcore_main *)
Launch(c) ==
  /\ At("launch")
  /\ c \in Unlaunched /\ \A d \in Unlaunched : c <= d
  /\ lcore' = [lcore EXCEPT ![c] = "running"]
  /\ stage' = IF Unlaunched = {c} THEN "serve" ELSE stage
  /\ UNCHANGED <<hairpin, exit, port, forceQuit, faults>>

LaunchFails ==
  /\ At("launch")
  /\ Fault /\ stage' = "cleanup"
  /\ UNCHANGED <<hairpin, exit, port, lcore, forceQuit>>

(* rte_exit: rte_eal_cleanup may take the ports away, and does not wait    *)
(* for a core that was launched                                            *)
TakePort(p) ==
  /\ At("cleanup")
  /\ port[p] = "started" /\ port' = [port EXCEPT ![p] = "stopped"]
  /\ UNCHANGED <<hairpin, stage, exit, lcore, forceQuit, faults>>

CleanedUp ==
  /\ At("cleanup")
  /\ Exit(1)
  /\ UNCHANGED <<hairpin, port, lcore, forceQuit, faults>>

-----------------------------------------------------------------------------
(* A forwarding core leaves its loop *)
CoreQuits(c) ==
  /\ exit = Running /\ lcore[c] = "running" /\ forceQuit
  /\ lcore' = [lcore EXCEPT ![c] = "finished"]
  /\ UNCHANGED <<hairpin, stage, exit, port, forceQuit, faults>>

(* Shutdown *)

OneCoreDone == \E c \in Cores : lcore[c] = "finished"
CoresDone == \A c \in Cores : lcore[c] = "finished"

(* rte_eal_wait_lcore *)
WaitLcores ==
  /\ At("wait") /\ CoresDone
  /\ stage' = "stop"
  /\ UNCHANGED <<hairpin, exit, port, lcore, forceQuit, faults>>

(* port_stop_all, and the return of main after the last port *)
StopPort(p) ==
  /\ At("stop")
  /\ p \in PortIds \ Unstarted /\ \A q \in PortIds \ Unstarted : p <= q
  /\ port' = [port EXCEPT ![p] = "stopped"]
  /\ IF PortIds \ Unstarted = {p} THEN Exit(0) ELSE UNCHANGED <<stage, exit>>
  /\ UNCHANGED <<hairpin, lcore, forceQuit, faults>>

Main ==
  \/ StepDone \/ StepFails
  \/ (\E p \in {0, 1} : StartPort(p) \/ StopPort(p) \/ TakePort(p)) \/ PortFails
  \/ DdosInit \/ InstallHandlers
  \/ (\E c \in {1, 2} : Launch(c)) \/ LaunchFails \/ CleanedUp
  \/ WaitLcores

(* The handlers are there *)
Handled == exit = Running /\ stage \in {"launch", "serve", "wait", "stop", "cleanup"}

(* handle_sigint, or the default action of SIGINT and SIGTERM *)
SigInt == Handled /\ forceQuit' = TRUE /\ UNCHANGED <<hairpin, stage, exit, port, lcore, faults>>

DefaultAction ==
  /\ exit = Running /\ ~Handled
  /\ Exit(Killed)
  /\ UNCHANGED <<hairpin, port, lcore, forceQuit, faults>>

-----------------------------------------------------------------------------
LifeTypeOK ==
  /\ hairpin \in BOOLEAN
  /\ stage \in Checked \cup
       {"ports", "ddos", "signals", "launch", "serve", "wait", "stop", "cleanup", "exited"}
  /\ exit \in {Running, 0, 1, Killed} /\ (exit = Running <=> stage # "exited")
  /\ port \in [{0, 1} -> {"closed", "started", "stopped"}]
  /\ lcore \in [{1, 2} -> {"waiting", "running", "finished"}]
  /\ forceQuit \in BOOLEAN
  /\ faults \in 0 .. MaxFaults

(* A core that forwards has both its ports started: it is not launched     *)
(* before port_init_all is through with them, whatever fails, and is gone  *)
(* before port_stop_all closes the first.  It is not so when the launch of *)
(* the second core fails: rte_exit then takes the ports from under the     *)
(* first.                                                                  *)
CoresHaveTheirPorts ==
  \A c \in Cores :
    exit = Running /\ lcore[c] = "running" /\ stage # "cleanup" =>
      port[PortIn(c)] = "started" /\ port[PortOut(c)] = "started"
=============================================================================
