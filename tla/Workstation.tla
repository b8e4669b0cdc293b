---------------------------- MODULE Workstation ----------------------------
(***************************************************************************)
(* The print agent's process on a workstation, as the desktop manager      *)
(* controls it (src-tauri/agent.rs, commands.rs) and shows it              *)
(* (desktop/main.tsx, lib/ipc.ts).                                         *)
(*                                                                         *)
(* Every start, stop and restart runs on a thread of its own: each look at *)
(* the process list, spawn, kill and file write of it is a step.  A button *)
(* can be pressed again, and the tray's menu used, while one is under way. *)
(*                                                                         *)
(* External, as the code uses it: Windows lists the running processes by   *)
(* image name, gives a new process an id no running one has, and may stop  *)
(* or refuse to stop the service.  Processes of other programs are not     *)
(* modelled.                                                               *)
(***************************************************************************)
EXTENDS Integers, FiniteSets

CONSTANTS Pids,          \* process ids
          NoPid,         \* no ownership record
          Threads,       \* commands that can be under way at once
          MaxReads       \* status questions under way at once

ASSUME WorkstationAssumption == NoPid \notin Pids /\ MaxReads \in Nat

VARIABLES
  processes,      \* running background processes OdooPrintAgent.exe
  service,        \* the Windows service: "absent", "stopped" or "running"
  pidFile,        \* the ownership record: the id written last, or NoPid
  command,        \* per thread: what it runs, and how far
  overlapped,     \* whether two commands were ever under way together
  reads,          \* status answers under way to the window: how many of each
  shownRunning    \* what the window shows

workstationVars == <<processes, service, pidFile, command, overlapped, reads, shownRunning>>

Rest == [kind |-> "none", step |-> "none", pid |-> NoPid]

WorkstationTypeOK ==
  /\ processes \subseteq Pids
  /\ service \in {"absent", "stopped", "running"}
  /\ pidFile \in Pids \cup {NoPid}
  /\ command \in [Threads -> [kind : {"none", "setup", "start", "stop", "restart"},
                              step : {"none", "stop", "kill", "wait", "clear",
                                      "start", "spawn", "persist"},
                              pid : Pids \cup {NoPid}]]
  /\ overlapped \in BOOLEAN /\ shownRunning \in BOOLEAN
  /\ reads \in [BOOLEAN -> 0 .. MaxReads]

(* is_running: the service reports RUNNING, or the process list names the  *)
(* image.  The service runs the same image.                                *)
Running == service = "running" \/ processes # {}

(* The manager has been opened and its setup is about to start the agent.  *)
WorkstationInit ==
  /\ processes = {} /\ pidFile = NoPid
  /\ service \in {"absent", "stopped", "running"}
  /\ \E t \in Threads :
       command = [u \in Threads |-> IF u = t THEN [Rest EXCEPT !.kind = "setup", !.step = "start"]
                                             ELSE Rest]
  /\ overlapped = FALSE
  /\ reads = [shown \in BOOLEAN |-> 0] /\ shownRunning = FALSE

KeepWindow == UNCHANGED <<overlapped, reads, shownRunning>>
KeepAgents == UNCHANGED <<processes, service, pidFile>>

Busy(t) == command[t] # Rest
At(t, step) == command[t].step = step
GoesTo(t, step) == command' = [command EXCEPT ![t].step = step]

(* What the window does when a command has succeeded: it asks for the      *)
(* status, and is told what was so at some moment before the answer.       *)
Asks == reads' = [reads EXCEPT ![Running] = IF @ < MaxReads THEN @ + 1 ELSE @]

Fails(t) == command' = [command EXCEPT ![t] = Rest] /\ UNCHANGED reads
Succeeds(t) == command' = [command EXCEPT ![t] = Rest] /\ Asks

(* The end of the stop half: a restart goes on to its start half.          *)
Stopped(t) ==
  IF command[t].kind = "restart" THEN GoesTo(t, "start") /\ UNCHANGED reads ELSE Succeeds(t)

(* startAgent, stopAgent, restartAgent, once the setup is over: no button  *)
(* is disabled meanwhile.                                                  *)
Command(t, kind) ==
  /\ ~Busy(t) /\ \A u \in Threads : command[u].kind # "setup"
  /\ command' = [command EXCEPT ![t] =
                   [Rest EXCEPT !.kind = kind, !.step = IF kind = "start" THEN "start" ELSE "stop"]]
  /\ overlapped' = (overlapped \/ \E u \in Threads : Busy(u))
  /\ KeepAgents /\ UNCHANGED <<reads, shownRunning>>

(* start: nothing to do where one is running.  Else the service is         *)
(* preferred, and a background process is the fallback.                    *)
StartLooks(t) ==
  /\ At(t, "start")
  /\ UNCHANGED <<processes, pidFile, overlapped, shownRunning>>
  /\ \/ Running /\ Succeeds(t) /\ UNCHANGED service
     \/ ~Running /\ service = "stopped" /\ service' = "running" /\ Succeeds(t)
     \/ ~Running /\ GoesTo(t, "spawn") /\ UNCHANGED <<service, reads>>

Spawn(t) ==
  /\ At(t, "spawn")
  /\ \E pid \in Pids \ processes :
       /\ processes' = processes \cup {pid}
       /\ command' = [command EXCEPT ![t].step = "persist", ![t].pid = pid]
  /\ UNCHANGED <<service, pidFile>> /\ KeepWindow

(* Slip: the error is reported and the child left alone.                   *)
PersistNoReconcile(t) ==
  /\ At(t, "persist")
  /\ UNCHANGED <<service, processes, overlapped, shownRunning>>
  /\ \/ pidFile' = command[t].pid /\ Succeeds(t)
     \/ Fails(t) /\ UNCHANGED pidFile

(* spawn_persist_or_reconcile: an agent whose record cannot be written is  *)
(* killed before the error is reported.                                    *)
Persist(t) ==
  /\ At(t, "persist")
  /\ UNCHANGED <<service, overlapped, shownRunning>>
  /\ \/ pidFile' = command[t].pid /\ Succeeds(t) /\ UNCHANGED processes
     \/ processes' = processes \ {command[t].pid} /\ Fails(t) /\ UNCHANGED pidFile

(* stop: the service by `net stop`, a background process by its record; a  *)
(* running one without a record is refused.                                *)
StopLooks(t) ==
  /\ At(t, "stop")
  /\ UNCHANGED <<processes, pidFile, overlapped, shownRunning>>
  /\ \/ ~Running /\ Stopped(t) /\ UNCHANGED service
     \/ service = "running" /\ service' = "stopped" /\ Stopped(t)
     \/ service = "running" /\ Fails(t) /\ UNCHANGED service
     \/ service # "running" /\ processes # {} /\ pidFile = NoPid /\ Fails(t) /\ UNCHANGED service
     \/ /\ service # "running" /\ processes # {} /\ pidFile # NoPid
        /\ command' = [command EXCEPT ![t].step = "kill", ![t].pid = pidFile]
        /\ UNCHANGED <<service, reads>>

(* The polite taskkill: the process may go at once, later or never, and    *)
(* whether the request succeeded is only logged.                           *)
Kill(t) ==
  /\ At(t, "kill")
  /\ processes' \in {processes, processes \ {command[t].pid}}
  /\ GoesTo(t, "wait")
  /\ UNCHANGED <<service, pidFile>> /\ KeepWindow

(* After the grace window the recorded process is killed by force; where   *)
(* that fails, because it is not the one still running, so does the stop.  *)
Wait(t) ==
  /\ At(t, "wait")
  /\ UNCHANGED <<service, pidFile, overlapped, shownRunning>>
  /\ \/ ~Running /\ GoesTo(t, "clear") /\ UNCHANGED <<processes, reads>>
     \/ /\ Running /\ command[t].pid \in processes
        /\ processes' = processes \ {command[t].pid}
        /\ GoesTo(t, "clear") /\ UNCHANGED reads
     \/ Running /\ Fails(t) /\ UNCHANGED processes

Clear(t) ==
  /\ At(t, "clear")
  /\ pidFile' = NoPid
  /\ Stopped(t)
  /\ UNCHANGED <<processes, service, overlapped, shownRunning>>

Goes(t) == \/ StartLooks(t) \/ Spawn(t) \/ Persist(t)
           \/ StopLooks(t) \/ Kill(t) \/ Wait(t) \/ Clear(t)

(* An agent ends by itself, or a service is stopped behind the manager.    *)
AgentExits ==
  /\ \/ \E pid \in processes : processes' = processes \ {pid} /\ UNCHANGED service
     \/ service = "running" /\ service' = "stopped" /\ UNCHANGED processes
  /\ UNCHANGED <<pidFile, command>> /\ KeepWindow

(* refreshStatus, every 30 seconds.                                        *)
RefreshStatus ==
  /\ reads[Running] < MaxReads
  /\ Asks
  /\ KeepAgents /\ UNCHANGED <<command, overlapped, shownRunning>>

(* Answers may overtake each other.                                        *)
StatusAnswered(answer) ==
  /\ reads[answer] > 0
  /\ reads' = [reads EXCEPT ![answer] = @ - 1]
  /\ shownRunning' = answer
  /\ KeepAgents /\ UNCHANGED <<command, overlapped>>

(* No agent is left unowned: as long as commands were given one after      *)
(* another, at most one agent runs, and a background one whose start is    *)
(* over is the recorded one, which stop can end: whichever agents died,    *)
(* records could not be written and kills or service calls failed.         *)
AgentIsOwned ==
  ~overlapped =>
    /\ Cardinality(processes) + (IF service = "running" THEN 1 ELSE 0) <= 1
    /\ (\A t \in Threads : ~At(t, "persist")) => processes \subseteq {pidFile}
=============================================================================
