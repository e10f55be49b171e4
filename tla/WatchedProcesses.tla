-------------------------- MODULE WatchedProcesses --------------------------
(***************************************************************************)
(* File watching as the daemon wires it: handleStart watches the files of  *)
(* a process, a change that the FileWatcher emits restarts the processes   *)
(* that watch it, and 'processStopped' ends the watching.                  *)
(*                                                                         *)
(* The orchestrator appears as its events show it (module Orchestrator has *)
(* it in full): plain processes, each stopped or restarted by one call at  *)
(* a time.                                                                 *)
(***************************************************************************)
EXTENDS FileWatcher, FiniteSets

CONSTANTS
  Processes,  \* all of them are started with --watch
  WatchDir,   \* WatchDir[p]: the path that p watches
  Prefixed    \* Prefixed[d]: the files whose path starts with the path d

ASSUME ProcessAssumption ==
  /\ WatchDir \in [Processes -> Dirs]
  /\ Prefixed \in [Dirs -> SUBSET Files]
  /\ \A d \in Dirs : Inside[d] \subseteq Prefixed[d]

VARIABLES
  status,   \* of each process; "none" before it is started, "deleted" when the
            \* orchestrator no longer knows it
  stops,    \* the processes that a call is stopping, "stop" or "restart"
  watched,  \* the processes in watchedProcesses
  ghosts,   \* those there under an id that the orchestrator does not know
  due,      \* history: <<p, f>>, p has watched f since f was written
  isShuttingDown

daemonVars == <<status, stops, watched, ghosts, due, isShuttingDown>>
vars == <<watcherVars, daemonVars>>

Init ==
  /\ WatcherInit
  /\ status = [p \in Processes |-> "none"]
  /\ stops = [p \in Processes |-> "none"]
  /\ watched = {} /\ ghosts = {}
  /\ due = {} /\ isShuttingDown = FALSE

-----------------------------------------------------------------------------
(* The processes.                                                          *)

\* handleStart: the start has returned, and setupFileWatching follows.
ProcessStarted(p) ==
  /\ status[p] = "none"
  /\ status' = [status EXCEPT ![p] = "running"]
  /\ watched' = watched \cup {p}
  /\ Watch(WatchDir[p])
  /\ UNCHANGED <<stops, ghosts, due, isShuttingDown>>

\* restoreProcesses: the process starts under a new id, its files are watched
\* for the old one.
ProcessRestored(p) ==
  /\ status[p] = "none"
  /\ status' = [status EXCEPT ![p] = "running"]
  /\ ghosts' = ghosts \cup {p}
  /\ Watch(WatchDir[p])
  /\ UNCHANGED <<stops, watched, due, isShuttingDown>>

\* The child exits by itself, with a code that makes the process errored; exit
\* code 0 makes it 'stopped', which changes nothing here.  A restart of the
\* child that succeeds leaves the status.
InstanceExit(p) ==
  /\ status[p] = "running" /\ stops[p] = "none"
  /\ status' = [status EXCEPT ![p] = "errored"]
  /\ UNCHANGED <<stops, watched, ghosts, due, isShuttingDown>>

\* handleStop and handleRestart.
StopRequested(p, call) ==
  /\ status[p] \notin {"none", "deleted"} /\ stops[p] = "none"
  /\ status' = [status EXCEPT ![p] = "stopping"]
  /\ stops' = [stops EXCEPT ![p] = call]
  /\ UNCHANGED <<watched, ghosts, due, isShuttingDown>>

BugStopWatching(p) == watched' = watched \ {p} /\ Unwatch

\* stopWatchingProcess.
StopWatching(p) ==
  /\ watched' = watched \ {p}
  /\ IF watched' \cup ghosts = {} THEN Unwatch ELSE UNCHANGED watcherVars

\* The listener of 'processStopped'; a restart goes on in the same turn of the
\* event loop: its spawn may fail, and a process that was deleted meanwhile is
\* not found.
ProcessStopped(p, ok) ==
  /\ stops[p] # "none"
  /\ stops' = [stops EXCEPT ![p] = "none"]
  /\ status' = [status EXCEPT ![p] =
       CASE status[p] = "deleted" -> "deleted"
         [] stops[p] = "stop" -> "stopped"
         [] OTHER -> IF ok THEN "running" ELSE "starting"]
  /\ StopWatching(p)
  /\ due' = {x \in due : x[1] # p}
  /\ UNCHANGED <<ghosts, isShuttingDown>>

\* deleteProcess: nobody listens to 'processDeleted'.
DeleteProcess(p) ==
  /\ status[p] \notin {"none", "running", "starting", "deleted"}
  /\ status' = [status EXCEPT ![p] = "deleted"]
  /\ UNCHANGED <<stops, watched, ghosts, due, isShuttingDown>>

\* gracefulShutdown closes the watchers first, and leaves watchedProcesses alone:
\* a start that was under way, or a watcher that unwatch does not find, still
\* does what it does.
GracefulShutdown ==
  /\ ~isShuttingDown
  /\ isShuttingDown' = TRUE
  /\ Unwatch
  /\ due' = {}
  /\ UNCHANGED <<status, stops, watched, ghosts>>

-----------------------------------------------------------------------------
(* The changes.                                                            *)

\* handleFileChange.
HandleFileChange(f) ==
  LET restarted == {p \in watched : f \in Prefixed[WatchDir[p]] /\ status[p] = "running"}
  IN /\ status' = [p \in Processes |-> IF p \in restarted THEN "stopping" ELSE status[p]]
     /\ stops' = [p \in Processes |-> IF p \in restarted THEN "restart" ELSE stops[p]]
     /\ due' = {x \in due : x[1] \notin restarted}
     /\ UNCHANGED <<watched, ghosts, isShuttingDown>>

FileWritten(f) ==
  /\ Written(f)
  /\ due' = due \cup {<<p, f>> : p \in {q \in watched :
                     WatchDir[q] \in watchers /\ f \in Inside[WatchDir[q]]}}
  /\ UNCHANGED <<status, stops, watched, ghosts, isShuttingDown>>

FileDeleted(f) ==
  /\ Deleted(f)
  /\ due' = {x \in due : x[2] # f}
  /\ UNCHANGED <<status, stops, watched, ghosts, isShuttingDown>>

EventArrives(f) == HandleFileEvent(f) /\ UNCHANGED daemonVars

DebounceEnds(f) ==
  /\ ProcessFileChange(f)
  /\ IF Unlinks(f) THEN HandleFileChange(f) ELSE UNCHANGED daemonVars

CheckGoesOn(c) ==
  \/ (StatDone(c) \/ FileRead(c)) /\ UNCHANGED daemonVars
  \/ /\ CheckDone(c)
     /\ IF HasChanged(c) THEN HandleFileChange(checks[c].file) ELSE UNCHANGED daemonVars

-----------------------------------------------------------------------------
ProcessStep ==
  \E p \in Processes :
    \/ ProcessStarted(p) \/ ProcessRestored(p)
    \/ /\ \/ InstanceExit(p) \/ DeleteProcess(p)
          \/ \E call \in {"stop", "restart"} : StopRequested(p, call)
       /\ UNCHANGED watcherVars
    \/ \E ok \in BOOLEAN : ProcessStopped(p, ok)

Next ==
  \/ ProcessStep \/ GracefulShutdown
  \/ \E f \in Files : \/ FileWritten(f) \/ FileDeleted(f)
                      \/ EventArrives(f) \/ DebounceEnds(f)
  \/ \E c \in Checks : CheckGoesOn(c)

Spec == Init /\ [][Next]_vars

\* Events arrive, timers fire, and the disk answers.
FairSpec ==
  /\ Spec
  /\ \A f \in Files : WF_vars(EventArrives(f)) /\ WF_vars(DebounceEnds(f))
  /\ \A c \in Checks : WF_vars(CheckGoesOn(c))

-----------------------------------------------------------------------------
\* The types of the variables.
TypeOK ==
  /\ WatcherTypeOK
  /\ status \in [Processes -> {"none", "running", "errored", "stopping", "stopped", "starting", "deleted"}]
  /\ stops \in [Processes -> {"none", "stop", "restart"}]
  /\ watched \subseteq Processes /\ ghosts \subseteq Processes
  /\ due \subseteq Processes \X Files
  /\ isShuttingDown \in BOOLEAN

\* Stops, failed restarts and deletions in any order: until the daemon shuts
\* down, the path of a process that is watched has an open watcher that unwatch
\* will find; and no watcher is in the Map when nothing is watched.
WatchersHeld ==
  /\ ~isShuttingDown => \A p \in watched \cup ghosts :
       WatchDir[p] \in watchers /\ open[WatchDir[p]] > 0
  /\ watched \cup ghosts = {} => watchers = {}

\* A file written while a running process watches it restarts the process,
\* whatever older checks of the file are suspended and write their entries,
\* and however often watching ends and begins; unless the file goes, or the
\* process or the daemon does.
ChangeRestarts ==
  \A p \in Processes, f \in Files :
    <<p, f>> \in due ~> <<p, f>> \notin due \/ status[p] # "running"

\* A process that is watched and restarted is still watched: the next change
\* restarts it too.
RestartKeepsWatch ==
  [][\A p \in Processes : p \in watched /\ status'[p] = "running" => p \in watched']_vars
=============================================================================
