------------------------------- MODULE Daemon -------------------------------
(***************************************************************************)
(* The life of the daemon around its state: it starts from the state file, *)
(* restores processes, records what the orchestrator reports, shuts down   *)
(* or is killed, and starts again.  Child processes outlive it.            *)
(*                                                                         *)
(* The orchestrator appears as the listeners of setupProcessHandlers see   *)
(* it (module Orchestrator has it in full): each process has one instance. *)
(***************************************************************************)
EXTENDS StateManager, FiniteSets

CONSTANTS
  MaxAge,  \* bound: nothing changes after so many changes of the table
  Faults   \* "write": a save may fail

ASSUME BoundAssumption == MaxAge \in Nat /\ Faults \subseteq {"write"}

VARIABLES
  phase,      \* how far the daemon is in its life and in gracefulShutdown
  restored,   \* restoreProcesses has run
  restoring,  \* how many of its starts have not returned
  child,      \* the entries whose objects the orchestrator shares: the pid of the
              \* child it has for each
  awaited,    \* those that gracefulShutdown stops
  alive,      \* the pids of the living children
  spawned     \* the last pid given

childVars == <<child, awaited, alive, spawned>>
daemonVars == <<phase, restored, restoring, childVars>>
vars == <<stateVars, daemonVars>>

managed == DOMAIN child

NoChild == [i \in {} |-> 0]

Init ==
  /\ StateInit
  /\ phase = "down" /\ restored = FALSE /\ restoring = 0
  /\ child = NoChild /\ awaited = {} /\ alive = {} /\ spawned = 0

\* The bound on the instance of the model.
Room == age < MaxAge

Up == phase # "down"

Put(i, status, pid) == [processes EXCEPT ![i] = [status |-> status, pid |-> pid]]

WithChild(i, pid) == [j \in managed \cup {i} |-> IF j = i THEN pid ELSE child[j]]

\* The child of the process is in its list of instances, which the orchestrator
\* shares with the table.
Listed(i) == processes[i].pid = child[i]

-----------------------------------------------------------------------------
(* Start.                                                                  *)

\* The constructor loads the state, and start begins to listen: from then on
\* clients are served, and signals are at any time.
Boot ==
  /\ phase = "down" /\ Room
  /\ LoadState(alive)
  /\ phase' = "up"
  /\ UNCHANGED <<restored, restoring, childVars>>

\* restoreProcesses: every entry 'running' loses its instances, also one that a
\* client has started by then, and its configuration is started as a new
\* process, unless the orchestrator is shutting down.
RestoreProcesses ==
  LET running == {i \in DOMAIN processes : processes[i].status = "running"}
  IN /\ Up /\ ~restored
     /\ restored' = TRUE
     /\ restoring' = IF phase = "up" THEN Cardinality(running) ELSE 0
     /\ IF running = {} THEN UNCHANGED <<processes, age>>
        ELSE /\ Room
             /\ Change([i \in DOMAIN processes |-> IF i \in running
                          THEN [processes[i] EXCEPT !.pid = 0] ELSE processes[i]])
     /\ UNCHANGED <<saves, isSaving, saveTimer, temp, file, phase, childVars>>

-----------------------------------------------------------------------------
(* What the orchestrator does, and reports.                                *)

BugNewEntry == Len(processes)

NewEntry == Len(processes) + 1

\* startProcess succeeds: setProcess adds the process, whose child gets the next
\* pid.  A shutdown that has begun meanwhile is already stopping it.
Started ==
  /\ Room
  /\ spawned' = spawned + 1 /\ alive' = alive \cup {spawned'}
  /\ Record(Append(processes, [status |-> "running", pid |-> spawned']))
  /\ child' = WithChild(NewEntry, spawned')
  /\ awaited' = IF phase = "up" THEN awaited ELSE awaited \cup {NewEntry}

\* A client's start, or the API's.
ProcessStarted ==
  /\ phase = "up"
  /\ Started
  /\ UNCHANGED <<saves, isSaving, temp, file, phase, restored, restoring>>

\* One of the starts of restoreProcesses returns; those of clusters take their
\* time.
RestoredStart(ok) ==
  /\ Up /\ restoring > 0
  /\ restoring' = restoring - 1
  /\ IF ok THEN Started ELSE UNCHANGED <<processes, age, saveTimer, childVars>>
  /\ UNCHANGED <<saves, isSaving, temp, file, phase, restored>>

\* A child exits by itself, with code 0 ("stopped") or not ("errored"); a list
\* that is empty counts as stopped.
InstanceExit(i, status) ==
  /\ Up /\ Room
  /\ i \in managed /\ processes[i].status # "stopping"
  /\ child[i] \in alive
  /\ alive' = alive \ {child[i]}
  /\ Record(Put(i, IF Listed(i) THEN status ELSE "stopped", processes[i].pid))
  /\ UNCHANGED <<saves, isSaving, temp, file, phase, restored, restoring, child, awaited, spawned>>

\* restartInstance: the status of the process is left as it is, and nobody
\* listens to instanceRestarted.
InstanceRestarted(i) ==
  /\ Up /\ Room
  /\ i \in managed /\ processes[i].status \in {"errored", "stopped"}
  /\ child[i] \notin alive
  /\ spawned' = spawned + 1 /\ alive' = alive \cup {spawned'}
  /\ child' = WithChild(i, spawned')
  /\ IF Listed(i) THEN Change(Put(i, processes[i].status, spawned')) ELSE UNCHANGED <<processes, age>>
  /\ UNCHANGED <<saves, isSaving, saveTimer, temp, file, phase, restored, restoring, awaited>>

\* stopProcess or restartProcess begins.
StopRequested(i) ==
  /\ phase = "up" /\ Room
  /\ i \in managed /\ processes[i].status # "stopping"
  /\ Change(Put(i, "stopping", processes[i].pid))
  /\ UNCHANGED <<saves, isSaving, saveTimer, temp, file, phase, restored, restoring, childVars>>

\* Only an instance that is listed is stopped.
ProcessStopped(i) ==
  /\ Up /\ Room
  /\ i \in managed
  /\ \/ processes[i].status = "stopping"
     \/ i \in awaited /\ processes[i].status # "stopped"
  /\ alive' = alive \ {processes[i].pid}
  /\ Record(Put(i, "stopped", processes[i].pid))
  /\ UNCHANGED <<saves, isSaving, temp, file, phase, restored, restoring, child, awaited, spawned>>

\* The stop was the first half of a restart, which goes on in the same turn of
\* the event loop; one whose child cannot be spawned is left 'starting'.
ProcessRestarted(i, ok) ==
  /\ Up /\ Room
  /\ i \in managed \ awaited /\ processes[i].status = "stopping"
  /\ spawned' = IF ok THEN spawned + 1 ELSE spawned
  /\ alive' = (alive \ {processes[i].pid}) \cup (spawned + 1)..spawned'
  /\ Record(IF ok THEN Put(i, "running", spawned + 1) ELSE Put(i, "starting", 0))
  /\ child' = WithChild(i, IF ok THEN spawned + 1 ELSE 0)
  /\ UNCHANGED <<saves, isSaving, temp, file, phase, restored, restoring, awaited>>

-----------------------------------------------------------------------------
(* Shutdown and crash.                                                     *)

\* On a signal the orchestrator's own handler has begun to stop the processes,
\* and the daemon's call of its gracefulShutdown returns at once.
GracefulShutdown(signal) ==
  LET active == {i \in managed : processes[i].status \in {"running", "starting"}}
  IN /\ phase = "up" /\ Room
     /\ phase' = IF signal THEN "leaving" ELSE "closing"
     /\ Change([i \in DOMAIN processes |-> IF i \in active
                  THEN [processes[i] EXCEPT !.status = "stopping"] ELSE processes[i]])
     /\ awaited' = active
     /\ UNCHANGED <<saves, isSaving, saveTimer, temp, file, restored, restoring, child, alive, spawned>>

SaveFinalState ==
  /\ \/ phase = "leaving"
     \/ phase = "closing" /\ \A i \in awaited : processes[i].status = "stopped"
  /\ ForceSave
  /\ phase' = "ending"
  /\ UNCHANGED <<restored, restoring, childVars>>

\* The logger has been shut down.
ShutdownState ==
  /\ phase = "ending"
  /\ Shutdown
  /\ phase' = "exiting"
  /\ UNCHANGED <<restored, restoring, childVars>>

\* The daemon is gone, and some of its children with it.
Gone ==
  /\ Volatile(<<>>) /\ saveTimer' = "none" /\ UNCHANGED file
  /\ phase' = "down" /\ restored' = FALSE /\ restoring' = 0
  /\ child' = NoChild /\ awaited' = {}
  /\ \E dead \in SUBSET alive : alive' = alive \ dead
  /\ UNCHANGED spawned

\* process.exit, whatever is still being written.
Exit == phase = "exiting" /\ Gone

Crash == Up /\ Room /\ Gone

-----------------------------------------------------------------------------
Next ==
  \/ Boot \/ RestoreProcesses \/ ProcessStarted
  \/ \E ok \in BOOLEAN : RestoredStart(ok)
  \/ \E i \in managed :
       \/ \E status \in {"errored", "stopped"} : InstanceExit(i, status)
       \/ InstanceRestarted(i) \/ StopRequested(i)
       \/ ProcessStopped(i)
       \/ \E ok \in BOOLEAN : ProcessRestarted(i, ok)
  \/ \E signal \in BOOLEAN : GracefulShutdown(signal)
  \/ SaveFinalState \/ ShutdownState
  \/ Exit \/ Crash
  \/ /\ Up
     /\ \/ TimerFires
        \/ \E s \in saves : WriteDone(s) \/ RenameDone(s) \/ ("write" \in Faults /\ SaveFails(s))
     /\ UNCHANGED daemonVars

Spec == Init /\ [][Next]_vars

\* The interval fires again and again, and the disk does not fail for ever.
\* MaxAge ends the changes that put off the debounced save.
Fairness ==
  /\ WF_vars(Up /\ TimerFires /\ UNCHANGED daemonVars)
  /\ SF_vars(\E s \in saves : WriteDone(s) /\ UNCHANGED daemonVars)
  /\ SF_vars(\E s \in saves : RenameDone(s) /\ UNCHANGED daemonVars)

FairSpec == Spec /\ Fairness

-----------------------------------------------------------------------------
\* The types of the variables.
TypeOK ==
  /\ StateTypeOK
  /\ phase \in {"down", "up", "closing", "leaving", "ending", "exiting"}
  /\ restored \in BOOLEAN /\ restoring \in Nat
  /\ child \in [managed -> Nat]
  /\ managed \subseteq DOMAIN processes /\ awaited \subseteq managed
  /\ alive \subseteq 1..spawned /\ spawned \in Nat

\* Once the table stops changing, it reaches the file: neither a save that was
\* dropped for another, nor one that failed, nor a change made without telling
\* the StateManager is lost while the daemon runs.
ChangesReachFile ==
  \A n \in 1..MaxAge :
    phase = "up" /\ age = n ~> phase # "up" \/ Age(file) >= n
=============================================================================
