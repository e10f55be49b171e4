---------------------------- MODULE WatchedProofs ----------------------------
(***************************************************************************)
(* WatchersHeld holds for any number of processes, directories and files.  *)
(* Watchers leave the Map only when nothing is watched any more, and those *)
(* in the Map are open: IInv adds the second fact.                         *)
(***************************************************************************)
EXTENDS WatchedProcesses, TLAPS

WatchersOpen == \A d \in watchers : open[d] > 0

IInv == TypeOK /\ WatchersOpen /\ WatchersHeld

\* What a step that leaves the watchers and what is watched alone preserves.
HeldParts == <<watchers, open, watched, ghosts, isShuttingDown>>

LEMMA HeldUnchanged ==
  ASSUME WatchersOpen /\ WatchersHeld, UNCHANGED HeldParts
  PROVE  (WatchersOpen /\ WatchersHeld)'
BY DEF WatchersOpen, WatchersHeld, HeldParts

\* The fields of a check that waits for readFile, or has its answer.
LEMMA CheckFields ==
  ASSUME NEW k \in Check
  PROVE  /\ k.stage = "stat" => k.file \in Files /\ k.existing \in Stamp \cup {Unknown}
         /\ k.stage = "read" => /\ k.file \in Files /\ k.existing \in Stamp \cup {Unknown}
                                /\ k.mtime \in Nat
         /\ k.stage = "hashed" => /\ k.file \in Files /\ k.existing \in Stamp \cup {Unknown}
                                  /\ k.stamp \in Stamp
BY DEF Check, Idle

LEMMA InitIInv == Init => IInv
<1> SUFFICES ASSUME Init PROVE IInv
  OBVIOUS
<1>1. WatcherTypeOK
  BY DEF Init, WatcherInit, WatcherTypeOK, Check, Idle
<1>2. TypeOK
  BY <1>1 DEF Init, TypeOK
<1>3. WatchersOpen /\ WatchersHeld
  BY DEF Init, WatcherInit, WatchersOpen, WatchersHeld
<1> QED
  BY <1>2, <1>3 DEF IInv

-----------------------------------------------------------------------------
(* The steps of the FileWatcher.                                           *)

LEMMA WatchTypes ==
  ASSUME WatcherTypeOK, NEW d \in Dirs, Watch(d)
  PROVE  WatcherTypeOK'
BY DEF WatcherTypeOK, Watch

LEMMA UnwatchTypes ==
  ASSUME WatcherTypeOK, WatchersOpen, Unwatch
  PROVE  WatcherTypeOK'
<1>1. open' \in [Dirs -> Nat]
  BY DEF WatcherTypeOK, WatchersOpen, Unwatch
<1>2. dropped' \in [Files -> Nat]
  BY DEF WatcherTypeOK, Unwatch
<1>3. known' \in [Files -> Stamp \cup {Unknown}] /\ events' \subseteq Files
  BY DEF WatcherTypeOK, Unwatch
<1> QED
  BY <1>1, <1>2, <1>3 DEF WatcherTypeOK, Unwatch

LEMMA FileTypes ==
  ASSUME WatcherTypeOK, NEW f \in Files,
         Written(f) \/ Deleted(f) \/ HandleFileEvent(f)
  PROVE  WatcherTypeOK' /\ UNCHANGED <<watchers, open>>
<1>1. CASE Written(f)
  BY <1>1 DEF WatcherTypeOK, Written, Reported
<1>2. CASE Deleted(f)
  BY <1>2 DEF WatcherTypeOK, Deleted, Reported
<1>3. CASE HandleFileEvent(f)
  BY <1>3 DEF WatcherTypeOK, HandleFileEvent
<1> QED
  BY <1>1, <1>2, <1>3

LEMMA TimerTypes ==
  ASSUME WatcherTypeOK, NEW f \in Files, TimerFires(f)
  PROVE  pending' \subseteq Files /\ dropped' \in [Files -> Nat]
<1>1. CASE f \in pending /\ pending' = pending \ {f} /\ UNCHANGED dropped
  BY <1>1 DEF WatcherTypeOK
<1>2. CASE dropped[f] > 0 /\ dropped' = [dropped EXCEPT ![f] = @ - 1] /\ UNCHANGED pending
  BY <1>2 DEF WatcherTypeOK
<1> QED
  BY <1>1, <1>2 DEF TimerFires

LEMMA ProcessTypes ==
  ASSUME WatcherTypeOK, NEW f \in Files, ProcessFileChange(f)
  PROVE  WatcherTypeOK' /\ UNCHANGED <<watchers, open>>
<1>1. pending' \subseteq Files /\ dropped' \in [Files -> Nat]
  BY TimerTypes DEF ProcessFileChange
<1>2. CASE disk[f].exists
  <2> DEFINE c == CHOOSE x \in Free : TRUE
             k == [stage |-> "stat", file |-> f, existing |-> known[f]]
  <2>1. c \in Checks
    BY <1>2 DEF ProcessFileChange, Free
  <2>2. k \in Check
    BY DEF WatcherTypeOK, Check
  <2>3. checks' = [checks EXCEPT ![c] = k] /\ known' = known
    BY <1>2 DEF ProcessFileChange
  <2> HIDE DEF c, k
  <2>4. checks' \in [Checks -> Check]
    BY <2>1, <2>2, <2>3 DEF WatcherTypeOK
  <2> QED
    BY <1>1, <2>3, <2>4 DEF WatcherTypeOK, ProcessFileChange
<1>3. CASE ~disk[f].exists
  BY <1>1, <1>3 DEF WatcherTypeOK, ProcessFileChange
<1> QED
  BY <1>2, <1>3

LEMMA CheckTypes ==
  ASSUME WatcherTypeOK, NEW c \in Checks, StatDone(c) \/ FileRead(c) \/ CheckDone(c)
  PROVE  WatcherTypeOK' /\ UNCHANGED <<watchers, open>>
<1>0. checks[c] \in Check
  BY DEF WatcherTypeOK
<1> DEFINE f == checks[c].file
<1>1. CASE StatDone(c)
  <2>1. f \in Files /\ checks[c].existing \in Stamp \cup {Unknown}
    BY <1>0, <1>1, CheckFields DEF StatDone
  <2>2. disk[f].version \in Nat
    BY <2>1 DEF WatcherTypeOK
  <2>3. [stage |-> "read", file |-> f, existing |-> checks[c].existing,
         mtime |-> disk[f].version] \in Check /\ Idle \in Check
    BY <2>1, <2>2 DEF Check
  <2>4. checks' \in [Checks -> Check]
    BY <1>1, <2>3 DEF WatcherTypeOK, StatDone
  <2> QED
    BY <1>1, <2>4 DEF WatcherTypeOK, StatDone
<1>2. CASE FileRead(c)
  <2> DEFINE hash == IF disk[f].exists THEN disk[f].version ELSE 0
             stamp == [mtime |-> checks[c].mtime, hash |-> hash]
  <2>1. /\ f \in Files /\ checks[c].existing \in Stamp \cup {Unknown}
        /\ checks[c].mtime \in Nat
    BY <1>0, <1>2, CheckFields DEF FileRead
  <2>2. hash \in Nat
    BY <2>1 DEF WatcherTypeOK
  <2>3. stamp \in Stamp
    BY <2>1, <2>2 DEF Stamp
  <2> HIDE DEF stamp
  <2>4. [stage |-> "hashed", file |-> f, existing |-> checks[c].existing,
         stamp |-> stamp] \in Check
    BY <2>1, <2>3 DEF Check
  <2>5. checks' = [checks EXCEPT ![c] = [stage |-> "hashed", file |-> f,
                     existing |-> checks[c].existing, stamp |-> stamp]]
    BY <1>2 DEF FileRead, stamp
  <2>6. checks' \in [Checks -> Check]
    BY <2>4, <2>5 DEF WatcherTypeOK
  <2> QED
    BY <1>2, <2>6 DEF WatcherTypeOK, FileRead
<1>3. CASE CheckDone(c)
  <2>1. f \in Files /\ checks[c].stamp \in Stamp
    BY <1>0, <1>3, CheckFields DEF CheckDone
  <2>2. known' \in [Files -> Stamp \cup {Unknown}]
    BY <1>3, <2>1 DEF WatcherTypeOK, CheckDone
  <2>3. checks' \in [Checks -> Check]
    BY <1>3 DEF WatcherTypeOK, CheckDone, Check
  <2> QED
    BY <1>3, <2>2, <2>3 DEF WatcherTypeOK, CheckDone
<1> QED
  BY <1>1, <1>2, <1>3

-----------------------------------------------------------------------------
(* The steps of the daemon.                                                *)

DaemonTypeOK ==
  /\ status \in [Processes -> {"none", "running", "errored", "stopping", "stopped",
                               "starting", "deleted"}]
  /\ stops \in [Processes -> {"none", "stop", "restart"}]
  /\ watched \subseteq Processes /\ ghosts \subseteq Processes
  /\ due \subseteq Processes \X Files
  /\ isShuttingDown \in BOOLEAN

LEMMA HandleFileChangeTypes ==
  ASSUME DaemonTypeOK, NEW f \in Files, HandleFileChange(f)
  PROVE  DaemonTypeOK' /\ UNCHANGED <<watched, ghosts, isShuttingDown>>
BY DEF DaemonTypeOK, HandleFileChange

LEMMA StartKeeps ==
  ASSUME IInv, NEW p \in Processes, ProcessStarted(p) \/ ProcessRestored(p)
  PROVE  IInv'
<1> USE ProcessAssumption
<1>1. WatchDir[p] \in Dirs /\ Watch(WatchDir[p])
  BY DEF ProcessStarted, ProcessRestored
<1>2. WatcherTypeOK'
  BY <1>1, WatchTypes DEF IInv, TypeOK
<1>3. TypeOK'
  BY <1>2 DEF IInv, TypeOK, ProcessStarted, ProcessRestored
<1>4. /\ watchers' = watchers \cup {WatchDir[p]}
      /\ open' = [open EXCEPT ![WatchDir[p]] = @ + 1]
      /\ watched' \cup ghosts' = watched \cup ghosts \cup {p}
      /\ isShuttingDown' = isShuttingDown
  BY <1>1 DEF Watch, ProcessStarted, ProcessRestored
<1>5. open \in [Dirs -> Nat] /\ watchers \subseteq Dirs
  BY DEF IInv, TypeOK, WatcherTypeOK
<1>6. \A d \in Dirs : open[d] > 0 => open'[d] > 0
  BY <1>4, <1>5
<1>7. open'[WatchDir[p]] > 0
  BY <1>1, <1>4, <1>5
<1>8. WatchersOpen'
  BY <1>4, <1>5, <1>6, <1>7 DEF IInv, WatchersOpen
<1>9. WatchersHeld'
  <2>1. ASSUME ~isShuttingDown', NEW q \in watched' \cup ghosts'
        PROVE  WatchDir[q] \in watchers' /\ open'[WatchDir[q]] > 0
    <3>1. CASE q = p
      BY <1>1, <1>4, <1>7, <3>1
    <3>2. CASE q \in watched \cup ghosts
      <4>1. WatchDir[q] \in watchers /\ open[WatchDir[q]] > 0
        BY <1>4, <2>1, <3>2 DEF IInv, WatchersHeld
      <4>2. WatchDir[q] \in Dirs
        BY <1>5, <4>1
      <4> QED
        BY <1>4, <1>6, <4>1, <4>2
    <3> QED
      BY <1>4, <2>1, <3>1, <3>2
  <2>2. watched' \cup ghosts' # {}
    BY <1>4
  <2> QED
    BY <2>1, <2>2 DEF WatchersHeld
<1> QED
  BY <1>3, <1>8, <1>9 DEF IInv

LEMMA StopKeeps ==
  ASSUME IInv, NEW p \in Processes, NEW ok \in BOOLEAN, ProcessStopped(p, ok)
  PROVE  IInv'
<1>1. CASE watched' \cup ghosts' = {}
  <2>1. Unwatch
    BY <1>1 DEF ProcessStopped, StopWatching
  <2>2. WatcherTypeOK'
    BY <2>1, UnwatchTypes DEF IInv, TypeOK
  <2>3. TypeOK'
    BY <2>2 DEF IInv, TypeOK, ProcessStopped, StopWatching
  <2>4. watchers' = {}
    BY <2>1 DEF Unwatch
  <2> QED
    BY <1>1, <2>3, <2>4 DEF IInv, WatchersOpen, WatchersHeld
<1>2. CASE watched' \cup ghosts' # {}
  <2>1. /\ UNCHANGED watcherVars /\ watched' \subseteq watched
        /\ ghosts' = ghosts /\ isShuttingDown' = isShuttingDown
    BY <1>2 DEF ProcessStopped, StopWatching
  <2>2. TypeOK'
    <3>1. WatcherTypeOK'
      BY <2>1 DEF IInv, TypeOK, WatcherTypeOK, watcherVars
    <3> QED
      BY <3>1 DEF IInv, TypeOK, ProcessStopped, StopWatching
  <2> QED
    BY <1>2, <2>1, <2>2 DEF IInv, WatchersOpen, WatchersHeld, watcherVars
<1> QED
  BY <1>1, <1>2

LEMMA ShutdownKeeps ==
  ASSUME IInv, GracefulShutdown
  PROVE  IInv'
<1>1. WatcherTypeOK'
  BY UnwatchTypes DEF IInv, TypeOK, GracefulShutdown
<1>2. TypeOK'
  BY <1>1 DEF IInv, TypeOK, GracefulShutdown
<1>3. watchers' = {} /\ isShuttingDown'
  BY DEF GracefulShutdown, Unwatch
<1> QED
  BY <1>2, <1>3 DEF IInv, WatchersOpen, WatchersHeld

LEMMA NextIInv == IInv /\ [Next]_vars => IInv'
<1> SUFFICES ASSUME IInv, [Next]_vars PROVE IInv'
  OBVIOUS
<1>0. WatcherTypeOK /\ DaemonTypeOK /\ WatchersOpen /\ WatchersHeld
  BY DEF IInv, TypeOK, DaemonTypeOK
<1> DEFINE Kept == WatcherTypeOK' /\ DaemonTypeOK' /\ UNCHANGED HeldParts
<1>k. ASSUME Kept PROVE IInv'
  BY <1>0, <1>k, HeldUnchanged DEF IInv, TypeOK, DaemonTypeOK
<1> HIDE DEF Kept
<1>1. ASSUME NEW p \in Processes, ProcessStarted(p) \/ ProcessRestored(p)
      PROVE  IInv'
  BY <1>1, StartKeeps
<1>2. ASSUME NEW p \in Processes, UNCHANGED watcherVars,
             \/ InstanceExit(p) \/ DeleteProcess(p)
             \/ \E call \in {"stop", "restart"} : StopRequested(p, call)
      PROVE  IInv'
  <2>1. WatcherTypeOK' /\ UNCHANGED <<watchers, open>>
    BY <1>0, <1>2 DEF WatcherTypeOK, watcherVars
  <2>2. DaemonTypeOK' /\ UNCHANGED <<watched, ghosts, isShuttingDown>>
    BY <1>0, <1>2 DEF DaemonTypeOK, InstanceExit, DeleteProcess, StopRequested
  <2> QED
    BY <1>k, <2>1, <2>2 DEF Kept, HeldParts
<1>3. ASSUME NEW p \in Processes, NEW ok \in BOOLEAN, ProcessStopped(p, ok)
      PROVE  IInv'
  BY <1>3, StopKeeps
<1>4. ASSUME NEW f \in Files, FileWritten(f) \/ FileDeleted(f) \/ EventArrives(f)
      PROVE  IInv'
  <2>1. WatcherTypeOK' /\ UNCHANGED <<watchers, open>>
    BY <1>0, <1>4, FileTypes DEF FileWritten, FileDeleted, EventArrives
  <2>2. DaemonTypeOK' /\ UNCHANGED <<watched, ghosts, isShuttingDown>>
    BY <1>0, <1>4 DEF DaemonTypeOK, FileWritten, FileDeleted, EventArrives, daemonVars
  <2> QED
    BY <1>k, <2>1, <2>2 DEF Kept, HeldParts
<1>5. ASSUME NEW f \in Files, DebounceEnds(f)
      PROVE  IInv'
  <2>1. WatcherTypeOK' /\ UNCHANGED <<watchers, open>>
    BY <1>0, <1>5, ProcessTypes DEF DebounceEnds
  <2>2. DaemonTypeOK' /\ UNCHANGED <<watched, ghosts, isShuttingDown>>
    <3>1. CASE Unlinks(f)
      BY <1>0, <1>5, <3>1, HandleFileChangeTypes DEF DebounceEnds
    <3>2. CASE ~Unlinks(f)
      BY <1>0, <1>5, <3>2 DEF DebounceEnds, daemonVars, DaemonTypeOK
    <3> QED
      BY <3>1, <3>2
  <2> QED
    BY <1>k, <2>1, <2>2 DEF Kept, HeldParts
<1>6. ASSUME NEW c \in Checks, CheckGoesOn(c)
      PROVE  IInv'
  <2>1. WatcherTypeOK' /\ UNCHANGED <<watchers, open>>
    BY <1>0, <1>6, CheckTypes DEF CheckGoesOn
  <2>2. DaemonTypeOK' /\ UNCHANGED <<watched, ghosts, isShuttingDown>>
    <3>1. CASE UNCHANGED daemonVars
      BY <1>0, <3>1 DEF daemonVars, DaemonTypeOK
    <3>2. CASE CheckDone(c) /\ HandleFileChange(checks[c].file)
      <4>1. checks[c].file \in Files
        BY <1>0, <3>2, CheckFields DEF WatcherTypeOK, CheckDone
      <4> QED
        BY <1>0, <3>2, <4>1, HandleFileChangeTypes
    <3> QED
      BY <1>6, <3>1, <3>2 DEF CheckGoesOn
  <2> QED
    BY <1>k, <2>1, <2>2 DEF Kept, HeldParts
<1>7. CASE UNCHANGED vars
  <2>1. WatcherTypeOK' /\ DaemonTypeOK' /\ UNCHANGED HeldParts
    BY <1>0, <1>7 DEF vars, watcherVars, daemonVars, WatcherTypeOK, DaemonTypeOK, HeldParts
  <2> QED
    BY <1>k, <2>1 DEF Kept
<1>8. CASE GracefulShutdown
  BY <1>8, ShutdownKeeps
<1> QED
  BY <1>1, <1>2, <1>3, <1>4, <1>5, <1>6, <1>7, <1>8 DEF Next, ProcessStep

\* The inductive invariant holds of every behaviour.
THEOREM Invariance == Spec => []IInv
BY InitIInv, NextIInv, PTL DEF Spec

\* The type invariant, for all constants.
THEOREM TypeInvariance == Spec => []TypeOK
<1>1. IInv => TypeOK
  BY DEF IInv
<1> QED
  BY <1>1, Invariance, PTL

\* Until the daemon shuts down, the path of a process that is watched has an open
\* watcher that unwatch will find, for any number of processes that share any number of paths.
THEOREM WatchersStay == Spec => []WatchersHeld
<1>1. IInv => WatchersHeld
  BY DEF IInv
<1> QED
  BY <1>1, Invariance, PTL
=============================================================================
