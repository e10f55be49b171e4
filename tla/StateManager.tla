---------------------------- MODULE StateManager ----------------------------
(***************************************************************************)
(* The StateManager of NodeDaemon: the table of processes in memory, the   *)
(* debounced and periodic saves, and the save that is writing the file.    *)
(*                                                                         *)
(* saveStateAsync is suspended twice, while it writes the temporary file   *)
(* and while it renames it; everything else is one callback.  The actions  *)
(* are steps of the daemon (module Daemon), which says who calls them.     *)
(***************************************************************************)
EXTENDS Integers, Sequences

CONSTANTS
  NoFile,  \* the file does not exist
  Torn     \* the file holds part of a snapshot

VARIABLES
  processes,  \* state.processes, in the order of the keys
  age,        \* how often processes has changed since the first start
  saves,      \* the calls of saveStateAsync that are suspended
  isSaving,
  saveTimer,  \* "none", "interval" (autosave) or "timeout" (debounce)
  temp,       \* the temporary file of the running daemon
  file        \* STATE_FILE

stateVars == <<processes, age, saves, isSaving, saveTimer, temp, file>>

\* A process as it is written to the file: pid is that of its instance (0:
\* none); one instance stands for the list.
Entry == [status: {"starting", "running", "errored", "stopping", "stopped"}, pid: Nat]

Table == Seq(Entry)

Snapshot == [age: Nat, processes: Table]

\* Neither of them is a snapshot.
ASSUME FileAssumption == NoFile # Torn /\ NoFile \notin Snapshot /\ Torn \notin Snapshot

Save == [stage: {"write", "rename"}, data: Snapshot]

\* The calls of saveStateAsync end with the daemon, its temporary file is left
\* behind under a name that no other daemon uses.
Volatile(table) ==
  /\ processes' = table
  /\ age' = age + 1
  /\ saves' = {} /\ isSaving' = FALSE
  /\ temp' = NoFile

StateInit ==
  /\ processes = <<>> /\ age = 0
  /\ saves = {} /\ isSaving = FALSE
  /\ saveTimer = "none"
  /\ temp = NoFile /\ file = NoFile

\* cleanupOrphanedProcesses: a pid that is alive is taken for the instance's.
CleanupOrphanedProcesses(table, alive) ==
  [i \in DOMAIN table |->
     IF table[i].pid \in alive THEN table[i]
     ELSE [status |-> IF table[i].status = "running" THEN "stopped" ELSE table[i].status,
           pid |-> 0]]

\* loadState: a file that cannot be parsed counts as none.
LoadState(alive) ==
  /\ Volatile(IF file \in {NoFile, Torn} THEN <<>>
              ELSE CleanupOrphanedProcesses(file.processes, alive))
  /\ saveTimer' = "interval"
  /\ UNCHANGED file

-----------------------------------------------------------------------------
(* The saves.                                                              *)

BugSaveState ==
  /\ isSaving' = TRUE
  /\ saves' = saves \cup {[stage |-> "write", data |-> [age |-> age, processes |-> processes]]}
  /\ temp' = Torn
  /\ UNCHANGED file

\* The synchronous part of saveStateAsync: a save that meets another one is
\* dropped, else the snapshot is taken and the temporary file opened.
SaveState ==
  IF isSaving THEN UNCHANGED <<saves, isSaving, temp, file>>
  ELSE /\ isSaving' = TRUE
       /\ saves' = saves \cup {[stage |-> "write",
                                data |-> [age |-> age, processes |-> processes]]}
       /\ temp' = Torn
       /\ UNCHANGED file

\* writeFile has returned.
WriteDone(s) ==
  /\ s \in saves /\ s.stage = "write"
  /\ temp' = s.data
  /\ saves' = (saves \ {s}) \cup {[s EXCEPT !.stage = "rename"]}
  /\ UNCHANGED <<processes, age, isSaving, saveTimer, file>>

\* rename has returned; it fails when the temporary file is gone.
RenameDone(s) ==
  /\ s \in saves /\ s.stage = "rename"
  /\ file' = IF temp = NoFile THEN file ELSE temp
  /\ temp' = NoFile
  /\ saves' = saves \ {s}
  /\ isSaving' = FALSE
  /\ UNCHANGED <<processes, age, saveTimer>>

\* writeFile or rename has failed: the temporary file is removed.
SaveFails(s) ==
  /\ s \in saves
  /\ temp' = NoFile
  /\ saves' = saves \ {s}
  /\ isSaving' = FALSE
  /\ UNCHANGED <<processes, age, saveTimer, file>>

BugTimerFires ==
  /\ saveTimer # "none"
  /\ SaveState
  /\ saveTimer' = IF saveTimer = "timeout" THEN "none" ELSE "interval"
  /\ UNCHANGED <<processes, age>>

\* The interval of startAutoSave, or the timeout of scheduleSave, which goes
\* back to the interval.
TimerFires ==
  /\ saveTimer # "none"
  /\ SaveState
  /\ saveTimer' = "interval"
  /\ UNCHANGED <<processes, age>>

\* An object of the table changes; the orchestrator shares it.
Change(table) == processes' = table /\ age' = age + 1

\* setProcess and updateProcess: the object may have changed before, and its
\* updatedAt changes now.
Record(table) == Change(table) /\ saveTimer' = "timeout"

\* forceSave, and shutdown of the StateManager.
ForceSave == SaveState /\ UNCHANGED <<processes, age, saveTimer>>

Shutdown == SaveState /\ saveTimer' = "none" /\ UNCHANGED <<processes, age>>

-----------------------------------------------------------------------------
StateTypeOK ==
  /\ processes \in Table /\ age \in Nat
  /\ saves \subseteq Save /\ isSaving \in BOOLEAN
  /\ saveTimer \in {"none", "interval", "timeout"}
  /\ temp \in Snapshot \cup {NoFile, Torn} /\ file \in Snapshot \cup {NoFile, Torn}

\* The state file can always be parsed, whenever the daemon dies: saves that
\* overlap never share the temporary file.
FileWhole == file # Torn

Age(f) == IF f \in {NoFile, Torn} THEN 0 ELSE f.age

\* The state file never goes back to an older state, across all saves, dropped
\* saves, failed writes, crashes and restarts.
FileNeverOlder == [][Age(file') >= Age(file)]_stateVars
=============================================================================
