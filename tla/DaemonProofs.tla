---------------------------- MODULE DaemonProofs ----------------------------
(***************************************************************************)
(* What the state file is worth, for any number of processes, children and *)
(* changes: TypeOK, FileWhole and FileNeverOlder are theorems of Spec.     *)
(*                                                                         *)
(* FileWhole is not inductive: that a rename installs a whole snapshot, no *)
(* older than the file's, rests on isSaving admitting one save at a time   *)
(* (SaveInv), and the types rest on the orchestrator's memory being lost   *)
(* with the daemon (EarlyInv).                                             *)
(***************************************************************************)
EXTENDS Daemon, FiniteSetTheorems, SequenceTheorems, TLAPS

\* One save at most, and isSaving says so; between write and rename the
\* temporary file is the save's; ages never go back from file to save to table.
SaveInv ==
  /\ isSaving <=> saves # {}
  /\ \A s, t \in saves : s = t
  /\ \A s \in saves : s.stage = "rename" => temp = s.data
  /\ \A s \in saves : Age(file) <= s.data.age /\ s.data.age <= age
  /\ file # Torn
  /\ Age(file) <= age

\* The orchestrator holds nothing while the daemon is down.
EarlyInv == phase = "down" => child = NoChild

IInv == TypeOK /\ EarlyInv /\ SaveInv

-----------------------------------------------------------------------------
(* Typing of the tables that the steps build.                              *)

\* The table of loadState is one of entries.
LEMMA CleanupTyping ==
  ASSUME NEW table \in Table, NEW pids
  PROVE  CleanupOrphanedProcesses(table, pids) \in Table
<1> DEFINE clean == [i \in DOMAIN table |->
              IF table[i].pid \in pids THEN table[i]
              ELSE [status |-> IF table[i].status = "running" THEN "stopped" ELSE table[i].status,
                    pid |-> 0]]
<1>1. Len(table) \in Nat /\ DOMAIN table = 1..Len(table)
  BY DEF Table
<1>2. \A i \in DOMAIN table : clean[i] \in Entry
  <2> SUFFICES ASSUME NEW i \in DOMAIN table PROVE clean[i] \in Entry
    OBVIOUS
  <2>1. table[i] \in Entry
    BY DEF Table
  <2>2. table[i].status \in {"starting", "running", "errored", "stopping", "stopped"}
    BY <2>1 DEF Entry
  <2> QED BY <2>1, <2>2 DEF Entry
<1>3. clean \in [1..Len(table) -> Entry]
  BY <1>1, <1>2
<1> QED BY <1>1, <1>3 DEF CleanupOrphanedProcesses, Table

\* One entry is replaced.
LEMMA PutTyping ==
  ASSUME TypeOK, NEW i \in managed, NEW pid \in Nat,
         NEW status \in {"starting", "running", "errored", "stopping", "stopped"}
  PROVE  /\ Put(i, status, pid) \in Table
         /\ DOMAIN Put(i, status, pid) = DOMAIN processes
<1>1. [status |-> status, pid |-> pid] \in Entry
  BY DEF Entry
<1>2. processes \in Seq(Entry) /\ i \in DOMAIN processes
  BY DEF TypeOK, StateTypeOK, Table
<1> QED BY <1>1, <1>2 DEF Put, Table

\* What the orchestrator holds, with the child of one process.
LEMMA ChildTyping ==
  ASSUME TypeOK, NEW i, NEW pid \in Nat
  PROVE  /\ DOMAIN WithChild(i, pid) = managed \cup {i}
         /\ WithChild(i, pid) \in [managed \cup {i} -> Nat]
BY DEF TypeOK, WithChild, managed

-----------------------------------------------------------------------------
(* The saves.  Every step of Next changes them in one of these ways.       *)

saveVars == <<saves, isSaving, temp, file>>

\* The table changes, and no save is touched.
LEMMA SaveInvKept ==
  ASSUME TypeOK, SaveInv, UNCHANGED saveVars, age' \in Nat, age' >= age
  PROVE  SaveInv'
<1>1. \A s \in saves : s.data.age \in Nat
  BY DEF TypeOK, StateTypeOK, Save, Snapshot
<1>2. Age(file) \in Nat
  BY DEF TypeOK, StateTypeOK, Age, Snapshot
<1>3. age \in Nat /\ Age(file)' = Age(file)
  BY DEF TypeOK, StateTypeOK, saveVars, Age
<1> QED BY <1>1, <1>2, <1>3 DEF SaveInv, saveVars

\* saveStateAsync begins, or is dropped.
LEMMA SaveInvBegun ==
  ASSUME TypeOK, SaveInv, SaveState, UNCHANGED <<processes, age>>
  PROVE  /\ SaveInv'
         /\ saves' \subseteq Save /\ isSaving' \in BOOLEAN
         /\ temp' \in Snapshot \cup {NoFile, Torn}
         /\ UNCHANGED file
<1> DEFINE new == [stage |-> "write", data |-> [age |-> age, processes |-> processes]]
<1>1. CASE isSaving
  <2>1. UNCHANGED saveVars /\ age' \in Nat /\ age' >= age
    BY <1>1 DEF SaveState, TypeOK, StateTypeOK, saveVars
  <2>2. SaveInv'
    BY <2>1, SaveInvKept
  <2> QED BY <2>1, <2>2 DEF saveVars, TypeOK, StateTypeOK
<1>2. CASE ~isSaving
  <2>1. saves = {}
    BY <1>2 DEF SaveInv
  <2>2. isSaving' = TRUE /\ saves' = {new} /\ temp' = Torn /\ file' = file
    BY <1>2, <2>1 DEF SaveState
  <2>3. new \in Save /\ new.data.age = age /\ new.stage = "write"
    BY DEF TypeOK, StateTypeOK, Save, Snapshot
  <2>4. Age(file) <= age /\ Age(file)' = Age(file) /\ file' # Torn /\ age' = age /\ age \in Nat
    BY <2>2 DEF SaveInv, Age, TypeOK, StateTypeOK
  <2> HIDE DEF new
  <2>5. SaveInv'
    BY <2>2, <2>3, <2>4 DEF SaveInv
  <2> QED BY <2>2, <2>3, <2>5
<1> QED BY <1>1, <1>2 DEF TypeOK, StateTypeOK

\* The calls of saveStateAsync end with the daemon.
LEMMA SaveInvVolatile ==
  ASSUME TypeOK, SaveInv, NEW table, Volatile(table), UNCHANGED file
  PROVE  SaveInv' /\ age' \in Nat /\ age' >= age
<1>1. Age(file) \in Nat /\ Age(file) <= age /\ age \in Nat
  BY DEF TypeOK, StateTypeOK, Age, Snapshot, SaveInv
<1>2. Age(file)' = Age(file) /\ age' = age + 1 /\ saves' = {} /\ isSaving' = FALSE
  BY DEF Volatile, Age
<1>3. file' # Torn
  BY DEF SaveInv
<1> QED BY <1>1, <1>2, <1>3 DEF SaveInv

\* A save goes on, ends or fails: the file keeps its age or gets a later one.
LEMMA SaveInvDisk ==
  ASSUME TypeOK, SaveInv, NEW s \in saves, WriteDone(s) \/ RenameDone(s) \/ SaveFails(s)
  PROVE  /\ SaveInv'
         /\ saves' \subseteq Save /\ isSaving' \in BOOLEAN
         /\ temp' \in Snapshot \cup {NoFile, Torn} /\ file' \in Snapshot \cup {NoFile, Torn}
         /\ Age(file') >= Age(file)
         /\ UNCHANGED <<processes, age, saveTimer>>
<1>1. /\ s \in Save /\ s.data \in Snapshot /\ s.data.age \in Nat
      /\ s.data # Torn /\ s.data # NoFile /\ Age(s.data) = s.data.age
  BY FileAssumption DEF TypeOK, StateTypeOK, Save, Snapshot, Age
<1>2. saves = {s} /\ isSaving
  BY DEF SaveInv
<1>3. /\ Age(file) \in Nat /\ age \in Nat /\ file # Torn
      /\ Age(file) <= s.data.age /\ s.data.age <= age
  BY DEF SaveInv, TypeOK, StateTypeOK, Age, Snapshot
<1>4. CASE WriteDone(s)
  <2> DEFINE t == [s EXCEPT !.stage = "rename"]
  <2>1. t \in Save /\ t.data = s.data /\ t.stage = "rename"
    BY <1>1 DEF Save
  <2>2. /\ saves' = {t} /\ temp' = s.data /\ file' = file /\ isSaving' = isSaving
        /\ UNCHANGED <<processes, age, saveTimer>>
    BY <1>2, <1>4 DEF WriteDone
  <2> HIDE DEF t
  <2>3. Age(file') = Age(file) /\ Age(file)' = Age(file)
    BY <2>2 DEF Age
  <2>4. SaveInv'
    BY <1>2, <1>3, <2>1, <2>2, <2>3 DEF SaveInv
  <2> QED BY <1>1, <1>2, <1>3, <2>1, <2>2, <2>3, <2>4 DEF TypeOK, StateTypeOK
<1>5. CASE RenameDone(s)
  <2>1. temp = s.data
    BY <1>5 DEF SaveInv, RenameDone
  <2>2. /\ file' = s.data /\ temp' = NoFile /\ saves' = {} /\ isSaving' = FALSE
        /\ UNCHANGED <<processes, age, saveTimer>>
    BY <1>1, <1>2, <1>5, <2>1 DEF RenameDone
  <2>3. Age(file') = s.data.age /\ Age(file)' = s.data.age
    BY <1>1, <2>2 DEF Age
  <2>4. SaveInv'
    BY <1>1, <1>3, <2>2, <2>3 DEF SaveInv
  <2> QED BY <1>1, <1>3, <2>2, <2>3, <2>4
<1>6. CASE SaveFails(s)
  <2>1. /\ file' = file /\ temp' = NoFile /\ saves' = {} /\ isSaving' = FALSE
        /\ UNCHANGED <<processes, age, saveTimer>>
    BY <1>2, <1>6 DEF SaveFails
  <2>2. Age(file') = Age(file) /\ Age(file)' = Age(file)
    BY <2>1 DEF Age
  <2>3. SaveInv'
    BY <1>3, <2>1, <2>2 DEF SaveInv
  <2>4. saves' \subseteq Save /\ isSaving' \in BOOLEAN
    BY <2>1
  <2>5. temp' \in Snapshot \cup {NoFile, Torn} /\ file' \in Snapshot \cup {NoFile, Torn}
    BY <2>1 DEF TypeOK, StateTypeOK
  <2>6. Age(file') >= Age(file)
    BY <1>3, <2>2
  <2> QED BY <2>1, <2>3, <2>4, <2>5, <2>6
<1> QED BY <1>4, <1>5, <1>6

-----------------------------------------------------------------------------
(* One step of Next.                                                       *)

\* What a step preserves beside the types, and what it promises the file.
Good == IInv' /\ Age(file') >= Age(file)

\* A step that touches no save: the types of the rest remain to be shown.
LEMMA QuietStep ==
  ASSUME IInv, UNCHANGED saveVars, age' \in Nat, age' >= age,
         processes' \in Table, saveTimer' \in {"none", "interval", "timeout"},
         phase' \in {"down", "up", "closing", "leaving", "ending", "exiting"},
         restored' \in BOOLEAN, restoring' \in Nat,
         child' \in [managed' -> Nat],
         managed' \subseteq DOMAIN processes', awaited' \subseteq managed',
         spawned' \in Nat, alive' \subseteq 1..spawned',
         EarlyInv'
  PROVE  Good
<1>1. SaveInv'
  BY SaveInvKept DEF IInv
<1>2. Age(file') = Age(file) /\ Age(file) \in Nat
  BY DEF IInv, TypeOK, StateTypeOK, saveVars, Age, Snapshot
<1>3. StateTypeOK'
  BY DEF IInv, TypeOK, StateTypeOK, saveVars
<1>4. TypeOK'
  BY <1>3 DEF TypeOK
<1> QED BY <1>1, <1>2, <1>4 DEF Good, IInv

\* A step that ends the saves of a daemon: Boot, Exit or Crash.
LEMMA VolatileStep ==
  ASSUME IInv, NEW table \in Table, Volatile(table), UNCHANGED <<file, spawned>>,
         saveTimer' \in {"none", "interval"}, phase' \in {"down", "up"},
         restored' \in BOOLEAN, restoring' \in Nat,
         child' = NoChild, awaited' = {}, alive' \subseteq alive
  PROVE  Good
<1>1. SaveInv' /\ age' \in Nat
  BY SaveInvVolatile DEF IInv
<1>2. Age(file') = Age(file) /\ Age(file) \in Nat
  BY DEF IInv, TypeOK, StateTypeOK, Age, Snapshot
<1>3. StateTypeOK'
  BY <1>1 DEF IInv, TypeOK, StateTypeOK, Volatile
<1>4. child' \in [managed' -> Nat] /\ managed' = {}
  BY DEF NoChild, managed
<1>5. TypeOK'
  BY <1>3, <1>4 DEF IInv, TypeOK
<1> QED BY <1>1, <1>2, <1>5 DEF Good, IInv, EarlyInv

\* A step that only begins a save, and perhaps advances the shutdown.
LEMMA SaveStep ==
  ASSUME IInv, SaveState, UNCHANGED <<processes, age, restored, restoring, childVars>>,
         saveTimer' \in {"none", "interval", "timeout"},
         phase' \in {"up", "closing", "leaving", "ending", "exiting"}
  PROVE  Good
<1>1. /\ SaveInv'
      /\ saves' \subseteq Save /\ isSaving' \in BOOLEAN
      /\ temp' \in Snapshot \cup {NoFile, Torn}
      /\ file' = file
  BY SaveInvBegun DEF IInv
<1>2. Age(file') = Age(file) /\ Age(file) \in Nat
  BY <1>1 DEF IInv, TypeOK, StateTypeOK, Age, Snapshot
<1>3. StateTypeOK'
  BY <1>1 DEF IInv, TypeOK, StateTypeOK
<1>4. TypeOK'
  BY <1>3 DEF IInv, TypeOK, childVars, managed
<1> QED BY <1>1, <1>2, <1>4 DEF Good, IInv, EarlyInv

\* The table becomes another, or stays as it is.
Becomes(table) ==
  \/ Change(table)
  \/ table = processes /\ UNCHANGED <<processes, age>>

\* A change of entries, or an entry added: what is common to the actions of the
\* orchestrator, to restoreProcesses and to the shutdown.
LEMMA ChangeStep ==
  ASSUME IInv, phase # "down",
         NEW table \in Table, Becomes(table),
         DOMAIN processes \subseteq DOMAIN table,
         UNCHANGED saveVars, saveTimer' \in {saveTimer, "timeout"},
         phase' \in {phase, "closing", "leaving"},
         restored' \in BOOLEAN, restoring' \in Nat,
         child' \in [managed' -> Nat],
         managed' \subseteq DOMAIN table, awaited' \subseteq managed',
         spawned' \in {spawned, spawned + 1}, alive' \subseteq alive \cup {spawned'},
         spawned' = spawned => alive' \subseteq alive
  PROVE  Good
<1>1. /\ processes' = table /\ age' \in {age, age + 1} /\ age \in Nat
      /\ saveTimer' \in {"none", "interval", "timeout"}
      /\ phase' \in {"up", "closing", "leaving", "ending", "exiting"}
  BY DEF Becomes, Change, IInv, TypeOK, StateTypeOK
<1>2. spawned' \in Nat /\ alive' \subseteq 1..spawned'
  BY DEF IInv, TypeOK
<1>3. EarlyInv' /\ age' \in Nat /\ age' >= age
  BY <1>1 DEF EarlyInv
<1> QED BY <1>1, <1>2, <1>3, QuietStep

\* One that leaves alone what the orchestrator holds.
LEMMA TableStep ==
  ASSUME IInv, phase # "down",
         NEW table \in Table, Becomes(table), DOMAIN processes = DOMAIN table,
         UNCHANGED saveVars, saveTimer' \in {saveTimer, "timeout"},
         UNCHANGED <<phase, child, awaited, spawned>>,
         restored' \in BOOLEAN, restoring' \in Nat, alive' \subseteq alive
  PROVE  Good
<1>1. /\ child \in [managed -> Nat] /\ managed \subseteq DOMAIN processes
      /\ awaited \subseteq managed
  BY DEF IInv, TypeOK
<1>2. managed' = managed
  BY DEF managed
<1> QED BY <1>1, <1>2, ChangeStep

\* restoreProcesses empties the lists of instances.
LEMMA RestoreStep ==
  ASSUME IInv, RestoreProcesses
  PROVE  Good
<1> DEFINE running == {i \in DOMAIN processes : processes[i].status = "running"}
           emptied == [i \in DOMAIN processes |-> IF i \in running
                         THEN [processes[i] EXCEPT !.pid = 0] ELSE processes[i]]
           table == IF running = {} THEN processes ELSE emptied
<1>1. /\ processes \in Table /\ Len(processes) \in Nat /\ DOMAIN processes = 1..Len(processes)
      /\ child \in [managed -> Nat] /\ managed \subseteq DOMAIN processes /\ awaited \subseteq managed
  BY DEF IInv, TypeOK, StateTypeOK, Table
<1>2. emptied \in Table /\ DOMAIN emptied = DOMAIN processes
  <2>1. \A i \in 1..Len(processes) : emptied[i] \in Entry
    <3> SUFFICES ASSUME NEW i \in 1..Len(processes) PROVE emptied[i] \in Entry
      OBVIOUS
    <3>1. processes[i] \in Entry
      BY <1>1 DEF Table
    <3> QED BY <1>1, <3>1 DEF Entry
  <2>2. emptied \in [1..Len(processes) -> Entry]
    BY <1>1, <2>1
  <2> QED BY <1>1, <2>2 DEF Table
<1>3. restoring' \in Nat
  <2>1. IsFiniteSet(1..Len(processes))
    BY <1>1, FS_Interval
  <2>2. IsFiniteSet(running)
    BY <1>1, <2>1, FS_Subset
  <2>3. Cardinality(running) \in Nat
    BY <2>2, FS_CardinalityType
  <2> QED BY <2>3 DEF RestoreProcesses
<1>4. /\ phase # "down" /\ restored' = TRUE
      /\ UNCHANGED saveVars /\ UNCHANGED <<saveTimer, phase, child, awaited, alive, spawned>>
  BY DEF RestoreProcesses, Up, saveVars, childVars
<1>5. Becomes(table)
  <2>1. IF running = {} THEN UNCHANGED <<processes, age>> ELSE Change(emptied)
    BY Zenon DEF RestoreProcesses
  <2> HIDE DEF running, emptied
  <2> QED BY <2>1 DEF Becomes
<1>6. table \in Table /\ DOMAIN table = DOMAIN processes
  BY <1>1, <1>2
<1> HIDE DEF table, running, emptied
<1> QED BY <1>3, <1>4, <1>5, <1>6, TableStep

\* A start returns, one of a client or of restoreProcesses.
LEMMA StartedStep ==
  ASSUME IInv, phase # "down", Started, UNCHANGED saveVars, UNCHANGED <<phase, restored>>,
         restoring' \in Nat
  PROVE  Good
<1> DEFINE new == [status |-> "running", pid |-> spawned + 1]
           table == Append(processes, new)
<1>1. /\ processes \in Table /\ Len(processes) \in Nat /\ DOMAIN processes = 1..Len(processes)
      /\ spawned \in Nat /\ restored \in BOOLEAN
      /\ managed \subseteq DOMAIN processes /\ awaited \subseteq managed
  BY DEF IInv, TypeOK, StateTypeOK, Table
<1>2. new \in Entry
  BY <1>1 DEF Entry
<1>3. /\ Becomes(table) /\ saveTimer' = "timeout"
      /\ spawned' = spawned + 1 /\ alive' = alive \cup {spawned'}
      /\ child' = WithChild(NewEntry, spawned + 1)
      /\ awaited' \subseteq awaited \cup {NewEntry}
  BY DEF Started, Record, Becomes
<1> HIDE DEF new
<1>4. /\ table \in Table /\ DOMAIN table = 1..(Len(processes) + 1)
      /\ DOMAIN processes \subseteq DOMAIN table
  BY <1>1, <1>2 DEF Table
<1> HIDE DEF table
<1>5. managed' = managed \cup {NewEntry} /\ child' \in [managed' -> Nat]
  <2>1. PICK pid \in Nat : pid = spawned + 1
    BY <1>1
  <2>3. /\ DOMAIN WithChild(NewEntry, pid) = managed \cup {NewEntry}
        /\ WithChild(NewEntry, pid) \in [managed \cup {NewEntry} -> Nat]
    BY <2>1, ChildTyping DEF IInv
  <2>2. managed' = DOMAIN child'
    BY DEF managed
  <2> QED BY <1>3, <2>1, <2>2, <2>3
<1>6. managed' \subseteq DOMAIN table /\ awaited' \subseteq managed'
  BY <1>1, <1>3, <1>4, <1>5 DEF NewEntry
<1>7. /\ restored' \in BOOLEAN /\ phase' = phase /\ saveTimer' \in {saveTimer, "timeout"}
      /\ spawned' \in {spawned, spawned + 1} /\ alive' \subseteq alive \cup {spawned'}
      /\ spawned' # spawned
  BY <1>1, <1>3
<1> QED BY <1>3, <1>4, <1>5, <1>6, <1>7, ChangeStep

\* Every step keeps the invariant, and the file does not go back.
LEMMA NextGood ==
  ASSUME IInv, [Next]_vars
  PROVE  Good
<1>1. /\ processes \in Table /\ Len(processes) \in Nat /\ DOMAIN processes = 1..Len(processes)
      /\ age \in Nat /\ spawned \in Nat /\ alive \subseteq 1..spawned
      /\ child \in [managed -> Nat] /\ restored \in BOOLEAN /\ restoring \in Nat
      /\ managed \subseteq DOMAIN processes /\ awaited \subseteq managed
      /\ saveTimer \in {"none", "interval", "timeout"}
      /\ phase \in {"down", "up", "closing", "leaving", "ending", "exiting"}
  BY DEF IInv, TypeOK, StateTypeOK, Table
<1>2. \A i \in managed : phase # "down" /\ processes[i] \in Entry
                          /\ processes[i].pid \in Nat
                          /\ processes[i].status \in {"starting", "running", "errored", "stopping", "stopped"}
  <2> SUFFICES ASSUME NEW i \in managed
               PROVE  /\ phase # "down" /\ processes[i] \in Entry
                      /\ processes[i].pid \in Nat
                      /\ processes[i].status \in {"starting", "running", "errored", "stopping", "stopped"}
    OBVIOUS
  <2>1. phase # "down"
    BY DEF IInv, EarlyInv, NoChild, managed
  <2>2. processes[i] \in Entry
    BY <1>1 DEF Table
  <2> QED BY <2>1, <2>2 DEF Entry
<1>3. CASE Boot
  <2>1. (IF file \in {NoFile, Torn} THEN <<>>
         ELSE CleanupOrphanedProcesses(file.processes, alive)) \in Table
    <3>1. CASE file \in {NoFile, Torn}
      BY <3>1 DEF Table
    <3>2. CASE file \notin {NoFile, Torn}
      <4>1. file.processes \in Table
        BY <3>2 DEF IInv, TypeOK, StateTypeOK, Snapshot
      <4> QED BY <3>2, <4>1, CleanupTyping
    <3> QED BY <3>1, <3>2
  <2>2. child' = NoChild /\ awaited' = {} /\ UNCHANGED <<restored, restoring, alive, spawned>>
    BY <1>1, <1>3 DEF Boot, IInv, EarlyInv, NoChild, managed, childVars
  <2> QED BY <1>1, <1>3, <2>1, <2>2, VolatileStep DEF Boot, LoadState
<1>4. CASE RestoreProcesses
  BY <1>4, RestoreStep
<1>5. CASE ProcessStarted
  <2>1. phase # "down" /\ Started /\ UNCHANGED saveVars /\ UNCHANGED <<phase, restored, restoring>>
    BY <1>5 DEF ProcessStarted, saveVars
  <2> QED BY <1>1, <2>1, StartedStep
<1>6. ASSUME NEW ok \in BOOLEAN, RestoredStart(ok)
       PROVE  Good
  <2>1. /\ phase # "down" /\ UNCHANGED saveVars /\ UNCHANGED <<phase, restored>>
        /\ restoring' \in Nat
    BY <1>1, <1>6 DEF RestoredStart, Up, saveVars
  <2>2. CASE Started
    BY <2>1, <2>2, StartedStep
  <2>3. CASE UNCHANGED <<processes, age, saveTimer, childVars>>
    <3>1. UNCHANGED <<processes, age, saveTimer, child, awaited, alive, spawned>>
      BY <2>3 DEF childVars
    <3>2. Becomes(processes)
      BY <3>1 DEF Becomes
    <3> QED BY <1>1, <2>1, <3>1, <3>2, TableStep
  <2> QED BY <1>6, <2>2, <2>3 DEF RestoredStart
<1>7. ASSUME NEW i \in managed, NEW status \in {"errored", "stopped"}, InstanceExit(i, status)
      PROVE  Good
  <2>1. PICK table : table = Put(i, IF Listed(i) THEN status ELSE "stopped", processes[i].pid)
    OBVIOUS
  <2>2. table \in Table /\ DOMAIN table = DOMAIN processes
    BY <1>2, <2>1, PutTyping DEF IInv
  <2>3. /\ Becomes(table) /\ saveTimer' = "timeout"
        /\ UNCHANGED saveVars /\ UNCHANGED <<phase, restored, restoring, child, awaited, spawned>>
        /\ alive' \subseteq alive
    BY <1>7, <2>1 DEF InstanceExit, Record, Becomes, saveVars
  <2> QED BY <1>1, <1>2, <2>2, <2>3, TableStep
<1>8. ASSUME NEW i \in managed, InstanceRestarted(i)
      PROVE  Good
  <2>1. PICK table : table = IF Listed(i) THEN Put(i, processes[i].status, spawned + 1) ELSE processes
    OBVIOUS
  <2>2. table \in Table /\ DOMAIN table = DOMAIN processes
    <3>1. PICK pid \in Nat : pid = spawned + 1
      BY <1>1
    <3>2. /\ Put(i, processes[i].status, pid) \in Table
          /\ DOMAIN Put(i, processes[i].status, pid) = DOMAIN processes
      BY <1>2, PutTyping DEF IInv
    <3> QED BY <1>1, <2>1, <3>1, <3>2
  <2>3. /\ spawned' = spawned + 1 /\ alive' = alive \cup {spawned'}
        /\ Becomes(table)
        /\ UNCHANGED saveVars /\ UNCHANGED <<saveTimer, phase, restored, restoring, awaited>>
    BY <1>8, <2>1 DEF InstanceRestarted, Becomes, saveVars
  <2>4. child' \in [managed' -> Nat] /\ managed' = managed
    <3>1. PICK pid \in Nat : child' = WithChild(i, pid)
      BY <1>1, <1>8 DEF InstanceRestarted
    <3>2. /\ DOMAIN WithChild(i, pid) = managed \cup {i}
          /\ WithChild(i, pid) \in [managed \cup {i} -> Nat]
      BY ChildTyping DEF IInv
    <3>3. managed' = DOMAIN child' /\ managed \cup {i} = managed
      BY DEF managed
    <3> QED BY <3>1, <3>2, <3>3
  <2>5. /\ UNCHANGED saveVars /\ saveTimer' \in {saveTimer, "timeout"}
        /\ phase' \in {phase, "closing", "leaving"} /\ phase # "down"
        /\ restored' \in BOOLEAN /\ restoring' \in Nat
    BY <1>1, <1>2, <1>8, <2>3 DEF InstanceRestarted, Up, IInv, TypeOK
  <2>6. managed' \subseteq DOMAIN table /\ awaited' \subseteq managed'
    BY <1>1, <2>2, <2>3, <2>4
  <2>7. /\ spawned' \in {spawned, spawned + 1} /\ alive' \subseteq alive \cup {spawned'}
        /\ spawned' = spawned => alive' \subseteq alive
    BY <1>1, <2>3
  <2>8. DOMAIN processes \subseteq DOMAIN table /\ child' \in [managed' -> Nat]
    BY <2>2, <2>4
  <2> QED BY <2>2, <2>3, <2>5, <2>6, <2>7, <2>8, ChangeStep DEF IInv
<1>9. ASSUME NEW i \in managed, StopRequested(i)
      PROVE  Good
  <2>1. PICK table : table = Put(i, "stopping", processes[i].pid)
    OBVIOUS
  <2>2. table \in Table /\ DOMAIN table = DOMAIN processes
    BY <1>2, <2>1, PutTyping DEF IInv
  <2>3. /\ Becomes(table) /\ saveTimer' = saveTimer
        /\ UNCHANGED saveVars
        /\ UNCHANGED <<phase, restored, restoring, child, awaited, alive, spawned>>
    BY <1>9, <2>1 DEF StopRequested, Becomes, saveVars, childVars
  <2> QED BY <1>1, <1>2, <2>2, <2>3, TableStep
<1>10. ASSUME NEW i \in managed, ProcessStopped(i)
      PROVE  Good
  <2>1. PICK table : table = Put(i, "stopped", processes[i].pid)
    OBVIOUS
  <2>2. table \in Table /\ DOMAIN table = DOMAIN processes
    BY <1>2, <2>1, PutTyping DEF IInv
  <2>3. /\ Becomes(table) /\ saveTimer' = "timeout"
        /\ UNCHANGED saveVars /\ UNCHANGED <<phase, restored, restoring, child, awaited, spawned>>
        /\ alive' \subseteq alive
    BY <1>10, <2>1 DEF ProcessStopped, Record, Becomes, saveVars
  <2> QED BY <1>1, <1>2, <2>2, <2>3, TableStep
<1>11. ASSUME NEW i \in managed, NEW ok \in BOOLEAN, ProcessRestarted(i, ok)
       PROVE  Good
  <2>1. PICK table : table = IF ok THEN Put(i, "running", spawned + 1) ELSE Put(i, "starting", 0)
    OBVIOUS
  <2>2. table \in Table /\ DOMAIN table = DOMAIN processes
    <3>1. /\ Put(i, "running", spawned + 1) \in Table
          /\ DOMAIN Put(i, "running", spawned + 1) = DOMAIN processes
      BY <1>1, PutTyping DEF IInv
    <3>2. /\ Put(i, "starting", 0) \in Table
          /\ DOMAIN Put(i, "starting", 0) = DOMAIN processes
      BY PutTyping DEF IInv
    <3> QED BY <2>1, <3>1, <3>2
  <2>3. /\ Becomes(table) /\ saveTimer' = "timeout"
        /\ UNCHANGED saveVars /\ UNCHANGED <<phase, restored, restoring, awaited>>
        /\ spawned' = IF ok THEN spawned + 1 ELSE spawned
        /\ alive' = (alive \ {processes[i].pid}) \cup (spawned + 1)..spawned'
    BY <1>11, <2>1 DEF ProcessRestarted, Record, Becomes, saveVars
  <2>4. /\ spawned' \in {spawned, spawned + 1} /\ alive' \subseteq alive \cup {spawned'}
        /\ spawned' = spawned => alive' \subseteq alive
    BY <1>1, <2>3
  <2>5. child' \in [managed' -> Nat] /\ managed' = managed
    <3>1. PICK pid \in Nat : child' = WithChild(i, pid)
      BY <1>1, <1>11 DEF ProcessRestarted
    <3>2. /\ DOMAIN WithChild(i, pid) = managed \cup {i}
          /\ WithChild(i, pid) \in [managed \cup {i} -> Nat]
      BY ChildTyping DEF IInv
    <3>3. managed' = DOMAIN child' /\ managed \cup {i} = managed
      BY DEF managed
    <3> QED BY <3>1, <3>2, <3>3
  <2>6. /\ UNCHANGED saveVars /\ saveTimer' \in {saveTimer, "timeout"}
        /\ phase' \in {phase, "closing", "leaving"} /\ phase # "down"
        /\ restored' \in BOOLEAN /\ restoring' \in Nat
    BY <1>1, <1>2, <2>3
  <2>7. managed' \subseteq DOMAIN table /\ awaited' \subseteq managed'
    BY <1>1, <2>2, <2>3, <2>5
  <2>8. DOMAIN processes \subseteq DOMAIN table /\ child' \in [managed' -> Nat]
    BY <2>2, <2>5
  <2> QED BY <2>2, <2>3, <2>4, <2>6, <2>7, <2>8, ChangeStep DEF IInv
<1>12. ASSUME NEW signal \in BOOLEAN, GracefulShutdown(signal)
       PROVE  Good
  <2> DEFINE active == {i \in managed : processes[i].status \in {"running", "starting"}}
             table == [i \in DOMAIN processes |-> IF i \in active
                  THEN [processes[i] EXCEPT !.status = "stopping"] ELSE processes[i]]
  <2>1. /\ Becomes(table) /\ phase = "up" /\ phase' \in {"closing", "leaving"}
        /\ awaited' = active
        /\ UNCHANGED saveVars /\ UNCHANGED <<saveTimer, restored, restoring, child, alive, spawned>>
    BY <1>12 DEF GracefulShutdown, Becomes, saveVars
  <2>2. \A i \in 1..Len(processes) : table[i] \in Entry
    <3> SUFFICES ASSUME NEW i \in 1..Len(processes) PROVE table[i] \in Entry
      OBVIOUS
    <3>1. processes[i] \in Entry
      BY <1>1 DEF Table
    <3> QED BY <1>1, <3>1 DEF Entry
  <2>3. table \in [1..Len(processes) -> Entry] /\ DOMAIN table = DOMAIN processes
    BY <1>1, <2>2
  <2>4. table \in Table
    BY <1>1, <2>3 DEF Table
  <2>5. awaited' \subseteq managed /\ managed' = managed
    BY <2>1 DEF managed
  <2> HIDE DEF table, active
  <2> QED BY SMTT(30), <1>1, <2>1, <2>3, <2>4, <2>5, ChangeStep
<1>13. CASE SaveFinalState
  BY <1>1, <1>13, SaveStep DEF SaveFinalState, ForceSave
<1>14. CASE ShutdownState
  BY <1>1, <1>14, SaveStep DEF ShutdownState, Shutdown
<1>15. CASE Exit \/ Crash
  <2>1. Gone
    BY <1>15 DEF Exit, Crash
  <2>2. <<>> \in Table
    BY DEF Table
  <2> QED BY <2>1, <2>2, VolatileStep DEF Gone
<1>16. CASE Up /\ TimerFires /\ UNCHANGED daemonVars
  BY <1>1, <1>16, SaveStep DEF TimerFires, Up, daemonVars
<1>17. ASSUME NEW s \in saves, WriteDone(s) \/ RenameDone(s) \/ SaveFails(s),
              UNCHANGED daemonVars
       PROVE  Good
  <2>1. /\ SaveInv'
        /\ saves' \subseteq Save /\ isSaving' \in BOOLEAN
        /\ temp' \in Snapshot \cup {NoFile, Torn} /\ file' \in Snapshot \cup {NoFile, Torn}
        /\ Age(file') >= Age(file)
        /\ UNCHANGED <<processes, age, saveTimer>>
    BY <1>17, SaveInvDisk DEF IInv
  <2>2. StateTypeOK'
    BY <1>1, <2>1 DEF StateTypeOK
  <2>3. TypeOK' /\ EarlyInv'
    BY <1>17, <2>1, <2>2 DEF IInv, TypeOK, EarlyInv, daemonVars, childVars, managed
  <2> QED BY <2>1, <2>3 DEF Good, IInv
<1>18. CASE UNCHANGED vars
  <2>1. /\ UNCHANGED saveVars /\ managed' = managed
        /\ UNCHANGED <<processes, age, saveTimer, phase, restored, restoring, child, awaited, alive, spawned>>
    BY <1>18 DEF vars, stateVars, saveVars, daemonVars, childVars, managed
  <2>2. EarlyInv'
    BY <2>1 DEF IInv, EarlyInv
  <2> QED BY <1>1, <2>1, <2>2, QuietStep
<1> QED
  BY <1>3, <1>4, <1>5, <1>7, <1>8, <1>9, <1>10, <1>11, <1>12, <1>13, <1>14, <1>15, <1>16,
     <1>17, <1>18, <1>6 DEF Next

-----------------------------------------------------------------------------
\* The invariant of the daemon and its saves holds in every reachable state.
THEOREM Invariance == Spec => []IInv
<1>1. Init => IInv
  <2> SUFFICES ASSUME Init PROVE IInv
    OBVIOUS
  <2>1. SaveInv /\ EarlyInv
    BY FileAssumption DEF Init, StateInit, SaveInv, EarlyInv, Age
  <2>2. processes \in Table /\ age \in Nat
    BY DEF Init, StateInit, Table
  <2>3. StateTypeOK
    BY <2>2 DEF Init, StateInit, StateTypeOK
  <2>4. /\ managed \subseteq DOMAIN processes /\ alive \subseteq 1..spawned
        /\ child \in [managed -> Nat]
    BY DEF Init, managed, NoChild
  <2> QED BY <2>1, <2>3, <2>4 DEF Init, IInv, TypeOK
<1>2. IInv /\ [Next]_vars => IInv'
  BY NextGood DEF Good
<1> QED BY <1>1, <1>2, PTL DEF Spec

\* The variables keep their types, and what the orchestrator shares with the
\* StateManager is in the table (setProcess).
THEOREM TypeInvariance == Spec => []TypeOK
<1>1. IInv => TypeOK
  BY DEF IInv
<1> QED BY <1>1, Invariance, PTL

\* The state file can always be parsed, although the daemon may die between
\* any two steps of saveStateAsync.
THEOREM FileStaysWhole == Spec => []FileWhole
<1>1. IInv => FileWhole
  BY DEF IInv, SaveInv, FileWhole
<1> QED BY <1>1, Invariance, PTL

\* The state file never goes back to an older state.
THEOREM FileIsMonotone == Spec => FileNeverOlder
<1>1. IInv /\ [Next]_vars => [Age(file') >= Age(file)]_stateVars
  BY NextGood DEF Good
<1> QED BY <1>1, Invariance, PTL DEF Spec, FileNeverOlder
=============================================================================
