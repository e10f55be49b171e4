---------------------------- MODULE FileWatcher ----------------------------
(***************************************************************************)
(* The FileWatcher of NodeDaemon: the watchers of fs.watch, the debounced  *)
(* handlers and the checks of processFileChange.  A check is suspended in  *)
(* stat and in readFile, and checks of one file may overlap.  The actions  *)
(* are steps of module WatchedProcesses, which takes the changes emitted.  *)
(***************************************************************************)
EXTENDS Integers

CONSTANTS
  Dirs,        \* the paths that are watched; they exist
  Files,       \* the files below them that no pattern ignores
  Inside,      \* Inside[d]: the files that fs.watch reports for d
  MaxVersion,  \* bound: each file is written and deleted less often
  Checks,      \* bound: so many checks are suspended at a time
  Unknown      \* no entry of watchedFiles

ASSUME WatchAssumption == Inside \in [Dirs -> SUBSET Files] /\ MaxVersion \in Nat

VARIABLES
  disk,      \* the files as they are
  watchers,  \* the keys of the Map
  open,      \* how many FSWatchers of each path are open
  events,    \* the files whose event waits for the callback
  known,     \* watchedFiles
  pending,   \* the files whose debounced handler has its timer armed
  dropped,   \* how many more timers are armed, of handlers that were cleared
  checks     \* the calls of processFileChange that are suspended

watcherVars == <<disk, watchers, open, events, known, pending, dropped, checks>>

\* What watchedFiles keeps of a file: the version stat saw, and the one
\* readFile saw (0: it failed, the hash is '').  The size goes with the first.
Stamp == [mtime: Nat, hash: Nat]

ASSUME UnknownAssumption == Unknown \notin Stamp

Idle == [stage |-> "idle"]

Check ==
  {Idle}
    \cup [stage: {"stat"}, file: Files, existing: Stamp \cup {Unknown}]
    \cup [stage: {"read"}, file: Files, existing: Stamp \cup {Unknown}, mtime: Nat]
    \cup [stage: {"hashed"}, file: Files, existing: Stamp \cup {Unknown}, stamp: Stamp]

WatcherInit ==
  /\ disk = [f \in Files |-> [version |-> 1, exists |-> TRUE]]
  /\ watchers = {} /\ open = [d \in Dirs |-> 0]
  /\ events = {}
  /\ known = [f \in Files |-> Unknown]
  /\ pending = {} /\ dropped = [f \in Files |-> 0]
  /\ checks = [c \in Checks |-> Idle]

\* The files that an open watcher reports.
Reported(counts) == {f \in Files : \E d \in Dirs : f \in Inside[d] /\ counts[d] > 0}

-----------------------------------------------------------------------------
(* watch and unwatch.                                                      *)

\* A second watcher of the same path takes the place of the first in the Map;
\* the first stays open.
Watch(d) ==
  /\ watchers' = watchers \cup {d}
  /\ open' = [open EXCEPT ![d] = @ + 1]
  /\ UNCHANGED <<disk, events, known, pending, dropped, checks>>

BugUnwatch ==
  /\ open' = [d \in Dirs |-> open[d] - 1]
  /\ watchers' = {}
  /\ events' = events \cap Reported(open')
  /\ known' = [f \in Files |-> Unknown]
  /\ dropped' = [f \in Files |-> IF f \in pending THEN dropped[f] + 1 ELSE dropped[f]]
  /\ pending' = {}
  /\ UNCHANGED <<disk, checks>>

\* The timers that are armed, and the checks that are suspended, go on.
Unwatch ==
  /\ open' = [d \in Dirs |-> IF d \in watchers THEN open[d] - 1 ELSE open[d]]
  /\ watchers' = {}
  /\ events' = events \cap Reported(open')
  /\ known' = [f \in Files |-> Unknown]
  /\ dropped' = [f \in Files |-> IF f \in pending THEN dropped[f] + 1 ELSE dropped[f]]
  /\ pending' = {}
  /\ UNCHANGED <<disk, checks>>

-----------------------------------------------------------------------------
(* The files change.                                                       *)

Written(f) ==
  /\ disk[f].version < MaxVersion
  /\ disk' = [disk EXCEPT ![f] = [version |-> disk[f].version + 1, exists |-> TRUE]]
  /\ events' = events \cup ({f} \cap Reported(open))
  /\ UNCHANGED <<watchers, open, known, pending, dropped, checks>>

Deleted(f) ==
  /\ disk[f].exists /\ disk[f].version < MaxVersion
  /\ disk' = [disk EXCEPT ![f] = [version |-> disk[f].version + 1, exists |-> FALSE]]
  /\ events' = events \cup ({f} \cap Reported(open))
  /\ UNCHANGED <<watchers, open, known, pending, dropped, checks>>

-----------------------------------------------------------------------------
(* From an event to a change.                                              *)

\* The timer of the file is set anew.
HandleFileEvent(f) ==
  /\ f \in events
  /\ events' = events \ {f}
  /\ pending' = pending \cup {f}
  /\ UNCHANGED <<disk, watchers, open, known, dropped, checks>>

\* One of the armed timers of f fires.
TimerFires(f) ==
  \/ f \in pending /\ pending' = pending \ {f} /\ UNCHANGED dropped
  \/ dropped[f] > 0 /\ dropped' = [dropped EXCEPT ![f] = @ - 1] /\ UNCHANGED pending

\* processFileChange finds no file: an unlink, if the file had an entry.
Unlinks(f) == ~disk[f].exists /\ known[f] # Unknown

Free == {c \in Checks : checks[c] = Idle}

\* ... it finds one: the check looks up its entry before it waits for stat.
ProcessFileChange(f) ==
  /\ TimerFires(f)
  /\ IF disk[f].exists
       THEN /\ Free # {}
            /\ checks' = [checks EXCEPT ![CHOOSE c \in Free : TRUE] =
                            [stage |-> "stat", file |-> f, existing |-> known[f]]]
            /\ UNCHANGED known
       ELSE known' = [known EXCEPT ![f] = Unknown] /\ UNCHANGED checks
  /\ UNCHANGED <<disk, watchers, open, events>>

\* stat has returned, or failed ('error').
StatDone(c) ==
  /\ checks[c].stage = "stat"
  /\ LET f == checks[c].file
     IN checks' = [checks EXCEPT ![c] =
          IF disk[f].exists
            THEN [stage |-> "read", file |-> f, existing |-> checks[c].existing,
                  mtime |-> disk[f].version]
            ELSE Idle]
  /\ UNCHANGED <<disk, watchers, open, events, known, pending, dropped>>

\* readFile has taken the content, or failed.
FileRead(c) ==
  /\ checks[c].stage = "read"
  /\ LET f == checks[c].file
         hash == IF disk[f].exists THEN disk[f].version ELSE 0
     IN checks' = [checks EXCEPT ![c] =
          [stage |-> "hashed", file |-> f, existing |-> checks[c].existing,
           stamp |-> [mtime |-> checks[c].mtime, hash |-> hash]]]
  /\ UNCHANGED <<disk, watchers, open, events, known, pending, dropped>>

BugHasChanged(c) == checks[c].existing # Unknown /\ checks[c].stamp # checks[c].existing

\* The file is new, or no longer what it was when the check began.
HasChanged(c) == checks[c].stamp # checks[c].existing

\* readFile has returned.
CheckDone(c) ==
  /\ checks[c].stage = "hashed"
  /\ known' = IF HasChanged(c) THEN [known EXCEPT ![checks[c].file] = checks[c].stamp] ELSE known
  /\ checks' = [checks EXCEPT ![c] = Idle]
  /\ UNCHANGED <<disk, watchers, open, events, pending, dropped>>

-----------------------------------------------------------------------------
WatcherTypeOK ==
  /\ disk \in [Files -> [version: Nat, exists: BOOLEAN]]
  /\ watchers \subseteq Dirs /\ open \in [Dirs -> Nat]
  /\ events \subseteq Files
  /\ known \in [Files -> Stamp \cup {Unknown}]
  /\ pending \subseteq Files /\ dropped \in [Files -> Nat]
  /\ checks \in [Checks -> Check]
=============================================================================
