----------------------------- MODULE LogManager -----------------------------
(***************************************************************************)
(* The LogManager of NodeDaemon: the ring buffer of recent entries, one    *)
(* stream for each log file, and rotation.  Lines are written, files are   *)
(* opened, measured and compressed by the thread pool while the program    *)
(* goes on; all of this works with paths, and a path may have come to name *)
(* another file, or none.                                                  *)
(***************************************************************************)
EXTENDS Naturals, SequencesExt, FiniteSets

CONSTANTS
  Name,             \* the names of streams
  Main,             \* 'daemon', the stream of entries without a process
  MAX_LOG_SIZE,     \* in lines
  MAX_LOG_FILES,
  LOG_BUFFER_SIZE,
  MaxLines,         \* bound: so many entries are logged
  MaxOverlap,       \* bound: so many rotations of a log are not yet complete
  Time,             \* Time[e]: when the e-th entry is logged
  NoStream, NoFile

ASSUME LogAssumption ==
  /\ Main \in Name
  /\ MAX_LOG_SIZE \in Nat /\ LOG_BUFFER_SIZE \in Nat \ {0}
  /\ MaxLines \in Nat /\ MaxOverlap \in Nat
  /\ MAX_LOG_FILES \in Nat /\ MAX_LOG_FILES > 1
  /\ Time \in [1..MaxLines -> Nat] /\ \A e, f \in 1..MaxLines : e <= f => Time[e] <= Time[f]
  /\ NoFile \notin Nat

VARIABLES
  logged,      \* history: the stream of each entry; an entry is its number here
  buffer,      \* logBuffer
  bufferIndex,
  current,     \* logStreams
  ending,      \* the streams that were ended and not yet closed, for each name
  checking,    \* how many calls of checkLogRotationAsync are suspended in stat
  full,        \* and how many have an answer above the limit
  jobs,        \* the compressions under way
  file,        \* file[n]: what the path of the log names, NoFile or a number
  files,       \* the lines of each log file ever made; an unlinked one stays
               \* as long as a stream or a compression has it open
  archive,     \* archive[n][k]: what the k-th archive is, NoFile or a number
  archives,    \* the lines of each archive ever made
  stage        \* "running", "closing" once shutdown is called, "closed"

bufferVars == <<logged, buffer, bufferIndex>>
streamVars == <<current, ending>>
diskVars == <<file, files, archive, archives>>
vars == <<bufferVars, streamVars, checking, full, jobs, diskVars, stage>>

Slots == 1..(MAX_LOG_FILES - 1)

\* Two compressions wrote different lines over each other.
Torn == <<0>>

\* A stream: the file it has opened, what it has still to write, and whether
\* shutdown waits for it to close.
NewStream == [file |-> NoFile, queue |-> <<>>, awaited |-> FALSE]
NewJob == [source |-> NoFile, failed |-> FALSE, target |-> NoFile, read |-> FALSE, lines |-> <<>>]

\* The constructor makes the stream of the daemon; logs of earlier runs may be
\* there, but are of no interest.
Init ==
  /\ logged = <<>> /\ buffer = <<>> /\ bufferIndex = 0
  /\ current = [n \in Name |-> IF n = Main THEN NewStream ELSE NoStream]
  /\ ending = [n \in Name |-> <<>>]
  /\ checking = [n \in Name |-> 0] /\ full = [n \in Name |-> 0]
  /\ jobs = [n \in Name |-> <<>>]
  /\ file = [n \in Name |-> NoFile] /\ files = <<>>
  /\ archive = [n \in Name |-> [k \in Slots |-> NoFile]] /\ archives = <<>>
  /\ stage = "running"

-----------------------------------------------------------------------------
(* Entries.                                                                *)

BugAddToBuffer(entry) ==
  IF Len(buffer) <= LOG_BUFFER_SIZE
    THEN buffer' = Append(buffer, entry) /\ UNCHANGED bufferIndex
    ELSE /\ buffer' = [buffer EXCEPT ![bufferIndex + 1] = entry]
         /\ bufferIndex' = (bufferIndex + 1) % LOG_BUFFER_SIZE

\* The index counts from 0.
AddToBuffer(entry) ==
  IF Len(buffer) < LOG_BUFFER_SIZE
    THEN buffer' = Append(buffer, entry) /\ UNCHANGED bufferIndex
    ELSE /\ buffer' = [buffer EXCEPT ![bufferIndex + 1] = entry]
         /\ bufferIndex' = (bufferIndex + 1) % LOG_BUFFER_SIZE

\* What the sort of getRecentLogs puts first: the latest time, and it is stable.
Precedes(i, j) ==
  \/ Time[buffer[i]] > Time[buffer[j]]
  \/ Time[buffer[i]] = Time[buffer[j]] /\ i < j

Sorted(found) ==
  CHOOSE order \in [1..Cardinality(found) -> found] :
    \A k, l \in DOMAIN order : k < l => Precedes(order[k], order[l])

\* getRecentLogs, of the streams it is asked for.
RecentLogs(count, names) ==
  LET found == {i \in DOMAIN buffer : logged[buffer[i]] \in names}
  IN [k \in 1..Min({count, Cardinality(found)}) |-> buffer[Sorted(found)[k]]]

\* log: "streams" are logStreams as they are when it is called.
Log(name, streams) ==
  /\ Len(logged) < MaxLines
  /\ logged' = Append(logged, name)
  /\ AddToBuffer(Len(logged'))
  /\ LET stream == IF streams[name] = NoStream THEN NewStream ELSE streams[name]
     IN current' = [streams EXCEPT ![name] = [stream EXCEPT !.queue = Append(@, Len(logged'))]]
  /\ checking' = [checking EXCEPT ![name] = @ + 1]

LogEntry(name) ==
  /\ stage = "running"
  /\ Log(name, current)
  /\ UNCHANGED <<ending, full, jobs, diskVars, stage>>

-----------------------------------------------------------------------------
(* The streams at work.                                                    *)

\* Open with the flag 'a': an existing file, or a new one.
Opened(n) == IF file[n] # NoFile THEN file[n] ELSE Len(files) + 1

OpensPath(n) ==
  /\ file' = [file EXCEPT ![n] = Opened(n)]
  /\ files' = IF file[n] # NoFile THEN files ELSE Append(files, <<>>)

CurrentOpens(n) ==
  /\ current[n] # NoStream /\ current[n].file = NoFile
  /\ current' = [current EXCEPT ![n].file = Opened(n)]
  /\ OpensPath(n)
  /\ UNCHANGED <<bufferVars, ending, checking, full, jobs, archive, archives, stage>>

EndingOpens(n, i) ==
  /\ ending[n][i].file = NoFile
  /\ ending' = [ending EXCEPT ![n][i].file = Opened(n)]
  /\ OpensPath(n)
  /\ UNCHANGED <<bufferVars, current, checking, full, jobs, archive, archives, stage>>

BugWrites(stream) ==
  /\ stream.file # NoFile /\ stream.queue # <<>>
  /\ files' = [files EXCEPT ![stream.file] = @ \o stream.queue]

\* All that is queued is written.
Writes(stream) ==
  /\ stream.file # NoFile
  /\ files' = [files EXCEPT ![stream.file] = @ \o stream.queue]

CurrentWrites(n) ==
  /\ current[n] # NoStream /\ current[n].queue # <<>>
  /\ Writes(current[n])
  /\ current' = [current EXCEPT ![n].queue = <<>>]
  /\ UNCHANGED <<bufferVars, ending, checking, full, jobs, file, archive, archives, stage>>

\* A stream that was ended closes when it has written everything.
EndingCloses(n, i) ==
  /\ Writes(ending[n][i])
  /\ ending' = [ending EXCEPT ![n] = RemoveAt(@, i)]
  /\ UNCHANGED <<bufferVars, current, checking, full, jobs, file, archive, archives, stage>>

-----------------------------------------------------------------------------
(* Rotation.                                                               *)

\* stat answers; ENOENT is ignored.
StatDone(n) ==
  /\ checking[n] > 0
  /\ checking' = [checking EXCEPT ![n] = @ - 1]
  /\ full' = [full EXCEPT ![n] =
       IF file[n] # NoFile /\ Len(files[file[n]]) > MAX_LOG_SIZE THEN @ + 1 ELSE @]
  /\ UNCHANGED <<bufferVars, streamVars, jobs, diskVars, stage>>

BugEnded(n) == [ending EXCEPT ![n] = @]

Ended(n) ==
  IF current[n] = NoStream THEN ending
  ELSE [ending EXCEPT ![n] = Append(@, current[n])]

\* rotateLogFiles: the last archive goes, each other becomes the next, from
\* the last to the first.
Shifted(slots) == [k \in Slots |-> IF k = 1 THEN NoFile ELSE slots[k - 1]]

\* rotateLog: its entry goes to the stream of the daemon.
Rotate(n) ==
  /\ full[n] > 0
  /\ Len(jobs[n]) < MaxOverlap /\ Len(ending[n]) < MaxOverlap
  /\ full' = [full EXCEPT ![n] = @ - 1]
  /\ ending' = Ended(n)
  /\ archive' = [archive EXCEPT ![n] = Shifted(@)]
  /\ jobs' = IF file[n] = NoFile THEN jobs ELSE [jobs EXCEPT ![n] = Append(@, NewJob)]
  /\ LET streams == [current EXCEPT ![n] = NewStream]
     IN IF stage = "running" THEN Log(Main, streams)
        ELSE current' = streams /\ UNCHANGED <<bufferVars, checking>>
  /\ UNCHANGED <<file, files, archives, stage>>

\* The first operation on the archives fails: no stream is left.
RotateFails(n) ==
  /\ full[n] > 0 /\ \E k \in Slots : archive[n][k] # NoFile
  /\ full' = [full EXCEPT ![n] = @ - 1]
  /\ ending' = Ended(n)
  /\ current' = [current EXCEPT ![n] = NoStream]
  /\ UNCHANGED <<bufferVars, checking, jobs, diskVars, stage>>

-----------------------------------------------------------------------------
(* compressAndMove: its source is opened and read to the end, and its target *)
(* opened, each when the thread pool comes to it.                          *)

\* A source that is gone ends the compression, but not before the target, whose
\* opening is under way, is there, empty.
SourceOpens(n, j) ==
  LET job == jobs[n][j]
  IN /\ job.source = NoFile /\ ~job.failed
     /\ jobs' = IF file[n] # NoFile THEN [jobs EXCEPT ![n][j].source = file[n]]
                ELSE IF job.target = NoFile THEN [jobs EXCEPT ![n][j].failed = TRUE]
                ELSE [jobs EXCEPT ![n] = RemoveAt(@, j)]
     /\ UNCHANGED <<bufferVars, streamVars, checking, full, diskVars, stage>>

SourceRead(n, j) ==
  LET job == jobs[n][j]
  IN /\ job.source # NoFile /\ ~job.read
     /\ jobs' = [jobs EXCEPT ![n][j].read = TRUE, ![n][j].lines = files[job.source]]
     /\ UNCHANGED <<bufferVars, streamVars, checking, full, diskVars, stage>>

\* What is there is truncated, whoever is writing it.
TargetOpens(n, j) ==
  /\ jobs[n][j].target = NoFile
  /\ LET old == archive[n][1]
         target == IF old # NoFile THEN old ELSE Len(archives) + 1
     IN /\ jobs' = IF jobs[n][j].failed THEN [jobs EXCEPT ![n] = RemoveAt(@, j)]
                   ELSE [jobs EXCEPT ![n][j].target = target]
        /\ archive' = [archive EXCEPT ![n][1] = target]
        /\ archives' = IF old # NoFile THEN [archives EXCEPT ![old] = <<>>] ELSE Append(archives, <<>>)
  /\ UNCHANGED <<bufferVars, streamVars, checking, full, file, files, stage>>

\* 'finish': the path of the source is unlinked, whatever it names by now.
Finish(n, j) ==
  /\ jobs[n][j].read /\ jobs[n][j].target # NoFile
  /\ archives' = [archives EXCEPT ![jobs[n][j].target] =
       IF @ \in {<<>>, jobs[n][j].lines} THEN jobs[n][j].lines ELSE Torn]
  /\ file' = [file EXCEPT ![n] = NoFile]
  /\ jobs' = [jobs EXCEPT ![n] = RemoveAt(@, j)]
  /\ UNCHANGED <<bufferVars, streamVars, checking, full, files, archive, stage>>

-----------------------------------------------------------------------------
(* shutdown: it ends the streams that are in the Map.  They stay there, but  *)
(* nothing is logged any more, and a rotation may end them again.          *)

Shutdown ==
  /\ stage = "running"
  /\ stage' = "closing"
  /\ ending' = [n \in Name |->
       IF current[n] = NoStream THEN ending[n]
       ELSE Append(ending[n], [current[n] EXCEPT !.awaited = TRUE])]
  /\ current' = [n \in Name |-> NoStream]
  /\ UNCHANGED <<bufferVars, checking, full, jobs, diskVars>>

ShutdownDone ==
  /\ stage = "closing"
  /\ \A n \in Name : \A i \in DOMAIN ending[n] : ~ending[n][i].awaited
  /\ stage' = "closed"
  /\ current' = [n \in Name |-> NoStream]
  /\ UNCHANGED <<bufferVars, ending, checking, full, jobs, diskVars>>

-----------------------------------------------------------------------------
StreamStep(n) ==
  \/ CurrentOpens(n) \/ CurrentWrites(n)
  \/ \E i \in DOMAIN ending[n] : EndingOpens(n, i) \/ EndingCloses(n, i)

JobStep(n) ==
  \E j \in DOMAIN jobs[n] :
    SourceOpens(n, j) \/ SourceRead(n, j) \/ TargetOpens(n, j) \/ Finish(n, j)

\* The daemon exits when shutdown has returned.
Lives == stage # "closed"

Next ==
  \/ \E n \in Name :
       /\ Lives
       /\ \/ LogEntry(n) \/ StreamStep(n)
          \/ StatDone(n) \/ Rotate(n) \/ RotateFails(n) \/ JobStep(n)
  \/ Shutdown \/ ShutdownDone

Spec == Init /\ [][Next]_vars

\* The disk answers the streams.
FairSpec ==
  /\ Spec
  /\ \A n \in Name :
       /\ WF_vars(Lives /\ CurrentOpens(n)) /\ WF_vars(Lives /\ CurrentWrites(n))
       /\ WF_vars(Lives /\ \E i \in DOMAIN ending[n] : EndingOpens(n, i))
       /\ WF_vars(Lives /\ \E i \in DOMAIN ending[n] : EndingCloses(n, i))
  /\ WF_vars(ShutdownDone)

-----------------------------------------------------------------------------
\* The types of the variables; what refers to a file or an archive refers to
\* one that was made.
TypeOK ==
  LET Queued == Seq(1..Len(logged))
      Stream == [file: DOMAIN files \cup {NoFile}, queue: Queued, awaited: BOOLEAN]
  IN /\ logged \in Seq(Name) /\ Len(logged) <= MaxLines
     /\ buffer \in Seq(DOMAIN logged) /\ Len(buffer) <= LOG_BUFFER_SIZE
     /\ bufferIndex \in 0..(LOG_BUFFER_SIZE - 1)
     /\ stage \in {"running", "closing", "closed"}
     /\ \A n \in Name :
          /\ current[n] \in Stream \cup {NoStream}
          /\ ending[n] \in Seq(Stream)
          /\ checking[n] \in Nat /\ full[n] \in Nat
          /\ jobs[n] \in Seq([source: DOMAIN files \cup {NoFile}, failed: BOOLEAN,
                              target: DOMAIN archives \cup {NoFile},
                              read: BOOLEAN, lines: Queued])
          /\ file[n] \in DOMAIN files \cup {NoFile}
          /\ archive[n] \in [Slots -> DOMAIN archives \cup {NoFile}]

\* getRecentLogs, before and after the buffer has come round: it answers with
\* entries that are among the last LOG_BUFFER_SIZE, as many as there are, the
\* latest first, and leaves out none that is later than one it shows.
RecentAreLast ==
  \A count \in 1..MaxLines, names \in SUBSET Name \ {{}} :
    LET kept == {e \in DOMAIN logged : e > Len(logged) - LOG_BUFFER_SIZE /\ logged[e] \in names}
        recent == RecentLogs(count, names)
    IN /\ IsInjective(recent) /\ ToSet(recent) \subseteq kept
       /\ Len(recent) = Min({count, Cardinality(kept)})
       /\ \A i, j \in DOMAIN recent : i < j => Time[recent[i]] >= Time[recent[j]]
       /\ \A e \in kept \ ToSet(recent), i \in DOMAIN recent :
            Time[e] <= Time[recent[i]]

Written(e) == \E f \in DOMAIN files : Contains(files[f], e)

\* Every entry is written to a file, whatever rotations do to the stream it was
\* given to; the daemon exits before that only when a rotation had ended the
\* stream, for shutdown then does not wait for it.
EntriesAreWritten ==
  \A e \in 1..MaxLines :
    Len(logged) >= e
      ~> \/ Written(e)
         \/ stage = "closed" /\ \E n \in Name : \E i \in DOMAIN ending[n] : Contains(ending[n][i].queue, e)

\* shutdown resolves, although streams may not have opened yet and rotations
\* end them and make others.
ShutdownResolves == stage = "closing" ~> stage = "closed"

\* A line that was written stays in the log or in an archive of it, while
\* there are few enough archives.
LinesKept ==
  \A e \in DOMAIN logged :
    LET n == logged[e]
    IN Written(e) =>
         \/ file[n] # NoFile /\ Contains(files[file[n]], e)
         \/ \E k \in Slots : archive[n][k] # NoFile /\ Contains(archives[archive[n][k]], e)
=============================================================================
