------------------------------ MODULE LogProofs ------------------------------
(***************************************************************************)
(* The types of LogManager, and that what getRecentLogs answers with are   *)
(* the latest entries, for any number of entries, streams and rotations.   *)
(***************************************************************************)
EXTENDS LogManager, FiniteSetTheorems, SequenceTheorems, WellFoundedInduction, TLAPS

\* What streams and compressions are, of so many files, archives and entries.
Stream(made, lines) ==
  [file: 1..made \cup {NoFile}, queue: Seq(1..lines), awaited: BOOLEAN]
Job(made, packed, lines) ==
  [source: 1..made \cup {NoFile}, failed: BOOLEAN, target: 1..packed \cup {NoFile},
   read: BOOLEAN, lines: Seq(1..lines)]

EntryTypes == logged \in Seq(Name) /\ Len(logged) <= MaxLines

StreamTypes ==
  /\ current \in [Name -> Stream(Len(files), Len(logged)) \cup {NoStream}]
  /\ ending \in [Name -> Seq(Stream(Len(files), Len(logged)))]

RotationTypes ==
  /\ checking \in [Name -> Nat] /\ full \in [Name -> Nat]
  /\ jobs \in [Name -> Seq(Job(Len(files), Len(archives), Len(logged)))]

\* The lines of a file are entries, those of an archive too, unless it is torn.
DiskTypes ==
  /\ files \in Seq(Seq(1..Len(logged)))
  /\ archives \in Seq(Seq(1..Len(logged)) \cup {Torn})
  /\ file \in [Name -> 1..Len(files) \cup {NoFile}]
  /\ archive \in [Name -> [Slots -> 1..Len(archives) \cup {NoFile}]]

\* The buffer holds the entries in their order until it has come round; then the
\* latest are before the index, and the oldest are overwritten next.
BufferHolds ==
  /\ buffer \in Seq(Nat) /\ bufferIndex \in 0..(LOG_BUFFER_SIZE - 1)
  /\ \/ /\ Len(logged) < LOG_BUFFER_SIZE /\ bufferIndex = 0
        /\ Len(buffer) = Len(logged)
        /\ \A i \in 1..Len(logged) : buffer[i] = i
     \/ /\ Len(logged) >= LOG_BUFFER_SIZE
        /\ Len(buffer) = LOG_BUFFER_SIZE
        /\ \A i \in 1..LOG_BUFFER_SIZE :
             buffer[i] = Len(logged) - bufferIndex + i
                           - (IF i <= bufferIndex THEN 0 ELSE LOG_BUFFER_SIZE)

LogInv ==
  /\ EntryTypes /\ BufferHolds /\ StreamTypes /\ RotationTypes /\ DiskTypes
  /\ stage \in {"running", "closing", "closed"}

-----------------------------------------------------------------------------
(* Entries.                                                                *)

LEMMA NextIndex ==
  ASSUME NEW size \in Nat \ {0}, NEW i \in 0..(size - 1)
  PROVE  (i + 1) % size = IF i + 1 = size THEN 0 ELSE i + 1
OBVIOUS

\* The buffer takes the entry in the place of the oldest.
LEMMA AddKeeps ==
  ASSUME EntryTypes, BufferHolds, NEW name \in Name,
         logged' = Append(logged, name), AddToBuffer(Len(logged'))
  PROVE  BufferHolds'
<1> DEFINE n == Len(logged)
           size == LOG_BUFFER_SIZE
<1>0. /\ n \in Nat /\ size \in Nat \ {0} /\ Len(logged') = n + 1
      /\ bufferIndex \in 0..(size - 1) /\ buffer \in Seq(Nat)
  BY LogAssumption DEF EntryTypes, BufferHolds
<1>1. CASE Len(buffer) < size
  <2>1. /\ n < size /\ bufferIndex = 0 /\ Len(buffer) = n
        /\ \A i \in 1..n : buffer[i] = i
    BY <1>0, <1>1 DEF BufferHolds
  <2>2. buffer' = Append(buffer, n + 1) /\ bufferIndex' = bufferIndex
    BY <1>0, <1>1 DEF AddToBuffer
  <2>3. buffer' \in Seq(Nat) /\ Len(buffer') = n + 1 /\ \A i \in 1..(n + 1) : buffer'[i] = i
    BY <1>0, <2>1, <2>2
  <2> QED
    BY <1>0, <2>1, <2>2, <2>3 DEF BufferHolds
<1>2. CASE ~(Len(buffer) < size)
  <2>1. /\ n >= size /\ Len(buffer) = size
        /\ \A i \in 1..size : buffer[i] = n - bufferIndex + i - (IF i <= bufferIndex THEN 0 ELSE size)
    BY <1>0, <1>2 DEF BufferHolds
  <2>2. /\ buffer' = [buffer EXCEPT ![bufferIndex + 1] = n + 1]
        /\ bufferIndex' = (bufferIndex + 1) % size
    BY <1>0, <1>2 DEF AddToBuffer
  <2>3. bufferIndex' = IF bufferIndex + 1 = size THEN 0 ELSE bufferIndex + 1
    BY <1>0, <2>2, NextIndex
  <2>4. /\ buffer' \in Seq(Nat) /\ Len(buffer') = size
        /\ \A i \in 1..size : buffer'[i] = IF i = bufferIndex + 1 THEN n + 1 ELSE buffer[i]
    BY <1>0, <2>1, <2>2
  <2>6. bufferIndex' \in 0..(size - 1)
    BY <1>0, <2>3
  <2>7. \A i \in 1..size :
          buffer'[i] = Len(logged') - bufferIndex' + i - (IF i <= bufferIndex' THEN 0 ELSE size)
    <3> SUFFICES ASSUME NEW i \in 1..size
                 PROVE  buffer'[i] = Len(logged') - bufferIndex' + i
                                       - (IF i <= bufferIndex' THEN 0 ELSE size)
      OBVIOUS
    <3>1. buffer'[i] = IF i = bufferIndex + 1 THEN n + 1 ELSE buffer[i]
      BY <2>4
    <3>2. buffer[i] = n - bufferIndex + i - (IF i <= bufferIndex THEN 0 ELSE size)
      BY <2>1
    <3> HIDE DEF n, size
    <3> QED
      BY <1>0, <2>3, <3>1, <3>2
  <2>8. Len(logged') >= size
    BY <1>0, <2>1
  <2> QED
    BY <2>4, <2>6, <2>7, <2>8 DEF BufferHolds
<1> QED
  BY <1>1, <1>2

-----------------------------------------------------------------------------
(* Types.                                                                  *)

\* What has a type with so many files, archives and entries has it with more.
LEMMA TypesGrow ==
  ASSUME NEW m \in Nat, NEW n \in Nat, m <= n,
         NEW l \in Nat, NEW k \in Nat, l <= k
  PROVE  /\ 1..l \subseteq 1..k /\ Seq(1..l) \subseteq Seq(1..k)
         /\ Stream(m, l) \subseteq Stream(n, k) /\ Seq(Stream(m, l)) \subseteq Seq(Stream(n, k))
         /\ Seq(Seq(1..l)) \subseteq Seq(Seq(1..k))
         /\ Seq(Seq(1..l) \cup {Torn}) \subseteq Seq(Seq(1..k) \cup {Torn})
<1>1. 1..l \subseteq 1..k /\ 1..m \subseteq 1..n
  OBVIOUS
<1>2. Seq(1..l) \subseteq Seq(1..k)
  BY <1>1, SeqMonotonic
<1>3. Stream(m, l) \subseteq Stream(n, k)
  BY <1>1, <1>2 DEF Stream
<1>4. Seq(Stream(m, l)) \subseteq Seq(Stream(n, k))
  BY <1>3, SeqMonotonic
<1>5. Seq(Seq(1..l)) \subseteq Seq(Seq(1..k))
  BY <1>2, SeqMonotonic
<1>6. Seq(Seq(1..l) \cup {Torn}) \subseteq Seq(Seq(1..k) \cup {Torn})
  BY <1>2, SeqMonotonic
<1> QED
  BY <1>1, <1>2, <1>3, <1>4, <1>5, <1>6

LEMMA JobsGrow ==
  ASSUME NEW m \in Nat, NEW n \in Nat, m <= n, NEW a \in Nat, NEW b \in Nat, a <= b,
         NEW l \in Nat, NEW k \in Nat, l <= k
  PROVE  Seq(Job(m, a, l)) \subseteq Seq(Job(n, b, k))
<1>1. 1..l \subseteq 1..k /\ 1..m \subseteq 1..n /\ 1..a \subseteq 1..b
  OBVIOUS
<1>2. Seq(1..l) \subseteq Seq(1..k)
  BY <1>1, SeqMonotonic
<1>3. Job(m, a, l) \subseteq Job(n, b, k)
  BY <1>1, <1>2 DEF Job
<1> QED
  BY <1>3, SeqMonotonic

LEMMA NewIsTyped ==
  ASSUME NEW m \in Nat, NEW a \in Nat, NEW l \in Nat
  PROVE  NewStream \in Stream(m, l) /\ NewJob \in Job(m, a, l)
BY DEF NewStream, NewJob, Stream, Job

LEMMA QueueSet ==
  ASSUME NEW m, NEW l, NEW stream \in Stream(m, l), NEW q \in Seq(1..l)
  PROVE  [stream EXCEPT !.queue = q] \in Stream(m, l)
BY DEF Stream

LEMMA OpenedIsTyped ==
  ASSUME NEW m, NEW l, NEW stream \in Stream(m, l), NEW f \in 1..m
  PROVE  [stream EXCEPT !.file = f] \in Stream(m, l)
BY DEF Stream

\* An entry is added to the buffer, and to the stream of its name.
LEMMA LogKeeps ==
  ASSUME EntryTypes, BufferHolds, checking \in [Name -> Nat], Len(files) \in Nat,
         NEW name \in Name,
         NEW streams \in [Name -> Stream(Len(files), Len(logged)) \cup {NoStream}],
         Log(name, streams)
  PROVE  /\ EntryTypes' /\ BufferHolds' /\ Len(logged') = Len(logged) + 1
         /\ current' \in [Name -> Stream(Len(files), Len(logged')) \cup {NoStream}]
         /\ checking' \in [Name -> Nat]
<1>1. /\ Len(logged) \in Nat /\ logged' = Append(logged, name)
      /\ Len(logged') = Len(logged) + 1 /\ EntryTypes'
  BY LogAssumption DEF EntryTypes, Log
<1>2. BufferHolds'
  BY <1>1, AddKeeps DEF Log
<1>3. checking' \in [Name -> Nat]
  BY DEF Log
<1>4. PICK m, l, k : m = Len(files) /\ l = Len(logged) /\ k = Len(logged')
  OBVIOUS
<1>5. PICK stream : stream = IF streams[name] = NoStream THEN NewStream ELSE streams[name]
  OBVIOUS
<1>6. current' = [streams EXCEPT ![name] = [stream EXCEPT !.queue = Append(@, k)]]
  BY <1>4, <1>5 DEF Log
<1>7. stream \in Stream(m, l) /\ m \in Nat /\ l \in Nat /\ k = l + 1
  BY <1>1, <1>4, <1>5, NewIsTyped
<1>8. Stream(m, l) \subseteq Stream(m, k)
  <2>1. m <= m /\ l <= k /\ k \in Nat
    BY <1>7
  <2> QED
    BY <1>7, <2>1, TypesGrow, Zenon
<1>9. [stream EXCEPT !.queue = Append(@, k)] \in Stream(m, k)
  <2>1. stream \in Stream(m, k)
    BY <1>7, <1>8
  <2>2. stream.queue \in Seq(1..k) /\ k \in 1..k
    BY <1>7, <2>1 DEF Stream
  <2>3. PICK q \in Seq(1..k) : q = Append(stream.queue, k)
    BY <2>2, AppendProperties
  <2> QED
    BY <2>1, <2>3, QueueSet
<1>10. current' \in [Name -> Stream(m, k) \cup {NoStream}]
  <2>1. streams \in [Name -> Stream(m, k) \cup {NoStream}]
    BY <1>4, <1>8
  <2>2. PICK new \in Stream(m, k) : current' = [streams EXCEPT ![name] = new]
    BY <1>6, <1>9
  <2> QED
    BY <2>1, <2>2
<1> QED
  BY <1>1, <1>2, <1>3, <1>4, <1>10

\* What is left alone keeps its type when entries, files and archives come to it.
LEMMA Grown ==
  ASSUME LogInv, NEW m \in Nat, NEW a \in Nat, NEW l \in Nat,
         Len(files) <= m, Len(archives) <= a, Len(logged) <= l
  PROVE  /\ current \in [Name -> Stream(m, l) \cup {NoStream}]
         /\ ending \in [Name -> Seq(Stream(m, l))]
         /\ jobs \in [Name -> Seq(Job(m, a, l))]
         /\ files \in Seq(Seq(1..l)) /\ archives \in Seq(Seq(1..l) \cup {Torn})
         /\ file \in [Name -> 1..m \cup {NoFile}]
         /\ archive \in [Name -> [Slots -> 1..a \cup {NoFile}]]
<1>1. PICK m0, a0, l0 : m0 = Len(files) /\ a0 = Len(archives) /\ l0 = Len(logged)
  OBVIOUS
<1>2. m0 \in Nat /\ a0 \in Nat /\ l0 \in Nat /\ m0 <= m /\ a0 <= a /\ l0 <= l
  BY <1>1 DEF LogInv, EntryTypes, DiskTypes
<1>3. /\ Stream(m0, l0) \subseteq Stream(m, l) /\ Seq(Stream(m0, l0)) \subseteq Seq(Stream(m, l))
      /\ Seq(Seq(1..l0)) \subseteq Seq(Seq(1..l))
      /\ Seq(Seq(1..l0) \cup {Torn}) \subseteq Seq(Seq(1..l) \cup {Torn})
  BY <1>2, TypesGrow, Zenon
<1>4. Seq(Job(m0, a0, l0)) \subseteq Seq(Job(m, a, l))
  BY <1>2, JobsGrow, Zenon
<1>5. current \in [Name -> Stream(m0, l0) \cup {NoStream}] /\ ending \in [Name -> Seq(Stream(m0, l0))]
  BY <1>1 DEF LogInv, StreamTypes
<1>6. jobs \in [Name -> Seq(Job(m0, a0, l0))]
  BY <1>1 DEF LogInv, RotationTypes
<1>7. /\ files \in Seq(Seq(1..l0)) /\ archives \in Seq(Seq(1..l0) \cup {Torn})
      /\ file \in [Name -> 1..m0 \cup {NoFile}] /\ archive \in [Name -> [Slots -> 1..a0 \cup {NoFile}]]
  BY <1>1 DEF LogInv, DiskTypes
<1>8. current \in [Name -> Stream(m, l) \cup {NoStream}] /\ ending \in [Name -> Seq(Stream(m, l))]
  BY <1>3, <1>5
<1>9. jobs \in [Name -> Seq(Job(m, a, l))]
  BY <1>4, <1>6
<1>10. files \in Seq(Seq(1..l)) /\ archives \in Seq(Seq(1..l) \cup {Torn})
  BY <1>3, <1>7
<1>11. 1..m0 \subseteq 1..m /\ 1..a0 \subseteq 1..a
  BY <1>2
<1>12. file \in [Name -> 1..m \cup {NoFile}]
  BY <1>7, <1>11
<1>13. archive \in [Name -> [Slots -> 1..a \cup {NoFile}]]
  <2>1. [Slots -> 1..a0 \cup {NoFile}] \subseteq [Slots -> 1..a \cup {NoFile}]
    BY <1>11
  <2> QED
    BY <1>7, <2>1
<1> QED
  BY <1>8, <1>9, <1>10, <1>12, <1>13

LEMMA RemovedIsTyped ==
  ASSUME NEW S, NEW s \in Seq(S), NEW i \in 1..Len(s)
  PROVE  RemoveAt(s, i) \in Seq(S)
BY DEF RemoveAt

\* The numbers of files, archives and entries.
LEMMA Lengths ==
  ASSUME LogInv
  PROVE  Len(files) \in Nat /\ Len(archives) \in Nat /\ Len(logged) \in Nat
BY DEF LogInv, EntryTypes, DiskTypes

LEMMA LogEntryKeeps ==
  ASSUME LogInv, NEW n \in Name, LogEntry(n)
  PROVE  LogInv'
<1>1. Log(n, current) /\ UNCHANGED <<ending, full, jobs, diskVars, stage>>
  BY DEF LogEntry
<1>2. Len(files) \in Nat /\ Len(archives) \in Nat /\ Len(logged) \in Nat
  BY Lengths
<1>3. /\ EntryTypes' /\ BufferHolds' /\ Len(logged') = Len(logged) + 1
      /\ current' \in [Name -> Stream(Len(files), Len(logged')) \cup {NoStream}]
      /\ checking' \in [Name -> Nat]
  BY <1>1, <1>2, LogKeeps DEF LogInv, StreamTypes, RotationTypes
<1>4. PICK m, a, l : m = Len(files) /\ a = Len(archives) /\ l = Len(logged')
  OBVIOUS
<1>5. /\ ending \in [Name -> Seq(Stream(m, l))] /\ jobs \in [Name -> Seq(Job(m, a, l))]
      /\ files \in Seq(Seq(1..l)) /\ archives \in Seq(Seq(1..l) \cup {Torn})
      /\ file \in [Name -> 1..m \cup {NoFile}]
      /\ archive \in [Name -> [Slots -> 1..a \cup {NoFile}]]
  <2>1. m \in Nat /\ a \in Nat /\ l \in Nat /\ Len(files) <= m /\ Len(archives) <= a /\ Len(logged) <= l
    BY <1>2, <1>3, <1>4
  <2> QED
    BY <2>1, Grown
<1>6. StreamTypes' /\ RotationTypes' /\ DiskTypes'
  BY <1>1, <1>3, <1>4, <1>5 DEF StreamTypes, RotationTypes, DiskTypes, diskVars, LogInv
<1> QED
  BY <1>1, <1>3, <1>6 DEF LogInv

\* A stream opens the file its path names, or a new one.
LEMMA OpensKeeps ==
  ASSUME LogInv, NEW n \in Name, OpensPath(n)
  PROVE  /\ files' \in Seq(Seq(1..Len(logged))) /\ Len(files') \in Nat /\ Len(files) <= Len(files')
         /\ Opened(n) \in 1..Len(files')
         /\ file' \in [Name -> 1..Len(files') \cup {NoFile}]
<1>1. files \in Seq(Seq(1..Len(logged))) /\ file \in [Name -> 1..Len(files) \cup {NoFile}]
  BY DEF LogInv, DiskTypes
<1>2. PICK F : F = Seq(1..Len(logged))
  OBVIOUS
<1>3. <<>> \in F
  BY <1>2
<1>4. /\ files' \in Seq(F) /\ Len(files') \in Nat /\ Len(files) <= Len(files')
      /\ Opened(n) \in 1..Len(files')
  <2>1. CASE file[n] # NoFile
    BY <1>1, <1>2, <2>1 DEF OpensPath, Opened
  <2>2. CASE file[n] = NoFile
    <3>1. files' = Append(files, <<>>) /\ Opened(n) = Len(files) + 1
      BY <2>2 DEF OpensPath, Opened
    <3> QED
      BY <1>1, <1>2, <1>3, <3>1
  <2> QED
    BY <2>1, <2>2
<1>5. file' \in [Name -> 1..Len(files') \cup {NoFile}]
  <2>1. 1..Len(files) \subseteq 1..Len(files')
    BY <1>1, <1>4
  <2>2. file' = [file EXCEPT ![n] = Opened(n)]
    BY DEF OpensPath
  <2>3. PICK o \in 1..Len(files') : o = Opened(n)
    BY <1>4
  <2> QED
    BY <1>1, <2>1, <2>2, <2>3
<1> QED
  BY <1>2, <1>4, <1>5

LEMMA CurrentOpensKeeps ==
  ASSUME LogInv, NEW n \in Name, CurrentOpens(n)
  PROVE  LogInv'
<1>1. /\ OpensPath(n) /\ current[n] # NoStream
      /\ current' = [current EXCEPT ![n].file = Opened(n)]
      /\ UNCHANGED <<bufferVars, ending, checking, full, jobs, archive, archives, stage>>
  BY DEF CurrentOpens
<1>2. PICK m, a, l : m = Len(files') /\ a = Len(archives) /\ l = Len(logged)
  OBVIOUS
<1>3. /\ files' \in Seq(Seq(1..l)) /\ m \in Nat /\ Len(files) <= m
      /\ Opened(n) \in 1..m /\ file' \in [Name -> 1..m \cup {NoFile}]
  BY <1>1, <1>2, OpensKeeps
<1>4. a \in Nat /\ l \in Nat /\ Len(archives) <= a /\ Len(logged) <= l
  BY <1>2, Lengths
<1>5. /\ current \in [Name -> Stream(m, l) \cup {NoStream}] /\ ending \in [Name -> Seq(Stream(m, l))]
      /\ jobs \in [Name -> Seq(Job(m, a, l))]
  BY <1>3, <1>4, Grown
<1>6. current' \in [Name -> Stream(m, l) \cup {NoStream}]
  <2>1. PICK f \in 1..m : f = Opened(n)
    BY <1>3
  <2>2. current[n] \in Stream(m, l)
    BY <1>1, <1>5
  <2>3. PICK new : new = [current[n] EXCEPT !.file = f]
    OBVIOUS
  <2>4. new \in Stream(m, l)
    BY <2>2, <2>3, OpenedIsTyped
  <2>5. current' = [current EXCEPT ![n] = new]
    BY <1>1, <1>5, <2>1, <2>3
  <2> QED
    BY <1>5, <2>4, <2>5
<1>7. StreamTypes' /\ RotationTypes' /\ DiskTypes'
  BY <1>1, <1>2, <1>3, <1>5, <1>6 DEF StreamTypes, RotationTypes, DiskTypes, LogInv, bufferVars
<1>8. EntryTypes' /\ BufferHolds'
  BY <1>1 DEF LogInv, EntryTypes, BufferHolds, bufferVars
<1> QED
  BY <1>1, <1>7, <1>8 DEF LogInv

LEMMA EndingOpensKeeps ==
  ASSUME LogInv, NEW n \in Name, NEW i \in DOMAIN ending[n], EndingOpens(n, i)
  PROVE  LogInv'
<1>1. /\ OpensPath(n)
      /\ ending' = [ending EXCEPT ![n][i].file = Opened(n)]
      /\ UNCHANGED <<bufferVars, current, checking, full, jobs, archive, archives, stage>>
  BY DEF EndingOpens
<1>2. PICK m, a, l : m = Len(files') /\ a = Len(archives) /\ l = Len(logged)
  OBVIOUS
<1>3. /\ files' \in Seq(Seq(1..l)) /\ m \in Nat /\ Len(files) <= m
      /\ Opened(n) \in 1..m /\ file' \in [Name -> 1..m \cup {NoFile}]
  BY <1>1, <1>2, OpensKeeps
<1>4. a \in Nat /\ l \in Nat /\ Len(archives) <= a /\ Len(logged) <= l
  BY <1>2, Lengths
<1>5. /\ current \in [Name -> Stream(m, l) \cup {NoStream}] /\ ending \in [Name -> Seq(Stream(m, l))]
      /\ jobs \in [Name -> Seq(Job(m, a, l))]
  BY <1>3, <1>4, Grown
<1>6. ending' \in [Name -> Seq(Stream(m, l))]
  <2>1. PICK f \in 1..m : f = Opened(n)
    BY <1>3
  <2>2. PICK s \in Seq(Stream(m, l)) : s = ending[n]
    BY <1>5
  <2>3. i \in 1..Len(s) /\ s[i] \in Stream(m, l)
    BY <2>2, ElementOfSeq
  <2>4. PICK new : new = [s[i] EXCEPT !.file = f]
    OBVIOUS
  <2>5. new \in Stream(m, l)
    BY <2>3, <2>4, OpenedIsTyped
  <2>6. PICK t : t = [s EXCEPT ![i] = new]
    OBVIOUS
  <2>7. t \in Seq(Stream(m, l))
    BY <2>2, <2>3, <2>5, <2>6, ExceptSeq
  <2>8. ending' = [ending EXCEPT ![n] = t]
    BY <1>1, <1>5, <2>1, <2>2, <2>4, <2>6
  <2> QED
    BY <1>5, <2>7, <2>8
<1>7. StreamTypes' /\ RotationTypes' /\ DiskTypes'
  BY <1>1, <1>2, <1>3, <1>5, <1>6 DEF StreamTypes, RotationTypes, DiskTypes, LogInv, bufferVars
<1>8. EntryTypes' /\ BufferHolds'
  BY <1>1 DEF LogInv, EntryTypes, BufferHolds, bufferVars
<1> QED
  BY <1>1, <1>7, <1>8 DEF LogInv

\* A stream that has a file adds its queue to it.
LEMMA WritesKeeps ==
  ASSUME LogInv, NEW stream \in Stream(Len(files), Len(logged)), Writes(stream)
  PROVE  files' \in Seq(Seq(1..Len(logged))) /\ Len(files') = Len(files)
<1>1. files \in Seq(Seq(1..Len(logged)))
  BY DEF LogInv, DiskTypes
<1>2. PICK F : F = Seq(1..Len(logged))
  OBVIOUS
<1>3. PICK f, q : f = stream.file /\ q = stream.queue
  OBVIOUS
<1>4. f \in 1..Len(files) /\ q \in F
  BY <1>2, <1>3 DEF Writes, Stream
<1>5. PICK s \in F : s = files[f]
  BY <1>1, <1>2, <1>4, ElementOfSeq
<1>6. PICK t : t = s \o q
  OBVIOUS
<1>7. t \in F
  BY <1>2, <1>4, <1>5, <1>6
<1>8. files' = [files EXCEPT ![f] = t]
  BY <1>3, <1>5, <1>6 DEF Writes
<1> QED
  BY <1>1, <1>2, <1>4, <1>7, <1>8

LEMMA EmptyQueue ==
  ASSUME NEW m, NEW l, NEW stream \in Stream(m, l)
  PROVE  [stream EXCEPT !.queue = <<>>] \in Stream(m, l)
<1>1. PICK q \in Seq(1..l) : q = <<>>
  BY EmptySeq
<1> QED
  BY <1>1, QueueSet

LEMMA CurrentWritesKeeps ==
  ASSUME LogInv, NEW n \in Name, CurrentWrites(n)
  PROVE  LogInv'
<1>1. /\ Writes(current[n]) /\ current[n] # NoStream
      /\ current' = [current EXCEPT ![n].queue = <<>>]
      /\ UNCHANGED <<bufferVars, ending, checking, full, jobs, file, archive, archives, stage>>
  BY DEF CurrentWrites
<1>2. PICK m, l : m = Len(files) /\ l = Len(logged)
  OBVIOUS
<1>3. /\ current \in [Name -> Stream(m, l) \cup {NoStream}] /\ ending \in [Name -> Seq(Stream(m, l))]
      /\ current[n] \in Stream(m, l)
  BY <1>1, <1>2 DEF LogInv, StreamTypes
<1>4. files' \in Seq(Seq(1..l)) /\ Len(files') = m
  BY <1>1, <1>2, <1>3, WritesKeeps
<1>5. current' \in [Name -> Stream(m, l) \cup {NoStream}]
  <2>1. PICK new : new = [current[n] EXCEPT !.queue = <<>>]
    OBVIOUS
  <2>2. new \in Stream(m, l)
    BY <1>3, <2>1, EmptyQueue
  <2>3. current' = [current EXCEPT ![n] = new]
    BY <1>1, <1>3, <2>1
  <2> QED
    BY <1>3, <2>2, <2>3
<1>6. StreamTypes' /\ RotationTypes' /\ DiskTypes'
  BY <1>1, <1>2, <1>3, <1>4, <1>5 DEF StreamTypes, RotationTypes, DiskTypes, LogInv, bufferVars
<1>7. EntryTypes' /\ BufferHolds'
  BY <1>1 DEF LogInv, EntryTypes, BufferHolds, bufferVars
<1> QED
  BY <1>1, <1>6, <1>7 DEF LogInv

LEMMA EndingClosesKeeps ==
  ASSUME LogInv, NEW n \in Name, NEW i \in DOMAIN ending[n], EndingCloses(n, i)
  PROVE  LogInv'
<1>1. /\ Writes(ending[n][i])
      /\ ending' = [ending EXCEPT ![n] = RemoveAt(@, i)]
      /\ UNCHANGED <<bufferVars, current, checking, full, jobs, file, archive, archives, stage>>
  BY DEF EndingCloses
<1>2. PICK m, l : m = Len(files) /\ l = Len(logged)
  OBVIOUS
<1>3. /\ current \in [Name -> Stream(m, l) \cup {NoStream}] /\ ending \in [Name -> Seq(Stream(m, l))]
      /\ ending[n][i] \in Stream(m, l)
  BY <1>1, <1>2, ElementOfSeq DEF LogInv, StreamTypes
<1>4. files' \in Seq(Seq(1..l)) /\ Len(files') = m
  BY <1>1, <1>2, <1>3, WritesKeeps
<1>5. ending' \in [Name -> Seq(Stream(m, l))]
  <2>1. PICK s \in Seq(Stream(m, l)) : s = ending[n]
    BY <1>3
  <2>2. RemoveAt(s, i) \in Seq(Stream(m, l))
    BY <2>1, RemovedIsTyped
  <2>3. ending' = [ending EXCEPT ![n] = RemoveAt(s, i)]
    BY <1>1, <1>3, <2>1
  <2> QED
    BY <1>3, <2>2, <2>3
<1>6. StreamTypes' /\ RotationTypes' /\ DiskTypes'
  BY <1>1, <1>2, <1>3, <1>4, <1>5 DEF StreamTypes, RotationTypes, DiskTypes, LogInv, bufferVars
<1>7. EntryTypes' /\ BufferHolds'
  BY <1>1 DEF LogInv, EntryTypes, BufferHolds, bufferVars
<1> QED
  BY <1>1, <1>6, <1>7 DEF LogInv

LEMMA StatDoneKeeps ==
  ASSUME LogInv, NEW n \in Name, StatDone(n)
  PROVE  LogInv'
<1>1. /\ checking[n] > 0 /\ checking' = [checking EXCEPT ![n] = @ - 1]
      /\ full' = [full EXCEPT ![n] =
           IF file[n] # NoFile /\ Len(files[file[n]]) > MAX_LOG_SIZE THEN @ + 1 ELSE @]
      /\ UNCHANGED <<bufferVars, streamVars, jobs, diskVars, stage>>
  BY DEF StatDone
<1>2. checking \in [Name -> Nat] /\ full \in [Name -> Nat]
  BY DEF LogInv, RotationTypes
<1>3. checking' \in [Name -> Nat]
  BY <1>1, <1>2
<1>4. full' \in [Name -> Nat]
  BY <1>1, <1>2
<1>5. StreamTypes' /\ RotationTypes' /\ DiskTypes'
  BY <1>1, <1>3, <1>4 DEF StreamTypes, RotationTypes, DiskTypes, LogInv, bufferVars, streamVars, diskVars
<1>6. EntryTypes' /\ BufferHolds'
  BY <1>1 DEF LogInv, EntryTypes, BufferHolds, bufferVars
<1> QED
  BY <1>1, <1>5, <1>6 DEF LogInv

\* The stream that a rotation ends is one of those that were ended.
LEMMA EndedIsTyped ==
  ASSUME NEW m, NEW l, NEW n \in Name, ending \in [Name -> Seq(Stream(m, l))],
         current \in [Name -> Stream(m, l) \cup {NoStream}]
  PROVE  Ended(n) \in [Name -> Seq(Stream(m, l))]
<1>1. CASE current[n] = NoStream
  BY <1>1 DEF Ended
<1>2. CASE current[n] # NoStream
  <2>1. PICK c \in Stream(m, l) : c = current[n]
    BY <1>2
  <2>2. PICK s \in Seq(Stream(m, l)) : s = ending[n]
    OBVIOUS
  <2>3. Append(s, c) \in Seq(Stream(m, l))
    OBVIOUS
  <2>4. Ended(n) = [ending EXCEPT ![n] = Append(s, c)]
    BY <1>2, <2>1, <2>2 DEF Ended
  <2> QED
    BY <2>3, <2>4
<1> QED
  BY <1>1, <1>2

LEMMA RotateFailsKeeps ==
  ASSUME LogInv, NEW n \in Name, RotateFails(n)
  PROVE  LogInv'
<1>1. /\ full[n] > 0 /\ full' = [full EXCEPT ![n] = @ - 1]
      /\ ending' = Ended(n) /\ current' = [current EXCEPT ![n] = NoStream]
      /\ UNCHANGED <<bufferVars, checking, jobs, diskVars, stage>>
  BY DEF RotateFails
<1>2. PICK m, l : m = Len(files) /\ l = Len(logged)
  OBVIOUS
<1>3. current \in [Name -> Stream(m, l) \cup {NoStream}] /\ ending \in [Name -> Seq(Stream(m, l))]
  BY <1>2 DEF LogInv, StreamTypes
<1>4. current' \in [Name -> Stream(m, l) \cup {NoStream}] /\ ending' \in [Name -> Seq(Stream(m, l))]
  BY <1>1, <1>3, EndedIsTyped
<1>5. full' \in [Name -> Nat]
  BY <1>1 DEF LogInv, RotationTypes
<1>6. StreamTypes' /\ RotationTypes' /\ DiskTypes'
  BY <1>1, <1>2, <1>4, <1>5 DEF StreamTypes, RotationTypes, DiskTypes, LogInv, bufferVars, diskVars
<1>7. EntryTypes' /\ BufferHolds'
  BY <1>1 DEF LogInv, EntryTypes, BufferHolds, bufferVars
<1> QED
  BY <1>1, <1>6, <1>7 DEF LogInv

LEMMA ShiftedIsTyped ==
  ASSUME NEW a, NEW slots \in [Slots -> 1..a \cup {NoFile}]
  PROVE  Shifted(slots) \in [Slots -> 1..a \cup {NoFile}]
<1>1. \A k \in Slots : k # 1 => k - 1 \in Slots
  BY LogAssumption DEF Slots
<1> QED
  BY <1>1 DEF Shifted

\* What is logged while a log is rotated leaves the others as they are.
LEMMA RotateKeeps ==
  ASSUME LogInv, NEW n \in Name, Rotate(n)
  PROVE  LogInv'
<1>1. /\ full[n] > 0 /\ full' = [full EXCEPT ![n] = @ - 1]
      /\ ending' = Ended(n)
      /\ archive' = [archive EXCEPT ![n] = Shifted(@)]
      /\ jobs' = IF file[n] = NoFile THEN jobs ELSE [jobs EXCEPT ![n] = Append(@, NewJob)]
      /\ UNCHANGED <<file, files, archives, stage>>
  BY DEF Rotate
<1>2. PICK streams : streams = [current EXCEPT ![n] = NewStream]
  OBVIOUS
<1>3. \/ Log(Main, streams)
      \/ current' = streams /\ UNCHANGED <<bufferVars, checking>>
  BY <1>2 DEF Rotate
<1>4. Len(files) \in Nat /\ Len(archives) \in Nat /\ Len(logged) \in Nat
  BY Lengths
<1>5. streams \in [Name -> Stream(Len(files), Len(logged)) \cup {NoStream}]
  <2>1. PICK new \in Stream(Len(files), Len(logged)) : new = NewStream
    BY <1>4, NewIsTyped
  <2> QED
    BY <1>2, <2>1 DEF LogInv, StreamTypes
<1>6. /\ EntryTypes' /\ BufferHolds' /\ Len(logged') \in Nat /\ Len(logged) <= Len(logged')
      /\ current' \in [Name -> Stream(Len(files), Len(logged')) \cup {NoStream}]
      /\ checking' \in [Name -> Nat]
  <2>1. CASE Log(Main, streams)
    BY <1>4, <1>5, <2>1, LogKeeps, LogAssumption, SMTT(30) DEF LogInv, RotationTypes
  <2>2. CASE current' = streams /\ UNCHANGED <<bufferVars, checking>>
    <3>1. logged' = logged /\ checking' = checking
      BY <2>2 DEF bufferVars
    <3>2. EntryTypes' /\ BufferHolds'
      BY <2>2 DEF LogInv, EntryTypes, BufferHolds, bufferVars
    <3> QED
      BY <1>4, <1>5, <2>2, <3>1, <3>2 DEF LogInv, RotationTypes
  <2> QED
    BY <1>3, <2>1, <2>2
<1>7. PICK m, a, l : m = Len(files) /\ a = Len(archives) /\ l = Len(logged')
  OBVIOUS
<1>8. /\ current \in [Name -> Stream(m, l) \cup {NoStream}]
      /\ ending \in [Name -> Seq(Stream(m, l))] /\ jobs \in [Name -> Seq(Job(m, a, l))]
      /\ files \in Seq(Seq(1..l)) /\ archives \in Seq(Seq(1..l) \cup {Torn})
      /\ file \in [Name -> 1..m \cup {NoFile}]
      /\ archive \in [Name -> [Slots -> 1..a \cup {NoFile}]]
  <2>1. m \in Nat /\ a \in Nat /\ l \in Nat /\ Len(files) <= m /\ Len(archives) <= a /\ Len(logged) <= l
    BY <1>4, <1>6, <1>7
  <2> QED
    BY <2>1, Grown
<1>9. ending' \in [Name -> Seq(Stream(m, l))]
  BY <1>1, <1>8, EndedIsTyped
<1>10. archive' \in [Name -> [Slots -> 1..a \cup {NoFile}]]
  <2>1. PICK slots \in [Slots -> 1..a \cup {NoFile}] : slots = archive[n]
    BY <1>8
  <2>2. Shifted(slots) \in [Slots -> 1..a \cup {NoFile}]
    BY ShiftedIsTyped
  <2>3. archive' = [archive EXCEPT ![n] = Shifted(slots)]
    BY <1>1, <1>8, <2>1
  <2> QED
    BY <1>8, <2>2, <2>3
<1>11. jobs' \in [Name -> Seq(Job(m, a, l))]
  <2>1. PICK new \in Job(m, a, l) : new = NewJob
    BY <1>4, <1>6, <1>7, NewIsTyped
  <2>2. PICK list \in Seq(Job(m, a, l)) : list = jobs[n]
    BY <1>8
  <2>3. Append(list, new) \in Seq(Job(m, a, l))
    OBVIOUS
  <2>4. jobs' = jobs \/ jobs' = [jobs EXCEPT ![n] = Append(list, new)]
    BY <1>1, <1>8, <2>1, <2>2
  <2> QED
    BY <1>8, <2>3, <2>4
<1>12. full' \in [Name -> Nat]
  BY <1>1 DEF LogInv, RotationTypes
<1>13. StreamTypes' /\ RotationTypes' /\ DiskTypes'
  BY <1>1, <1>6, <1>7, <1>8, <1>9, <1>10, <1>11, <1>12 DEF StreamTypes, RotationTypes, DiskTypes
<1> QED
  BY <1>1, <1>6, <1>13 DEF LogInv

LEMMA ReadIsTyped ==
  ASSUME NEW m, NEW a, NEW l, NEW job \in Job(m, a, l), NEW q \in Seq(1..l)
  PROVE  [job EXCEPT !.read = TRUE, !.lines = q] \in Job(m, a, l)
BY DEF Job

LEMMA TargetIsTyped ==
  ASSUME NEW m, NEW a, NEW l, NEW job \in Job(m, a, l), NEW t \in 1..a
  PROVE  [job EXCEPT !.target = t] \in Job(m, a, l)
BY DEF Job

LEMMA SourceIsTyped ==
  ASSUME NEW m, NEW a, NEW l, NEW job \in Job(m, a, l), NEW f \in 1..m
  PROVE  [job EXCEPT !.source = f] \in Job(m, a, l)
BY DEF Job

LEMMA FailedIsTyped ==
  ASSUME NEW m, NEW a, NEW l, NEW job \in Job(m, a, l)
  PROVE  [job EXCEPT !.failed = TRUE] \in Job(m, a, l)
BY DEF Job

\* A step that only goes on with one compression, or ends it.
LEMMA JobsKeep ==
  ASSUME LogInv, NEW n \in Name, NEW j \in DOMAIN jobs[n],
         UNCHANGED <<bufferVars, streamVars, checking, full, diskVars, stage>>,
         \/ \E job \in Job(Len(files), Len(archives), Len(logged)) : jobs' = [jobs EXCEPT ![n][j] = job]
         \/ jobs' = [jobs EXCEPT ![n] = RemoveAt(@, j)]
  PROVE  LogInv'
<1>1. PICK m, a, l : m = Len(files) /\ a = Len(archives) /\ l = Len(logged)
  OBVIOUS
<1>2. jobs \in [Name -> Seq(Job(m, a, l))]
  BY <1>1 DEF LogInv, RotationTypes
<1>3. PICK list \in Seq(Job(m, a, l)) : list = jobs[n]
  BY <1>2
<1>4. j \in 1..Len(list)
  BY <1>3
<1>5. jobs' \in [Name -> Seq(Job(m, a, l))]
  <2>1. ASSUME NEW job \in Job(m, a, l), jobs' = [jobs EXCEPT ![n][j] = job]
        PROVE  jobs' \in [Name -> Seq(Job(m, a, l))]
    <3>1. [list EXCEPT ![j] = job] \in Seq(Job(m, a, l))
      BY <1>4, ExceptSeq
    <3>2. jobs' = [jobs EXCEPT ![n] = [list EXCEPT ![j] = job]]
      BY <1>2, <1>3, <2>1
    <3> QED
      BY <1>2, <3>1, <3>2
  <2>2. CASE jobs' = [jobs EXCEPT ![n] = RemoveAt(@, j)]
    <3>1. RemoveAt(list, j) \in Seq(Job(m, a, l))
      BY <1>4, RemovedIsTyped
    <3>2. jobs' = [jobs EXCEPT ![n] = RemoveAt(list, j)]
      BY <1>2, <1>3, <2>2
    <3> QED
      BY <1>2, <3>1, <3>2
  <2> QED
    BY <1>1, <2>1, <2>2
<1>6. StreamTypes' /\ RotationTypes' /\ DiskTypes'
  BY <1>1, <1>5 DEF StreamTypes, RotationTypes, DiskTypes, LogInv, bufferVars, streamVars, diskVars
<1>7. EntryTypes' /\ BufferHolds'
  BY DEF LogInv, EntryTypes, BufferHolds, bufferVars
<1> QED
  BY <1>6, <1>7 DEF LogInv

\* One compression of a log, and the types of what it may refer to.
LEMMA JobIsTyped ==
  ASSUME LogInv, NEW n \in Name, NEW j \in DOMAIN jobs[n]
  PROVE  /\ jobs[n][j] \in Job(Len(files), Len(archives), Len(logged))
         /\ jobs \in [Name -> Seq(Job(Len(files), Len(archives), Len(logged)))]
         /\ files \in Seq(Seq(1..Len(logged))) /\ file[n] \in 1..Len(files) \cup {NoFile}
BY ElementOfSeq DEF LogInv, RotationTypes, DiskTypes

LEMMA SourceOpensKeeps ==
  ASSUME LogInv, NEW n \in Name, NEW j \in DOMAIN jobs[n], SourceOpens(n, j)
  PROVE  LogInv'
<1>1. /\ \/ file[n] # NoFile /\ jobs' = [jobs EXCEPT ![n][j].source = file[n]]
         \/ jobs' = [jobs EXCEPT ![n][j].failed = TRUE]
         \/ jobs' = [jobs EXCEPT ![n] = RemoveAt(@, j)]
      /\ UNCHANGED <<bufferVars, streamVars, checking, full, diskVars, stage>>
  BY DEF SourceOpens
<1>2. PICK m, a, l : m = Len(files) /\ a = Len(archives) /\ l = Len(logged)
  OBVIOUS
<1>3. PICK job \in Job(m, a, l) : job = jobs[n][j]
  BY <1>2, JobIsTyped
<1>4. CASE file[n] # NoFile /\ jobs' = [jobs EXCEPT ![n][j].source = file[n]]
  <2>1. PICK f \in 1..m : f = file[n]
    BY <1>2, <1>4, JobIsTyped
  <2>2. PICK new : new = [job EXCEPT !.source = f]
    OBVIOUS
  <2>3. new \in Job(m, a, l)
    BY <2>2, SourceIsTyped
  <2>4. jobs' = [jobs EXCEPT ![n][j] = new]
    BY <1>3, <1>4, <2>1, <2>2, JobIsTyped
  <2> QED
    BY <1>1, <1>2, <2>3, <2>4, JobsKeep
<1>5. CASE jobs' = [jobs EXCEPT ![n][j].failed = TRUE]
  <2>1. PICK new : new = [job EXCEPT !.failed = TRUE]
    OBVIOUS
  <2>2. new \in Job(m, a, l)
    BY <2>1, FailedIsTyped
  <2>3. jobs' = [jobs EXCEPT ![n][j] = new]
    BY <1>3, <1>5, <2>1, JobIsTyped
  <2> QED
    BY <1>1, <1>2, <2>2, <2>3, JobsKeep
<1>6. CASE jobs' = [jobs EXCEPT ![n] = RemoveAt(@, j)]
  BY <1>1, <1>6, JobsKeep
<1> QED
  BY <1>1, <1>4, <1>5, <1>6

LEMMA SourceReadKeeps ==
  ASSUME LogInv, NEW n \in Name, NEW j \in DOMAIN jobs[n], SourceRead(n, j)
  PROVE  LogInv'
<1>1. PICK m, a, l : m = Len(files) /\ a = Len(archives) /\ l = Len(logged)
  OBVIOUS
<1>2. PICK job \in Job(m, a, l) : job = jobs[n][j]
  BY <1>1, JobIsTyped
<1>3. PICK q : q = files[job.source]
  OBVIOUS
<1>4. /\ job.source # NoFile
      /\ jobs' = [jobs EXCEPT ![n][j].read = TRUE, ![n][j].lines = q]
      /\ UNCHANGED <<bufferVars, streamVars, checking, full, diskVars, stage>>
  BY <1>2, <1>3 DEF SourceRead
<1>5. q \in Seq(1..l)
  <2>1. job.source \in 1..Len(files)
    BY <1>1, <1>4 DEF Job
  <2> QED
    BY <1>1, <1>3, <2>1, JobIsTyped, ElementOfSeq
<1>6. PICK new : new = [job EXCEPT !.read = TRUE, !.lines = q]
  OBVIOUS
<1>7. new \in Job(m, a, l)
  BY <1>5, <1>6, ReadIsTyped
<1>8. jobs' = [jobs EXCEPT ![n][j] = new]
  BY <1>2, <1>4, <1>6, JobIsTyped
<1> QED
  BY <1>1, <1>4, <1>7, <1>8, JobsKeep

LEMMA TargetOpensKeeps ==
  ASSUME LogInv, NEW n \in Name, NEW j \in DOMAIN jobs[n], TargetOpens(n, j)
  PROVE  LogInv'
<1>1. PICK old, target :
        /\ old = archive[n][1] /\ target = IF old # NoFile THEN old ELSE Len(archives) + 1
        /\ \/ jobs' = [jobs EXCEPT ![n][j].target = target]
           \/ jobs' = [jobs EXCEPT ![n] = RemoveAt(@, j)]
        /\ archive' = [archive EXCEPT ![n][1] = target]
        /\ archives' = IF old # NoFile THEN [archives EXCEPT ![old] = <<>>] ELSE Append(archives, <<>>)
        /\ UNCHANGED <<bufferVars, streamVars, checking, full, file, files, stage>>
  BY DEF TargetOpens
<1>2. PICK L : L = Seq(1..Len(logged)) \cup {Torn}
  OBVIOUS
<1>3. archives \in Seq(L) /\ <<>> \in L /\ 1 \in Slots
  <2>1. <<>> \in Seq(1..Len(logged)) /\ archives \in Seq(Seq(1..Len(logged)) \cup {Torn})
    BY EmptySeq DEF LogInv, DiskTypes
  <2>2. 1 \in Slots
    BY LogAssumption DEF Slots
  <2> QED
    BY <1>2, <2>1, <2>2
<1>4. /\ archives' \in Seq(L) /\ Len(archives') \in Nat /\ Len(archives) <= Len(archives')
      /\ target \in 1..Len(archives')
  <2>1. old \in 1..Len(archives) \cup {NoFile}
    BY <1>1, <1>3 DEF LogInv, DiskTypes
  <2>2. CASE old # NoFile
    <3>1. archives' = [archives EXCEPT ![old] = <<>>] /\ target = old /\ old \in 1..Len(archives)
      BY <1>1, <2>1, <2>2
    <3> QED
      BY <1>3, <3>1
  <2>3. CASE old = NoFile
    <3>1. archives' = Append(archives, <<>>) /\ target = Len(archives) + 1
      BY <1>1, <2>3
    <3> QED
      BY <1>3, <3>1
  <2> QED
    BY <2>2, <2>3
<1>5. PICK m, a, l : m = Len(files) /\ a = Len(archives') /\ l = Len(logged)
  OBVIOUS
<1>6. m \in Nat /\ l \in Nat /\ a \in Nat /\ Len(files) <= m /\ Len(archives) <= a /\ Len(logged) <= l
  BY <1>4, <1>5, Lengths
<1>7. jobs \in [Name -> Seq(Job(m, a, l))] /\ archive \in [Name -> [Slots -> 1..a \cup {NoFile}]]
  BY <1>6, Grown
<1>8. jobs' \in [Name -> Seq(Job(m, a, l))]
  <2>1. PICK list \in Seq(Job(m, a, l)) : list = jobs[n]
    BY <1>7
  <2>2. j \in 1..Len(list) /\ list[j] \in Job(m, a, l)
    BY <2>1, ElementOfSeq
  <2>3. PICK job : job = [list[j] EXCEPT !.target = target]
    OBVIOUS
  <2>4. job \in Job(m, a, l)
    BY <1>4, <1>5, <2>2, <2>3, TargetIsTyped
  <2>5. /\ [list EXCEPT ![j] = job] \in Seq(Job(m, a, l))
        /\ RemoveAt(list, j) \in Seq(Job(m, a, l))
    BY <2>2, <2>4, ExceptSeq, RemovedIsTyped
  <2>6. \/ jobs' = [jobs EXCEPT ![n] = [list EXCEPT ![j] = job]]
        \/ jobs' = [jobs EXCEPT ![n] = RemoveAt(list, j)]
    BY <1>1, <1>7, <2>1, <2>2, <2>3
  <2> QED
    BY <1>7, <2>5, <2>6
<1>9. archive' \in [Name -> [Slots -> 1..a \cup {NoFile}]]
  BY <1>1, <1>3, <1>4, <1>5, <1>7
<1>10. StreamTypes' /\ RotationTypes'
  BY <1>1, <1>5, <1>8 DEF StreamTypes, RotationTypes, LogInv, bufferVars, streamVars
<1>11. DiskTypes'
  BY <1>1, <1>2, <1>4, <1>5, <1>9 DEF DiskTypes, LogInv, bufferVars
<1>12. EntryTypes' /\ BufferHolds'
  BY <1>1 DEF LogInv, EntryTypes, BufferHolds, bufferVars
<1> QED
  BY <1>1, <1>10, <1>11, <1>12 DEF LogInv

LEMMA FinishKeeps ==
  ASSUME LogInv, NEW n \in Name, NEW j \in DOMAIN jobs[n], Finish(n, j)
  PROVE  LogInv'
<1>1. PICK target, lines :
        /\ target = jobs[n][j].target /\ lines = jobs[n][j].lines /\ target # NoFile
        /\ archives' = [archives EXCEPT ![target] = IF @ \in {<<>>, lines} THEN lines ELSE Torn]
        /\ file' = [file EXCEPT ![n] = NoFile]
        /\ jobs' = [jobs EXCEPT ![n] = RemoveAt(@, j)]
        /\ UNCHANGED <<bufferVars, streamVars, checking, full, files, archive, stage>>
  BY DEF Finish
<1>2. PICK m, a, l : m = Len(files) /\ a = Len(archives) /\ l = Len(logged)
  OBVIOUS
<1>3. PICK L : L = Seq(1..l) \cup {Torn}
  OBVIOUS
<1>4. jobs \in [Name -> Seq(Job(m, a, l))] /\ archives \in Seq(L) /\ file \in [Name -> 1..m \cup {NoFile}]
  BY <1>2, <1>3 DEF LogInv, RotationTypes, DiskTypes
<1>5. PICK list \in Seq(Job(m, a, l)) : list = jobs[n]
  BY <1>4
<1>6. j \in 1..Len(list) /\ list[j] \in Job(m, a, l)
  BY <1>5, ElementOfSeq
<1>7. target \in 1..a /\ lines \in L
  BY <1>1, <1>3, <1>5, <1>6 DEF Job
<1>8. archives' \in Seq(L) /\ Len(archives') = a
  <2>1. PICK new : new = IF archives[target] \in {<<>>, lines} THEN lines ELSE Torn
    OBVIOUS
  <2>2. new \in L
    BY <1>3, <1>7, <2>1
  <2>3. archives' = [archives EXCEPT ![target] = new]
    BY <1>1, <1>2, <1>4, <1>7, <2>1
  <2> QED
    BY <1>2, <1>4, <1>7, <2>2, <2>3
<1>9. jobs' \in [Name -> Seq(Job(m, a, l))]
  <2>1. RemoveAt(list, j) \in Seq(Job(m, a, l))
    BY <1>6, RemovedIsTyped
  <2>2. jobs' = [jobs EXCEPT ![n] = RemoveAt(list, j)]
    BY <1>1, <1>4, <1>5
  <2> QED
    BY <1>4, <2>1, <2>2
<1>10. file' \in [Name -> 1..m \cup {NoFile}]
  BY <1>1, <1>4
<1>11. StreamTypes' /\ RotationTypes'
  BY <1>1, <1>2, <1>8, <1>9 DEF StreamTypes, RotationTypes, LogInv, bufferVars, streamVars
<1>12. DiskTypes'
  BY <1>1, <1>2, <1>3, <1>8, <1>10 DEF DiskTypes, LogInv, bufferVars
<1>13. EntryTypes' /\ BufferHolds'
  BY <1>1 DEF LogInv, EntryTypes, BufferHolds, bufferVars
<1> QED
  BY <1>1, <1>11, <1>12, <1>13 DEF LogInv

LEMMA AwaitedIsTyped ==
  ASSUME NEW m, NEW l, NEW stream \in Stream(m, l)
  PROVE  [stream EXCEPT !.awaited = TRUE] \in Stream(m, l)
BY DEF Stream

LEMMA ShutdownKeeps ==
  ASSUME LogInv, Shutdown
  PROVE  LogInv'
<1>1. /\ stage' = "closing"
      /\ ending' = [n \in Name |->
           IF current[n] = NoStream THEN ending[n]
           ELSE Append(ending[n], [current[n] EXCEPT !.awaited = TRUE])]
      /\ current' = [n \in Name |-> NoStream]
      /\ UNCHANGED <<bufferVars, checking, full, jobs, diskVars>>
  BY DEF Shutdown
<1>2. PICK m, l : m = Len(files) /\ l = Len(logged)
  OBVIOUS
<1>3. current \in [Name -> Stream(m, l) \cup {NoStream}] /\ ending \in [Name -> Seq(Stream(m, l))]
  BY <1>2 DEF LogInv, StreamTypes
<1>4. current' \in [Name -> Stream(m, l) \cup {NoStream}]
  BY <1>1
<1>5. ending' \in [Name -> Seq(Stream(m, l))]
  <2>1. ASSUME NEW n \in Name PROVE ending'[n] \in Seq(Stream(m, l))
    <3>1. CASE current[n] = NoStream
      BY <1>1, <1>3, <3>1
    <3>2. CASE current[n] # NoStream
      <4>1. PICK new : new = [current[n] EXCEPT !.awaited = TRUE]
        OBVIOUS
      <4>2. current[n] \in Stream(m, l)
        BY <1>3, <3>2
      <4>3. new \in Stream(m, l)
        BY <4>1, <4>2, AwaitedIsTyped
      <4>4. PICK s \in Seq(Stream(m, l)) : s = ending[n]
        BY <1>3
      <4>5. ending'[n] = Append(s, new)
        BY <1>1, <3>2, <4>1, <4>4
      <4> QED
        BY <4>3, <4>5
    <3> QED
      BY <3>1, <3>2
  <2>2. ending' = [n \in Name |-> ending'[n]]
    BY <1>1
  <2> QED
    BY <2>1, <2>2
<1>6. StreamTypes' /\ RotationTypes' /\ DiskTypes'
  BY <1>1, <1>2, <1>4, <1>5 DEF StreamTypes, RotationTypes, DiskTypes, LogInv, bufferVars, diskVars
<1>7. EntryTypes' /\ BufferHolds'
  BY <1>1 DEF LogInv, EntryTypes, BufferHolds, bufferVars
<1> QED
  BY <1>1, <1>6, <1>7 DEF LogInv

LEMMA ShutdownDoneKeeps ==
  ASSUME LogInv, ShutdownDone
  PROVE  LogInv'
<1>1. /\ stage' = "closed" /\ current' = [n \in Name |-> NoStream]
      /\ UNCHANGED <<bufferVars, ending, checking, full, jobs, diskVars>>
  BY DEF ShutdownDone
<1>2. StreamTypes' /\ RotationTypes' /\ DiskTypes'
  BY <1>1 DEF StreamTypes, RotationTypes, DiskTypes, LogInv, bufferVars, diskVars
<1>3. EntryTypes' /\ BufferHolds'
  BY <1>1 DEF LogInv, EntryTypes, BufferHolds, bufferVars
<1> QED
  BY <1>1, <1>2, <1>3 DEF LogInv

LEMMA InitHolds == Init => LogInv
<1> SUFFICES ASSUME Init PROVE LogInv
  OBVIOUS
<1>1. EntryTypes /\ BufferHolds
  BY LogAssumption DEF Init, EntryTypes, BufferHolds
<1>2. Len(files) = 0 /\ Len(archives) = 0 /\ Len(logged) = 0
  BY DEF Init
<1>3. StreamTypes
  <2>1. NewStream \in Stream(0, 0)
    BY NewIsTyped
  <2>2. <<>> \in Seq(Stream(0, 0))
    BY EmptySeq
  <2> QED
    BY <1>2, <2>1, <2>2 DEF Init, StreamTypes
<1>4. RotationTypes
  <2>1. <<>> \in Seq(Job(0, 0, 0))
    BY EmptySeq
  <2> QED
    BY <1>2, <2>1 DEF Init, RotationTypes
<1>5. DiskTypes
  <2>1. <<>> \in Seq(Seq(1..0)) /\ <<>> \in Seq(Seq(1..0) \cup {Torn})
    BY EmptySeq
  <2> QED
    BY <1>2, <2>1 DEF Init, DiskTypes
<1> QED
  BY <1>1, <1>3, <1>4, <1>5 DEF Init, LogInv

LEMMA NextKeeps == LogInv /\ [Next]_vars => LogInv'
<1> SUFFICES ASSUME LogInv, [Next]_vars PROVE LogInv'
  OBVIOUS
<1>1. CASE UNCHANGED vars
  BY <1>1 DEF vars, bufferVars, streamVars, diskVars, LogInv, EntryTypes, BufferHolds,
              StreamTypes, RotationTypes, DiskTypes
<1>2. ASSUME NEW n \in Name, LogEntry(n) PROVE LogInv'
  BY <1>2, LogEntryKeeps
<1>3. ASSUME NEW n \in Name, StreamStep(n) PROVE LogInv'
  BY <1>3, CurrentOpensKeeps, CurrentWritesKeeps, EndingOpensKeeps, EndingClosesKeeps DEF StreamStep
<1>4. ASSUME NEW n \in Name, StatDone(n) PROVE LogInv'
  BY <1>4, StatDoneKeeps
<1>5. ASSUME NEW n \in Name, Rotate(n) \/ RotateFails(n) PROVE LogInv'
  BY <1>5, RotateKeeps, RotateFailsKeeps
<1>6. ASSUME NEW n \in Name, JobStep(n) PROVE LogInv'
  BY <1>6, SourceOpensKeeps, SourceReadKeeps, TargetOpensKeeps, FinishKeeps DEF JobStep
<1>7. CASE Shutdown
  BY <1>7, ShutdownKeeps
<1>8. CASE ShutdownDone
  BY <1>8, ShutdownDoneKeeps
<1> QED
  BY <1>1, <1>2, <1>3, <1>4, <1>5, <1>6, <1>7, <1>8 DEF Next

LEMMA Invariance == Spec => []LogInv
<1> QED
  BY InitHolds, NextKeeps, PTL DEF Spec

LEMMA InSeq ==
  ASSUME NEW S, NEW T, NEW s \in Seq(S), \A i \in 1..Len(s) : s[i] \in T
  PROVE  s \in Seq(T)
<1>1. s = [i \in 1..Len(s) |-> s[i]] /\ Len(s) \in Nat
  OBVIOUS
<1> QED
  BY <1>1, IsASeq

\* What the buffer holds, wherever its index is: the latest entries, each once.
Kept(e) == e \in 1..Len(logged) /\ e > Len(logged) - LOG_BUFFER_SIZE

LEMMA BufferIsKept ==
  ASSUME LogInv
  PROVE  /\ buffer \in Seq(Nat) /\ Len(buffer) \in 0..LOG_BUFFER_SIZE
         /\ \A i \in 1..Len(buffer) : Kept(buffer[i])
         /\ \A i, j \in 1..Len(buffer) : buffer[i] = buffer[j] => i = j
         /\ \A e : Kept(e) => \E i \in 1..Len(buffer) : buffer[i] = e
<1>1. PICK n \in Nat, size \in Nat \ {0}, at \in 0..(LOG_BUFFER_SIZE - 1) :
        n = Len(logged) /\ size = LOG_BUFFER_SIZE /\ at = bufferIndex
  BY LogAssumption DEF LogInv, EntryTypes, BufferHolds
<1>2. buffer \in Seq(Nat) /\ \A e : Kept(e) <=> e \in 1..n /\ e > n - size
  BY <1>1 DEF LogInv, BufferHolds, Kept
<1>3. CASE n < size
  <2>1. Len(buffer) = n /\ \A i \in 1..n : buffer[i] = i
    BY <1>1, <1>3 DEF LogInv, BufferHolds
  <2> QED
    BY SMTT(30), <1>1, <1>2, <1>3, <2>1
<1>4. CASE n >= size
  <2>1. /\ Len(buffer) = size
        /\ \A i \in 1..size : buffer[i] = n - at + i - (IF i <= at THEN 0 ELSE size)
    BY <1>1, <1>4 DEF LogInv, BufferHolds
  <2>2. \A i \in 1..size : i <= at => buffer[i] = n - at + i
    BY <1>1, <2>1
  <2>3. \A i \in 1..size : i > at => buffer[i] = n - at + i - size
    BY SMTT(30), <1>1, <2>1
  <2>4. \A i \in 1..size : buffer[i] \in 1..n /\ buffer[i] > n - size
    BY <1>1, <1>4, <2>2, <2>3
  <2>5. \A i, j \in 1..size : buffer[i] = buffer[j] => i = j
    BY <1>1, <2>2, <2>3
  <2>6. ASSUME NEW e \in 1..n, e > n - size PROVE \E i \in 1..size : buffer[i] = e
    <3>1. CASE e > n - at
      <4>1. PICK i \in 1..size : i = e - (n - at) /\ i <= at
        BY <1>1, <3>1
      <4>2. buffer[i] = n - at + i
        BY <2>2, <4>1
      <4> QED
        BY <1>1, <4>1, <4>2
    <3>2. CASE e <= n - at
      <4>1. e - (n - at) + size \in 1..size /\ e - (n - at) + size > at
        BY <1>1, <2>6, <3>2
      <4> QED
        BY <1>1, <2>3, <4>1
    <3> QED
      BY <1>1, <3>1, <3>2
  <2>7. Len(buffer) = size /\ size \in 0..LOG_BUFFER_SIZE
    BY <1>1, <2>1
  <2>8. \A i \in 1..size : Kept(buffer[i])
    BY <1>2, <2>4
  <2>9. \A e : Kept(e) => \E i \in 1..size : buffer[i] = e
    BY <1>2, <2>6
  <2> QED
    BY <1>2, <2>5, <2>7, <2>8, <2>9
<1> QED
  BY <1>1, <1>3, <1>4

\* The types of the variables: what refers to a file, to an archive or to an
\* entry refers to one that was made (the streams, the rotations that overlap
\* and the compressions of LogManager).
THEOREM TypeInvariance == Spec => []TypeOK
<1>1. LogInv => TypeOK
  <2> SUFFICES ASSUME LogInv PROVE TypeOK
    OBVIOUS
  <2>1. /\ EntryTypes /\ BufferHolds /\ StreamTypes /\ RotationTypes /\ DiskTypes
        /\ stage \in {"running", "closing", "closed"}
    BY DEF LogInv
  <2>2. buffer \in Seq(DOMAIN logged) /\ Len(buffer) <= LOG_BUFFER_SIZE
    <3>1. /\ buffer \in Seq(Nat) /\ Len(buffer) <= LOG_BUFFER_SIZE
          /\ \A i \in 1..Len(buffer) : buffer[i] \in DOMAIN logged
      BY <2>1, BufferIsKept, LogAssumption DEF Kept, EntryTypes
    <3> QED
      BY <3>1, InSeq
  <2>3. DOMAIN files = 1..Len(files) /\ DOMAIN archives = 1..Len(archives)
    BY <2>1 DEF DiskTypes
  <2> QED
    BY <2>1, <2>2, <2>3 DEF TypeOK, EntryTypes, BufferHolds, StreamTypes, RotationTypes,
                            DiskTypes, Stream, Job
<1> QED
  BY <1>1, Invariance, PTL

-----------------------------------------------------------------------------
(* Sorting: what an order puts first, and that a finite set can be put in  *)
(* the order of it, which the choice of Sorted needs.                      *)

LEMMA NatLeast ==
  ASSUME NEW T \in SUBSET Nat, T # {}
  PROVE  \E x \in T : \A y \in T : x <= y
<1>1. PICK x \in T : \A y \in T : ~(<<y, x>> \in OpToRel(<, Nat))
  BY NatLessThanWellFounded, WFMin
<1>2. OpToRel(<, Nat) = {ss \in Nat \X Nat : ss[1] < ss[2]}
  BY DEF OpToRel
<1>3. ASSUME NEW y \in T PROVE x <= y
  <2>1. <<y, x>> \in Nat \X Nat
    OBVIOUS
  <2>2. ~(y < x)
    BY <1>1, <1>2, <2>1
  <2> QED
    BY <2>2
<1> QED
  BY <1>3

\* What is true of 0 and goes from each number to the next is true up to n.
LEMMA Inductive ==
  ASSUME NEW n \in Nat, NEW T \in SUBSET (0..n), 0 \in T,
         \A i \in 1..n : i - 1 \in T => i \in T
  PROVE  T = 0..n
<1> SUFFICES ASSUME (0..n) \ T # {} PROVE FALSE
  OBVIOUS
<1>1. PICK x \in (0..n) \ T : \A y \in (0..n) \ T : x <= y
  <2>1. (0..n) \ T \in SUBSET Nat
    OBVIOUS
  <2> QED
    BY <2>1, NatLeast
<1>2. x \in 1..n /\ x - 1 \in T
  BY <1>1
<1> QED
  BY <1>1, <1>2

StrictOrder(S, R) ==
  /\ \A a \in S : <<a, a>> \notin R
  /\ \A a, b, c \in S : <<a, b>> \in R /\ <<b, c>> \in R => <<a, c>> \in R
  /\ \A a, b \in S : a = b \/ <<a, b>> \in R \/ <<b, a>> \in R

HasLast(U, R) == \E x \in U : \A y \in U \ {x} : <<y, x>> \in R

LEMMA LastExists ==
  ASSUME NEW S, IsFiniteSet(S), NEW R, StrictOrder(S, R)
  PROVE  \A U \in SUBSET S : U # {} => HasLast(U, R)
<1>1. PICK n \in Nat : n = Cardinality(S)
  BY FS_CardinalityType
<1> DEFINE T == {i \in 0..n : \A U \in SUBSET S : Cardinality(U) = i => U = {} \/ HasLast(U, R)}
<1>2. \A U \in SUBSET S : IsFiniteSet(U) /\ Cardinality(U) \in 0..n
  BY <1>1, FS_Subset, FS_CardinalityType
<1>3. 0 \in T
  BY <1>2, FS_EmptySet
<1>4. ASSUME NEW i \in 1..n, i - 1 \in T PROVE i \in T
  <2> SUFFICES ASSUME NEW U \in SUBSET S, Cardinality(U) = i PROVE U = {} \/ HasLast(U, R)
    OBVIOUS
  <2>1. PICK x \in U : TRUE
    BY FS_EmptySet
  <2>2. Cardinality(U \ {x}) = i - 1
    BY <1>2, FS_RemoveElement
  <2>3. U \ {x} = {} \/ HasLast(U \ {x}, R)
    BY <1>4, <2>2
  <2>4. CASE U \ {x} = {}
    BY <2>4 DEF HasLast
  <2>5. CASE HasLast(U \ {x}, R)
    <3>1. PICK y \in U \ {x} : \A z \in (U \ {x}) \ {y} : <<z, y>> \in R
      BY <2>5 DEF HasLast
    <3>2. <<x, y>> \in R \/ <<y, x>> \in R
      BY <3>1 DEF StrictOrder
    <3>3. CASE <<x, y>> \in R
      BY <3>1, <3>3 DEF HasLast
    <3>4. CASE <<y, x>> \in R
      <4>1. \A z \in U \ {x} : <<z, x>> \in R
        BY <3>1, <3>4 DEF StrictOrder
      <4> QED
        BY <4>1 DEF HasLast
    <3> QED
      BY <3>2, <3>3, <3>4
  <2> QED
    BY <2>3, <2>4, <2>5
<1>5. T = 0..n
  <2> HIDE DEF T
  <2>1. T \in SUBSET (0..n)
    BY DEF T
  <2> QED
    BY <1>3, <1>4, <2>1, Inductive
<1> QED
  BY <1>2, <1>5

InOrder(order, n, R) ==
  \A k, l \in 1..n : k < l => <<order[k], order[l]>> \in R

\* A finite set can be put in the order: the last comes behind the others.
LEMMA SortedExists ==
  ASSUME NEW S, IsFiniteSet(S), NEW R, StrictOrder(S, R)
  PROVE  \E order \in [1..Cardinality(S) -> S] : InOrder(order, Cardinality(S), R)
<1>1. PICK n \in Nat : n = Cardinality(S)
  BY FS_CardinalityType
<1> DEFINE Sortable(U, i) == \E order \in [1..i -> U] : InOrder(order, i, R)
           T == {i \in 0..n : \A U \in SUBSET S : Cardinality(U) = i => Sortable(U, i)}
<1>2. \A U \in SUBSET S : IsFiniteSet(U) /\ Cardinality(U) \in 0..n
  BY <1>1, FS_Subset, FS_CardinalityType
<1>3. 0 \in T
  <2> SUFFICES ASSUME NEW U \in SUBSET S PROVE Sortable(U, 0)
    OBVIOUS
  <2>1. <<>> \in [1..0 -> U] /\ InOrder(<<>>, 0, R)
    BY DEF InOrder
  <2> QED
    BY <2>1
<1>4. ASSUME NEW i \in 1..n, i - 1 \in T PROVE i \in T
  <2> SUFFICES ASSUME NEW U \in SUBSET S, Cardinality(U) = i PROVE Sortable(U, i)
    OBVIOUS
  <2>1. U # {}
    BY FS_EmptySet
  <2>2. PICK x \in U : \A y \in U \ {x} : <<y, x>> \in R
    BY <2>1, LastExists DEF HasLast
  <2>3. Cardinality(U \ {x}) = i - 1
    BY <1>2, FS_RemoveElement
  <2>4. Sortable(U \ {x}, i - 1)
    BY <1>4, <2>3
  <2>5. PICK before \in [1..(i - 1) -> U \ {x}] : InOrder(before, i - 1, R)
    BY <2>4
  <2>6. PICK order : order = [k \in 1..i |-> IF k = i THEN x ELSE before[k]]
    OBVIOUS
  <2>7. order \in [1..i -> U]
    BY <2>5, <2>6
  <2>8. ASSUME NEW k \in 1..i, NEW l \in 1..i, k < l PROVE <<order[k], order[l]>> \in R
    <3>1. k \in 1..(i - 1) /\ order[k] = before[k] /\ before[k] \in U \ {x}
      BY <2>5, <2>6, <2>8
    <3>2. CASE l = i
      BY <2>2, <2>6, <3>1, <3>2
    <3>3. CASE l # i
      <4>1. l \in 1..(i - 1) /\ order[l] = before[l]
        BY <2>6, <3>3
      <4> QED
        BY <2>5, <2>8, <3>1, <4>1 DEF InOrder
    <3> QED
      BY <3>2, <3>3
  <2>9. InOrder(order, i, R)
    BY <2>8 DEF InOrder
  <2> QED
    BY <2>7, <2>9
<1>5. T = 0..n
  <2> HIDE DEF T
  <2>1. T \in SUBSET (0..n)
    BY DEF T
  <2> QED
    BY <1>3, <1>4, <2>1, Inductive
<1> QED
  BY <1>1, <1>2, <1>5

\* What is sorted has every element of the set at one place.
LEMMA SortedOnce ==
  ASSUME NEW S, IsFiniteSet(S), NEW R, StrictOrder(S, R),
         NEW order \in [1..Cardinality(S) -> S], InOrder(order, Cardinality(S), R)
  PROVE  /\ \A k, l \in 1..Cardinality(S) : order[k] = order[l] => k = l
         /\ \A x \in S : \E k \in 1..Cardinality(S) : order[k] = x
<1>1. PICK n \in Nat : n = Cardinality(S)
  BY FS_CardinalityType
<1>2. ASSUME NEW k \in 1..n, NEW l \in 1..n, order[k] = order[l] PROVE k = l
  <2>1. \A i, j \in 1..n : i < j => <<order[i], order[j]>> \in R
    BY <1>1 DEF InOrder
  <2>2. order[k] \in S /\ <<order[k], order[k]>> \notin R
    BY <1>1 DEF StrictOrder
  <2>3. ~(k < l) /\ ~(l < k)
    BY <1>2, <2>1, <2>2
  <2> QED
    BY <2>3
<1>3. order \in Injection(1..n, S)
  BY <1>1, <1>2 DEF Injection, IsInjective
<1>4. Cardinality(1..n) = n
  BY FS_Interval
<1>5. order \in Surjection(1..n, S)
  BY <1>1, <1>3, <1>4, FS_Injection
<1> QED
  BY <1>1, <1>2, <1>5 DEF Surjection

-----------------------------------------------------------------------------
(* getRecentLogs.                                                          *)

LEMMA MinOfTwo ==
  ASSUME NEW a \in Nat, NEW b \in Nat
  PROVE  Min({a, b}) = IF a <= b THEN a ELSE b
<1>1. PICK m : m = IF a <= b THEN a ELSE b
  OBVIOUS
<1>2. \A x \in {a, b} : (\A y \in {a, b} : x <= y) <=> x = m
  BY <1>1
<1>3. m \in {a, b}
  BY <1>1
<1> QED
  BY <1>1, <1>2, <1>3 DEF Min

\* What Sorted returns is sorted, since there is such a sequence.
LEMMA SortedIs ==
  ASSUME LogInv, NEW found, found \subseteq 1..Len(buffer)
  PROVE  /\ IsFiniteSet(found) /\ Cardinality(found) \in Nat
         /\ Sorted(found) \in [1..Cardinality(found) -> found]
         /\ \A k, l \in 1..Cardinality(found) :
              k < l => Precedes(Sorted(found)[k], Sorted(found)[l])
         /\ \A k, l \in 1..Cardinality(found) : Sorted(found)[k] = Sorted(found)[l] => k = l
         /\ \A i \in found : \E k \in 1..Cardinality(found) : Sorted(found)[k] = i
<1>1. Len(buffer) \in Nat /\ Len(logged) \in Nat /\ Len(logged) <= MaxLines
      /\ \A i \in 1..Len(buffer) : buffer[i] \in 1..Len(logged)
  BY BufferIsKept, LogAssumption DEF LogInv, EntryTypes, Kept
<1>2. IsFiniteSet(found)
  <2>1. IsFiniteSet(1..Len(buffer)) /\ found \in SUBSET (1..Len(buffer))
    BY <1>1, FS_Interval
  <2> QED
    BY <2>1, FS_Subset
<1>3. PICK n \in Nat : n = Cardinality(found)
  BY <1>2, FS_CardinalityType
<1>4. PICK R : R = {p \in found \X found : Precedes(p[1], p[2])}
  OBVIOUS
<1>5. \A i, j \in found : <<i, j>> \in R <=> Precedes(i, j)
  BY <1>4
<1>6. StrictOrder(found, R)
  <2>1. PICK time : time = [i \in found |-> Time[buffer[i]]]
    OBVIOUS
  <2>2. \A i \in found : time[i] \in Nat /\ time[i] = Time[buffer[i]] /\ i \in Nat
    <3> SUFFICES ASSUME NEW i \in found PROVE time[i] \in Nat /\ time[i] = Time[buffer[i]] /\ i \in Nat
      OBVIOUS
    <3>1. buffer[i] \in 1..MaxLines
      BY <1>1, LogAssumption
    <3> QED
      BY <1>1, <2>1, <3>1, LogAssumption
  <2>3. \A i, j \in found :
          <<i, j>> \in R <=> time[i] > time[j] \/ (time[i] = time[j] /\ i < j)
    <3> SUFFICES ASSUME NEW i \in found, NEW j \in found
                 PROVE  Precedes(i, j) <=> time[i] > time[j] \/ (time[i] = time[j] /\ i < j)
      BY <1>5
    <3> QED
      BY <2>2 DEF Precedes
  <2>4. \A i \in found : <<i, i>> \notin R
    BY <2>2, <2>3
  <2>5. \A i, j, k \in found : <<i, j>> \in R /\ <<j, k>> \in R => <<i, k>> \in R
    BY <2>2, <2>3
  <2>6. \A i, j \in found : i = j \/ <<i, j>> \in R \/ <<j, i>> \in R
    <3> SUFFICES ASSUME NEW i \in found, NEW j \in found, i # j
                 PROVE  <<i, j>> \in R \/ <<j, i>> \in R
      OBVIOUS
    <3>1. time[i] > time[j] \/ time[j] > time[i] \/ time[i] = time[j]
      BY <2>2
    <3>2. i < j \/ j < i
      BY <2>2
    <3> QED
      BY <2>3, <3>1, <3>2
  <2> QED
    BY <2>4, <2>5, <2>6 DEF StrictOrder
<1>7. \A order \in [1..n -> found] :
        InOrder(order, n, R)
          <=> \A k, l \in DOMAIN order : k < l => Precedes(order[k], order[l])
  BY <1>5 DEF InOrder
<1>8. \E order \in [1..n -> found] : \A k, l \in DOMAIN order : k < l => Precedes(order[k], order[l])
  BY <1>2, <1>3, <1>6, <1>7, SortedExists
<1>9. PICK order : order = Sorted(found)
  OBVIOUS
<1>10. /\ order \in [1..n -> found]
       /\ \A k, l \in DOMAIN order : k < l => Precedes(order[k], order[l])
  BY <1>3, <1>8, <1>9 DEF Sorted
<1>11. InOrder(order, n, R)
  BY <1>7, <1>10
<1>12. /\ \A k, l \in 1..n : order[k] = order[l] => k = l
       /\ \A i \in found : \E k \in 1..n : order[k] = i
  BY <1>2, <1>3, <1>6, <1>10, <1>11, SortedOnce
<1> QED
  BY <1>2, <1>3, <1>9, <1>10, <1>12

\* What getRecentLogs answers with is among the entries that are kept, each
\* once; there are as many as asked for, or all; the latest time is first, and
\* none is left out that is later than one of them (AddToBuffer, Precedes).
THEOREM RecentEntriesAreLast == Spec => []RecentAreLast
<1>1. LogInv => RecentAreLast
  <2> SUFFICES ASSUME LogInv, NEW count \in 1..MaxLines, NEW names \in SUBSET Name \ {{}},
                      NEW kept, kept = {e \in DOMAIN logged : e > Len(logged) - LOG_BUFFER_SIZE
                                                               /\ logged[e] \in names},
                      NEW recent, recent = RecentLogs(count, names)
               PROVE  /\ IsInjective(recent) /\ ToSet(recent) \subseteq kept
                      /\ Len(recent) = Min({count, Cardinality(kept)})
                      /\ \A i, j \in DOMAIN recent : i < j => Time[recent[i]] >= Time[recent[j]]
                      /\ \A e \in kept \ ToSet(recent), i \in DOMAIN recent :
                           Time[e] <= Time[recent[i]]
    BY DEF RecentAreLast
  <2>1. PICK found : found = {i \in DOMAIN buffer : logged[buffer[i]] \in names}
    OBVIOUS
  <2>2. PICK n, order : n = Cardinality(found) /\ order = Sorted(found)
    OBVIOUS
  <2>3. /\ buffer \in Seq(Nat) /\ DOMAIN buffer = 1..Len(buffer) /\ found \subseteq 1..Len(buffer)
        /\ \A i \in 1..Len(buffer) : Kept(buffer[i])
        /\ \A i, j \in 1..Len(buffer) : buffer[i] = buffer[j] => i = j
        /\ \A e : Kept(e) => \E i \in 1..Len(buffer) : buffer[i] = e
    BY <2>1, BufferIsKept
  <2>4. /\ IsFiniteSet(found) /\ n \in Nat /\ order \in [1..n -> found]
        /\ \A k, l \in 1..n : k < l => Precedes(order[k], order[l])
        /\ \A k, l \in 1..n : order[k] = order[l] => k = l
        /\ \A i \in found : \E k \in 1..n : order[k] = i
    BY <2>2, <2>3, SortedIs
  <2>5. /\ \A e : e \in kept <=> Kept(e) /\ logged[e] \in names
        /\ \A e : Kept(e) => Time[e] \in Nat
    <3>1. \A e : Kept(e) => e \in 1..MaxLines
      BY LogAssumption DEF Kept, LogInv, EntryTypes
    <3> QED
      BY <3>1, LogAssumption DEF Kept, LogInv, EntryTypes
  <2>6. (\A i \in found : buffer[i] \in kept) /\ \A e \in kept : \E i \in found : buffer[i] = e
    BY <2>1, <2>3, <2>5
  <2>7. Cardinality(kept) = n
    <3>1. PICK f : f = [i \in found |-> buffer[i]]
      OBVIOUS
    <3>2. f \in [found -> kept] /\ \A i \in found : f[i] = buffer[i]
      BY <2>6, <3>1
    <3>3. f \in Injection(found, kept)
      BY <2>3, <3>2 DEF Injection, IsInjective
    <3>4. f \in Surjection(found, kept)
      BY <2>6, <3>2 DEF Surjection
    <3>5. ExistsBijection(found, kept)
      BY <3>3, <3>4 DEF ExistsBijection, Bijection
    <3> QED
      BY <2>2, <2>4, <3>5, FS_Bijection
  <2>8. PICK m : m = Min({count, n})
    OBVIOUS
  <2>9. m \in 0..n /\ m \in Nat
    BY <2>4, <2>8, MinOfTwo
  <2>10. recent = [k \in 1..m |-> buffer[order[k]]]
    BY <2>1, <2>2, <2>8 DEF RecentLogs
  <2>11. DOMAIN recent = 1..m /\ \A k \in 1..m : recent[k] = buffer[order[k]] /\ order[k] \in found
    BY <2>4, <2>9, <2>10
  <2>12. Len(recent) = m
    BY <2>9, <2>10
  <2>13. IsInjective(recent)
    <3>1. \A k \in 1..m : k \in 1..n /\ order[k] \in 1..Len(buffer)
      <4>1. 1..m \subseteq 1..n
        BY <2>4, <2>9
      <4> QED
        BY <2>3, <2>4, <4>1
    <3>2. \A k, l \in 1..m : recent[k] = recent[l] => k = l
      BY <2>3, <2>4, <2>11, <3>1
    <3> QED
      BY <2>11, <3>2 DEF IsInjective
  <2>14. ToSet(recent) = {recent[k] : k \in 1..m}
    BY <2>11 DEF ToSet
  <2>15. ToSet(recent) \subseteq kept
    BY <2>6, <2>11, <2>14
  <2>16. \A k, l \in 1..n : k < l => Time[buffer[order[k]]] >= Time[buffer[order[l]]]
    <3> SUFFICES ASSUME NEW k \in 1..n, NEW l \in 1..n, k < l
                 PROVE  Time[buffer[order[k]]] >= Time[buffer[order[l]]]
      OBVIOUS
    <3>1. PICK s, t : s = Time[buffer[order[k]]] /\ t = Time[buffer[order[l]]]
      OBVIOUS
    <3>2. s > t \/ s = t
      BY <2>4, <3>1 DEF Precedes
    <3>3. s \in Nat /\ t \in Nat
      BY <2>3, <2>4, <2>5, <3>1
    <3> QED
      BY <3>1, <3>2, <3>3
  <2>17. \A i, j \in DOMAIN recent : i < j => Time[recent[i]] >= Time[recent[j]]
    <3>1. \A k, l \in 1..m : k < l => Time[recent[k]] >= Time[recent[l]]
      <4>1. 1..m \subseteq 1..n
        BY <2>4, <2>9
      <4> QED
        BY <2>11, <2>16, <4>1
    <3> QED
      BY <2>11, <3>1
  <2>18. ASSUME NEW e \in kept, e \notin ToSet(recent), NEW i \in DOMAIN recent
         PROVE  Time[e] <= Time[recent[i]]
    <3>1. PICK l \in 1..n : e = buffer[order[l]]
      BY <2>4, <2>6
    <3>2. l \notin 1..m
      BY <2>11, <2>14, <2>18, <3>1
    <3>3. i \in 1..n /\ i < l /\ recent[i] = buffer[order[i]] /\ order[i] \in found
      <4>1. i \in 1..m /\ recent[i] = buffer[order[i]] /\ order[i] \in found
        BY <2>11
      <4> QED
        BY <2>4, <2>9, <3>2, <4>1
    <3>4. Time[buffer[order[i]]] >= Time[buffer[order[l]]]
      BY <2>16, <3>3
    <3>5. Time[e] \in Nat /\ Time[recent[i]] \in Nat
      BY <2>3, <2>5, <3>3
    <3> QED
      BY <3>1, <3>3, <3>4, <3>5
  <2> QED
    BY <2>7, <2>8, <2>12, <2>13, <2>15, <2>17, <2>18
<1> QED
  BY <1>1, Invariance, PTL
=============================================================================
