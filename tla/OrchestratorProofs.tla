------------------------- MODULE OrchestratorProofs -------------------------
(***************************************************************************)
(* What is proved of the orchestrator for every configuration: its types;  *)
(* what it guarantees of plain instances, of childProcesses, of the stops  *)
(* in flight and of the shutdown; that it implements Supervision; and how  *)
(* many instances a process has.                                           *)
(***************************************************************************)
EXTENDS OrchestratorSupervision, SequenceTheorems, FiniteSetTheorems,
        WellFoundedInduction, TLAPS

-----------------------------------------------------------------------------
(* Types.  Most of the work is in the callbacks that thread the objects    *)
(* through several handlers (Exit) or append to the sequences (Launch);    *)
(* the lemmas on the effect of the operators serve the other proofs too.   *)


\* A ProcessInfo object.
Info == [status: ProcessStatus, instances: SUBSET Nat]

\* updateProcessStatus writes the status of one process and nothing else.
LEMMA UpdateProcessStatusEffect ==
  ASSUME NEW s, NEW p \in Process, s.info \in [Process -> Info],
         s = [inst |-> s.inst, info |-> s.info],
         NEW t, t = UpdateProcessStatus(s, p)
  PROVE  /\ t = [inst |-> s.inst, info |-> t.info]
         /\ t.info \in [Process -> Info]
         /\ \A q \in Process : t.info[q].instances = s.info[q].instances
<1> DEFINE Some(T) == \E i \in s.info[p].instances : s.inst[i].status \in T
           v == IF Some({"running"}) THEN "running"
                ELSE IF Some({"errored", "crashed"}) THEN "errored"
                ELSE IF Some({"starting"}) THEN "starting" ELSE "stopped"
           f == s.info
           I == s.inst
           g == [f EXCEPT ![p].status = v]
<1>1. v \in ProcessStatus
  BY DEF ProcessStatus
<1>2. t = [s EXCEPT !.info[p].status = v]
  BY DEF UpdateProcessStatus
<1>. HIDE DEF v
<1>. HIDE DEF f, I
<1>3. s = [inst |-> I, info |-> f]
  BY DEF f, I
<1>3a. [s EXCEPT !.info[p].status = v] = [inst |-> I, info |-> g]
  BY <1>3
<1>4. t = [inst |-> I, info |-> g]
  BY <1>2, <1>3a
<1>5. f \in [Process -> Info]
  BY DEF f
<1>6. /\ g \in [Process -> Info]
      /\ \A q \in Process : g[q].instances = f[q].instances
  BY <1>1, <1>5 DEF Info
<1>. HIDE DEF g
<1>7. t.info = g
  BY <1>4
<1> QED
  BY <1>4, <1>6, <1>7 DEF f, I

\* The steps of handleInstanceExit keep an instance an instance.
LEMMA ExitedType ==
  ASSUME NEW x \in Instance, NEW ok \in BOOLEAN, NEW long \in BOOLEAN
  PROVE  Exited(x, ok, long) \in Instance
BY DEF Exited, Instance, InstanceStatus

LEMMA ScheduleRestartType ==
  ASSUME NEW x \in Instance
  PROVE  ScheduleRestart(x) \in Instance
<1>1. x.lost + (IF x.held THEN 1 ELSE 0) \in Nat
  BY DEF Instance
<1> DEFINE n == x.lost + (IF x.held THEN 1 ELSE 0)
<1>2. ScheduleRestart(x) = [x EXCEPT !.held = TRUE, !.lost = n]
  BY DEF ScheduleRestart
<1>. HIDE DEF n
<1>3. [x EXCEPT !.held = TRUE, !.lost = n] \in Instance
  BY <1>1 DEF Instance, n
<1> QED
  BY <1>2, <1>3

LEMMA GiveUpType ==
  ASSUME NEW x \in Instance
  PROVE  GiveUp(x) \in Instance
BY DEF GiveUp, Instance, InstanceStatus

\* What handleInstanceExit does to instance i.
Handled(s, i, ok, long) ==
  LET exited == Exited(s.inst[i], ok, long)
  IN IF ~Supervised(s, i) THEN exited
     ELSE IF MayRestart(exited.restarts) THEN ScheduleRestart(exited)
     ELSE GiveUp(exited)

\* s holds the objects of a well-typed state.
Objects(s) == /\ s = [inst |-> s.inst, info |-> s.info]
              /\ s.inst \in Seq(Instance)
              /\ s.info \in [Process -> Info]

\* t differs from s in instance i, which is now x, and in the status of processes.
Changed(s, t, i, x) ==
  /\ t.inst = [s.inst EXCEPT ![i] = x]
  /\ \A q \in Process : t.info[q].instances = s.info[q].instances

\* The same, element by element.
LEMMA ChangedType ==
  ASSUME NEW s, Objects(s), NEW i \in DOMAIN s.inst, NEW x \in Instance,
         NEW t, Objects(t), Changed(s, t, i, x)
  PROVE  /\ Len(t.inst) = Len(s.inst)
         /\ DOMAIN t.inst = DOMAIN s.inst
         /\ \A j \in DOMAIN s.inst : t.inst[j] = IF j = i THEN x ELSE s.inst[j]
BY LenProperties, ExceptSeq DEF Objects, Changed

\* handleInstanceExit changes one instance, to Handled, and statuses.
LEMMA HandleInstanceExitEffect ==
  ASSUME NEW s, Objects(s), NEW i \in DOMAIN s.inst,
         NEW ok \in BOOLEAN, NEW long \in BOOLEAN,
         NEW t, t = HandleInstanceExit(s, i, ok, long)
  PROVE  /\ Handled(s, i, ok, long) \in Instance
         /\ Objects(t)
         /\ Changed(s, t, i, Handled(s, i, ok, long))
<1> DEFINE h == Handled(s, i, ok, long)
           p == s.inst[i].home
           u == [inst |-> [s.inst EXCEPT ![i] = h], info |-> s.info]
<1>1. s.inst[i] \in Instance
  BY LenProperties, ElementOfSeq DEF Objects
<1>2. p \in Process
  BY <1>1 DEF Instance
<1>3. h \in Instance
  BY <1>1, ExitedType, ScheduleRestartType, GiveUpType DEF Handled
<1>4. t = UpdateProcessStatus([s EXCEPT !.inst[i] = h], p)
  BY DEF HandleInstanceExit, Handled
<1>5. [s EXCEPT !.inst[i] = h] = u
  <2>1. PICK I, f : I = s.inst /\ f = s.info
    OBVIOUS
  <2>2. s = [inst |-> I, info |-> f]
    BY <2>1 DEF Objects
  <2>. HIDE DEF h
  <2>3. [s EXCEPT !.inst[i] = h] = [inst |-> [I EXCEPT ![i] = h], info |-> f]
    BY <2>2
  <2> QED
    BY <2>1, <2>3
<1>6. /\ u.inst \in Seq(Instance)
      /\ u.info \in [Process -> Info]
      /\ u = [inst |-> u.inst, info |-> u.info]
  BY <1>3, LenProperties, ExceptSeq DEF Objects
<1>7. u.inst = [s.inst EXCEPT ![i] = h] /\ u.info = s.info
  OBVIOUS
<1>. HIDE DEF u, p, h
<1>8. t = UpdateProcessStatus(u, p)
  BY <1>4, <1>5
<1>9. /\ t = [inst |-> u.inst, info |-> t.info]
      /\ t.info \in [Process -> Info]
      /\ \A q \in Process : t.info[q].instances = u.info[q].instances
  BY <1>2, <1>6, <1>8, UpdateProcessStatusEffect
<1>10. t.inst = u.inst
  BY <1>9
<1>11. Objects(t)
  BY <1>6, <1>9, <1>10 DEF Objects
<1>12. Changed(s, t, i, h)
  BY <1>7, <1>9, <1>10 DEF Changed
<1> QED
  BY <1>3, <1>11, <1>12 DEF h

\* cleanup, the closure of stopInstance, changes one instance.
LEMMA CleanupEffect ==
  ASSUME NEW s, Objects(s), NEW i \in DOMAIN s.inst,
         NEW t, t = Cleanup(s, i)
  PROVE  /\ [s.inst[i] EXCEPT !.child = 0, !.status = "stopped"] \in Instance
         /\ Objects(t)
         /\ Changed(s, t, i, [s.inst[i] EXCEPT !.child = 0, !.status = "stopped"])
<1> DEFINE x == [s.inst[i] EXCEPT !.child = 0, !.status = "stopped"]
           u == [inst |-> [s.inst EXCEPT ![i] = x], info |-> s.info]
<1>1. s.inst[i] \in Instance
  BY LenProperties, ElementOfSeq DEF Objects
<1>2. x \in Instance
  BY <1>1 DEF Instance, InstanceStatus
<1>3. t = u
  BY DEF Cleanup, Objects
<1>4. [s.inst EXCEPT ![i] = x] \in Seq(Instance)
  BY <1>2, LenProperties, ExceptSeq DEF Objects
<1>. HIDE DEF x
<1>5. Objects(u)
  BY <1>4 DEF Objects
<1>6. Changed(s, u, i, x)
  BY DEF Changed
<1> QED
  BY <1>2, <1>3, <1>5, <1>6 DEF x

-----------------------------------------------------------------------------
(* What the composed steps do to a well-typed state.                       *)

\* The calls f are well typed and name existing objects.
Named(x) == /\ x \in CallRecord /\ x.old \subseteq DOMAIN inst
            /\ x.phase # "idle" => x.proc \in Process

NamedCalls(f) == f \in [Call -> CallRecord] /\ \A q \in Call : Named(f[q])

\* What TypeOK says of the sequences, as the provers use it.
LEMMA TypeFacts ==
  ASSUME TypeOK
  PROVE  /\ Objects(Now) /\ Now.inst = inst /\ Now.info = info
         /\ Len(inst) \in Nat /\ DOMAIN inst = 1..Len(inst)
         /\ \A i \in DOMAIN inst : inst[i] \in Instance
         /\ Len(child) \in Nat /\ DOMAIN child = 1..Len(child)
         /\ \A c \in DOMAIN child : child[c] \in Child
BY LenProperties, ElementOfSeq DEF TypeOK, Objects, Now, Info

\* Fresh objects are well typed.
LEMMA NewInstanceType ==
  ASSUME NEW p \in Process, NEW c \in Nat
  PROVE  NewInstance(p, c) \in Instance
BY DEF NewInstance, Instance, InstanceStatus

LEMMA NewChildType ==
  ASSUME NEW i \in Nat, NEW worker \in BOOLEAN, NEW o \in Call \cup {"restart", "nobody"}
  PROVE  NewChild(i, worker, o) \in Child
BY DEF NewChild, Child

\* A function on 1..n is a sequence.
LEMMA SeqOfFunction ==
  ASSUME NEW T, NEW n \in Nat, NEW f \in [1..n -> T]
  PROVE  f \in Seq(T) /\ Len(f) = n
<1>1. f \in Seq(T)
  BY SeqDef
<1> QED
  BY <1>1, LenProperties

\* Launch appends n instances and n children and changes neither of the old.
LEMMA LaunchEffect ==
  ASSUME TypeOK, NEW p \in Process, NEW n \in Nat, NEW worker \in BOOLEAN,
         NEW o \in Call, NEW keep \in SUBSET DOMAIN inst, NEW status \in ProcessStatus,
         Launch(p, n, worker, o, keep, status)
  PROVE  /\ inst' \in Seq(Instance) /\ Len(inst') = Len(inst) + n
         /\ \A i \in DOMAIN inst : inst'[i] = inst[i]
         /\ \A j \in 1..n : inst'[Len(inst) + j] = NewInstance(p, Len(child) + j)
         /\ child' \in Seq(Child) /\ Len(child') = Len(child) + n
         /\ \A c \in DOMAIN child : child'[c] = child[c]
         /\ \A j \in 1..n : child'[Len(child) + j] = NewChild(Len(inst) + j, worker, o)
         /\ info' \in [Process -> Info]
         /\ \A q \in Process : info'[q].instances \subseteq 1..Len(inst')
<1> DEFINE new == [j \in 1..n |-> NewInstance(p, Len(child) + j)]
           kids == [j \in 1..n |-> NewChild(Len(inst) + j, worker, o)]
<1>1. /\ Len(inst) \in Nat /\ DOMAIN inst = 1..Len(inst)
      /\ Len(child) \in Nat /\ DOMAIN child = 1..Len(child)
      /\ inst \in Seq(Instance) /\ child \in Seq(Child)
      /\ info \in [Process -> Info] /\ \A q \in Process : info[q].instances \subseteq DOMAIN inst
  BY TypeFacts DEF TypeOK, Info
<1>2. new \in Seq(Instance) /\ Len(new) = n
  <2>1. \A j \in 1..n : NewInstance(p, Len(child) + j) \in Instance
    BY <1>1, NewInstanceType
  <2>2. new \in [1..n -> Instance]
    BY <2>1
  <2> QED
    BY <2>2, SeqOfFunction
<1>3. kids \in Seq(Child) /\ Len(kids) = n
  <2>1. \A j \in 1..n : NewChild(Len(inst) + j, worker, o) \in Child
    BY <1>1, NewChildType
  <2>2. kids \in [1..n -> Child]
    BY <2>1
  <2> QED
    BY <2>2, SeqOfFunction
<1>4. inst' = inst \o new /\ child' = child \o kids
  BY DEF Launch
<1>5. /\ \A j \in 1..n : new[j] = NewInstance(p, Len(child) + j)
      /\ \A j \in 1..n : kids[j] = NewChild(Len(inst) + j, worker, o)
  OBVIOUS
<1>. HIDE DEF new, kids
<1>6. /\ inst' \in Seq(Instance) /\ Len(inst') = Len(inst) + n
      /\ \A i \in 1..Len(inst) + n :
           inst'[i] = IF i <= Len(inst) THEN inst[i] ELSE new[i - Len(inst)]
  BY <1>1, <1>2, <1>4, ConcatProperties
<1>7. /\ child' \in Seq(Child) /\ Len(child') = Len(child) + n
      /\ \A c \in 1..Len(child) + n :
           child'[c] = IF c <= Len(child) THEN child[c] ELSE kids[c - Len(child)]
  BY <1>1, <1>3, <1>4, ConcatProperties
<1>8. \A i \in DOMAIN inst : inst'[i] = inst[i]
  BY <1>1, <1>6
<1>9. \A j \in 1..n : inst'[Len(inst) + j] = NewInstance(p, Len(child) + j)
  <2> TAKE j \in 1..n
  <2>1. /\ Len(inst) + j \in 1..Len(inst) + n
        /\ ~(Len(inst) + j <= Len(inst))
        /\ Len(inst) + j - Len(inst) = j
    BY <1>1
  <2>2. inst'[Len(inst) + j] = new[j]
    BY <1>6, <2>1
  <2> QED
    BY <1>5, <2>2
<1>10. \A c \in DOMAIN child : child'[c] = child[c]
  BY <1>1, <1>7
<1>11. \A j \in 1..n : child'[Len(child) + j] = NewChild(Len(inst) + j, worker, o)
  <2> TAKE j \in 1..n
  <2>1. /\ Len(child) + j \in 1..Len(child) + n
        /\ ~(Len(child) + j <= Len(child))
        /\ Len(child) + j - Len(child) = j
    BY <1>1
  <2>2. child'[Len(child) + j] = kids[j]
    BY <1>7, <2>1
  <2> QED
    BY <1>5, <2>2
<1>12. /\ info' \in [Process -> Info]
       /\ \A q \in Process : info'[q].instances \subseteq 1..Len(inst')
  <2>1. keep \cup NewIds(n) \subseteq 1..Len(inst')
    BY <1>1, <1>6 DEF NewIds
  <2>2. [status |-> status, instances |-> keep \cup NewIds(n)] \in Info
    BY <2>1, <1>1, <1>6 DEF Info
  <2>3. info' = [info EXCEPT ![p] = [status |-> status, instances |-> keep \cup NewIds(n)]]
    BY DEF Launch
  <2>4. \A q \in Process :
          info'[q] = IF q = p THEN [status |-> status, instances |-> keep \cup NewIds(n)]
                     ELSE info[q]
    BY <1>1, <2>3
  <2>5. info' \in [Process -> Info]
    BY <1>1, <2>2, <2>3
  <2>6. 1..Len(inst) \subseteq 1..Len(inst')
    BY <1>1, <1>6
  <2> QED
    BY <1>1, <2>1, <2>4, <2>5, <2>6
<1> QED
  BY <1>6, <1>7, <1>8, <1>9, <1>10, <1>11, <1>12

\* Launch keeps everything well typed.
LEMMA LaunchType ==
  ASSUME TypeOK, NEW p \in Process, NEW n \in Nat, NEW worker \in BOOLEAN,
         NEW o \in Call, NEW keep \in SUBSET DOMAIN inst, NEW status \in ProcessStatus,
         Launch(p, n, worker, o, keep, status),
         processes' \subseteq Process, stops' = stops, shutdown' = shutdown,
         NamedCalls(calls')
  PROVE  TypeOK'
<1>1. /\ inst' \in Seq(Instance) /\ child' \in Seq(Child) /\ info' \in [Process -> Info]
      /\ Len(inst) \in Nat /\ DOMAIN inst = 1..Len(inst)
      /\ Len(child) \in Nat /\ DOMAIN child = 1..Len(child)
      /\ Len(inst') = Len(inst) + n /\ Len(child') = Len(child) + n
      /\ \A q \in Process : info'[q].instances \subseteq 1..Len(inst')
  BY TypeFacts, LaunchEffect
<1>2. DOMAIN inst' = 1..Len(inst') /\ DOMAIN child' = 1..Len(child')
  BY <1>1, LenProperties
<1>3. DOMAIN inst \subseteq DOMAIN inst'
  BY <1>1, <1>2
<1>4. \A c \in DOMAIN child' : child'[c].owner \in DOMAIN inst'
  <2> SUFFICES ASSUME NEW c \in DOMAIN child' PROVE child'[c].owner \in DOMAIN inst'
    OBVIOUS
  <2>1. CASE c \in DOMAIN child
    <3>1. child'[c] = child[c]
      BY <2>1, LaunchEffect
    <3> QED
      BY <2>1, <3>1, <1>3 DEF TypeOK
  <2>2. CASE c \notin DOMAIN child
    <3>1. PICK j \in 1..n : c = Len(child) + j
      <4>1. c - Len(child) \in 1..n /\ c = Len(child) + (c - Len(child))
        BY <1>1, <1>2, <2>2
      <4> QED
        BY <4>1
    <3>2. child'[c] = NewChild(Len(inst) + j, worker, o)
      BY <3>1, LaunchEffect, ZenonT(60)
    <3>3. child'[c].owner = Len(inst) + j
      BY <3>2 DEF NewChild
    <3> QED
      BY <1>1, <1>2, <3>3
  <2> QED
    BY <2>1, <2>2
<1>5. stops' \subseteq Stop /\ \A r \in stops' : r.inst \in DOMAIN inst'
  BY <1>3 DEF TypeOK
<1>6. /\ calls' \in [Call -> CallRecord]
      /\ \A q \in Call : /\ calls'[q].old \subseteq DOMAIN inst'
                         /\ calls'[q].phase # "idle" => calls'[q].proc \in Process
  BY <1>3 DEF NamedCalls, Named
<1>7. shutdown' \in {"no", "stopping", "done"}
  BY DEF TypeOK
<1> QED
  BY <1>1, <1>2, <1>4, <1>5, <1>6, <1>7 DEF TypeOK, Info

\* The synchronous part of stopProcess keeps everything well typed.
LEMMA BeginStopType ==
  ASSUME TypeOK, NEW D \in SUBSET Process, NEW slot \in [D -> Call],
         NEW kind \in {"stop", "restart"}, NEW force \in BOOLEAN,
         BeginStop(slot, kind, force),
         processes' \subseteq Process, shutdown' \in {"no", "stopping", "done"}
  PROVE  TypeOK'
<1>1. info' \in [Process -> Info] /\ \A p \in Process : info'[p].instances = info[p].instances
  BY ZenonT(60) DEF BeginStop, TypeOK, Info, ProcessStatus
<1>2. stops' \subseteq Stop /\ \A r \in stops' : r.inst \in DOMAIN inst
  <2> DEFINE Targets(p) == {i \in info[p].instances : inst[i].child # 0}
             new(p) == {[call |-> slot[p], inst |-> i, child |-> inst[i].child,
                         phase |-> IF force THEN "kill" ELSE "term"] : i \in Targets(p)}
  <2>1. ASSUME NEW p \in D, NEW r \in new(p)
        PROVE  r \in Stop /\ r.inst \in DOMAIN inst
    <3>1. PICK i \in info[p].instances :
            r = [call |-> slot[p], inst |-> i, child |-> inst[i].child,
                 phase |-> IF force THEN "kill" ELSE "term"]
      BY <2>1
    <3>2. i \in DOMAIN inst /\ i \in Nat
      BY <2>1, TypeFacts DEF TypeOK
    <3>3. inst[i].child \in Nat
      BY <3>2, TypeFacts DEF Instance
    <3>4. slot[p] \in Call
      BY <2>1
    <3> QED
      BY <3>1, <3>2, <3>3, <3>4 DEF Stop
  <2>2. stops' = stops \cup UNION {new(p) : p \in D}
    BY DEF BeginStop
  <2>. HIDE DEF new
  <2> QED
    BY <2>1, <2>2 DEF TypeOK
<1>3. NamedCalls(calls')
  <2>1. \A p \in Process : NewCall(kind, p, "stopping") \in CallRecord
                         /\ NewCall(kind, p, "stopping").old = {}
                         /\ NewCall(kind, p, "stopping").proc = p
    BY DEF NewCall, NoCall, CallRecord
  <2>2. ASSUME NEW o \in Call
        PROVE  Named(calls'[o])
    <3>1. CASE \E p \in D : slot[p] = o
      <4>1. (CHOOSE p \in D : slot[p] = o) \in Process
        BY <3>1
      <4>2. calls'[o] = NewCall(kind, CHOOSE p \in D : slot[p] = o, "stopping")
        BY <3>1 DEF BeginStop
      <4> QED
        BY <2>1, <4>1, <4>2, ZenonT(60) DEF Named
    <3>2. CASE ~\E p \in D : slot[p] = o
      BY <3>2 DEF BeginStop, TypeOK, Named
    <3> QED
      BY <3>1, <3>2
  <2>3. DOMAIN calls' = Call /\ calls' = [o \in Call |-> calls'[o]]
    BY DEF BeginStop
  <2> QED
    BY <2>2, <2>3 DEF NamedCalls, Named
<1>4. UNCHANGED <<inst, child>>
  BY DEF BeginStop
<1> QED
  BY <1>1, <1>2, <1>3, <1>4 DEF TypeOK, Info, NamedCalls, Named

\* A nonempty set of numbers has a least one.
LEMMA NatMinimum ==
  ASSUME NEW T \in SUBSET Nat, T # {}
  PROVE  \E x \in T : \A y \in T : x <= y
<1> DEFINE R == OpToRel(<, Nat)
<1>1. IsWellFoundedOn(R, Nat)
  BY NatLessThanWellFounded
<1>2. \A x, y \in Nat : x < y => <<x, y>> \in R
  BY DEF OpToRel
<1>. HIDE DEF R
<1>3. PICK x \in T : \A y \in T : <<y, x>> \notin R
  BY <1>1, WFMin
<1>4. \A y \in T : ~(y < x)
  BY <1>2, <1>3
<1> QED
  BY <1>4

\* The instance gracefulReload stops next is one of the old ones.
LEMMA OldestIn ==
  ASSUME NEW T \in SUBSET Nat, T # {}
  PROVE  Oldest(T) \in T
BY NatMinimum DEF Oldest

\* Starting all instances of a process.
LEMMA LaunchAllType ==
  ASSUME TypeOK, NEW p \in Process, NEW o \in Call, LaunchAll(p, o),
         processes' \subseteq Process, stops' = stops, shutdown' = shutdown,
         NamedCalls(calls')
  PROVE  TypeOK'
<1>1. Count[p] \in Nat /\ Count[p] > 0
  BY ConfigAssumption
<1>2. {} \in SUBSET DOMAIN inst /\ "starting" \in ProcessStatus
  BY DEF ProcessStatus
<1>3. (p \in Clustered /\ Count[p] > 1) \in BOOLEAN
  OBVIOUS
<1>4. Launch(p, Count[p], p \in Clustered /\ Count[p] > 1, o, {}, "starting")
  BY DEF LaunchAll
<1> QED
  BY <1>1, <1>2, <1>3, <1>4, LaunchType

\* Call records.
LEMMA NewCallType ==
  ASSUME NEW kind \in {"start", "stop", "restart", "reload"}, NEW p \in Process,
         NEW phase \in {"starting", "stopping", "spawning", "retiring"},
         NEW todo \in Nat, NEW old \in SUBSET Nat
  PROVE  [NewCall(kind, p, phase) EXCEPT !.todo = todo, !.old = old] \in CallRecord
BY DEF NewCall, NoCall, CallRecord

LEMMA CallUpdateType ==
  ASSUME TypeOK, NEW o \in Call, NEW x, Named(x), calls' = [calls EXCEPT ![o] = x]
  PROVE  NamedCalls(calls')
BY DEF TypeOK, NamedCalls, Named

\* Each way gracefulReload goes on.
LEMMA ReloadStepType ==
  ASSUME TypeOK, NEW o \in Call, NEW p \in Process, NEW todo \in Nat,
         NEW old \in SUBSET DOMAIN inst, NEW status \in ProcessStatus,
         ReloadStep(o, p, todo, old, status),
         processes' = processes, shutdown' = shutdown
  PROVE  TypeOK'
<1> DEFINE next(ph) == [NewCall("reload", p, ph) EXCEPT !.todo = todo, !.old = old]
<1>1. old \in SUBSET Nat
  BY TypeFacts
<1>2. ASSUME NEW ph \in {"spawning", "retiring"}
      PROVE  Named(next(ph))
  <2>1. next(ph) \in CallRecord
    BY <1>1, NewCallType
  <2>2. next(ph).old = old /\ next(ph).proc = p
    BY DEF NewCall, NoCall
  <2>. HIDE DEF next
  <2> QED
    BY <2>1, <2>2, SMTT(30) DEF Named
<1>3. Named(NoCall)
  BY DEF NoCall, CallRecord, Named
<1>4. CASE /\ Launch(p, 1, TRUE, o, info[p].instances, status)
           /\ calls' = [calls EXCEPT ![o] = next("spawning")]
           /\ UNCHANGED stops
  <2>1. info[p].instances \in SUBSET DOMAIN inst
    BY DEF TypeOK
  <2>2. NamedCalls(calls')
    <3>. HIDE DEF next
    <3> QED
      BY <1>2, <1>4, CallUpdateType
  <2>3. processes' \subseteq Process
    BY DEF TypeOK
  <2> QED
    BY <1>4, <2>1, <2>2, <2>3, LaunchType
<1>5. CASE /\ old # {}
           /\ stops' = IF inst[Oldest(old)].child = 0 THEN stops
                       ELSE stops \cup {[call |-> o, inst |-> Oldest(old),
                                         child |-> inst[Oldest(old)].child, phase |-> "term"]}
           /\ calls' = [calls EXCEPT ![o] = next("retiring")]
           /\ UNCHANGED <<info, inst, child>>
  <2>1. Oldest(old) \in DOMAIN inst /\ Oldest(old) \in Nat
    BY <1>1, <1>5, OldestIn
  <2>2. inst[Oldest(old)].child \in Nat
    BY <2>1, TypeFacts DEF Instance
  <2>3. stops' \subseteq Stop /\ \A r \in stops' : r.inst \in DOMAIN inst
    BY <1>5, <2>1, <2>2 DEF TypeOK, Stop
  <2>4. NamedCalls(calls')
    <3>. HIDE DEF next
    <3> QED
      BY <1>2, <1>5, CallUpdateType
  <2> QED
    BY <1>5, <2>3, <2>4 DEF TypeOK, NamedCalls, Named
<1>6. CASE /\ info' = [info EXCEPT ![p].status = "running"]
           /\ calls' = [calls EXCEPT ![o] = NoCall]
           /\ UNCHANGED <<inst, child, stops>>
  <2>1. info' \in [Process -> Info] /\ \A q \in Process : info'[q].instances = info[q].instances
    BY <1>6, ZenonT(60) DEF TypeOK, Info, ProcessStatus
  <2>2. NamedCalls(calls')
    BY <1>3, <1>6, CallUpdateType
  <2> QED
    BY <1>6, <2>1, <2>2 DEF TypeOK, Info, NamedCalls, Named
<1> QED
  BY <1>4, <1>5, <1>6 DEF ReloadStep

\* Replacing one child, or one instance, leaves the others alone.
LEMMA ChildUpdate ==
  ASSUME TypeOK, NEW c \in DOMAIN child, NEW y \in Child, child' = [child EXCEPT ![c] = y]
  PROVE  /\ child' \in Seq(Child) /\ DOMAIN child' = DOMAIN child /\ Len(child') = Len(child)
         /\ \A d \in DOMAIN child : child'[d] = IF d = c THEN y ELSE child[d]
<1>1. child \in Seq(Child) /\ DOMAIN child = 1..Len(child)
  BY TypeFacts DEF TypeOK
<1>2. /\ child' \in Seq(Child) /\ Len(child') = Len(child)
      /\ \A d \in 1..Len(child) : child'[d] = IF d = c THEN y ELSE child[d]
  BY <1>1, ExceptSeq
<1>3. DOMAIN child' = 1..Len(child')
  BY <1>2, LenProperties
<1> QED
  BY <1>1, <1>2, <1>3

LEMMA InstUpdate ==
  ASSUME TypeOK, NEW i \in DOMAIN inst, NEW x \in Instance, inst' = [inst EXCEPT ![i] = x]
  PROVE  /\ inst' \in Seq(Instance) /\ DOMAIN inst' = DOMAIN inst /\ Len(inst') = Len(inst)
         /\ \A j \in DOMAIN inst : inst'[j] = IF j = i THEN x ELSE inst[j]
<1>1. inst \in Seq(Instance) /\ DOMAIN inst = 1..Len(inst)
  BY TypeFacts DEF TypeOK
<1>2. /\ inst' \in Seq(Instance) /\ Len(inst') = Len(inst)
      /\ \A j \in 1..Len(inst) : inst'[j] = IF j = i THEN x ELSE inst[j]
  BY <1>1, ExceptSeq
<1>3. DOMAIN inst' = 1..Len(inst')
  BY <1>2, LenProperties
<1> QED
  BY <1>1, <1>2, <1>3

\* An event of child c that leaves its owner and ends well typed is type correct.
LEMMA EventType ==
  ASSUME TypeOK, NEW c \in DOMAIN child, NEW y \in Child, y.owner = child[c].owner,
         child' = [child EXCEPT ![c] = y],
         inst' \in Seq(Instance), DOMAIN inst' = DOMAIN inst,
         info' \in [Process -> Info],
         \A q \in Process : info'[q].instances = info[q].instances,
         stops' \subseteq stops, NamedCalls(calls'),
         processes' = processes, shutdown' = shutdown
  PROVE  TypeOK'
<1>1. /\ child' \in Seq(Child) /\ DOMAIN child' = DOMAIN child
      /\ \A d \in DOMAIN child : child'[d] = IF d = c THEN y ELSE child[d]
  BY ChildUpdate
<1>2. \A d \in DOMAIN child' : child'[d].owner \in DOMAIN inst'
  BY <1>1 DEF TypeOK
<1>3. /\ processes' \subseteq Process
      /\ stops' \subseteq Stop /\ \A r \in stops' : r.inst \in DOMAIN inst'
      /\ shutdown' \in {"no", "stopping", "done"}
      /\ \A q \in Process : info'[q].instances \subseteq DOMAIN inst'
  BY DEF TypeOK
<1> QED
  BY <1>1, <1>2, <1>3 DEF TypeOK, Info, NamedCalls, Named

\* The calls of a well-typed state.
LEMMA CallsNamed ==
  ASSUME TypeOK
  PROVE  NamedCalls(calls)
BY DEF TypeOK, NamedCalls, Named

\* A rejected start promise changes one instance at most, and one call.
LEMMA RejectEffect ==
  ASSUME TypeOK, NEW c \in DOMAIN child, Reject(c)
  PROVE  LET i == child[c].owner
             x == IF child[c].waiter = "restart" THEN [inst[i] EXCEPT !.status = "errored"]
                  ELSE inst[i]
         IN /\ i \in DOMAIN inst /\ x \in Instance
            /\ inst' = [inst EXCEPT ![i] = x]
            /\ info' \in [Process -> Info]
            /\ \A q \in Process : info'[q].instances = info[q].instances
            /\ NamedCalls(calls')
<1> DEFINE i == child[c].owner
           w == child[c].waiter
           x == [inst[i] EXCEPT !.status = "errored"]
           u == [inst |-> [inst EXCEPT ![i] = x], info |-> info]
           s == UpdateProcessStatus(u, inst[i].home)
<1>1. i \in DOMAIN inst /\ inst[i] \in Instance
  BY TypeFacts DEF TypeOK
<1>2. x \in Instance /\ inst[i].home \in Process
  BY <1>1 DEF Instance, InstanceStatus
<1>3. [Now EXCEPT !.inst[i].status = "errored"] = u
  BY DEF Now
<1>4. u.info \in [Process -> Info] /\ u.inst = [inst EXCEPT ![i] = x] /\ u.info = info
      /\ u = [inst |-> u.inst, info |-> u.info]
  BY DEF TypeOK, Info
<1>5. /\ inst' = IF w = "restart" THEN s.inst ELSE inst
      /\ info' = IF w = "restart" THEN s.info ELSE info
      /\ calls' = IF w \in Call THEN [calls EXCEPT ![w].failed = TRUE] ELSE calls
  BY <1>3 DEF Reject
<1>6. s = UpdateProcessStatus(u, inst[i].home)
  OBVIOUS
<1>. HIDE DEF u, s
<1>7. /\ s = [inst |-> u.inst, info |-> s.info] /\ s.info \in [Process -> Info]
      /\ \A q \in Process : s.info[q].instances = u.info[q].instances
  BY <1>2, <1>4, <1>6, UpdateProcessStatusEffect
<1>8. s.inst = u.inst
  BY <1>7
<1>9. NamedCalls(calls')
  <2>1. CASE w \in Call
    <3>1. calls' = [calls EXCEPT ![w] = [calls[w] EXCEPT !.failed = TRUE]]
      BY <1>5, <2>1
    <3>2. Named([calls[w] EXCEPT !.failed = TRUE])
      BY <2>1, CallsNamed DEF NamedCalls, Named, CallRecord
    <3> QED
      BY <2>1, <3>1, <3>2, CallUpdateType
  <2>2. CASE w \notin Call
    BY <1>5, <2>2, CallsNamed
  <2> QED
    BY <2>1, <2>2
<1>10. CASE w = "restart"
  BY <1>1, <1>2, <1>4, <1>5, <1>7, <1>8, <1>9, <1>10
<1>11. CASE w # "restart"
  <2>1. inst' = [inst EXCEPT ![i] = inst[i]] /\ info' = info
    BY <1>1, <1>5, <1>11 DEF TypeOK
  <2> QED
    BY <1>1, <1>9, <1>11, <2>1 DEF TypeOK, Info
<1> QED
  BY <1>10, <1>11

\* The instance after the listeners set at spawning and by stopInstance.
AfterExit(c, ok, long) ==
  IF ResolvedBy(c) = {} THEN Handled(Now, child[c].owner, ok, long)
  ELSE [Handled(Now, child[c].owner, ok, long) EXCEPT !.child = 0, !.status = "stopped"]

\* handleInstanceExit always drops the handle of the child.
LEMMA HandledChild ==
  ASSUME NEW s, NEW i, s.inst[i] \in Instance, NEW ok \in BOOLEAN, NEW long \in BOOLEAN
  PROVE  /\ Handled(s, i, ok, long).child = 0
         /\ Handled(s, i, ok, long).home = s.inst[i].home
<1> DEFINE x == Exited(s.inst[i], ok, long)
<1>1. x \in Instance /\ x.child = 0 /\ x.home = s.inst[i].home
  BY ExitedType, ZenonT(60) DEF Exited, Instance
<1>. HIDE DEF x
<1>2. ScheduleRestart(x).child = x.child /\ ScheduleRestart(x).home = x.home
  BY <1>1 DEF ScheduleRestart, Instance
<1>3. GiveUp(x).child = x.child /\ GiveUp(x).home = x.home
  BY <1>1 DEF GiveUp, Instance
<1> QED
  BY <1>1, <1>2, <1>3 DEF Handled, x

\* All the listeners of an exit together change one instance.
LEMMA ExitEffect ==
  ASSUME TypeOK, NEW c \in DOMAIN child, NEW ok \in BOOLEAN, NEW long \in BOOLEAN,
         Exit(c, ok, long)
  PROVE  /\ child[c].owner \in DOMAIN inst /\ AfterExit(c, ok, long) \in Instance
         /\ inst' \in Seq(Instance) /\ DOMAIN inst' = DOMAIN inst
         /\ inst'[child[c].owner].child = 0
         /\ inst'[child[c].owner].home = inst[child[c].owner].home
         /\ ~child[c].worker => inst' = [inst EXCEPT ![child[c].owner] = AfterExit(c, ok, long)]
         /\ \A j \in DOMAIN inst : j # child[c].owner => inst'[j] = inst[j]
         /\ info' \in [Process -> Info]
         /\ \A q \in Process : info'[q].instances = info[q].instances
<1> DEFINE i == child[c].owner
           h == Handled(Now, i, ok, long)
           k == [h EXCEPT !.child = 0, !.status = "stopped"]
           s1 == HandleInstanceExit(Now, i, ok, long)
           s2 == IF ResolvedBy(c) = {} THEN s1 ELSE Cleanup(s1, i)
           s3 == HandleWorkerExit(s2, c, ok, long)
           x == AfterExit(c, ok, long)
<1>1. /\ i \in DOMAIN inst /\ inst[i] \in Instance
      /\ Objects(Now) /\ Now.inst = inst /\ Now.info = info
  BY TypeFacts DEF TypeOK
<1>2. h.child = 0 /\ h.home = inst[i].home
  BY <1>1, HandledChild
<1>3. inst' = s3.inst /\ info' = s3.info
  BY DEF Exit
<1>4. x = IF ResolvedBy(c) = {} THEN h ELSE k
  BY DEF AfterExit
<1>5. s1 = HandleInstanceExit(Now, i, ok, long)
  OBVIOUS
<1>6. s2 = IF ResolvedBy(c) = {} THEN s1 ELSE Cleanup(s1, i)
  OBVIOUS
<1>7. /\ s3 = HandleInstanceExit(s2, i, ok, long) \/ s3 = s2
      /\ ~child[c].worker => s3 = s2
  BY DEF HandleWorkerExit
<1>8. k = [h EXCEPT !.child = 0, !.status = "stopped"]
  OBVIOUS
<1>. HIDE DEF h, k, s1, s2, s3, x
<1>9. h \in Instance /\ Objects(s1) /\ Changed(Now, s1, i, h)
  BY <1>1, <1>5, HandleInstanceExitEffect DEF h
<1>10. /\ DOMAIN s1.inst = DOMAIN inst /\ s1.inst[i] = h
       /\ \A j \in DOMAIN inst : j # i => s1.inst[j] = inst[j]
       /\ \A q \in Process : s1.info[q].instances = info[q].instances
  BY <1>1, <1>9, ChangedType DEF Changed
<1>11. k \in Instance /\ k.child = 0 /\ k.home = h.home
  BY <1>8, <1>9 DEF Instance, InstanceStatus
<1>12. /\ x \in Instance /\ Objects(s2) /\ DOMAIN s2.inst = DOMAIN inst /\ s2.inst[i] = x
       /\ \A j \in DOMAIN inst : j # i => s2.inst[j] = inst[j]
       /\ \A q \in Process : s2.info[q].instances = info[q].instances
       /\ x.child = 0 /\ x.home = inst[i].home
  <2>1. CASE ResolvedBy(c) = {}
    BY <1>2, <1>4, <1>6, <1>9, <1>10, <2>1
  <2>2. CASE ResolvedBy(c) # {}
    <3>1. s2 = Cleanup(s1, i) /\ x = k
      BY <1>4, <1>6, <2>2
    <3>2. Objects(s2) /\ Changed(s1, s2, i, k)
      <4>1. [s1.inst[i] EXCEPT !.child = 0, !.status = "stopped"] = k
        BY <1>8, <1>10
      <4> QED
        BY <1>1, <1>9, <1>10, <3>1, <4>1, CleanupEffect
    <3>3. /\ DOMAIN s2.inst = DOMAIN s1.inst
          /\ \A j \in DOMAIN s1.inst : s2.inst[j] = IF j = i THEN k ELSE s1.inst[j]
      BY <1>1, <1>9, <1>10, <1>11, <3>2, ChangedType
    <3> QED
      BY <1>1, <1>2, <1>10, <1>11, <3>1, <3>2, <3>3 DEF Changed
  <2> QED
    BY <2>1, <2>2
<1>13. /\ Objects(s3) /\ DOMAIN s3.inst = DOMAIN inst
       /\ s3.inst[i].child = 0 /\ s3.inst[i].home = inst[i].home
       /\ \A j \in DOMAIN inst : j # i => s3.inst[j] = inst[j]
       /\ \A q \in Process : s3.info[q].instances = info[q].instances
  <2>1. CASE s3 = s2
    BY <1>12, <2>1
  <2>2. CASE s3 = HandleInstanceExit(s2, i, ok, long)
    <3> DEFINE g == Handled(s2, i, ok, long)
    <3>1. g.child = 0 /\ g.home = x.home
      BY <1>12, HandledChild
    <3>2. g \in Instance /\ Objects(s3) /\ Changed(s2, s3, i, g)
      BY <1>1, <1>12, <2>2, HandleInstanceExitEffect
    <3>. HIDE DEF g
    <3>3. /\ DOMAIN s3.inst = DOMAIN s2.inst
          /\ \A j \in DOMAIN s2.inst : s3.inst[j] = IF j = i THEN g ELSE s2.inst[j]
      BY <1>1, <1>12, <3>2, ChangedType
    <3> QED
      BY <1>1, <1>12, <3>1, <3>2, <3>3 DEF Changed
  <2> QED
    BY <1>7, <2>1, <2>2
<1>14. ~child[c].worker => inst' = [inst EXCEPT ![i] = x]
  <2> SUFFICES ASSUME ~child[c].worker PROVE inst' = [inst EXCEPT ![i] = x]
    OBVIOUS
  <2>1. inst' = s2.inst
    BY <1>3, <1>7
  <2>2. inst' \in Seq(Instance) /\ inst \in Seq(Instance)
    BY <1>12, <2>1 DEF Objects, TypeOK
  <2>3. inst' = [j \in DOMAIN inst |-> inst'[j]]
    BY <1>12, <2>1, <2>2, LenProperties
  <2>4. \A j \in DOMAIN inst : inst'[j] = IF j = i THEN x ELSE inst[j]
    BY <1>12, <2>1
  <2> QED
    BY <2>3, <2>4
<1> QED
  BY <1>1, <1>3, <1>12, <1>13, <1>14 DEF Objects, x

-----------------------------------------------------------------------------
(* Type correctness.                                                       *)

\* A step that only touches the calls, resolved stops and the status of
\* processes is type correct.
LEMMA QuietType ==
  ASSUME TypeOK, UNCHANGED <<inst, processes>>,
         child' \in Seq(Child), DOMAIN child' = DOMAIN child,
         \A c \in DOMAIN child : child'[c].owner = child[c].owner,
         info' \in [Process -> Info],
         \A q \in Process : info'[q].instances \subseteq DOMAIN inst,
         stops' \subseteq stops, NamedCalls(calls'),
         shutdown' \in {"no", "stopping", "done"}
  PROVE  TypeOK'
BY DEF TypeOK, Info, NamedCalls, Named

\* A call that has returned awaits no child.
LEMMA UnawaitType ==
  ASSUME TypeOK, NEW o \in Call, child' = Unawait(o)
  PROVE  /\ child' \in Seq(Child) /\ DOMAIN child' = DOMAIN child /\ Len(child') = Len(child)
         /\ \A c \in DOMAIN child :
              child'[c] = child[c] \/ child'[c] = [child[c] EXCEPT !.waiter = "nobody"]
<1>1. /\ Len(child) \in Nat /\ DOMAIN child = 1..Len(child)
      /\ \A c \in DOMAIN child : child[c] \in Child
  BY TypeFacts
<1>2. \A c \in DOMAIN child :
        /\ [child[c] EXCEPT !.waiter = "nobody"] \in Child
        /\ child'[c] = IF child[c].waiter = o THEN [child[c] EXCEPT !.waiter = "nobody"]
                        ELSE child[c]
  BY <1>1 DEF Child, Unawait
<1>3. child' \in [1..Len(child) -> Child]
  BY <1>1, <1>2 DEF Unawait
<1>4. child' \in Seq(Child) /\ Len(child') = Len(child)
  BY <1>1, <1>3, SeqOfFunction
<1> QED
  BY <1>1, <1>2, <1>3, <1>4

\* The continuations of the calls.
LEMMA StatusUpdate ==
  ASSUME TypeOK, NEW p \in Process, NEW v \in ProcessStatus, info' = [info EXCEPT ![p].status = v]
  PROVE  /\ info' \in [Process -> Info]
         /\ \A q \in Process : info'[q].instances = info[q].instances
         /\ \A q \in Process : info'[q].instances \subseteq DOMAIN inst
BY SMTT(30) DEF TypeOK, Info

LEMMA FinishStartType ==
  ASSUME TypeOK, NEW o \in Call, FinishStart(o)
  PROVE  TypeOK'
<1> DEFINE p == calls[o].proc
           outcome == IF ~calls[o].failed THEN "running"
                      ELSE IF calls[o].kind = "start" THEN "errored" ELSE info[p].status
<1>1. p \in Process
  BY DEF FinishStart, TypeOK
<1>2. outcome \in ProcessStatus
  BY <1>1 DEF TypeOK, ProcessStatus
<1>3. /\ info' = [info EXCEPT ![p].status = outcome] /\ child' = Unawait(o)
      /\ calls' = [calls EXCEPT ![o] = NoCall]
      /\ UNCHANGED <<processes, inst, stops, shutdown>>
  BY DEF FinishStart
<1>. HIDE DEF outcome, p
<1>4. NamedCalls(calls')
  <2>1. Named(NoCall)
    BY DEF NoCall, CallRecord, Named
  <2> QED
    BY <1>3, <2>1, CallUpdateType
<1>5. /\ child' \in Seq(Child) /\ DOMAIN child' = DOMAIN child
      /\ \A c \in DOMAIN child : child'[c].owner = child[c].owner
  BY <1>3, UnawaitType, TypeFacts, ZenonT(60) DEF Child
<1>6. /\ info' \in [Process -> Info]
      /\ \A q \in Process : info'[q].instances \subseteq DOMAIN inst
  BY <1>1, <1>2, <1>3, StatusUpdate
<1> QED
  BY <1>3, <1>4, <1>5, <1>6, QuietType DEF TypeOK

LEMMA FinishStopType ==
  ASSUME TypeOK, NEW o \in Call, FinishStop(o)
  PROVE  TypeOK'
<1> DEFINE p == calls[o].proc
<1>1. p \in Process
  BY DEF FinishStop, TypeOK
<1>2. CASE /\ LaunchAll(p, o)
           /\ calls' = [calls EXCEPT ![o].phase = "starting"]
           /\ UNCHANGED <<processes, stops, shutdown>>
  <2>1. calls' = [calls EXCEPT ![o] = [calls[o] EXCEPT !.phase = "starting"]]
    BY <1>2
  <2>2. Named([calls[o] EXCEPT !.phase = "starting"])
    BY <1>1, ZenonT(60) DEF TypeOK, CallRecord, Named
  <2>3. NamedCalls(calls')
    BY <2>1, <2>2, CallUpdateType
  <2>4. processes' \subseteq Process
    BY <1>2 DEF TypeOK
  <2> QED
    BY <1>1, <1>2, <2>3, <2>4, LaunchAllType
<1>3. CASE /\ info' = [info EXCEPT ![p].status = "stopped"]
           /\ calls' = [calls EXCEPT ![o] = NoCall]
           /\ UNCHANGED <<processes, inst, child, stops, shutdown>>
  <2>1. Named(NoCall)
    BY DEF NoCall, CallRecord, Named
  <2>2. NamedCalls(calls')
    BY <1>3, <2>1, CallUpdateType
  <2>3. "stopped" \in ProcessStatus
    BY DEF ProcessStatus
  <2>4. /\ info' \in [Process -> Info]
        /\ \A q \in Process : info'[q].instances \subseteq DOMAIN inst
    BY <1>1, <1>3, <2>3, StatusUpdate
  <2> QED
    BY <1>3, <2>2, <2>4, QuietType DEF TypeOK
<1> QED
  BY <1>2, <1>3 DEF FinishStop

\* The requests.
LEMMA StartProcessType ==
  ASSUME TypeOK, NEW o \in Client, NEW p \in Process, StartProcess(o, p)
  PROVE  TypeOK'
<1>1. o \in Call
  BY DEF Call
<1>2. NewCall("start", p, "starting") \in CallRecord /\ Named(NewCall("start", p, "starting"))
  BY DEF NewCall, NoCall, CallRecord, Named
<1>3. NamedCalls(calls')
  BY <1>1, <1>2, CallUpdateType DEF StartProcess
<1>4. processes' \subseteq Process
  BY DEF StartProcess, TypeOK
<1> QED
  BY <1>1, <1>3, <1>4, LaunchAllType DEF StartProcess

LEMMA StopRequestType ==
  ASSUME TypeOK, NEW o \in Client, NEW p \in Process,
         (\E force \in BOOLEAN : StopProcess(o, p, force)) \/ RestartProcess(o, p)
  PROVE  TypeOK'
<1> DEFINE slot == [q \in {p} |-> o]
<1>1. {p} \in SUBSET Process /\ slot \in [{p} -> Call]
  BY DEF Call
<1>2. PICK kind \in {"stop", "restart"}, force \in BOOLEAN : BeginStop(slot, kind, force)
  BY DEF StopProcess, RestartProcess
<1>3. processes' \subseteq Process /\ shutdown' \in {"no", "stopping", "done"}
  BY DEF StopProcess, RestartProcess, TypeOK
<1>. HIDE DEF slot
<1> QED
  BY <1>1, <1>2, <1>3, BeginStopType

LEMMA ReloadAllProcessesType ==
  ASSUME TypeOK, ReloadAllProcesses
  PROVE  TypeOK'
<1> DEFINE running == {p \in processes : info[p].status = "running"}
<1>1. running \in SUBSET Process
  BY DEF TypeOK
<1>2. PICK slot \in [running -> {o \in Client : calls[o] = NoCall}] :
        BeginStop(slot, "restart", FALSE)
  BY DEF ReloadAllProcesses
<1>. HIDE DEF running
<1>3. slot \in [running -> Call]
  BY <1>2 DEF Call
<1>4. processes' \subseteq Process /\ shutdown' \in {"no", "stopping", "done"}
  BY DEF ReloadAllProcesses, TypeOK
<1> QED
  BY <1>1, <1>2, <1>3, <1>4, BeginStopType

LEMMA GracefulShutdownType ==
  ASSUME TypeOK, GracefulShutdown
  PROVE  TypeOK'
<1> DEFINE active == {p \in processes : info[p].status \in {"running", "starting"}}
           slot == [p \in active |-> p]
<1>1. active \in SUBSET Process
  BY DEF TypeOK
<1>2. BeginStop(slot, "stop", FALSE)
  BY DEF GracefulShutdown
<1>3. slot \in [active -> Call]
  BY <1>1 DEF Call
<1>4. processes' \subseteq Process /\ shutdown' \in {"no", "stopping", "done"}
  BY DEF GracefulShutdown, TypeOK
<1>. HIDE DEF active, slot
<1> QED
  BY <1>1, <1>2, <1>3, <1>4, BeginStopType

LEMMA ReloadType ==
  ASSUME TypeOK, NEW o \in Call,
         \/ \E p \in Process : o \in Client /\ GracefulReload(o, p)
         \/ ReloadSpawned(o) \/ ReloadSettled(o) \/ ReloadRetired(o) \/ ReloadPaused(o)
  PROVE  TypeOK'
<1> DEFINE q == calls[o].proc
           old == calls[o].old
<1>1. /\ calls[o] \in CallRecord /\ old \in SUBSET DOMAIN inst
      /\ calls[o].phase # "idle" => q \in Process
  BY DEF TypeOK
<1>2. q \in Process => info[q].status \in ProcessStatus
  BY DEF TypeOK
<1>3. CASE \E p \in Process : o \in Client /\ GracefulReload(o, p)
  <2>1. PICK p \in Process : GracefulReload(o, p)
    BY <1>3
  <2>2. /\ Count[p] \in Nat /\ info[p].instances \in SUBSET DOMAIN inst
        /\ "reloading" \in ProcessStatus
    BY ConfigAssumption DEF TypeOK, ProcessStatus
  <2>3. /\ ReloadStep(o, p, Count[p], info[p].instances, "reloading")
        /\ processes' = processes /\ shutdown' = shutdown
    BY <2>1 DEF GracefulReload
  <2> QED
    BY <2>2, <2>3, ReloadStepType
<1>4. CASE ReloadSpawned(o)
  <2>1. q \in Process /\ info[q].status \in ProcessStatus
    BY <1>1, <1>2, <1>4 DEF ReloadSpawned
  <2>2. CASE calls[o].failed
    <3>1. /\ ReloadStep(o, q, calls[o].todo - 1, old, info[q].status)
          /\ processes' = processes /\ shutdown' = shutdown
      BY <1>4, <2>2 DEF ReloadSpawned
    <3>2. CASE calls[o].todo - 1 \in Nat
      BY <1>1, <2>1, <3>1, <3>2, ReloadStepType
    <3>3. CASE calls[o].todo - 1 \notin Nat
      <4>1. calls[o].todo = 0
        BY <1>1, <3>3 DEF CallRecord
      <4> QED
        BY <4>1, <3>1, <3>3 DEF ReloadStep
    <3> QED
      BY <3>2, <3>3
  <2>3. CASE ~calls[o].failed
    <3>1. /\ calls' = [calls EXCEPT ![o] = [calls[o] EXCEPT !.phase = "settling"]]
          /\ UNCHANGED <<processes, info, inst, child, stops, shutdown>>
      BY <1>4, <2>3 DEF ReloadSpawned
    <3>2. Named([calls[o] EXCEPT !.phase = "settling"])
      BY <1>1, <2>1 DEF CallRecord, Named
    <3>3. NamedCalls(calls')
      BY <3>1, <3>2, CallUpdateType
    <3> QED
      BY <3>1, <3>3 DEF TypeOK, NamedCalls, Named
  <2> QED
    BY <2>2, <2>3
<1>5. CASE ReloadSettled(o)
  <2>1. /\ q \in Process /\ info[q].status \in ProcessStatus
        /\ ReloadStep(o, q, calls[o].todo - 1, old, info[q].status)
        /\ processes' = processes /\ shutdown' = shutdown
    BY <1>1, <1>2, <1>5 DEF ReloadSettled
  <2>2. CASE calls[o].todo - 1 \in Nat
    BY <1>1, <2>1, <2>2, ReloadStepType
  <2>3. CASE calls[o].todo - 1 \notin Nat
    <3>1. calls[o].todo = 0
      BY <1>1, <2>3 DEF CallRecord
    <3> QED
      BY <2>1, <2>3, <3>1 DEF ReloadStep
  <2> QED
    BY <2>2, <2>3
<1>6. CASE ReloadRetired(o)
  <2>1. q \in Process
    BY <1>1, <1>6 DEF ReloadRetired
  <2>2. /\ info' = [info EXCEPT ![q].instances = info[q].instances \ {Oldest(old)}]
        /\ calls' = [calls EXCEPT ![o] = [calls[o] EXCEPT !.phase = "pausing"]]
        /\ UNCHANGED <<processes, inst, child, stops, shutdown>>
    BY <1>6 DEF ReloadRetired
  <2>3. Named([calls[o] EXCEPT !.phase = "pausing"])
    BY <1>1, <2>1 DEF CallRecord, Named
  <2>4. NamedCalls(calls')
    BY <2>2, <2>3, CallUpdateType
  <2>5. /\ info' \in [Process -> Info]
        /\ \A p \in Process : info'[p].instances \subseteq info[p].instances
    BY <2>1, <2>2 DEF TypeOK, Info
  <2> QED
    BY <2>2, <2>4, <2>5, QuietType DEF TypeOK
<1>7. CASE ReloadPaused(o)
  <2>1. /\ q \in Process /\ info[q].status \in ProcessStatus
        /\ ReloadStep(o, q, 0, old \ {Oldest(old)}, info[q].status)
        /\ processes' = processes /\ shutdown' = shutdown
    BY <1>1, <1>2, <1>7 DEF ReloadPaused
  <2> QED
    BY <1>1, <2>1, ReloadStepType
<1> QED
  BY <1>3, <1>4, <1>5, <1>6, <1>7

\* The events of the children.
LEMMA OnlineType ==
  ASSUME TypeOK, NEW c \in DOMAIN child, Online(c)
  PROVE  TypeOK'
<1> DEFINE i == child[c].owner
           x == [inst[i] EXCEPT !.status = "running", !.pid = c]
           y == [child[c] EXCEPT !.state = "online", !.waiter = "nobody", !.timer = FALSE]
<1>1. /\ i \in DOMAIN inst /\ inst[i] \in Instance /\ child[c] \in Child /\ c \in Nat
  BY TypeFacts DEF TypeOK
<1>2. x \in Instance
  BY <1>1 DEF Instance, InstanceStatus
<1>3. y \in Child /\ y.owner = i
  BY <1>1 DEF Child
<1>4. /\ child' = [child EXCEPT ![c] = y]
      /\ inst' = [inst EXCEPT ![i] = x]
      /\ UNCHANGED <<processes, info, stops, calls, shutdown>>
  BY <1>1 DEF Online
<1>. HIDE DEF x, y
<1>5. inst' \in Seq(Instance) /\ DOMAIN inst' = DOMAIN inst
  BY <1>1, <1>2, <1>4, InstUpdate
<1>6. /\ info' \in [Process -> Info] /\ NamedCalls(calls')
      /\ \A q \in Process : info'[q].instances = info[q].instances
  BY <1>4, CallsNamed DEF TypeOK, Info
<1> QED
  BY <1>3, <1>4, <1>5, <1>6, EventType

LEMMA SpawnErrorType ==
  ASSUME TypeOK, NEW c \in DOMAIN child, SpawnError(c)
  PROVE  TypeOK'
<1> DEFINE y == [child[c] EXCEPT !.state = "failed", !.waiter = "nobody", !.timer = FALSE]
<1>1. child[c] \in Child
  BY TypeFacts
<1>2. y \in Child /\ y.owner = child[c].owner
  BY <1>1 DEF Child
<1>3. /\ child' = [child EXCEPT ![c] = y] /\ Reject(c)
      /\ UNCHANGED <<processes, stops, shutdown>>
  BY DEF SpawnError
<1>. HIDE DEF y
<1>4. /\ inst' \in Seq(Instance) /\ DOMAIN inst' = DOMAIN inst
      /\ info' \in [Process -> Info] /\ NamedCalls(calls')
      /\ \A q \in Process : info'[q].instances = info[q].instances
  BY <1>3, RejectEffect, InstUpdate
<1> QED
  BY <1>2, <1>3, <1>4, EventType

LEMMA StartTimeoutType ==
  ASSUME TypeOK, NEW c \in DOMAIN child, StartTimeout(c)
  PROVE  TypeOK'
<1> DEFINE y == [child[c] EXCEPT !.waiter = "nobody", !.timer = FALSE]
           z == [child[c] EXCEPT !.timer = FALSE]
<1>1. child[c] \in Child
  BY TypeFacts
<1>2. y \in Child /\ y.owner = child[c].owner /\ z \in Child /\ z.owner = child[c].owner
  BY <1>1 DEF Child
<1>3. CASE /\ child' = [child EXCEPT ![c] = y] /\ Reject(c)
           /\ UNCHANGED <<processes, stops, shutdown>>
  <2>. HIDE DEF y
  <2>1. /\ inst' \in Seq(Instance) /\ DOMAIN inst' = DOMAIN inst
        /\ info' \in [Process -> Info] /\ NamedCalls(calls')
        /\ \A q \in Process : info'[q].instances = info[q].instances
    BY <1>3, RejectEffect, InstUpdate
  <2> QED
    BY <1>2, <1>3, <2>1, EventType
<1>4. CASE /\ child' = [child EXCEPT ![c] = z]
           /\ UNCHANGED <<processes, inst, info, calls, stops, shutdown>>
  <2>. HIDE DEF z
  <2>1. /\ inst' \in Seq(Instance) /\ DOMAIN inst' = DOMAIN inst
        /\ info' \in [Process -> Info] /\ NamedCalls(calls')
        /\ \A q \in Process : info'[q].instances = info[q].instances
    BY <1>4, CallsNamed DEF TypeOK, Info
  <2> QED
    BY <1>2, <1>4, <2>1, EventType
<1>5. \/ /\ child' = [child EXCEPT ![c] = y] /\ Reject(c)
         /\ UNCHANGED <<processes, stops, shutdown>>
      \/ /\ child' = [child EXCEPT ![c] = z]
         /\ UNCHANGED <<processes, inst, info, calls, stops, shutdown>>
  BY DEF StartTimeout
<1> QED
  BY <1>3, <1>4, <1>5

LEMMA ExitType ==
  ASSUME TypeOK, NEW c \in DOMAIN child, NEW ok \in BOOLEAN, NEW long \in BOOLEAN,
         Exit(c, ok, long)
  PROVE  TypeOK'
<1> DEFINE y == [child[c] EXCEPT !.state = "exited"]
<1>1. child[c] \in Child
  BY TypeFacts
<1>2. y \in Child /\ y.owner = child[c].owner
  BY <1>1 DEF Child
<1>3. /\ child' = [child EXCEPT ![c] = y]
      /\ UNCHANGED <<processes, calls, shutdown>> /\ stops' \subseteq stops
  BY DEF Exit
<1>4. /\ inst' \in Seq(Instance) /\ DOMAIN inst' = DOMAIN inst
      /\ info' \in [Process -> Info]
      /\ \A q \in Process : info'[q].instances = info[q].instances
  BY ExitEffect
<1>5. NamedCalls(calls')
  BY <1>3, CallsNamed
<1>. HIDE DEF y
<1> QED
  BY <1>2, <1>3, <1>4, <1>5, EventType

\* The timers.
LEMMA RestartedType ==
  ASSUME NEW x \in Instance, NEW kept \in BOOLEAN, NEW c \in Nat,
         IF kept THEN x.held ELSE x.lost > 0
  PROVE  Restarted(x, kept, c) \in Instance
<1> DEFINE n == IF kept \/ x.held THEN x.lost ELSE x.lost - 1
           m == x.restarts + 1
<1>1. n \in Nat /\ m \in Nat
  BY DEF Instance
<1>2. Restarted(x, kept, c) = [x EXCEPT !.restarts = m, !.status = "starting", !.child = c,
                                        !.held = FALSE, !.lost = n]
  BY DEF Restarted
<1>. HIDE DEF n, m
<1> QED
  BY <1>1, <1>2 DEF Instance, InstanceStatus

\* restartInstance changes one instance and appends one child.
LEMMA RestartEffect ==
  ASSUME TypeOK, NEW i \in DOMAIN inst, NEW kept \in BOOLEAN, RestartInstance(i, kept)
  PROVE  LET x == Restarted(inst[i], kept, Len(child) + 1)
             y == NewChild(i, inst[i].home \in Clustered, "restart")
         IN /\ x \in Instance
            /\ inst' \in Seq(Instance) /\ DOMAIN inst' = DOMAIN inst
            /\ \A j \in DOMAIN inst : inst'[j] = IF j = i THEN x ELSE inst[j]
            /\ child' \in Seq(Child) /\ Len(child') = Len(child) + 1
            /\ DOMAIN child' = DOMAIN child \cup {Len(child) + 1}
            /\ \A c \in DOMAIN child : child'[c] = child[c]
            /\ child'[Len(child) + 1] = y
            /\ UNCHANGED <<processes, info, stops, calls, shutdown>>
<1> DEFINE worker == inst[i].home \in Clustered
           y == NewChild(i, worker, "restart")
           x == Restarted(inst[i], kept, Len(child) + 1)
<1>1. /\ inst[i] \in Instance /\ i \in Nat
      /\ Len(child) \in Nat /\ DOMAIN child = 1..Len(child) /\ child \in Seq(Child)
  BY TypeFacts DEF TypeOK
<1>2. worker \in BOOLEAN
  OBVIOUS
<1>3. inst' = [inst EXCEPT ![i] = x] /\ (IF kept THEN inst[i].held ELSE inst[i].lost > 0)
  BY DEF RestartInstance
<1>4. x \in Instance
  BY <1>1, <1>3, RestartedType
<1>. HIDE DEF x
<1>5. /\ inst' \in Seq(Instance) /\ DOMAIN inst' = DOMAIN inst
      /\ \A j \in DOMAIN inst : inst'[j] = IF j = i THEN x ELSE inst[j]
  BY <1>3, <1>4, InstUpdate
<1>6. y \in Child
  <2>. HIDE DEF worker
  <2> QED
    BY <1>1, <1>2, NewChildType
<1>7. child' = Append(child, y)
  BY DEF RestartInstance
<1>. HIDE DEF y
<1>8. /\ child' \in Seq(Child) /\ Len(child') = Len(child) + 1
      /\ \A c \in DOMAIN child : child'[c] = child[c]
      /\ child'[Len(child) + 1] = y
  BY <1>1, <1>6, <1>7
<1>9. DOMAIN child' = DOMAIN child \cup {Len(child) + 1}
  <2>1. DOMAIN child' = 1..Len(child')
    BY <1>8, LenProperties
  <2> QED
    BY <1>1, <1>8, <2>1
<1>10. UNCHANGED <<processes, info, stops, calls, shutdown>>
  BY DEF RestartInstance
<1> QED
  BY <1>4, <1>5, <1>8, <1>9, <1>10 DEF x, y

LEMMA RestartType ==
  ASSUME TypeOK, NEW i \in DOMAIN inst, NEW kept \in BOOLEAN, RestartInstance(i, kept)
  PROVE  TypeOK'
<1> DEFINE y == NewChild(i, inst[i].home \in Clustered, "restart")
<1>. y.owner = i
  BY DEF NewChild
<1>. HIDE DEF y
<1>1. /\ inst' \in Seq(Instance) /\ DOMAIN inst' = DOMAIN inst
      /\ child' \in Seq(Child)
      /\ DOMAIN child' = DOMAIN child \cup {Len(child) + 1}
      /\ \A c \in DOMAIN child : child'[c] = child[c]
      /\ child'[Len(child) + 1] = y
      /\ UNCHANGED <<processes, info, stops, calls, shutdown>>
  BY RestartEffect DEF y
<1>2. \A c \in DOMAIN child' : child'[c].owner \in DOMAIN inst'
  BY <1>1 DEF TypeOK
<1> QED
  BY <1>1, <1>2 DEF TypeOK

LEMMA TimerType ==
  ASSUME TypeOK, NEW r \in stops, KillTimer(r) \/ CleanupTimer(r)
  PROVE  TypeOK'
<1>1. CASE KillTimer(r)
  <2>1. [r EXCEPT !.phase = "kill"] \in Stop /\ [r EXCEPT !.phase = "kill"].inst = r.inst
    BY DEF TypeOK, Stop
  <2> QED
    BY <1>1, <2>1 DEF KillTimer, TypeOK
<1>2. CASE CleanupTimer(r)
  <2> DEFINE x == [inst[r.inst] EXCEPT !.child = 0, !.status = "stopped"]
             t == Cleanup(Now, r.inst)
  <2>1. r.inst \in DOMAIN inst /\ Objects(Now) /\ Now.inst = inst
    BY TypeFacts DEF TypeOK
  <2>2. inst' = t.inst
    BY <1>2 DEF CleanupTimer
  <2>3. t = Cleanup(Now, r.inst) /\ x = [Now.inst[r.inst] EXCEPT !.child = 0, !.status = "stopped"]
    BY <2>1
  <2>. HIDE DEF t
  <2>4. [Now.inst[r.inst] EXCEPT !.child = 0, !.status = "stopped"] \in Instance
        /\ Changed(Now, t, r.inst, [Now.inst[r.inst] EXCEPT !.child = 0, !.status = "stopped"])
    BY <2>1, <2>3, CleanupEffect
  <2>5. x \in Instance /\ inst' = [inst EXCEPT ![r.inst] = x]
    BY <2>1, <2>2, <2>3, <2>4 DEF Changed
  <2>. HIDE DEF x
  <2>6. inst' \in Seq(Instance) /\ DOMAIN inst' = DOMAIN inst
    BY <2>1, <2>5, InstUpdate
  <2> QED
    BY <1>2, <2>6 DEF CleanupTimer, TypeOK
<1> QED
  BY <1>1, <1>2

LEMMA FinishShutdownType ==
  ASSUME TypeOK, FinishShutdown
  PROVE  /\ TypeOK' /\ DOMAIN inst' = DOMAIN inst
         /\ \A i \in DOMAIN inst : inst'[i] = [inst[i] EXCEPT !.held = FALSE]
<1>1. /\ Len(inst) \in Nat /\ DOMAIN inst = 1..Len(inst)
      /\ \A i \in DOMAIN inst : inst[i] \in Instance
  BY TypeFacts
<1>2. \A i \in DOMAIN inst : [inst[i] EXCEPT !.held = FALSE] \in Instance
  BY <1>1 DEF Instance
<1>3. /\ inst' \in [1..Len(inst) -> Instance] /\ DOMAIN inst' = DOMAIN inst
      /\ \A i \in DOMAIN inst : inst'[i] = [inst[i] EXCEPT !.held = FALSE]
  BY <1>1, <1>2 DEF FinishShutdown
<1>4. inst' \in Seq(Instance)
  BY <1>1, <1>3, SeqOfFunction
<1> QED
  BY <1>3, <1>4 DEF FinishShutdown, TypeOK

\* Every step keeps the types.
LEMMA TypeStep ==
  ASSUME TypeOK, [Next]_vars
  PROVE  TypeOK'
<1>1. CASE UNCHANGED vars
  BY <1>1 DEF vars, TypeOK
<1>2. CASE Request
  <2>1. CASE \E p \in Process : DeleteProcess(p)
    BY <2>1 DEF DeleteProcess, TypeOK
  <2>2. CASE \E o \in Client, p \in Process :
               \/ StartProcess(o, p)
               \/ \E force \in BOOLEAN : StopProcess(o, p, force)
               \/ RestartProcess(o, p)
               \/ GracefulReload(o, p)
    BY <2>2, StartProcessType, StopRequestType, ReloadType DEF Call
  <2> QED
    BY <1>2, <2>1, <2>2, ReloadAllProcessesType, GracefulShutdownType DEF Request
<1>3. CASE \E o \in Call : Continue(o) \/ Pause(o)
  BY <1>3, FinishStartType, FinishStopType, ReloadType DEF Continue, Pause
<1>4. CASE FinishShutdown
  BY <1>4, FinishShutdownType
<1>5. CASE \E c \in DOMAIN child :
             \/ Online(c) \/ SpawnError(c) \/ StartTimeout(c)
             \/ \E ok, long \in BOOLEAN : Exit(c, ok, long)
  BY <1>5, OnlineType, SpawnErrorType, StartTimeoutType, ExitType
<1>6. CASE Restart
  BY <1>6, RestartType DEF Restart
<1>7. CASE \E r \in stops : KillTimer(r) \/ CleanupTimer(r)
  BY <1>7, TimerType
<1> QED
  BY <1>1, <1>2, <1>3, <1>4, <1>5, <1>6, <1>7 DEF Next

\* They hold initially.
LEMMA InitType ==
  ASSUME Init
  PROVE  TypeOK
<1>1. inst \in Seq(Instance) /\ child \in Seq(Child)
  BY DEF Init
<1>2. NoCall \in CallRecord /\ NoCall.old = {} /\ NoCall.phase = "idle"
  BY DEF NoCall, CallRecord
<1> QED
  BY <1>1, <1>2 DEF Init, TypeOK, ProcessStatus

\* The objects the callbacks share are always well typed and every reference
\* (the owner of a child, the instance of a stop, the instances of a process
\* and of a reload) names an object that exists.
THEOREM TypeInvariance == Spec => []TypeOK
<1>1. Init => TypeOK
  BY InitType
<1>2. TypeOK /\ [Next]_vars => TypeOK'
  BY TypeStep
<1> QED
  BY <1>1, <1>2, PTL DEF Spec

-----------------------------------------------------------------------------
(* Safety, and the refinement.                                             *)


\* The handle of instance i, as in NoStaleHandle.
HandleInv(i) ==
  inst[i].child # 0 =>
    /\ inst[i].child \in DOMAIN child
    /\ child[inst[i].child].owner = i
    /\ child[inst[i].child].state # "exited"

\* What the properties of plain instances say of instance i, with what makes
\* it inductive: its children are no workers (their exit is handled once), and
\* a start timeout never outlives the tick in which the child was spawned.
PlainInv(i) ==
  Plain(i) =>
    /\ inst[i].lost = 0
    /\ inst[i].restarts <= MaxRestarts
    /\ inst[i].held => inst[i].restarts < MaxRestarts
    /\ inst[i].status = "errored" => ~inst[i].held
    /\ inst[i].status = "running" =>
         \E c \in DOMAIN child : child[c].owner = i /\ child[c].state = "online"
                                 /\ inst[i].pid = c
    /\ \A c \in DOMAIN child : child[c].owner = i =>
         /\ ~child[c].worker
         /\ child[c].timer => child[c].state = "spawned"
         /\ Alive(c) => ~inst[i].held /\ inst[i].status # "errored"
    /\ \A c, d \in DOMAIN child :
         child[c].owner = i /\ child[d].owner = i /\ Alive(c) /\ Alive(d) => c = d

\* Only clusters are reloaded.
ReloadsClustered ==
  \A o \in Call : calls[o].phase \in {"spawning", "settling", "retiring", "pausing"}
                    => calls[o].proc \in Clustered

InstInv == \A i \in DOMAIN inst : HandleInv(i) /\ PlainInv(i)

IInv == TypeOK /\ ReloadsClustered /\ InstInv

-----------------------------------------------------------------------------
\* Child c is still there and of the same owner, state, kind and timer.
Kept(c) == /\ c \in DOMAIN child'
           /\ child'[c].owner = child[c].owner /\ child'[c].state = child[c].state
           /\ child'[c].worker = child[c].worker /\ child'[c].timer = child[c].timer

\* The children of instance i are those it had.
KeptChildren(i) == /\ \A c \in DOMAIN child : child[c].owner = i => Kept(c)
                   /\ \A c \in DOMAIN child' : child'[c].owner = i =>
                        c \in DOMAIN child /\ child[c].owner = i

\* An instance that is left alone, with its children, keeps its invariants.
LEMMA Frame ==
  ASSUME NEW i, inst'[i] = inst[i], KeptChildren(i), HandleInv(i), PlainInv(i)
  PROVE  HandleInv(i)' /\ PlainInv(i)'
<1>1. HandleInv(i)'
  BY DEF HandleInv, KeptChildren, Kept
<1>2. ASSUME Plain(i)' PROVE PlainInv(i)'
  <2>1. Plain(i)
    BY <1>2 DEF Plain
  <2>2. \A c \in DOMAIN child' : child'[c].owner = i =>
          /\ c \in DOMAIN child /\ child[c].owner = i
          /\ child'[c].state = child[c].state /\ child'[c].worker = child[c].worker
          /\ child'[c].timer = child[c].timer /\ (Alive(c)' <=> Alive(c))
    BY DEF KeptChildren, Kept, Alive
  <2>3. inst[i].status = "running" =>
          \E c \in DOMAIN child' : child'[c].owner = i /\ child'[c].state = "online"
                                  /\ inst[i].pid = c
    BY <2>1 DEF PlainInv, KeptChildren, Kept
  <2> QED
    BY <2>1, <2>2, <2>3 DEF PlainInv
<1> QED
  BY <1>1, <1>2 DEF PlainInv

\* Nothing but the waiters of the children has changed.
LEMMA FrameAll ==
  ASSUME InstInv, UNCHANGED inst, DOMAIN child' = DOMAIN child,
         \A c \in DOMAIN child : Kept(c)
  PROVE  InstInv'
<1> SUFFICES ASSUME NEW i \in DOMAIN inst PROVE HandleInv(i)' /\ PlainInv(i)'
  BY DEF InstInv
<1>1. KeptChildren(i)
  BY DEF KeptChildren, Kept
<1> QED
  BY <1>1, Frame DEF InstInv

\* New instances start with one child each, the old ones are left alone.
LEMMA LaunchInv ==
  ASSUME TypeOK, InstInv, NEW p \in Process, NEW n \in Nat, NEW worker \in BOOLEAN,
         NEW o \in Call, NEW keep \in SUBSET DOMAIN inst, NEW status \in ProcessStatus,
         Launch(p, n, worker, o, keep, status), p \notin Clustered => ~worker
  PROVE  InstInv'
<1>1. /\ inst' \in Seq(Instance) /\ Len(inst') = Len(inst) + n
      /\ \A i \in DOMAIN inst : inst'[i] = inst[i]
      /\ \A j \in 1..n : inst'[Len(inst) + j] = NewInstance(p, Len(child) + j)
      /\ child' \in Seq(Child) /\ Len(child') = Len(child) + n
      /\ \A c \in DOMAIN child : child'[c] = child[c]
      /\ \A j \in 1..n : child'[Len(child) + j] = NewChild(Len(inst) + j, worker, o)
  BY LaunchEffect, ZenonT(60)
<1>2. /\ Len(inst) \in Nat /\ DOMAIN inst = 1..Len(inst)
      /\ Len(child) \in Nat /\ DOMAIN child = 1..Len(child)
      /\ DOMAIN inst' = 1..Len(inst') /\ DOMAIN child' = 1..Len(child')
  BY <1>1, TypeFacts, LenProperties
<1>3. \A c \in DOMAIN child : child[c].owner \in DOMAIN inst
  BY DEF TypeOK
<1>4. ASSUME NEW c \in DOMAIN child', c \notin DOMAIN child
      PROVE  \E j \in 1..n : c = Len(child) + j
  <2>1. c - Len(child) \in 1..n /\ c = Len(child) + (c - Len(child))
    BY <1>1, <1>2, <1>4
  <2> QED
    BY <2>1
<1>5. \A j \in 1..n : child'[Len(child) + j].owner = Len(inst) + j
  <2> TAKE j \in 1..n
  <2>1. child'[Len(child) + j] = NewChild(Len(inst) + j, worker, o)
    BY <1>1
  <2> QED
    BY <2>1 DEF NewChild
<1>6. ASSUME NEW i \in DOMAIN inst PROVE HandleInv(i)' /\ PlainInv(i)'
  <2>1. \A c \in DOMAIN child' : child'[c].owner = i => c \in DOMAIN child /\ child[c].owner = i
    <3> SUFFICES ASSUME NEW c \in DOMAIN child', child'[c].owner = i, c \notin DOMAIN child
                 PROVE  FALSE
      BY <1>1
    <3>1. PICK j \in 1..n : c = Len(child) + j
      BY <1>4
    <3>2. child'[c].owner = Len(inst) + j
      BY <1>5, <3>1
    <3>3. i = Len(inst) + j /\ i \in 1..Len(inst) /\ j \in Int /\ j >= 1
      BY <1>2, <3>2
    <3> QED
      BY <1>2, <3>3
  <2>2. KeptChildren(i)
    BY <1>1, <1>2, <2>1 DEF KeptChildren, Kept
  <2> QED
    BY <1>1, <2>2, Frame DEF InstInv
<1>7. ASSUME NEW i \in DOMAIN inst', i \notin DOMAIN inst PROVE HandleInv(i)' /\ PlainInv(i)'
  <2>1. PICK j \in 1..n : i = Len(inst) + j
    <3>1. i - Len(inst) \in 1..n /\ i = Len(inst) + (i - Len(inst))
      BY <1>1, <1>2, <1>7
    <3> QED
      BY <3>1
  <2> DEFINE d == Len(child) + j
  <2>2. /\ d \in DOMAIN child' /\ d \notin DOMAIN child /\ d # 0
    BY <1>1, <1>2, <2>1
  <2>3. inst'[i] = NewInstance(p, d) /\ child'[d] = NewChild(i, worker, o)
    BY <1>1, <2>1
  <2>4. ASSUME NEW c \in DOMAIN child', child'[c].owner = i PROVE c = d
    <3>1. c \notin DOMAIN child
      BY <1>1, <1>3, <1>7, <2>4
    <3>2. PICK k \in 1..n : c = Len(child) + k
      BY <1>4, <3>1
    <3>3. child'[c].owner = Len(inst) + k
      BY <1>5, <3>2
    <3>4. Len(inst) + k = Len(inst) + j /\ k \in Int /\ j \in Int
      BY <2>1, <2>4, <3>3
    <3>5. k = j
      BY <1>2, <3>4
    <3> QED
      BY <3>2, <3>5
  <2>. HIDE DEF d
  <2>5. /\ inst'[i].home = p /\ inst'[i].child = d /\ inst'[i].lost = 0 /\ inst'[i].restarts = 0
        /\ inst'[i].held = FALSE /\ inst'[i].status = "starting"
        /\ child'[d].owner = i /\ child'[d].state = "spawned" /\ child'[d].worker = worker
    BY <2>3 DEF NewInstance, NewChild
  <2>6. HandleInv(i)'
    BY <2>2, <2>5 DEF HandleInv
  <2>7. PlainInv(i)'
    BY <2>4, <2>5, ConfigAssumption DEF PlainInv, Plain
  <2> QED
    BY <2>6, <2>7
<1> QED
  BY <1>6, <1>7 DEF InstInv

\* One call changes, or every call of a set of stops.
LEMMA ReloadsStep ==
  ASSUME TypeOK, ReloadsClustered, [Next]_vars
  PROVE  ReloadsClustered'
<1> DEFINE Reloading == {"spawning", "settling", "retiring", "pausing"}
<1>1. ASSUME NEW o \in Call, NEW x, calls' = [calls EXCEPT ![o] = x],
             x.phase \in Reloading => x.proc \in Clustered
      PROVE  ReloadsClustered'
  BY <1>1 DEF ReloadsClustered, TypeOK
<1>2. ASSUME NEW kind, NEW p, NEW ph
      PROVE  NewCall(kind, p, ph).phase = ph /\ NewCall(kind, p, ph).proc = p
  BY DEF NewCall, NoCall
<1>3. NoCall.phase = "idle"
  BY DEF NoCall
<1>4. ASSUME UNCHANGED calls PROVE ReloadsClustered'
  BY <1>4 DEF ReloadsClustered
<1>5. ASSUME NEW slot, NEW kind, NEW force, BeginStop(slot, kind, force)
      PROVE  ReloadsClustered'
  <2> SUFFICES ASSUME NEW o \in Call, calls'[o].phase \in Reloading
               PROVE  calls'[o].proc \in Clustered
    BY DEF ReloadsClustered
  <2>1. \/ calls'[o] = calls[o]
        \/ calls'[o] = NewCall(kind, CHOOSE p \in DOMAIN slot : slot[p] = o, "stopping")
    BY <1>5 DEF BeginStop
  <2> QED
    BY <1>2, <2>1 DEF ReloadsClustered
<1>6. ASSUME NEW o \in Call, NEW p, NEW todo, NEW old, NEW status, p \in Clustered,
             ReloadStep(o, p, todo, old, status)
      PROVE  ReloadsClustered'
  <2> DEFINE next(ph) == [NewCall("reload", p, ph) EXCEPT !.todo = todo, !.old = old]
  <2>1. ASSUME NEW ph PROVE next(ph).proc = p
    BY DEF NewCall, NoCall
  <2>2. \/ calls' = [calls EXCEPT ![o] = next("spawning")]
        \/ calls' = [calls EXCEPT ![o] = next("retiring")]
        \/ calls' = [calls EXCEPT ![o] = NoCall]
    BY <1>6, Zenon DEF ReloadStep
  <2>. HIDE DEF next
  <2> QED
    BY <1>1, <1>3, <1>6, <2>1, <2>2
<1>7. CASE Request
  <2>1. CASE \E o \in Client, p \in Process : StartProcess(o, p)
    <3>1. PICK o \in Call, p \in Process : calls' = [calls EXCEPT ![o] = NewCall("start", p, "starting")]
      BY <2>1 DEF StartProcess, Call
    <3> DEFINE x == NewCall("start", p, "starting")
    <3>2. x.phase = "starting"
      BY <1>2
    <3>3. calls' = [calls EXCEPT ![o] = x]
      BY <3>1
    <3>. HIDE DEF x
    <3> QED
      BY <1>1, <3>2, <3>3
  <2>2. CASE \E o \in Client, p \in Process : GracefulReload(o, p)
    BY <1>6, <2>2 DEF GracefulReload, Call
  <2>3. CASE \E p \in Process : DeleteProcess(p)
    BY <1>4, <2>3 DEF DeleteProcess
  <2> QED
    BY <1>5, <1>7, <2>1, <2>2, <2>3
       DEF Request, StopProcess, RestartProcess, ReloadAllProcesses, GracefulShutdown
<1>8. CASE \E o \in Call : Continue(o) \/ Pause(o)
  <2> SUFFICES ASSUME NEW o \in Call, Continue(o) \/ Pause(o) PROVE ReloadsClustered'
    BY <1>8
  <2>1. calls[o].phase \in Reloading => calls[o].proc \in Clustered
    BY DEF ReloadsClustered
  <2>2. ASSUME NEW ph
        PROVE  [calls[o] EXCEPT !.phase = ph].proc = calls[o].proc
               /\ [calls[o] EXCEPT !.phase = ph].phase = ph
    BY DEF TypeOK, CallRecord
  <2>3. CASE FinishStart(o)
    BY <1>1, <1>3, <2>3 DEF FinishStart
  <2>4. CASE FinishStop(o)
    <3>1. \/ calls' = [calls EXCEPT ![o] = [calls[o] EXCEPT !.phase = "starting"]]
          \/ calls' = [calls EXCEPT ![o] = NoCall]
      BY <2>4 DEF FinishStop
    <3> QED
      BY <1>1, <1>3, <2>2, <3>1
  <2>5. CASE ReloadSpawned(o)
    <3>1. \/ \E n, s : ReloadStep(o, calls[o].proc, n, calls[o].old, s)
          \/ calls' = [calls EXCEPT ![o] = [calls[o] EXCEPT !.phase = "settling"]]
      BY <2>5 DEF ReloadSpawned
    <3>2. calls[o].proc \in Clustered
      BY <2>1, <2>5 DEF ReloadSpawned
    <3> QED
      BY <1>1, <1>6, <2>2, <3>1, <3>2
  <2>6. CASE ReloadRetired(o)
    <3>1. calls' = [calls EXCEPT ![o] = [calls[o] EXCEPT !.phase = "pausing"]]
          /\ calls[o].proc \in Clustered
      BY <2>1, <2>6 DEF ReloadRetired
    <3> QED
      BY <1>1, <2>2, <3>1
  <2>7. CASE ReloadSettled(o) \/ ReloadPaused(o)
    BY <1>6, <2>1, <2>7 DEF ReloadSettled, ReloadPaused
  <2> QED
    BY <2>3, <2>4, <2>5, <2>6, <2>7 DEF Continue, Pause
<1>9. ASSUME NEW c, Reject(c) PROVE ReloadsClustered'
  <2>1. CASE child[c].waiter \in Call
    <3>1. calls' = [calls EXCEPT ![child[c].waiter] = [calls[child[c].waiter] EXCEPT !.failed = TRUE]]
      BY <1>9, <2>1 DEF Reject
    <3>2. /\ [calls[child[c].waiter] EXCEPT !.failed = TRUE].phase = calls[child[c].waiter].phase
          /\ [calls[child[c].waiter] EXCEPT !.failed = TRUE].proc = calls[child[c].waiter].proc
      BY <2>1 DEF TypeOK, CallRecord
    <3>3. calls[child[c].waiter].phase \in Reloading => calls[child[c].waiter].proc \in Clustered
      BY <2>1 DEF ReloadsClustered
    <3> QED
      BY <1>1, <2>1, <3>1, <3>2, <3>3
  <2>2. CASE child[c].waiter \notin Call
    BY <1>4, <1>9, <2>2 DEF Reject
  <2> QED
    BY <2>1, <2>2
<1>10. CASE \E c \in DOMAIN child :
             \/ Online(c) \/ SpawnError(c) \/ StartTimeout(c)
             \/ \E ok, long \in BOOLEAN : Exit(c, ok, long)
  BY <1>4, <1>9, <1>10 DEF Online, SpawnError, StartTimeout, Exit
<1>11. CASE UNCHANGED vars \/ FinishShutdown \/ Restart \/ \E r \in stops : KillTimer(r) \/ CleanupTimer(r)
  BY <1>4, <1>11 DEF vars, FinishShutdown, Restart, RestartInstance, KillTimer, CleanupTimer
<1> QED
  BY <1>7, <1>8, <1>10, <1>11 DEF Next

-----------------------------------------------------------------------------
(* The events of the children and the timers, one by one.                  *)

\* An event of child c concerns its owner only.
LEMMA EventInv ==
  ASSUME TypeOK, InstInv, NEW c \in DOMAIN child, NEW y \in Child,
         NEW i, i = child[c].owner, y.owner = i, child' = [child EXCEPT ![c] = y],
         DOMAIN inst' = DOMAIN inst,
         \A j \in DOMAIN inst : j # i => inst'[j] = inst[j],
         HandleInv(i)', PlainInv(i)'
  PROVE  InstInv'
<1>1. /\ DOMAIN child' = DOMAIN child
      /\ \A d \in DOMAIN child : child'[d] = IF d = c THEN y ELSE child[d]
  BY ChildUpdate
<1>2. ASSUME NEW j \in DOMAIN inst, j # i PROVE HandleInv(j)' /\ PlainInv(j)'
  <2>1. KeptChildren(j)
    BY <1>1, <1>2 DEF KeptChildren, Kept
  <2> QED
    BY <1>2, <2>1, Frame DEF InstInv
<1> QED
  BY <1>2 DEF InstInv

\* The child that comes online is the living one of its instance.
LEMMA OnlineInv ==
  ASSUME TypeOK, InstInv, NEW c \in DOMAIN child, Online(c)
  PROVE  InstInv'
<1> SUFFICES ASSUME NEW i, i = child[c].owner PROVE InstInv'
  OBVIOUS
<1> DEFINE x == [inst[i] EXCEPT !.status = "running", !.pid = c]
           y == [child[c] EXCEPT !.state = "online", !.waiter = "nobody", !.timer = FALSE]
<1>1. /\ i \in DOMAIN inst /\ inst[i] \in Instance /\ child[c] \in Child /\ c \in Nat
  BY TypeFacts DEF TypeOK
<1>2. /\ x \in Instance /\ x.status = "running" /\ x.pid = c /\ x.home = inst[i].home
      /\ x.child = inst[i].child /\ x.lost = inst[i].lost /\ x.held = inst[i].held
      /\ x.restarts = inst[i].restarts
  BY <1>1 DEF Instance, InstanceStatus
<1>3. /\ y \in Child /\ y.owner = i /\ y.state = "online" /\ y.worker = child[c].worker
      /\ y.timer = FALSE
  BY <1>1 DEF Child
<1>4. child' = [child EXCEPT ![c] = y] /\ inst' = [inst EXCEPT ![i] = x] /\ child[c].state = "spawned"
  BY <1>1 DEF Online
<1>. HIDE DEF x, y
<1>5. /\ DOMAIN inst' = DOMAIN inst /\ inst'[i] = x
      /\ \A j \in DOMAIN inst : j # i => inst'[j] = inst[j]
  BY <1>1, <1>2, <1>4, InstUpdate
<1>6. /\ DOMAIN child' = DOMAIN child
      /\ \A d \in DOMAIN child : child'[d] = IF d = c THEN y ELSE child[d]
  BY <1>3, <1>4, ChildUpdate
<1>7. HandleInv(i) /\ PlainInv(i) /\ Alive(c)
  BY <1>1, <1>4 DEF InstInv, Alive
<1>8. HandleInv(i)'
  BY <1>2, <1>3, <1>5, <1>6, <1>7 DEF HandleInv
<1>9. ASSUME Plain(i) PROVE PlainInv(i)'
  <2>1. \A d \in DOMAIN child' : child'[d].owner = i =>
          /\ child[d].owner = i /\ (Alive(d)' <=> Alive(d))
          /\ ~child'[d].worker /\ (child'[d].timer => child'[d].state = "spawned")
    BY <1>3, <1>4, <1>6, <1>7, <1>9 DEF PlainInv, Alive
  <2>2. \E d \in DOMAIN child' : child'[d].owner = i /\ child'[d].state = "online" /\ inst'[i].pid = d
    BY <1>2, <1>3, <1>5, <1>6
  <2>3. ~inst'[i].held /\ inst'[i].lost = 0 /\ inst'[i].restarts <= MaxRestarts
        /\ inst'[i].status = "running"
    BY <1>2, <1>5, <1>7, <1>9 DEF PlainInv
  <2> QED
    BY <1>6, <1>7, <1>9, <2>1, <2>2, <2>3 DEF PlainInv
<1>10. PlainInv(i)'
  BY <1>2, <1>5, <1>9 DEF PlainInv, Plain
<1> QED
  BY <1>3, <1>4, <1>5, <1>8, <1>10, EventInv

\* A child that could not be spawned leaves its instance without one.
LEMMA SpawnErrorInv ==
  ASSUME TypeOK, InstInv, NEW c \in DOMAIN child, SpawnError(c)
  PROVE  InstInv'
<1> SUFFICES ASSUME NEW i, i = child[c].owner PROVE InstInv'
  OBVIOUS
<1> DEFINE x == IF child[c].waiter = "restart" THEN [inst[i] EXCEPT !.status = "errored"]
                ELSE inst[i]
           y == [child[c] EXCEPT !.state = "failed", !.waiter = "nobody", !.timer = FALSE]
<1>1. /\ i \in DOMAIN inst /\ inst[i] \in Instance /\ child[c] \in Child
  BY TypeFacts DEF TypeOK
<1>2. /\ x \in Instance /\ x.status \in {inst[i].status, "errored"} /\ x.home = inst[i].home
      /\ x.child = inst[i].child /\ x.lost = inst[i].lost /\ x.held = inst[i].held
      /\ x.restarts = inst[i].restarts /\ x.pid = inst[i].pid
  BY <1>1 DEF Instance, InstanceStatus
<1>3. /\ y \in Child /\ y.owner = i /\ y.state = "failed" /\ y.worker = child[c].worker
      /\ y.timer = FALSE
  BY <1>1 DEF Child
<1>4. child' = [child EXCEPT ![c] = y] /\ Reject(c) /\ child[c].state = "spawned"
  BY <1>1 DEF SpawnError
<1>5. inst' = [inst EXCEPT ![i] = x]
  BY <1>4, RejectEffect
<1>. HIDE DEF x, y
<1>6. /\ DOMAIN inst' = DOMAIN inst /\ inst'[i] = x
      /\ \A j \in DOMAIN inst : j # i => inst'[j] = inst[j]
  BY <1>1, <1>2, <1>5, InstUpdate
<1>7. /\ DOMAIN child' = DOMAIN child
      /\ \A d \in DOMAIN child : child'[d] = IF d = c THEN y ELSE child[d]
  BY <1>3, <1>4, ChildUpdate
<1>8. HandleInv(i) /\ PlainInv(i) /\ Alive(c)
  BY <1>1, <1>4 DEF InstInv, Alive
<1>9. HandleInv(i)'
  BY <1>2, <1>3, <1>6, <1>7, <1>8 DEF HandleInv
<1>10. ASSUME Plain(i) PROVE PlainInv(i)'
  <2>1. \A d \in DOMAIN child : child[d].owner = i /\ Alive(d) => d = c
    BY <1>8, <1>10 DEF PlainInv
  <2>2. \A d \in DOMAIN child' : child'[d].owner = i =>
          /\ ~Alive(d)' /\ ~child'[d].worker
          /\ (child'[d].timer => child'[d].state = "spawned")
    BY <1>3, <1>7, <1>8, <1>10, <2>1 DEF PlainInv, Alive
  <2>3. inst'[i].status = "running" =>
          \E d \in DOMAIN child' : child'[d].owner = i /\ child'[d].state = "online"
                                  /\ inst'[i].pid = d
    <3> SUFFICES ASSUME inst'[i].status = "running"
                 PROVE  \E d \in DOMAIN child' : child'[d].owner = i /\ child'[d].state = "online"
                                                 /\ inst'[i].pid = d
      OBVIOUS
    <3>1. inst[i].status = "running" /\ inst'[i].pid = inst[i].pid
      BY <1>2, <1>6
    <3>2. PICK d \in DOMAIN child : child[d].owner = i /\ child[d].state = "online" /\ inst[i].pid = d
      BY <1>8, <1>10, <3>1 DEF PlainInv
    <3> QED
      BY <1>4, <1>7, <3>1, <3>2
  <2>4. ~inst'[i].held /\ inst'[i].lost = 0 /\ inst'[i].restarts <= MaxRestarts
    BY <1>2, <1>6, <1>8, <1>10 DEF PlainInv
  <2> QED
    BY <2>2, <2>3, <2>4 DEF PlainInv
<1>11. PlainInv(i)'
  BY <1>2, <1>6, <1>10 DEF PlainInv, Plain
<1> QED
  BY <1>3, <1>4, <1>6, <1>9, <1>11, EventInv

\* The timeout of a plain child never comes to rejecting its start.
LEMMA StartTimeoutInv ==
  ASSUME TypeOK, InstInv, NEW c \in DOMAIN child, StartTimeout(c)
  PROVE  InstInv'
<1> SUFFICES ASSUME NEW i, i = child[c].owner PROVE InstInv'
  OBVIOUS
<1>1. /\ i \in DOMAIN inst /\ inst[i] \in Instance /\ child[c] \in Child
  BY TypeFacts DEF TypeOK
<1>2. HandleInv(i) /\ PlainInv(i)
  BY <1>1 DEF InstInv
<1>3. ~Plain(i)
  <2> SUFFICES ASSUME Plain(i) PROVE FALSE
    OBVIOUS
  <2>1. child[c].state = "spawned" /\ ~child[c].worker
    BY <1>2 DEF PlainInv, StartTimeout
  <2> QED
    BY <2>1 DEF StartTimeout, Quiet, NextTick
<1>4. PICK x \in Instance :
        inst' = [inst EXCEPT ![i] = x] /\ x.child = inst[i].child /\ x.home = inst[i].home
  <2>1. CASE Reject(c)
    <3> DEFINE x == IF child[c].waiter = "restart" THEN [inst[i] EXCEPT !.status = "errored"]
                    ELSE inst[i]
    <3>1. x.child = inst[i].child /\ x.home = inst[i].home
      BY <1>1 DEF Instance
    <3>2. x \in Instance /\ inst' = [inst EXCEPT ![i] = x]
      BY <2>1, RejectEffect
    <3> QED
      BY <3>1, <3>2
  <2>2. CASE UNCHANGED inst
    BY <1>1, <2>2 DEF TypeOK
  <2> QED
    BY <2>1, <2>2 DEF StartTimeout
<1>5. PICK y \in Child :
        child' = [child EXCEPT ![c] = y] /\ y.owner = i /\ y.state = child[c].state
  <2> DEFINE y == [child[c] EXCEPT !.waiter = "nobody", !.timer = FALSE]
             z == [child[c] EXCEPT !.timer = FALSE]
  <2>1. /\ y \in Child /\ y.owner = i /\ y.state = child[c].state
        /\ z \in Child /\ z.owner = i /\ z.state = child[c].state
    BY <1>1 DEF Child
  <2>2. child' = [child EXCEPT ![c] = y] \/ child' = [child EXCEPT ![c] = z]
    BY DEF StartTimeout
  <2>. HIDE DEF y, z
  <2> QED
    BY <2>1, <2>2
<1>6. /\ DOMAIN inst' = DOMAIN inst /\ inst'[i] = x
      /\ \A j \in DOMAIN inst : j # i => inst'[j] = inst[j]
  BY <1>1, <1>4, InstUpdate
<1>7. /\ DOMAIN child' = DOMAIN child
      /\ \A d \in DOMAIN child : child'[d] = IF d = c THEN y ELSE child[d]
  BY <1>5, ChildUpdate
<1>8. HandleInv(i)'
  <2>1. inst'[i].child = inst[i].child
    BY <1>4, <1>6
  <2>2. \A d \in DOMAIN child : child'[d].owner = child[d].owner /\ child'[d].state = child[d].state
    BY <1>5, <1>7
  <2> QED
    BY <1>2, <1>7, <2>1, <2>2 DEF HandleInv
<1>9. PlainInv(i)'
  BY <1>3, <1>4, <1>6 DEF PlainInv, Plain
<1> QED
  BY <1>5, <1>6, <1>8, <1>9, EventInv

\* What handleInstanceExit makes of an instance with no restart pending.
LEMMA HandledFields ==
  ASSUME NEW s, NEW i, s.inst[i] \in Instance, NEW ok \in BOOLEAN, NEW long \in BOOLEAN,
         ~s.inst[i].held, s.inst[i].lost = 0, s.inst[i].restarts <= MaxRestarts
  PROVE  LET x == Handled(s, i, ok, long)
         IN /\ x.lost = 0 /\ x.restarts <= MaxRestarts
            /\ x.held => x.restarts < MaxRestarts
            /\ x.status = "errored" => ~x.held
            /\ x.status # "running"
<1> DEFINE e == Exited(s.inst[i], ok, long)
<1>1. /\ e \in Instance /\ e.held = FALSE /\ e.lost = 0 /\ e.restarts <= MaxRestarts
      /\ e.status \in {"stopped", "crashed"}
  <2>1. e \in Instance
    BY ExitedType
  <2>2. /\ e.held = s.inst[i].held /\ e.lost = s.inst[i].lost
        /\ e.restarts = IF long THEN 0 ELSE s.inst[i].restarts
        /\ e.status \in {"stopped", "crashed"}
    BY DEF Exited, Instance
  <2>3. s.inst[i].held \in BOOLEAN
    BY DEF Instance
  <2>. HIDE DEF e
  <2> QED
    BY <2>1, <2>2, <2>3, ConfigAssumption
<1>. HIDE DEF e
<1>2. /\ ScheduleRestart(e).lost = 0 /\ ScheduleRestart(e).restarts = e.restarts
      /\ ScheduleRestart(e).status = e.status
  BY <1>1 DEF ScheduleRestart, Instance
<1>3. /\ GiveUp(e).lost = 0 /\ GiveUp(e).restarts = e.restarts /\ GiveUp(e).held = FALSE
      /\ GiveUp(e).status = "errored"
  BY <1>1 DEF GiveUp, Instance
<1>4. CASE ~Supervised(s, i)
  BY <1>1, <1>4 DEF Handled, e
<1>5. CASE Supervised(s, i) /\ MayRestart(e.restarts)
  <2>1. Handled(s, i, ok, long) = ScheduleRestart(e)
    BY <1>5 DEF Handled, e
  <2> QED
    BY <1>1, <1>2, <1>5, <2>1 DEF MayRestart
<1>6. CASE Supervised(s, i) /\ ~MayRestart(e.restarts)
  <2>1. Handled(s, i, ok, long) = GiveUp(e)
    BY <1>6 DEF Handled, e
  <2> QED
    BY <1>1, <1>3, <2>1
<1> QED
  BY <1>4, <1>5, <1>6

\* A plain instance's exit is handled once: it had no restart pending, so at most
\* one is now, and no child of it lives.
LEMMA ExitInv ==
  ASSUME TypeOK, InstInv, NEW c \in DOMAIN child, NEW ok \in BOOLEAN, NEW long \in BOOLEAN,
         Exit(c, ok, long)
  PROVE  InstInv'
<1> SUFFICES ASSUME NEW i, i = child[c].owner PROVE InstInv'
  OBVIOUS
<1> DEFINE y == [child[c] EXCEPT !.state = "exited"]
<1>1. /\ i \in DOMAIN inst /\ inst[i] \in Instance /\ child[c] \in Child
      /\ Now.inst = inst
  BY TypeFacts DEF TypeOK
<1>2. /\ y \in Child /\ y.owner = i /\ y.state = "exited" /\ y.worker = child[c].worker
      /\ y.timer = child[c].timer
  BY <1>1 DEF Child
<1>3. child' = [child EXCEPT ![c] = y] /\ Alive(c)
      /\ (child[c].state = "online" \/ child[c].worker)
  BY DEF Exit, Alive
<1>. HIDE DEF y
<1>4. /\ DOMAIN inst' = DOMAIN inst /\ inst'[i].child = 0 /\ inst'[i].home = inst[i].home
      /\ \A j \in DOMAIN inst : j # i => inst'[j] = inst[j]
      /\ ~child[c].worker => inst' = [inst EXCEPT ![i] = AfterExit(c, ok, long)]
      /\ AfterExit(c, ok, long) \in Instance
  BY ExitEffect
<1>5. /\ DOMAIN child' = DOMAIN child
      /\ \A d \in DOMAIN child : child'[d] = IF d = c THEN y ELSE child[d]
  BY <1>2, <1>3, ChildUpdate
<1>6. PlainInv(i)
  BY <1>1 DEF InstInv
<1>7. HandleInv(i)'
  BY <1>4 DEF HandleInv
<1>8. ASSUME Plain(i) PROVE PlainInv(i)'
  <2> DEFINE h == Handled(Now, i, ok, long)
             x == AfterExit(c, ok, long)
  <2>1. /\ ~inst[i].held /\ inst[i].lost = 0 /\ inst[i].restarts <= MaxRestarts
        /\ ~child[c].worker /\ (child[c].timer => child[c].state = "spawned")
        /\ \A d \in DOMAIN child : child[d].owner = i /\ Alive(d) => d = c
    BY <1>3, <1>6, <1>8 DEF PlainInv
  <2>2. /\ h.lost = 0 /\ h.restarts <= MaxRestarts
        /\ h.held => h.restarts < MaxRestarts
        /\ h.status = "errored" => ~h.held
        /\ h.status # "running"
    BY <1>1, <2>1, HandledFields
  <2>3. h \in Instance
    BY <1>1, TypeFacts, HandleInstanceExitEffect
  <2>4. x = IF ResolvedBy(c) = {} THEN h ELSE [h EXCEPT !.child = 0, !.status = "stopped"]
    BY DEF AfterExit
  <2>. HIDE DEF h, x
  <2>5. /\ x.lost = 0 /\ x.restarts <= MaxRestarts
        /\ x.held => x.restarts < MaxRestarts
        /\ x.status = "errored" => ~x.held
        /\ x.status # "running"
    BY <2>2, <2>3, <2>4 DEF Instance
  <2>6. inst'[i] = x
    BY <1>1, <1>4, <2>1, InstUpdate DEF x
  <2>7. \A d \in DOMAIN child' : child'[d].owner = i =>
          /\ ~Alive(d)' /\ ~child'[d].worker
          /\ (child'[d].timer => child'[d].state = "spawned")
    <3> SUFFICES ASSUME NEW d \in DOMAIN child, child'[d].owner = i
                 PROVE  /\ ~Alive(d)' /\ ~child'[d].worker
                        /\ (child'[d].timer => child'[d].state = "spawned")
      BY <1>5
    <3>1. CASE d = c
      BY <1>2, <1>3, <1>5, <2>1, <3>1 DEF Alive
    <3>2. CASE d # c
      <4>1. child'[d] = child[d]
        BY <1>5, <3>2
      <4> QED
        BY <1>6, <1>8, <2>1, <3>2, <4>1 DEF PlainInv, Alive
    <3> QED
      BY <3>1, <3>2
  <2> QED
    BY <2>5, <2>6, <2>7 DEF PlainInv
<1>9. PlainInv(i)'
  BY <1>4, <1>8 DEF PlainInv, Plain
<1> QED
  BY <1>2, <1>3, <1>4, <1>7, <1>9, EventInv

\* What restartInstance writes.
LEMMA RestartedFields ==
  ASSUME NEW x \in Instance, NEW kept \in BOOLEAN, NEW c \in Nat
  PROVE  LET z == Restarted(x, kept, c)
         IN /\ z.home = x.home /\ z.child = c /\ z.held = FALSE /\ z.status = "starting"
            /\ z.restarts = x.restarts + 1 /\ (kept => z.lost = x.lost)
BY DEF Restarted, Instance

\* A pending restart means that no child lives: the new one is the only one.
LEMMA RestartInv ==
  ASSUME TypeOK, InstInv, NEW i \in DOMAIN inst, NEW kept \in BOOLEAN, RestartInstance(i, kept)
  PROVE  InstInv'
<1> DEFINE k == Len(child) + 1
           x == Restarted(inst[i], kept, k)
           y == NewChild(i, inst[i].home \in Clustered, "restart")
<1>1. /\ inst[i] \in Instance /\ k \in Nat /\ k # 0 /\ k \notin DOMAIN child
      /\ \A c \in DOMAIN child : child[c].owner \in DOMAIN inst
      /\ IF kept THEN inst[i].held ELSE inst[i].lost > 0
  BY TypeFacts DEF TypeOK, RestartInstance
<1>2. /\ x.home = inst[i].home /\ x.child = k /\ x.held = FALSE /\ x.status = "starting"
      /\ x.restarts = inst[i].restarts + 1 /\ (kept => x.lost = inst[i].lost)
  BY <1>1, RestartedFields
<1>3. /\ y.owner = i /\ y.state = "spawned" /\ y.worker = (inst[i].home \in Clustered)
  BY DEF NewChild
<1>4. /\ DOMAIN inst' = DOMAIN inst
      /\ \A j \in DOMAIN inst : inst'[j] = IF j = i THEN x ELSE inst[j]
      /\ DOMAIN child' = DOMAIN child \cup {k}
      /\ \A c \in DOMAIN child : child'[c] = child[c]
      /\ child'[k] = y
  BY RestartEffect
<1>. HIDE DEF x, y, k
<1>5. ASSUME NEW j \in DOMAIN inst, j # i PROVE HandleInv(j)' /\ PlainInv(j)'
  <2>1. KeptChildren(j)
    BY <1>3, <1>4, <1>5 DEF KeptChildren, Kept
  <2> QED
    BY <1>4, <1>5, <2>1, Frame DEF InstInv
<1>6. HandleInv(i)'
  BY <1>1, <1>2, <1>3, <1>4 DEF HandleInv
<1>7. ASSUME Plain(i) PROVE PlainInv(i)'
  <2>1. PlainInv(i)
    BY DEF InstInv
  <2>2. kept /\ inst[i].held /\ inst[i].lost = 0 /\ inst[i].restarts < MaxRestarts
    BY <1>1, <1>7, <2>1 DEF PlainInv
  <2>3. /\ inst'[i].lost = 0 /\ ~inst'[i].held /\ inst'[i].status = "starting"
        /\ inst'[i].restarts = inst[i].restarts + 1
    BY <1>2, <1>4, <2>2
  <2>4. inst[i].restarts + 1 <= MaxRestarts
    BY <1>1, <2>2, ConfigAssumption DEF Instance
  <2>5. \A c \in DOMAIN child' : child'[c].owner = i =>
          /\ ~child'[c].worker
          /\ child'[c].timer => child'[c].state = "spawned"
          /\ Alive(c)' => c = k
    <3> SUFFICES ASSUME NEW c \in DOMAIN child', child'[c].owner = i
                 PROVE  /\ ~child'[c].worker
                        /\ child'[c].timer => child'[c].state = "spawned"
                        /\ Alive(c)' => c = k
      OBVIOUS
    <3>1. CASE c = k
      BY <1>3, <1>4, <1>7, <3>1 DEF Plain
    <3>2. CASE c \in DOMAIN child
      <4>1. child'[c] = child[c]
        BY <1>4, <3>2
      <4>2. ~Alive(c)
        BY <1>7, <2>1, <2>2, <3>2, <4>1 DEF PlainInv
      <4> QED
        BY <1>7, <2>1, <3>2, <4>1, <4>2 DEF PlainInv, Alive
    <3> QED
      BY <1>4, <3>1, <3>2
  <2> QED
    BY <2>3, <2>4, <2>5 DEF PlainInv
<1>8. PlainInv(i)'
  BY <1>2, <1>4, <1>7 DEF PlainInv, Plain
<1> QED
  BY <1>4, <1>5, <1>6, <1>8 DEF InstInv

\* cleanup without an exit drops the handle only; the late exit is still to come.
LEMMA CleanupTimerInv ==
  ASSUME TypeOK, InstInv, NEW r \in stops, CleanupTimer(r)
  PROVE  InstInv'
<1> SUFFICES ASSUME NEW i, i = r.inst PROVE InstInv'
  OBVIOUS
<1> DEFINE x == [inst[i] EXCEPT !.child = 0, !.status = "stopped"]
           t == Cleanup(Now, i)
<1>1. i \in DOMAIN inst /\ Objects(Now) /\ Now.inst = inst /\ inst[i] \in Instance
  BY TypeFacts DEF TypeOK
<1>2. x.child = 0 /\ x.status = "stopped" /\ x.home = inst[i].home /\ x.held = inst[i].held
      /\ x.lost = inst[i].lost /\ x.restarts = inst[i].restarts
  BY <1>1 DEF Instance
<1>3. /\ [Now.inst[i] EXCEPT !.child = 0, !.status = "stopped"] \in Instance
      /\ Changed(Now, t, i, [Now.inst[i] EXCEPT !.child = 0, !.status = "stopped"])
  <2>1. t = Cleanup(Now, i)
    OBVIOUS
  <2>. HIDE DEF t
  <2> QED
    BY <1>1, <2>1, CleanupEffect
<1>4. inst' = t.inst /\ UNCHANGED child
  BY DEF CleanupTimer
<1>5. x \in Instance /\ inst' = [inst EXCEPT ![i] = x]
  BY <1>1, <1>3, <1>4 DEF Changed
<1>. HIDE DEF x, t
<1>6. /\ DOMAIN inst' = DOMAIN inst /\ inst'[i] = x
      /\ \A j \in DOMAIN inst : j # i => inst'[j] = inst[j]
  BY <1>1, <1>5, InstUpdate
<1>7. ASSUME NEW j \in DOMAIN inst, j # i PROVE HandleInv(j)' /\ PlainInv(j)'
  <2>1. KeptChildren(j)
    BY <1>4 DEF KeptChildren, Kept
  <2> QED
    BY <1>6, <1>7, <2>1, Frame DEF InstInv
<1>8. HandleInv(i)'
  BY <1>2, <1>6 DEF HandleInv
<1>9. PlainInv(i)'
  <2>1. PlainInv(i)
    BY <1>1 DEF InstInv
  <2> QED
    BY <1>2, <1>4, <1>6, <2>1 DEF PlainInv, Plain, Alive
<1> QED
  BY <1>6, <1>7, <1>8, <1>9 DEF InstInv

\* The end of the shutdown disarms the timers restartTimers holds.
LEMMA FinishShutdownInv ==
  ASSUME TypeOK, InstInv, FinishShutdown
  PROVE  InstInv'
<1>1. /\ DOMAIN inst' = DOMAIN inst /\ UNCHANGED child
      /\ \A i \in DOMAIN inst : inst'[i] = [inst[i] EXCEPT !.held = FALSE]
  BY FinishShutdownType DEF FinishShutdown
<1> SUFFICES ASSUME NEW i \in DOMAIN inst PROVE HandleInv(i)' /\ PlainInv(i)'
  BY <1>1 DEF InstInv
<1>2. inst[i] \in Instance
  BY TypeFacts
<1>3. /\ inst'[i].child = inst[i].child /\ inst'[i].home = inst[i].home /\ ~inst'[i].held
      /\ inst'[i].lost = inst[i].lost /\ inst'[i].restarts = inst[i].restarts
      /\ inst'[i].status = inst[i].status /\ inst'[i].pid = inst[i].pid
  BY <1>1, <1>2 DEF Instance
<1>4. HandleInv(i) /\ PlainInv(i)
  BY DEF InstInv
<1>5. HandleInv(i)'
  BY <1>1, <1>3, <1>4 DEF HandleInv
<1>6. PlainInv(i)'
  BY <1>1, <1>3, <1>4 DEF PlainInv, Plain, Alive
<1> QED
  BY <1>5, <1>6

\* Starting all instances of a process, or one for a reload.
LEMMA LaunchAllInv ==
  ASSUME TypeOK, InstInv, NEW p \in Process, NEW o \in Call, LaunchAll(p, o)
  PROVE  InstInv'
<1>1. Count[p] \in Nat
  BY ConfigAssumption
<1>2. {} \in SUBSET DOMAIN inst /\ "starting" \in ProcessStatus
  BY DEF ProcessStatus
<1>3. (p \in Clustered /\ Count[p] > 1) \in BOOLEAN
  OBVIOUS
<1>4. Launch(p, Count[p], p \in Clustered /\ Count[p] > 1, o, {}, "starting")
  BY DEF LaunchAll
<1> QED
  BY <1>1, <1>2, <1>3, <1>4, LaunchInv

LEMMA ReloadStepInv ==
  ASSUME TypeOK, InstInv, NEW o \in Call, NEW p \in Process, p \in Clustered,
         NEW todo, NEW old, NEW status \in ProcessStatus,
         ReloadStep(o, p, todo, old, status)
  PROVE  InstInv'
<1>1. info[p].instances \in SUBSET DOMAIN inst
  BY DEF TypeOK
<1>2. CASE Launch(p, 1, TRUE, o, info[p].instances, status)
  BY <1>1, <1>2, LaunchInv
<1>3. CASE UNCHANGED <<inst, child>>
  BY <1>3, FrameAll DEF Kept
<1> QED
  BY <1>2, <1>3 DEF ReloadStep

\* Every step keeps the invariants of the instances.
LEMMA InstStep ==
  ASSUME TypeOK, ReloadsClustered, InstInv, [Next]_vars
  PROVE  InstInv'
<1>1. ASSUME UNCHANGED <<inst, child>> PROVE InstInv'
  BY <1>1, FrameAll DEF Kept
<1>2. \A p \in Process : info[p].status \in ProcessStatus
  BY DEF TypeOK
<1>3. CASE Request
  <2>1. CASE \E o \in Client, p \in Process : StartProcess(o, p)
    BY <2>1, LaunchAllInv DEF StartProcess, Call
  <2>2. CASE \E o \in Client, p \in Process : GracefulReload(o, p)
    <3>1. "reloading" \in ProcessStatus
      BY DEF ProcessStatus
    <3> QED
      BY <2>2, <3>1, ReloadStepInv DEF GracefulReload, Call
  <2> QED
    BY <1>1, <1>3, <2>1, <2>2, ZenonT(60)
       DEF Request, DeleteProcess, StopProcess, RestartProcess, ReloadAllProcesses,
           GracefulShutdown, BeginStop
<1>4. CASE \E o \in Call : Continue(o) \/ Pause(o)
  <2> SUFFICES ASSUME NEW o \in Call, Continue(o) \/ Pause(o) PROVE InstInv'
    BY <1>4
  <2>1. calls[o].phase # "idle" => calls[o].proc \in Process
    BY DEF TypeOK
  <2>2. calls[o].phase \in {"spawning", "settling", "retiring", "pausing"}
          => calls[o].proc \in Clustered
    BY DEF ReloadsClustered
  <2>3. CASE FinishStart(o)
    <3>1. UNCHANGED inst /\ child' = Unawait(o)
      BY <2>3 DEF FinishStart
    <3>2. \A c \in DOMAIN child : child[c] \in Child
      BY TypeFacts
    <3>3. DOMAIN child' = DOMAIN child /\ \A c \in DOMAIN child : Kept(c)
      BY <3>1, <3>2, UnawaitType, ZenonT(60) DEF Kept, Child
    <3> QED
      BY <3>1, <3>3, FrameAll
  <2>4. CASE FinishStop(o)
    BY <1>1, <2>1, <2>4, LaunchAllInv DEF FinishStop
  <2>5. CASE ReloadSpawned(o)
    BY <1>1, <1>2, <2>1, <2>2, <2>5, ReloadStepInv DEF ReloadSpawned
  <2>6. CASE ReloadRetired(o)
    BY <1>1, <2>6 DEF ReloadRetired
  <2>7. CASE ReloadSettled(o) \/ ReloadPaused(o)
    BY <1>2, <2>1, <2>2, <2>7, ReloadStepInv DEF ReloadSettled, ReloadPaused
  <2> QED
    BY <2>3, <2>4, <2>5, <2>6, <2>7 DEF Continue, Pause
<1>5. CASE \E c \in DOMAIN child :
             \/ Online(c) \/ SpawnError(c) \/ StartTimeout(c)
             \/ \E ok, long \in BOOLEAN : Exit(c, ok, long)
  BY <1>5, OnlineInv, SpawnErrorInv, StartTimeoutInv, ExitInv
<1>6. CASE Restart
  BY <1>6, RestartInv DEF Restart
<1>7. CASE \E r \in stops : KillTimer(r) \/ CleanupTimer(r)
  BY <1>1, <1>7, CleanupTimerInv DEF KillTimer
<1>8. CASE FinishShutdown
  BY <1>8, FinishShutdownInv
<1>9. CASE UNCHANGED vars
  BY <1>1, <1>9 DEF vars
<1> QED
  BY <1>3, <1>4, <1>5, <1>6, <1>7, <1>8, <1>9 DEF Next

-----------------------------------------------------------------------------
(* The stops in flight.                                                    *)

\* Stop r waits for a child of its instance that has not exited.
StopInv(r) ==
  /\ r.child \in DOMAIN child
  /\ child[r.child].owner = r.inst
  /\ r.phase = "term" => child[r.child].state # "exited"

\* Nothing exits, and nothing but new is added to the stops.
LEMMA StopsFrame ==
  ASSUME StopAwaitsLiving, NEW new, stops' \subseteq stops \cup new,
         \A r \in new : StopInv(r)',
         \A c \in DOMAIN child :
           /\ c \in DOMAIN child' /\ child'[c].owner = child[c].owner
           /\ child'[c].state = "exited" => child[c].state = "exited"
  PROVE  StopAwaitsLiving'
<1> SUFFICES ASSUME NEW r \in stops' PROVE StopInv(r)'
  BY DEF StopAwaitsLiving, StopInv
<1>1. CASE r \in new
  BY <1>1
<1>2. CASE r \in stops
  <2>1. StopInv(r)
    BY <1>2 DEF StopAwaitsLiving, StopInv
  <2> QED
    BY <2>1 DEF StopInv
<1> QED
  BY <1>1, <1>2

\* A new stop waits for the child childProcesses holds, which has not exited.
LEMMA BeginStopStops ==
  ASSUME TypeOK, InstInv, StopAwaitsLiving, NEW D \in SUBSET Process, NEW slot \in [D -> Call],
         NEW kind, NEW force \in BOOLEAN, BeginStop(slot, kind, force)
  PROVE  StopAwaitsLiving'
<1> DEFINE Targets(p) == {i \in info[p].instances : inst[i].child # 0}
           new(p) == {[call |-> slot[p], inst |-> i, child |-> inst[i].child,
                       phase |-> IF force THEN "kill" ELSE "term"] : i \in Targets(p)}
           N == UNION {new(p) : p \in D}
<1>1. stops' = stops \cup N /\ UNCHANGED child
  BY DEF BeginStop
<1>2. ASSUME NEW r \in N PROVE StopInv(r)'
  <2>1. PICK p \in D : r \in new(p)
    BY <1>2
  <2>2. PICK i \in info[p].instances :
          /\ inst[i].child # 0
          /\ r = [call |-> slot[p], inst |-> i, child |-> inst[i].child,
                  phase |-> IF force THEN "kill" ELSE "term"]
    BY <2>1
  <2>3. i \in DOMAIN inst
    BY <2>1 DEF TypeOK
  <2>4. r.child = inst[i].child /\ r.inst = i
    BY <2>2
  <2> QED
    BY <1>1, <2>2, <2>3, <2>4 DEF StopInv, HandleInv, InstInv
<1>. HIDE DEF N
<1> QED
  BY <1>1, <1>2, StopsFrame

\* New children disturb no stop.
LEMMA LaunchStops ==
  ASSUME TypeOK, StopAwaitsLiving, UNCHANGED stops,
         NEW p \in Process, NEW n \in Nat, NEW worker \in BOOLEAN,
         NEW o \in Call, NEW keep \in SUBSET DOMAIN inst, NEW status \in ProcessStatus,
         Launch(p, n, worker, o, keep, status)
  PROVE  StopAwaitsLiving'
<1>1. /\ child' \in Seq(Child) /\ Len(child') = Len(child) + n
      /\ \A c \in DOMAIN child : child'[c] = child[c]
      /\ Len(child) \in Nat /\ DOMAIN child = 1..Len(child)
  BY LaunchEffect, TypeFacts
<1>2. DOMAIN child' = 1..Len(child')
  BY <1>1, LenProperties
<1>3. \A c \in DOMAIN child : c \in DOMAIN child' /\ child'[c] = child[c]
  BY <1>1, <1>2
<1> QED
  BY <1>3 DEF StopAwaitsLiving

LEMMA LaunchAllStops ==
  ASSUME TypeOK, StopAwaitsLiving, UNCHANGED stops,
         NEW p \in Process, NEW o \in Call, LaunchAll(p, o)
  PROVE  StopAwaitsLiving'
<1>1. Count[p] \in Nat
  BY ConfigAssumption
<1>2. {} \in SUBSET DOMAIN inst /\ "starting" \in ProcessStatus
  BY DEF ProcessStatus
<1>3. (p \in Clustered /\ Count[p] > 1) \in BOOLEAN
  OBVIOUS
<1>4. Launch(p, Count[p], p \in Clustered /\ Count[p] > 1, o, {}, "starting")
  BY DEF LaunchAll
<1> QED
  BY <1>1, <1>2, <1>3, <1>4, LaunchStops

\* A reload stops its old instances the same way.
LEMMA ReloadStepStops ==
  ASSUME TypeOK, InstInv, StopAwaitsLiving, NEW o \in Call, NEW p \in Process,
         NEW todo, NEW old \in SUBSET DOMAIN inst, NEW status \in ProcessStatus,
         ReloadStep(o, p, todo, old, status)
  PROVE  StopAwaitsLiving'
<1> DEFINE i == Oldest(old)
           new == {[call |-> o, inst |-> i, child |-> inst[i].child, phase |-> "term"]}
<1>1. CASE Launch(p, 1, TRUE, o, info[p].instances, status) /\ UNCHANGED stops
  <2>1. info[p].instances \in SUBSET DOMAIN inst
    BY DEF TypeOK
  <2> QED
    BY <1>1, <2>1, LaunchStops
<1>2. CASE /\ old # {} /\ UNCHANGED child
           /\ stops' = IF inst[i].child = 0 THEN stops ELSE stops \cup new
  <2>1. old \in SUBSET Nat
    BY TypeFacts
  <2>2. i \in DOMAIN inst
    BY <1>2, <2>1, OldestIn
  <2>3. CASE inst[i].child = 0
    BY <1>2, <2>3 DEF StopAwaitsLiving
  <2>4. CASE inst[i].child # 0
    <3> DEFINE r == [call |-> o, inst |-> i, child |-> inst[i].child, phase |-> "term"]
    <3>1. r.child = inst[i].child /\ r.inst = i
      OBVIOUS
    <3>2. stops' = stops \cup {r}
      BY <1>2, <2>4
    <3>. HIDE DEF r, i
    <3> QED
      BY <1>2, <2>2, <2>4, <3>1, <3>2 DEF StopAwaitsLiving, HandleInv, InstInv
  <2> QED
    BY <2>3, <2>4
<1>3. CASE UNCHANGED <<child, stops>>
  BY <1>3 DEF StopAwaitsLiving
<1> QED
  BY <1>1, <1>2, <1>3 DEF ReloadStep

\* The exit of a child resolves every stop that waits for it.
LEMMA ExitStops ==
  ASSUME TypeOK, StopAwaitsLiving, NEW c \in DOMAIN child,
         NEW ok \in BOOLEAN, NEW long \in BOOLEAN, Exit(c, ok, long)
  PROVE  StopAwaitsLiving'
<1> DEFINE y == [child[c] EXCEPT !.state = "exited"]
<1>1. y \in Child /\ y.owner = child[c].owner
  BY TypeFacts DEF Child
<1>2. child' = [child EXCEPT ![c] = y] /\ stops' = stops \ ResolvedBy(c)
  BY DEF Exit
<1>. HIDE DEF y
<1>3. /\ DOMAIN child' = DOMAIN child
      /\ \A d \in DOMAIN child : child'[d] = IF d = c THEN y ELSE child[d]
  BY <1>1, <1>2, ChildUpdate
<1> QED
  BY <1>1, <1>2, <1>3 DEF StopAwaitsLiving, ResolvedBy

\* Every step keeps the stops waiting for children that have not exited.
LEMMA StopsStep ==
  ASSUME TypeOK, InstInv, StopAwaitsLiving, [Next]_vars
  PROVE  StopAwaitsLiving'
<1>1. ASSUME UNCHANGED <<child, stops>> PROVE StopAwaitsLiving'
  BY <1>1 DEF StopAwaitsLiving
<1>2. \A p \in Process : info[p].status \in ProcessStatus
  BY DEF TypeOK
<1>3. ASSUME NEW o \in Call
      PROVE  /\ calls[o].phase # "idle" => calls[o].proc \in Process
             /\ calls[o].old \in SUBSET DOMAIN inst
  BY <1>3 DEF TypeOK
<1>4. CASE Request
  <2>1. CASE \E o \in Client, p \in Process : StartProcess(o, p)
    BY <2>1, LaunchAllStops DEF StartProcess, Call
  <2>2. CASE \E o \in Client, p \in Process : GracefulReload(o, p)
    <3>1. "reloading" \in ProcessStatus
      BY DEF ProcessStatus
    <3>2. \A p \in Process : info[p].instances \in SUBSET DOMAIN inst
      BY DEF TypeOK
    <3> QED
      BY <2>2, <3>1, <3>2, ReloadStepStops DEF GracefulReload, Call
  <2>3. CASE \E o \in Client, p \in Process :
               (\E force \in BOOLEAN : StopProcess(o, p, force)) \/ RestartProcess(o, p)
    <3>1. PICK o \in Client, p \in Process :
            (\E force \in BOOLEAN : StopProcess(o, p, force)) \/ RestartProcess(o, p)
      BY <2>3
    <3> DEFINE slot == [q \in {p} |-> o]
    <3>2. {p} \in SUBSET Process /\ slot \in [{p} -> Call]
      BY DEF Call
    <3>3. \E kind : \E force \in BOOLEAN : BeginStop(slot, kind, force)
      BY <3>1 DEF StopProcess, RestartProcess
    <3>. HIDE DEF slot
    <3> QED
      BY <3>2, <3>3, BeginStopStops
  <2>4. CASE ReloadAllProcesses
    <3> DEFINE running == {p \in processes : info[p].status = "running"}
    <3>1. running \in SUBSET Process
      BY DEF TypeOK
    <3>2. PICK slot \in [running -> {o \in Client : calls[o] = NoCall}] :
            BeginStop(slot, "restart", FALSE)
      BY <2>4 DEF ReloadAllProcesses
    <3>. HIDE DEF running
    <3>3. slot \in [running -> Call]
      BY <3>2 DEF Call
    <3> QED
      BY <3>1, <3>2, <3>3, BeginStopStops
  <2>5. CASE GracefulShutdown
    <3> DEFINE active == {p \in processes : info[p].status \in {"running", "starting"}}
               slot == [p \in active |-> p]
    <3>1. active \in SUBSET Process
      BY DEF TypeOK
    <3>2. slot \in [active -> Call]
      BY <3>1 DEF Call
    <3>3. BeginStop(slot, "stop", FALSE)
      BY <2>5 DEF GracefulShutdown
    <3>. HIDE DEF active, slot
    <3> QED
      BY <3>1, <3>2, <3>3, BeginStopStops
  <2> QED
    BY <1>1, <1>4, <2>1, <2>2, <2>3, <2>4, <2>5 DEF Request, DeleteProcess
<1>5. CASE \E o \in Call : Continue(o) \/ Pause(o)
  <2> SUFFICES ASSUME NEW o \in Call, Continue(o) \/ Pause(o) PROVE StopAwaitsLiving'
    BY <1>5
  <2>1. /\ calls[o].phase # "idle" => calls[o].proc \in Process
        /\ calls[o].old \in SUBSET DOMAIN inst
    BY <1>3
  <2>2. CASE FinishStart(o)
    <3>1. \A c \in DOMAIN child : child[c] \in Child
      BY TypeFacts
    <3>2. child' = Unawait(o) /\ UNCHANGED stops
      BY <2>2 DEF FinishStart
    <3>3. /\ DOMAIN child' = DOMAIN child
          /\ \A c \in DOMAIN child :
               child'[c].owner = child[c].owner /\ child'[c].state = child[c].state
      BY <3>1, <3>2, UnawaitType DEF Child
    <3> QED
      BY <3>2, <3>3 DEF StopAwaitsLiving
  <2>3. CASE FinishStop(o)
    BY <1>1, <2>1, <2>3, LaunchAllStops DEF FinishStop
  <2>4. CASE ReloadSpawned(o)
    BY <1>1, <1>2, <2>1, <2>4, ReloadStepStops DEF ReloadSpawned
  <2>5. CASE ReloadRetired(o)
    BY <1>1, <2>5 DEF ReloadRetired
  <2>6. CASE ReloadSettled(o)
    BY <1>2, <2>1, <2>6, ReloadStepStops DEF ReloadSettled
  <2>7. CASE ReloadPaused(o)
    <3>1. calls[o].old \ {Oldest(calls[o].old)} \in SUBSET DOMAIN inst
      BY <2>1
    <3> QED
      BY <1>2, <2>1, <2>7, <3>1, ReloadStepStops DEF ReloadPaused
  <2> QED
    BY <2>2, <2>3, <2>4, <2>5, <2>6, <2>7 DEF Continue, Pause
<1>6. ASSUME NEW c \in DOMAIN child, Online(c) \/ SpawnError(c) \/ StartTimeout(c)
      PROVE  StopAwaitsLiving'
  <2>1. PICK y \in Child :
          child' = [child EXCEPT ![c] = y] /\ y.owner = child[c].owner
          /\ (y.state = "exited" => child[c].state = "exited")
    <3> DEFINE y1 == [child[c] EXCEPT !.state = "online", !.waiter = "nobody", !.timer = FALSE]
               y2 == [child[c] EXCEPT !.state = "failed", !.waiter = "nobody", !.timer = FALSE]
               y3 == [child[c] EXCEPT !.waiter = "nobody", !.timer = FALSE]
               y4 == [child[c] EXCEPT !.timer = FALSE]
               Good(y) == y \in Child /\ y.owner = child[c].owner
                          /\ (y.state = "exited" => child[c].state = "exited")
    <3>1. Good(y1) /\ Good(y2) /\ Good(y3) /\ Good(y4)
      BY TypeFacts DEF Child
    <3>2. \/ child' = [child EXCEPT ![c] = y1] \/ child' = [child EXCEPT ![c] = y2]
          \/ child' = [child EXCEPT ![c] = y3] \/ child' = [child EXCEPT ![c] = y4]
      BY <1>6 DEF Online, SpawnError, StartTimeout
    <3>. HIDE DEF y1, y2, y3, y4
    <3> QED
      BY <3>1, <3>2
  <2>2. /\ DOMAIN child' = DOMAIN child
        /\ \A d \in DOMAIN child : child'[d] = IF d = c THEN y ELSE child[d]
    BY <2>1, ChildUpdate
  <2>3. UNCHANGED stops
    BY <1>6 DEF Online, SpawnError, StartTimeout
  <2> QED
    BY <2>1, <2>2, <2>3 DEF StopAwaitsLiving
<1>7. CASE Restart
  <2>1. PICK i \in DOMAIN inst, kept \in BOOLEAN : RestartInstance(i, kept)
    BY <1>7 DEF Restart
  <2>2. /\ \A c \in DOMAIN child : c \in DOMAIN child' /\ child'[c] = child[c]
        /\ UNCHANGED stops
    BY <2>1, RestartEffect
  <2> QED
    BY <2>2 DEF StopAwaitsLiving
<1>8. CASE \E r \in stops : KillTimer(r) \/ CleanupTimer(r)
  <2>1. ASSUME NEW r \in stops, KillTimer(r) PROVE StopAwaitsLiving'
    <3> DEFINE z == [r EXCEPT !.phase = "kill"]
    <3>1. z.child = r.child /\ z.inst = r.inst /\ z.phase = "kill"
      BY DEF TypeOK, Stop
    <3>2. stops' = (stops \ {r}) \cup {z} /\ UNCHANGED child
      BY <2>1 DEF KillTimer
    <3>. HIDE DEF z
    <3> QED
      BY <3>1, <3>2 DEF StopAwaitsLiving
  <2>2. ASSUME NEW r \in stops, CleanupTimer(r) PROVE StopAwaitsLiving'
    BY <2>2 DEF CleanupTimer, StopAwaitsLiving
  <2> QED
    BY <1>8, <2>1, <2>2
<1>9. CASE FinishShutdown \/ UNCHANGED vars
  BY <1>1, <1>9 DEF FinishShutdown, vars
<1> QED
  BY <1>4, <1>5, <1>6, <1>7, <1>8, <1>9, ExitStops DEF Next

-----------------------------------------------------------------------------
(* The theorems.                                                           *)

\* IInv is inductive: whatever the orchestrator does, in any order, the
\* children, the timers and the records of each instance fit together.
THEOREM Invariance == Spec => []IInv
<1>1. Init => IInv
  <2> SUFFICES ASSUME Init PROVE ReloadsClustered /\ InstInv
    BY InitType DEF IInv
  <2>1. DOMAIN inst = {}
    BY DEF Init
  <2>2. \A o \in Call : calls[o].phase = "idle"
    BY DEF Init, NoCall
  <2> QED
    BY <2>1, <2>2 DEF ReloadsClustered, InstInv
<1>2. IInv /\ [Next]_vars => IInv'
  BY TypeStep, ReloadsStep, InstStep DEF IInv
<1> QED
  BY <1>1, <1>2, PTL DEF Spec

\* A plain instance never runs twice, nor runs while a restart of it is
\* pending, nor has a restart timer that restartTimers has lost.
THEOREM PlainInstanceHolds == Spec => []PlainInstanceOnce
<1>1. IInv => PlainInstanceOnce
  <2> SUFFICES ASSUME IInv, NEW i \in DOMAIN inst, Plain(i)
               PROVE  /\ \A c, d \in DOMAIN child :
                           child[c].owner = i /\ child[d].owner = i /\ Alive(c) /\ Alive(d) => c = d
                      /\ \A c \in DOMAIN child : child[c].owner = i /\ Alive(c) => ~Armed(i)
                      /\ inst[i].lost = 0
    BY DEF PlainInstanceOnce
  <2>1. PlainInv(i)
    BY DEF IInv, InstInv
  <2>2. inst[i].lost = 0
    BY <2>1 DEF PlainInv
  <2>3. Armed(i) => inst[i].held
    BY <2>2 DEF Armed
  <2> QED
    BY <2>1, <2>2, <2>3 DEF PlainInv
<1> QED
  BY <1>1, Invariance, PTL

\* A plain instance is restarted at most MaxRestarts times in a row.
THEOREM PlainRestartsHolds == Spec => []PlainRestartsBounded
<1>1. IInv => PlainRestartsBounded
  <2> SUFFICES ASSUME IInv, NEW i \in DOMAIN inst, Plain(i)
               PROVE  /\ inst[i].restarts <= MaxRestarts
                      /\ Armed(i) => inst[i].restarts < MaxRestarts
    BY DEF PlainRestartsBounded
  <2>1. PlainInv(i)
    BY DEF IInv, InstInv
  <2>2. Armed(i) => inst[i].held
    BY <2>1 DEF Armed, PlainInv
  <2> QED
    BY <2>1, <2>2 DEF PlainInv
<1> QED
  BY <1>1, Invariance, PTL

\* A plain instance that was given up has no living child and no restart
\* pending.
THEOREM PlainErroredHolds == Spec => []PlainErroredIsFinal
<1>1. IInv => PlainErroredIsFinal
  <2> SUFFICES ASSUME IInv, NEW i \in DOMAIN inst, Plain(i), inst[i].status = "errored"
               PROVE  /\ ~Armed(i)
                      /\ \A c \in DOMAIN child : child[c].owner = i => ~Alive(c)
    BY DEF PlainErroredIsFinal
  <2>1. PlainInv(i)
    BY DEF IInv, InstInv
  <2>2. Armed(i) => inst[i].held
    BY <2>1 DEF Armed, PlainInv
  <2> QED
    BY <2>1, <2>2 DEF PlainInv
<1> QED
  BY <1>1, Invariance, PTL

\* A plain instance reported running has an online child with the pid it shows.
THEOREM PlainRunningHolds == Spec => []PlainRunningIsAlive
<1>1. IInv => PlainRunningIsAlive
  BY DEF IInv, InstInv, PlainInv, PlainRunningIsAlive
<1> QED
  BY <1>1, Invariance, PTL

\* childProcesses never holds a child that has exited, in clusters either.
THEOREM HandlesHold == Spec => []NoStaleHandle
<1>1. IInv => NoStaleHandle
  BY DEF IInv, InstInv, HandleInv, NoStaleHandle
<1> QED
  BY <1>1, Invariance, PTL

\* No stopInstance waits for the exit of a child that has already exited.
THEOREM StopsHold == Spec => []StopAwaitsLiving
<1>1. Init => StopAwaitsLiving
  BY DEF Init, StopAwaitsLiving
<1>2. IInv /\ StopAwaitsLiving /\ [Next]_vars => StopAwaitsLiving'
  BY StopsStep DEF IInv
<1> QED
  BY <1>1, <1>2, Invariance, PTL DEF Spec

-----------------------------------------------------------------------------
(* No restart is armed in a shutdown.                                      *)

\* The restart timers of the instances are those there were in s.
TimersKept(s, t) ==
  /\ DOMAIN t.inst = DOMAIN s.inst
  /\ \A j \in DOMAIN s.inst : t.inst[j].held = s.inst[j].held /\ t.inst[j].lost = s.inst[j].lost

\* In a shutdown an exit is no crash: its handler arms nothing.
LEMMA HandledInShutdown ==
  ASSUME NEW s, Objects(s), NEW i \in DOMAIN s.inst, NEW ok \in BOOLEAN, NEW long \in BOOLEAN,
         shutdown # "no", NEW t, t = HandleInstanceExit(s, i, ok, long)
  PROVE  Objects(t) /\ TimersKept(s, t)
<1> DEFINE h == Handled(s, i, ok, long)
<1>1. s.inst[i] \in Instance
  BY LenProperties, ElementOfSeq DEF Objects
<1>2. h.held = s.inst[i].held /\ h.lost = s.inst[i].lost
  BY <1>1 DEF Handled, Supervised, Exited, Instance
<1>3. h \in Instance /\ Objects(t) /\ Changed(s, t, i, h)
  BY HandleInstanceExitEffect
<1>. HIDE DEF h
<1>4. /\ DOMAIN t.inst = DOMAIN s.inst
      /\ \A j \in DOMAIN s.inst : t.inst[j] = IF j = i THEN h ELSE s.inst[j]
  BY <1>3, ChangedType
<1> QED
  BY <1>2, <1>3, <1>4 DEF TimersKept

\* The closure of stopInstance leaves the restart timers alone.
LEMMA CleanupTimers ==
  ASSUME NEW s, Objects(s), NEW i \in DOMAIN s.inst, NEW t, t = Cleanup(s, i)
  PROVE  Objects(t) /\ TimersKept(s, t)
<1> DEFINE x == [s.inst[i] EXCEPT !.child = 0, !.status = "stopped"]
<1>1. s.inst[i] \in Instance
  BY LenProperties, ElementOfSeq DEF Objects
<1>2. x.held = s.inst[i].held /\ x.lost = s.inst[i].lost
  BY <1>1 DEF Instance
<1>3. x \in Instance /\ Objects(t) /\ Changed(s, t, i, x)
  BY CleanupEffect
<1>. HIDE DEF x
<1>4. /\ DOMAIN t.inst = DOMAIN s.inst
      /\ \A j \in DOMAIN s.inst : t.inst[j] = IF j = i THEN x ELSE s.inst[j]
  BY <1>3, ChangedType
<1> QED
  BY <1>2, <1>3, <1>4 DEF TimersKept

\* Neither do the listeners of an exit together, a worker's two handlers included.
LEMMA ExitInShutdown ==
  ASSUME TypeOK, shutdown # "no", NEW c \in DOMAIN child, NEW ok \in BOOLEAN,
         NEW long \in BOOLEAN, Exit(c, ok, long)
  PROVE  \A j \in DOMAIN inst : Armed(j)' => Armed(j)
<1> DEFINE i == child[c].owner
           s1 == HandleInstanceExit(Now, i, ok, long)
           s2 == IF ResolvedBy(c) = {} THEN s1 ELSE Cleanup(s1, i)
           s3 == HandleWorkerExit(s2, c, ok, long)
<1>1. i \in DOMAIN inst /\ Objects(Now) /\ Now.inst = inst
  BY TypeFacts DEF TypeOK
<1>2. inst' = s3.inst
  BY DEF Exit
<1>3. /\ s1 = HandleInstanceExit(Now, i, ok, long)
      /\ s2 = s1 \/ s2 = Cleanup(s1, i)
      /\ s3 = s2 \/ s3 = HandleInstanceExit(s2, i, ok, long)
  BY DEF HandleWorkerExit
<1>. HIDE DEF i, s1, s2, s3
<1>4. Objects(s1) /\ TimersKept(Now, s1)
  BY <1>1, <1>3, HandledInShutdown
<1>5. i \in DOMAIN s1.inst
  BY <1>1, <1>4 DEF TimersKept
<1>6. Objects(s2) /\ TimersKept(s1, s2)
  <2>1. CASE s2 = s1
    BY <1>4, <2>1 DEF TimersKept
  <2>2. CASE s2 = Cleanup(s1, i)
    BY <1>4, <1>5, <2>2, CleanupTimers
  <2> QED
    BY <1>3, <2>1, <2>2
<1>7. i \in DOMAIN s2.inst
  BY <1>5, <1>6 DEF TimersKept
<1>8. Objects(s3) /\ TimersKept(s2, s3)
  <2>1. CASE s3 = s2
    BY <1>6, <2>1 DEF TimersKept
  <2>2. CASE s3 = HandleInstanceExit(s2, i, ok, long)
    BY <1>6, <1>7, <2>2, HandledInShutdown
  <2> QED
    BY <1>3, <2>1, <2>2
<1> QED
  BY <1>1, <1>2, <1>4, <1>6, <1>8 DEF TimersKept, Armed

\* Instance i is there still and has no timer it had not.
Disarmed(i) == Armed(i)' => Armed(i)

\* One instance changes, and not its timers.
LEMMA UpdateDisarms ==
  ASSUME TypeOK, NEW i \in DOMAIN inst, NEW x \in Instance, inst' = [inst EXCEPT ![i] = x],
         x.held => inst[i].held, x.lost > 0 => inst[i].lost > 0
  PROVE  \A j \in DOMAIN inst : Disarmed(j)
BY InstUpdate DEF Disarmed, Armed

\* New instances do not touch the old ones.
LEMMA LaunchDisarms ==
  ASSUME TypeOK, NEW p \in Process, NEW n \in Nat, NEW worker \in BOOLEAN,
         NEW o \in Call, NEW keep \in SUBSET DOMAIN inst, NEW status \in ProcessStatus,
         Launch(p, n, worker, o, keep, status)
  PROVE  \A j \in DOMAIN inst : Disarmed(j)
<1>1. \A i \in DOMAIN inst : inst'[i] = inst[i]
  BY LaunchEffect
<1> QED
  BY <1>1 DEF Disarmed, Armed

LEMMA LaunchAllDisarms ==
  ASSUME TypeOK, NEW p \in Process, NEW o \in Call, LaunchAll(p, o)
  PROVE  \A j \in DOMAIN inst : Disarmed(j)
<1>1. Count[p] \in Nat
  BY ConfigAssumption
<1>2. {} \in SUBSET DOMAIN inst /\ "starting" \in ProcessStatus
  BY DEF ProcessStatus
<1>3. (p \in Clustered /\ Count[p] > 1) \in BOOLEAN
  OBVIOUS
<1>4. Launch(p, Count[p], p \in Clustered /\ Count[p] > 1, o, {}, "starting")
  BY DEF LaunchAll
<1> QED
  BY <1>1, <1>2, <1>3, <1>4, LaunchDisarms

LEMMA ReloadStepDisarms ==
  ASSUME TypeOK, NEW o \in Call, NEW p \in Process, NEW todo, NEW old,
         NEW status \in ProcessStatus, ReloadStep(o, p, todo, old, status)
  PROVE  \A j \in DOMAIN inst : Disarmed(j)
<1>1. info[p].instances \in SUBSET DOMAIN inst
  BY DEF TypeOK
<1>2. CASE Launch(p, 1, TRUE, o, info[p].instances, status)
  BY <1>1, <1>2, LaunchDisarms
<1>3. CASE UNCHANGED inst
  BY <1>3 DEF Disarmed, Armed
<1> QED
  BY <1>2, <1>3 DEF ReloadStep

\* No step arms a restart timer once the shutdown has begun.
LEMMA ShutdownStep ==
  ASSUME TypeOK, [Next]_vars, shutdown # "no"
  PROVE  \A i \in DOMAIN inst : Disarmed(i)
<1>1. ASSUME UNCHANGED inst PROVE \A i \in DOMAIN inst : Disarmed(i)
  BY <1>1 DEF Disarmed, Armed
<1>2. \A p \in Process : info[p].status \in ProcessStatus
  BY DEF TypeOK
<1>3. CASE Request
  <2>1. CASE \E o \in Client, p \in Process : StartProcess(o, p)
    BY <2>1 DEF StartProcess
  <2>2. CASE \E o \in Client, p \in Process : GracefulReload(o, p)
    <3>1. "reloading" \in ProcessStatus
      BY DEF ProcessStatus
    <3> QED
      BY <2>2, <3>1, ReloadStepDisarms DEF GracefulReload, Call
  <2> QED
    BY <1>1, <1>3, <2>1, <2>2, ZenonT(60)
       DEF Request, DeleteProcess, StopProcess, RestartProcess, ReloadAllProcesses,
           GracefulShutdown, BeginStop
<1>4. CASE \E o \in Call : Continue(o) \/ Pause(o)
  <2> SUFFICES ASSUME NEW o \in Call, Continue(o) \/ Pause(o)
               PROVE  \A i \in DOMAIN inst : Disarmed(i)
    BY <1>4
  <2>1. calls[o].phase # "idle" => calls[o].proc \in Process
    BY DEF TypeOK
  <2>2. CASE FinishStart(o) \/ ReloadRetired(o)
    BY <1>1, <2>2 DEF FinishStart, ReloadRetired
  <2>3. CASE FinishStop(o)
    BY <1>1, <2>1, <2>3, LaunchAllDisarms DEF FinishStop
  <2>4. CASE ReloadSpawned(o)
    BY <1>1, <1>2, <2>1, <2>4, ReloadStepDisarms DEF ReloadSpawned
  <2>5. CASE ReloadSettled(o) \/ ReloadPaused(o)
    BY <1>2, <2>1, <2>5, ReloadStepDisarms DEF ReloadSettled, ReloadPaused
  <2> QED
    BY <2>2, <2>3, <2>4, <2>5 DEF Continue, Pause
<1>5. ASSUME NEW c \in DOMAIN child, Reject(c) PROVE \A i \in DOMAIN inst : Disarmed(i)
  <2> DEFINE k == child[c].owner
             x == IF child[c].waiter = "restart" THEN [inst[k] EXCEPT !.status = "errored"]
                  ELSE inst[k]
  <2>1. k \in DOMAIN inst /\ inst[k] \in Instance
    BY TypeFacts DEF TypeOK
  <2>2. x.held = inst[k].held /\ x.lost = inst[k].lost
    BY <2>1 DEF Instance
  <2>3. x \in Instance /\ inst' = [inst EXCEPT ![k] = x]
    BY <1>5, RejectEffect
  <2>. HIDE DEF x, k
  <2> QED
    BY <2>1, <2>2, <2>3, UpdateDisarms
<1>6. ASSUME NEW c \in DOMAIN child, Online(c) PROVE \A i \in DOMAIN inst : Disarmed(i)
  <2> DEFINE k == child[c].owner
             x == [inst[k] EXCEPT !.status = "running", !.pid = c]
  <2>1. k \in DOMAIN inst /\ inst[k] \in Instance /\ c \in Nat
    BY TypeFacts DEF TypeOK
  <2>2. x \in Instance /\ x.held = inst[k].held /\ x.lost = inst[k].lost
    BY <2>1 DEF Instance, InstanceStatus
  <2>3. inst' = [inst EXCEPT ![k] = x]
    BY <1>6, <2>1 DEF Online
  <2>. HIDE DEF x, k
  <2> QED
    BY <2>1, <2>2, <2>3, UpdateDisarms
<1>7. CASE \E c \in DOMAIN child :
             \/ Online(c) \/ SpawnError(c) \/ StartTimeout(c)
             \/ \E ok, long \in BOOLEAN : Exit(c, ok, long)
  BY <1>1, <1>5, <1>6, <1>7, ExitInShutdown DEF SpawnError, StartTimeout, Disarmed
<1>8. ASSUME NEW i \in DOMAIN inst, NEW kept \in BOOLEAN, RestartInstance(i, kept)
      PROVE  \A j \in DOMAIN inst : Disarmed(j)
  <2>1. inst[i] \in Instance /\ Len(child) \in Nat
    BY TypeFacts
  <2>2. /\ IF kept THEN inst[i].held ELSE inst[i].lost > 0
        /\ \A j \in DOMAIN inst : j # i => inst'[j] = inst[j]
    BY <1>8, RestartEffect DEF RestartInstance
  <2>3. Armed(i)
    BY <2>2 DEF Armed
  <2> QED
    BY <2>2, <2>3 DEF Disarmed, Armed
<1>9. ASSUME NEW r \in stops, CleanupTimer(r) PROVE \A i \in DOMAIN inst : Disarmed(i)
  <2> DEFINE t == Cleanup(Now, r.inst)
  <2>1. r.inst \in DOMAIN inst /\ Objects(Now) /\ Now.inst = inst /\ inst' = t.inst
    BY <1>9, TypeFacts DEF TypeOK, CleanupTimer
  <2>2. t = Cleanup(Now, r.inst)
    OBVIOUS
  <2>. HIDE DEF t
  <2>3. TimersKept(Now, t)
    BY <2>1, <2>2, CleanupTimers
  <2> QED
    BY <2>1, <2>3 DEF TimersKept, Disarmed, Armed
<1>10. CASE FinishShutdown
  <2>1. \A i \in DOMAIN inst : inst'[i] = [inst[i] EXCEPT !.held = FALSE] /\ inst[i] \in Instance
    BY <1>10, FinishShutdownType, TypeFacts
  <2>2. \A i \in DOMAIN inst : ~inst'[i].held /\ inst'[i].lost = inst[i].lost
    BY <2>1 DEF Instance
  <2> QED
    BY <2>2 DEF Disarmed, Armed
<1>11. CASE UNCHANGED vars \/ \E r \in stops : KillTimer(r)
  BY <1>1, <1>11 DEF vars, KillTimer
<1> QED
  BY <1>3, <1>4, <1>7, <1>8, <1>9, <1>10, <1>11 DEF Next, Restart

\* Once the shutdown has begun no restart is scheduled any more, for workers
\* and plain instances, whatever exits and in whatever order.
THEOREM ShutdownArmsNothing == Spec => NoRestartArmedInShutdown
<1>1. TypeOK /\ [Next]_vars => [shutdown # "no" => \A i \in DOMAIN inst : Armed(i)' => Armed(i)]_vars
  BY ShutdownStep DEF Disarmed
<1> QED
  BY <1>1, TypeInvariance, PTL DEF Spec, NoRestartArmedInShutdown

-----------------------------------------------------------------------------
(* The orchestrator implements Supervision for plain instances: each step   *)
(* of Orchestrator is a step of Supervision under the mapping of            *)
(* OrchestratorSupervision, or leaves it where it was.                      *)

\* Supervision sees no change of instance i.
Same(i) == Phase(i)' = Phase(i) /\ Used(i)' = Used(i)

\* What Supervision does when nothing it sees changes.
LEMMA Stutter ==
  ASSUME \A i \in Slot : Same(i)
  PROVE  [S!Next]_(S!vars)
<1>1. [i \in Slot |-> Phase(i)]' = [i \in Slot |-> Phase(i)]
  BY DEF Same
<1>2. [i \in Slot |-> Used(i)]' = [i \in Slot |-> Used(i)]
  BY DEF Same
<1> QED
  BY <1>1, <1>2 DEF S!vars

\* One instance begins, falls or is respawned while the others stay.
LEMMA OneStep ==
  ASSUME NEW i, \A j \in Slot : j # i => Same(j),
         \/ Same(i)
         \/ /\ Phase(i) = "absent" /\ Phase(i)' = "up" /\ Used(i)' = Used(i)
         \/ /\ Phase(i) = "up" /\ Used(i)' \in {Used(i), 0}
            /\ \/ Phase(i)' = "backoff" /\ Used(i)' < MaxRestarts
               \/ Phase(i)' = "over"
         \/ /\ Phase(i) = "backoff" /\ Phase(i)' = "up" /\ Used(i)' = Used(i) + 1
  PROVE  [S!Next]_(S!vars)
<1> DEFINE ph == [j \in Slot |-> Phase(j)]
           us == [j \in Slot |-> Used(j)]
<1>1. CASE Same(i) \/ i \notin Slot
  BY <1>1, Stutter
<1>2. CASE ~Same(i) /\ i \in Slot
  <2>1. ph' = [ph EXCEPT ![i] = Phase(i)']
    BY <1>2 DEF Same
  <2>2. us' = [us EXCEPT ![i] = Used(i)']
    BY <1>2 DEF Same
  <2>3. ph[i] = Phase(i) /\ us[i] = Used(i)
    BY <1>2
  <2>4. us'[i] = Used(i)'
    BY <1>2
  <2>5. us = [us EXCEPT ![i] = Used(i)]
    BY <1>2
  <2>6. CASE /\ Phase(i) = "absent" /\ Phase(i)' = "up" /\ Used(i)' = Used(i)
    <3>1. S!Begin(i)
      BY <2>1, <2>2, <2>3, <2>5, <2>6 DEF S!Begin
    <3> QED
      BY <1>2, <3>1 DEF S!Next
  <2>7. CASE /\ Phase(i) = "up" /\ Used(i)' \in {Used(i), 0}
             /\ \/ Phase(i)' = "backoff" /\ Used(i)' < MaxRestarts
                \/ Phase(i)' = "over"
    <3>1. us' \in {us, [us EXCEPT ![i] = 0]}
      BY <2>2, <2>5, <2>7
    <3>2. S!Fall(i)
      BY <2>1, <2>3, <2>4, <2>7, <3>1 DEF S!Fall
    <3> QED
      BY <1>2, <3>2 DEF S!Next
  <2>8. CASE /\ Phase(i) = "backoff" /\ Phase(i)' = "up" /\ Used(i)' = Used(i) + 1
    <3>1. S!Respawn(i)
      BY <1>2, <2>1, <2>2, <2>3, <2>8 DEF S!Respawn
    <3> QED
      BY <1>2, <3>1 DEF S!Next
  <2> QED
    BY <1>2, <2>6, <2>7, <2>8
<1> QED
  BY <1>1, <1>2

\* An instance whose counters, timers and children stay where they are.
LEMMA SameWhere ==
  ASSUME NEW i \in DOMAIN inst, i \in DOMAIN inst',
         inst'[i].home = inst[i].home,
         Plain(i) => /\ inst'[i].restarts = inst[i].restarts
                     /\ inst'[i].held = inst[i].held /\ inst'[i].lost = inst[i].lost
                     /\ Lives(i)' = Lives(i)
  PROVE  Same(i)
<1>1. CASE Plain(i)
  BY <1>1 DEF Same, Phase, Used, Watched, Plain, Armed
<1>2. CASE ~Plain(i)
  BY <1>2 DEF Same, Phase, Used, Watched, Plain
<1> QED
  BY <1>1, <1>2

\* An instance that does not exist yet, or never will be supervised.
LEMMA SameAbsent ==
  ASSUME NEW i, ~Watched(i), ~Watched(i)'
  PROVE  Same(i)
BY DEF Same, Phase, Used

\* The children of instance i live as before.
LEMMA LivesKept ==
  ASSUME NEW i, KeptChildren(i)
  PROVE  Lives(i)' = Lives(i)
BY DEF KeptChildren, Kept, Lives, Alive

\* Instances and living children stay: Supervision sees nothing.
LEMMA StutterKept ==
  ASSUME UNCHANGED inst, DOMAIN child' = DOMAIN child, \A c \in DOMAIN child : Kept(c)
  PROVE  [S!Next]_(S!vars)
<1> SUFFICES ASSUME NEW i \in Slot PROVE Same(i)
  BY Stutter
<1>1. KeptChildren(i)
  BY DEF KeptChildren, Kept
<1>2. CASE i \in DOMAIN inst
  BY <1>1, <1>2, LivesKept, SameWhere
<1>3. CASE i \notin DOMAIN inst
  BY <1>3, SameAbsent DEF Watched
<1> QED
  BY <1>2, <1>3

-----------------------------------------------------------------------------
(* The steps that Supervision sees.                                        *)

\* The instances there were see nothing of a launch; the others are of process p.
LEMMA LaunchOthers ==
  ASSUME TypeOK, NEW p \in Process, NEW n \in Nat, NEW worker \in BOOLEAN,
         NEW o \in Call, NEW keep \in SUBSET DOMAIN inst, NEW status \in ProcessStatus,
         Launch(p, n, worker, o, keep, status)
  PROVE  /\ \A i \in DOMAIN inst : Same(i)
         /\ \A i \in DOMAIN inst' : i \notin DOMAIN inst =>
              /\ i \in Len(inst) + 1 .. Len(inst) + n
              /\ inst'[i].home = p /\ inst'[i].restarts = 0 /\ Lives(i)'
<1>1. /\ inst' \in Seq(Instance) /\ Len(inst') = Len(inst) + n
      /\ \A i \in DOMAIN inst : inst'[i] = inst[i]
      /\ \A j \in 1..n : inst'[Len(inst) + j] = NewInstance(p, Len(child) + j)
      /\ child' \in Seq(Child) /\ Len(child') = Len(child) + n
      /\ \A c \in DOMAIN child : child'[c] = child[c]
      /\ \A j \in 1..n : child'[Len(child) + j] = NewChild(Len(inst) + j, worker, o)
  BY LaunchEffect, ZenonT(60)
<1>2. /\ Len(inst) \in Nat /\ DOMAIN inst = 1..Len(inst)
      /\ Len(child) \in Nat /\ DOMAIN child = 1..Len(child)
      /\ DOMAIN inst' = 1..Len(inst') /\ DOMAIN child' = 1..Len(child')
  BY <1>1, TypeFacts, LenProperties
<1>3. ASSUME NEW i \in DOMAIN inst PROVE Same(i)
  <2>1. ASSUME NEW c \in DOMAIN child', c \notin DOMAIN child PROVE child'[c].owner # i
    <3>1. c - Len(child) \in 1..n /\ c = Len(child) + (c - Len(child))
      BY <1>1, <1>2, <2>1
    <3>2. PICK j \in 1..n : c = Len(child) + j
      BY <3>1
    <3>3. child'[c] = NewChild(Len(inst) + j, worker, o)
      BY <1>1, <3>2
    <3>4. child'[c].owner = Len(inst) + j
      BY <3>3 DEF NewChild
    <3> QED
      BY <1>2, <3>4
  <2>2. KeptChildren(i)
    BY <1>1, <1>2, <2>1 DEF KeptChildren, Kept
  <2>3. i \in DOMAIN inst'
    BY <1>1, <1>2
  <2> QED
    BY <1>1, <2>2, <2>3, LivesKept, SameWhere
<1>4. ASSUME NEW i \in DOMAIN inst', i \notin DOMAIN inst
      PROVE  /\ i \in Len(inst) + 1 .. Len(inst) + n
             /\ inst'[i].home = p /\ inst'[i].restarts = 0 /\ Lives(i)'
  <2>1. /\ i - Len(inst) \in 1..n /\ i = Len(inst) + (i - Len(inst))
        /\ i \in Len(inst) + 1 .. Len(inst) + n
    BY <1>1, <1>2, <1>4
  <2>2. PICK j \in 1..n : i = Len(inst) + j
    BY <2>1
  <2>3. inst'[i] = NewInstance(p, Len(child) + j)
    BY <1>1, <2>2
  <2>4. PICK d \in Nat : d = Len(child) + j
    BY <1>2
  <2>5. d \in DOMAIN child' /\ child'[d] = NewChild(i, worker, o)
    BY <1>1, <1>2, <2>2, <2>4
  <2>6. child'[d].owner = i /\ child'[d].state = "spawned"
    BY <2>5 DEF NewChild
  <2>7. Lives(i)'
    BY <2>5, <2>6 DEF Lives, Alive
  <2> QED
    BY <2>1, <2>3, <2>7 DEF NewInstance
<1> QED
  BY <1>3, <1>4

\* Workers are not watched.
LEMMA LaunchClustered ==
  ASSUME TypeOK, NEW p \in Clustered, NEW n \in Nat, NEW worker \in BOOLEAN,
         NEW o \in Call, NEW keep \in SUBSET DOMAIN inst, NEW status \in ProcessStatus,
         Launch(p, n, worker, o, keep, status)
  PROVE  [S!Next]_(S!vars)
<1>1. p \in Process
  BY ConfigAssumption
<1>2. /\ \A i \in DOMAIN inst : Same(i)
      /\ \A i \in DOMAIN inst' : i \notin DOMAIN inst => inst'[i].home = p
  BY <1>1, LaunchOthers
<1>3. ASSUME NEW i \in Slot, i \notin DOMAIN inst PROVE Same(i)
  BY <1>2, <1>3, SameAbsent DEF Watched, Plain
<1> QED
  BY <1>2, <1>3, Stutter

\* The one instance of a plain process begins.
LEMMA LaunchPlain ==
  ASSUME TypeOK, NEW p \in Process \ Clustered, NEW worker \in BOOLEAN,
         NEW o \in Call, NEW keep \in SUBSET DOMAIN inst, NEW status \in ProcessStatus,
         Launch(p, 1, worker, o, keep, status)
  PROVE  [S!Next]_(S!vars)
<1>1. /\ \A i \in DOMAIN inst : Same(i)
      /\ \A i \in DOMAIN inst' : i \notin DOMAIN inst =>
           /\ i \in Len(inst) + 1 .. Len(inst) + 1
           /\ inst'[i].home = p /\ inst'[i].restarts = 0 /\ Lives(i)'
  BY LaunchOthers
<1>2. Len(inst) \in Nat
  BY TypeFacts
<1>3. PICK k \in Nat : k = Len(inst) + 1
  BY <1>2
<1>4. \A i \in DOMAIN inst' : i \notin DOMAIN inst => i = k
  BY <1>1, <1>2, <1>3
<1>5. ASSUME NEW i \in Slot, i # k PROVE Same(i)
  BY <1>1, <1>4, <1>5, SameAbsent DEF Watched
<1>6. CASE k \in DOMAIN inst \/ k \notin DOMAIN inst'
  BY <1>1, <1>5, <1>6, SameAbsent, Stutter DEF Watched
<1>7. CASE k \notin DOMAIN inst /\ k \in DOMAIN inst'
  <2>1. inst'[k].home \notin Clustered /\ inst'[k].restarts = 0 /\ Lives(k)'
    BY <1>1, <1>7
  <2>2. Phase(k) = "absent" /\ Used(k) = 0
    BY <1>7 DEF Phase, Used, Watched
  <2>3. Phase(k)' = "up" /\ Used(k)' = 0
    BY <1>7, <2>1 DEF Phase, Used, Watched, Plain
  <2> QED
    BY <1>5, <2>2, <2>3, OneStep
<1> QED
  BY <1>6, <1>7

LEMMA LaunchAllRefines ==
  ASSUME TypeOK, NEW p \in Process, NEW o \in Call, LaunchAll(p, o)
  PROVE  [S!Next]_(S!vars)
<1>1. Count[p] \in Nat
  BY ConfigAssumption
<1>2. {} \in SUBSET DOMAIN inst /\ "starting" \in ProcessStatus
  BY DEF ProcessStatus
<1>3. (p \in Clustered /\ Count[p] > 1) \in BOOLEAN
  OBVIOUS
<1>4. Launch(p, Count[p], p \in Clustered /\ Count[p] > 1, o, {}, "starting")
  BY DEF LaunchAll
<1>5. CASE p \in Clustered
  BY <1>1, <1>2, <1>3, <1>4, <1>5, LaunchClustered
<1>6. CASE p \notin Clustered
  <2>1. p \in Process \ Clustered /\ Count[p] = 1
    BY <1>6, ConfigAssumption
  <2>2. Launch(p, 1, p \in Clustered /\ Count[p] > 1, o, {}, "starting")
    BY <1>4, <2>1
  <2> QED
    BY <1>2, <1>3, <2>1, <2>2, LaunchPlain
<1> QED
  BY <1>5, <1>6

\* A reload starts workers, which Supervision does not watch.
LEMMA ReloadStepRefines ==
  ASSUME TypeOK, NEW o \in Call, NEW p \in Process, p \in Clustered,
         NEW todo, NEW old, NEW status \in ProcessStatus,
         ReloadStep(o, p, todo, old, status)
  PROVE  [S!Next]_(S!vars)
<1>1. info[p].instances \in SUBSET DOMAIN inst
  BY DEF TypeOK
<1>2. CASE Launch(p, 1, TRUE, o, info[p].instances, status)
  BY <1>1, <1>2, LaunchClustered
<1>3. CASE UNCHANGED <<inst, child>>
  BY <1>3, StutterKept DEF Kept
<1> QED
  BY <1>2, <1>3 DEF ReloadStep

\* An event of child c touches its owner and its own record only.
LEMMA OwnerOnly ==
  ASSUME TypeOK, NEW c \in DOMAIN child, NEW y \in Child, NEW i, i = child[c].owner, y.owner = i,
         child' = [child EXCEPT ![c] = y], DOMAIN inst' = DOMAIN inst,
         \A j \in DOMAIN inst : j # i => inst'[j] = inst[j]
  PROVE  /\ \A j \in Slot : j # i => Same(j)
         /\ y.state \in {"spawned", "online"} /\ Alive(c) => Lives(i)' = Lives(i)
<1>1. /\ DOMAIN child' = DOMAIN child
      /\ \A d \in DOMAIN child : child'[d] = IF d = c THEN y ELSE child[d]
  BY ChildUpdate
<1>2. ASSUME NEW j \in Slot, j # i PROVE Same(j)
  <2>1. KeptChildren(j)
    BY <1>1, <1>2 DEF KeptChildren, Kept
  <2>2. CASE j \in DOMAIN inst
    BY <1>2, <2>1, <2>2, LivesKept, SameWhere
  <2>3. CASE j \notin DOMAIN inst
    BY <2>3, SameAbsent DEF Watched
  <2> QED
    BY <2>2, <2>3
<1>3. ASSUME y.state \in {"spawned", "online"}, Alive(c)
      PROVE  Lives(i)' = Lives(i)
  <2>1. \A d \in DOMAIN child : (Alive(d)' <=> Alive(d)) /\ child'[d].owner = child[d].owner
    BY <1>1, <1>3 DEF Alive
  <2> QED
    BY <1>1, <2>1 DEF Lives
<1> QED
  BY <1>2, <1>3

\* A child that comes online was living already.
LEMMA OnlineRefines ==
  ASSUME TypeOK, NEW c \in DOMAIN child, Online(c)
  PROVE  [S!Next]_(S!vars)
<1> SUFFICES ASSUME NEW i, i = child[c].owner PROVE [S!Next]_(S!vars)
  OBVIOUS
<1> DEFINE x == [inst[i] EXCEPT !.status = "running", !.pid = c]
           y == [child[c] EXCEPT !.state = "online", !.waiter = "nobody", !.timer = FALSE]
<1>1. i \in DOMAIN inst /\ inst[i] \in Instance /\ child[c] \in Child /\ c \in Nat
  BY TypeFacts DEF TypeOK
<1>2. /\ x \in Instance /\ x.home = inst[i].home /\ x.lost = inst[i].lost
      /\ x.held = inst[i].held /\ x.restarts = inst[i].restarts
  BY <1>1 DEF Instance, InstanceStatus
<1>3. y \in Child /\ y.owner = i /\ y.state = "online"
  BY <1>1 DEF Child
<1>4. child' = [child EXCEPT ![c] = y] /\ inst' = [inst EXCEPT ![i] = x] /\ Alive(c)
  BY <1>1 DEF Online, Alive
<1>. HIDE DEF x, y
<1>5. /\ DOMAIN inst' = DOMAIN inst /\ inst'[i] = x
      /\ \A j \in DOMAIN inst : j # i => inst'[j] = inst[j]
  BY <1>1, <1>2, <1>4, InstUpdate
<1>6. (\A j \in Slot : j # i => Same(j)) /\ Lives(i)' = Lives(i)
  <2>1. y.state \in {"spawned", "online"}
    BY <1>3
  <2> QED
    BY <1>3, <1>4, <1>5, <2>1, OwnerOnly
<1>7. Same(i)
  BY <1>1, <1>2, <1>5, <1>6, SameWhere
<1> QED
  BY <1>6, <1>7, Stutter

\* The only living child of instance i goes, and y is what is left of it.
LEMMA LivingGone ==
  ASSUME TypeOK, InstInv, NEW c \in DOMAIN child, NEW i, i = child[c].owner, Alive(c), Plain(i),
         NEW y \in Child, y.owner = i, y.state \in {"failed", "exited"},
         child' = [child EXCEPT ![c] = y]
  PROVE  Lives(i) /\ ~Lives(i)'
<1>1. /\ DOMAIN child' = DOMAIN child
      /\ \A d \in DOMAIN child : child'[d] = IF d = c THEN y ELSE child[d]
  BY ChildUpdate
<1>2. PlainInv(i)
  BY DEF InstInv, TypeOK
<1>3. \A d \in DOMAIN child : child[d].owner = i /\ Alive(d) => d = c
  BY <1>2 DEF PlainInv
<1>4. ~Lives(i)'
  BY <1>1, <1>3 DEF Lives, Alive
<1> QED
  BY <1>4 DEF Lives

\* A plain child that could not be spawned: its instance is over.
LEMMA SpawnErrorRefines ==
  ASSUME TypeOK, InstInv, NEW c \in DOMAIN child, SpawnError(c)
  PROVE  [S!Next]_(S!vars)
<1> SUFFICES ASSUME NEW i, i = child[c].owner PROVE [S!Next]_(S!vars)
  OBVIOUS
<1> DEFINE x == IF child[c].waiter = "restart" THEN [inst[i] EXCEPT !.status = "errored"]
                ELSE inst[i]
           y == [child[c] EXCEPT !.state = "failed", !.waiter = "nobody", !.timer = FALSE]
<1>1. i \in DOMAIN inst /\ inst[i] \in Instance /\ child[c] \in Child
  BY TypeFacts DEF TypeOK
<1>2. /\ x \in Instance /\ x.home = inst[i].home /\ x.lost = inst[i].lost
      /\ x.held = inst[i].held /\ x.restarts = inst[i].restarts
  BY <1>1 DEF Instance, InstanceStatus
<1>3. y \in Child /\ y.owner = i /\ y.state = "failed"
  BY <1>1 DEF Child
<1>4. child' = [child EXCEPT ![c] = y] /\ Reject(c) /\ Alive(c)
  BY <1>1 DEF SpawnError, Alive
<1>5. inst' = [inst EXCEPT ![i] = x]
  BY <1>4, RejectEffect
<1>. HIDE DEF x, y
<1>6. /\ DOMAIN inst' = DOMAIN inst /\ inst'[i] = x
      /\ \A j \in DOMAIN inst : j # i => inst'[j] = inst[j]
  BY <1>1, <1>2, <1>5, InstUpdate
<1>7. \A j \in Slot : j # i => Same(j)
  BY <1>3, <1>4, <1>6, OwnerOnly
<1>8. CASE Plain(i)
  <2>1. Lives(i) /\ ~Lives(i)'
    BY <1>3, <1>4, <1>8, LivingGone
  <2>2. ~inst[i].held /\ inst[i].lost = 0
    BY <1>1, <1>4, <1>8 DEF InstInv, PlainInv
  <2>3. Phase(i) = "up" /\ Used(i) = inst[i].restarts
    BY <1>1, <1>8, <2>1 DEF Phase, Used, Watched
  <2>4. Phase(i)' = "over" /\ Used(i)' = inst[i].restarts
    BY <1>1, <1>2, <1>6, <1>8, <2>1, <2>2 DEF Phase, Used, Watched, Plain, Armed
  <2> QED
    BY <1>7, <2>3, <2>4, OneStep
<1>9. CASE ~Plain(i)
  <2>1. Same(i)
    BY <1>1, <1>2, <1>6, <1>9, SameWhere
  <2> QED
    BY <1>7, <2>1, Stutter
<1> QED
  BY <1>8, <1>9

\* The start timeout is one of a worker.
LEMMA StartTimeoutRefines ==
  ASSUME TypeOK, InstInv, NEW c \in DOMAIN child, StartTimeout(c)
  PROVE  [S!Next]_(S!vars)
<1> SUFFICES ASSUME NEW i, i = child[c].owner PROVE [S!Next]_(S!vars)
  OBVIOUS
<1>1. i \in DOMAIN inst /\ inst[i] \in Instance /\ child[c] \in Child
  BY TypeFacts DEF TypeOK
<1>2. ~Plain(i)
  BY <1>1 DEF InstInv, PlainInv, StartTimeout, Quiet, NextTick
<1>3. PICK x \in Instance : inst' = [inst EXCEPT ![i] = x] /\ x.home = inst[i].home
  <2>1. CASE Reject(c)
    <3> DEFINE x == IF child[c].waiter = "restart" THEN [inst[i] EXCEPT !.status = "errored"]
                    ELSE inst[i]
    <3>1. x.home = inst[i].home
      BY <1>1 DEF Instance
    <3>2. x \in Instance /\ inst' = [inst EXCEPT ![i] = x]
      BY <2>1, RejectEffect
    <3> QED
      BY <3>1, <3>2
  <2>2. CASE UNCHANGED inst
    BY <1>1, <2>2 DEF TypeOK
  <2> QED
    BY <2>1, <2>2 DEF StartTimeout
<1>4. PICK y \in Child : child' = [child EXCEPT ![c] = y] /\ y.owner = i
  <2> DEFINE y == [child[c] EXCEPT !.waiter = "nobody", !.timer = FALSE]
             z == [child[c] EXCEPT !.timer = FALSE]
  <2>1. y \in Child /\ y.owner = i /\ z \in Child /\ z.owner = i
    BY <1>1 DEF Child
  <2>2. child' = [child EXCEPT ![c] = y] \/ child' = [child EXCEPT ![c] = z]
    BY DEF StartTimeout
  <2>. HIDE DEF y, z
  <2> QED
    BY <2>1, <2>2
<1>5. /\ DOMAIN inst' = DOMAIN inst /\ inst'[i] = x
      /\ \A j \in DOMAIN inst : j # i => inst'[j] = inst[j]
  BY <1>1, <1>3, InstUpdate
<1>6. \A j \in Slot : j # i => Same(j)
  BY <1>4, <1>5, OwnerOnly
<1>7. Same(i)
  BY <1>1, <1>2, <1>3, <1>5, SameWhere
<1> QED
  BY <1>6, <1>7, Stutter

\* An exit leaves the counter of restarts alone, or resets it.
LEMMA HandledRestarts ==
  ASSUME NEW s, NEW i, s.inst[i] \in Instance, NEW ok \in BOOLEAN, NEW long \in BOOLEAN
  PROVE  Handled(s, i, ok, long).restarts \in {s.inst[i].restarts, 0}
<1> DEFINE e == Exited(s.inst[i], ok, long)
<1>1. e \in Instance /\ e.restarts \in {s.inst[i].restarts, 0}
  BY ExitedType, ZenonT(60) DEF Exited, Instance
<1>. HIDE DEF e
<1>2. ScheduleRestart(e).restarts = e.restarts /\ GiveUp(e).restarts = e.restarts
  BY <1>1 DEF ScheduleRestart, GiveUp, Instance
<1> QED
  BY <1>1, <1>2 DEF Handled, e

\* An exit makes a plain instance fall; its counter is then below the limit
\* when a restart is due.
LEMMA ExitRefines ==
  ASSUME TypeOK, InstInv, InstInv', NEW c \in DOMAIN child, NEW ok \in BOOLEAN, NEW long \in BOOLEAN,
         Exit(c, ok, long)
  PROVE  [S!Next]_(S!vars)
<1> SUFFICES ASSUME NEW i, i = child[c].owner PROVE [S!Next]_(S!vars)
  OBVIOUS
<1> DEFINE y == [child[c] EXCEPT !.state = "exited"]
<1>1. i \in DOMAIN inst /\ inst[i] \in Instance /\ child[c] \in Child /\ Now.inst = inst
  BY TypeFacts DEF TypeOK
<1>2. y \in Child /\ y.owner = i /\ y.state = "exited"
  BY <1>1 DEF Child
<1>3. child' = [child EXCEPT ![c] = y] /\ Alive(c)
  BY DEF Exit, Alive
<1>. HIDE DEF y
<1>4. /\ DOMAIN inst' = DOMAIN inst /\ inst'[i].home = inst[i].home
      /\ \A j \in DOMAIN inst : j # i => inst'[j] = inst[j]
      /\ ~child[c].worker => inst' = [inst EXCEPT ![i] = AfterExit(c, ok, long)]
      /\ AfterExit(c, ok, long) \in Instance
  BY ExitEffect
<1>5. \A j \in Slot : j # i => Same(j)
  BY <1>2, <1>3, <1>4, OwnerOnly
<1>6. CASE Plain(i)
  <2> DEFINE h == Handled(Now, i, ok, long)
             x == AfterExit(c, ok, long)
  <2>1. Lives(i) /\ ~Lives(i)'
    BY <1>2, <1>3, <1>6, LivingGone
  <2>2. ~child[c].worker
    BY <1>1, <1>6 DEF InstInv, PlainInv
  <2>3. h \in Instance /\ h.restarts \in {inst[i].restarts, 0}
    BY <1>1, TypeFacts, HandleInstanceExitEffect, HandledRestarts
  <2>4. x = IF ResolvedBy(c) = {} THEN h ELSE [h EXCEPT !.child = 0, !.status = "stopped"]
    BY DEF AfterExit
  <2>5. inst'[i] = x
    BY <1>1, <1>4, <2>2, InstUpdate
  <2>. HIDE DEF h, x
  <2>6. inst'[i].restarts \in {inst[i].restarts, 0}
    BY <2>3, <2>4, <2>5 DEF Instance
  <2>7. inst'[i].lost = 0 /\ (inst'[i].held => inst'[i].restarts < MaxRestarts)
    <3>1. PlainInv(i)' /\ Plain(i)'
      BY <1>1, <1>4, <1>6 DEF InstInv, Plain
    <3> QED
      BY <3>1 DEF PlainInv
  <2>8. Phase(i) = "up" /\ Used(i) = inst[i].restarts
    BY <1>1, <1>6, <2>1 DEF Phase, Used, Watched
  <2>9. /\ Used(i)' = inst'[i].restarts
        /\ Phase(i)' = IF inst'[i].held THEN "backoff" ELSE "over"
    BY <1>1, <1>4, <1>6, <2>1, <2>7 DEF Phase, Used, Watched, Plain, Armed
  <2>10. /\ Used(i)' \in {Used(i), 0}
         /\ \/ Phase(i)' = "backoff" /\ Used(i)' < MaxRestarts
            \/ Phase(i)' = "over"
    BY <2>6, <2>7, <2>8, <2>9
  <2> QED
    BY <1>5, <2>8, <2>10, OneStep
<1>7. CASE ~Plain(i)
  <2>1. Same(i)
    BY <1>1, <1>4, <1>7, SameWhere
  <2> QED
    BY <1>5, <2>1, Stutter
<1> QED
  BY <1>6, <1>7

\* A restart timer respawns a plain instance that is in backoff.
LEMMA RestartRefines ==
  ASSUME TypeOK, InstInv, NEW i \in DOMAIN inst, NEW kept \in BOOLEAN, RestartInstance(i, kept)
  PROVE  [S!Next]_(S!vars)
<1>1. /\ inst[i] \in Instance /\ Len(child) \in Nat /\ DOMAIN child = 1..Len(child)
      /\ \A c \in DOMAIN child : child[c].owner \in DOMAIN inst
      /\ IF kept THEN inst[i].held ELSE inst[i].lost > 0
  BY TypeFacts DEF TypeOK, RestartInstance
<1>2. PICK k \in Nat : k = Len(child) + 1
  BY <1>1
<1> DEFINE x == Restarted(inst[i], kept, k)
           y == NewChild(i, inst[i].home \in Clustered, "restart")
<1>3. x.home = inst[i].home /\ x.restarts = inst[i].restarts + 1
  BY <1>1 DEF Restarted, Instance
<1>4. y.owner = i /\ y.state = "spawned"
  BY DEF NewChild
<1>5. /\ DOMAIN inst' = DOMAIN inst
      /\ \A j \in DOMAIN inst : inst'[j] = IF j = i THEN x ELSE inst[j]
      /\ DOMAIN child' = DOMAIN child \cup {k}
      /\ \A c \in DOMAIN child : child'[c] = child[c]
      /\ child'[k] = y
  BY <1>2, RestartEffect
<1>. HIDE DEF x, y
<1>6. ASSUME NEW j \in Slot, j # i PROVE Same(j)
  <2>1. KeptChildren(j)
    BY <1>4, <1>5, <1>6 DEF KeptChildren, Kept
  <2>2. CASE j \in DOMAIN inst
    BY <1>5, <1>6, <2>1, <2>2, LivesKept, SameWhere
  <2>3. CASE j \notin DOMAIN inst
    BY <1>5, <2>3, SameAbsent DEF Watched
  <2> QED
    BY <2>2, <2>3
<1>7. CASE Plain(i)
  <2>1. PlainInv(i)
    BY DEF InstInv
  <2>2. inst[i].held /\ ~Lives(i)
    BY <1>1, <1>7, <2>1 DEF PlainInv, Lives
  <2>3. Phase(i) = "backoff" /\ Used(i) = inst[i].restarts
    BY <1>7, <2>2 DEF Phase, Used, Watched, Armed
  <2>4. Lives(i)'
    BY <1>4, <1>5 DEF Lives, Alive
  <2>5. Phase(i)' = "up" /\ Used(i)' = inst[i].restarts + 1
    BY <1>3, <1>5, <1>7, <2>4 DEF Phase, Used, Watched, Plain
  <2> QED
    BY <1>6, <2>3, <2>5, OneStep
<1>8. CASE ~Plain(i)
  <2>1. Same(i)
    BY <1>3, <1>5, <1>8, SameWhere
  <2> QED
    BY <1>6, <2>1, Stutter
<1> QED
  BY <1>7, <1>8

\* The closure of stopInstance changes nothing that Supervision sees.
LEMMA CleanupTimerRefines ==
  ASSUME TypeOK, NEW r \in stops, CleanupTimer(r)
  PROVE  [S!Next]_(S!vars)
<1> SUFFICES ASSUME NEW i, i = r.inst PROVE [S!Next]_(S!vars)
  OBVIOUS
<1> DEFINE x == [inst[i] EXCEPT !.child = 0, !.status = "stopped"]
           t == Cleanup(Now, i)
<1>1. i \in DOMAIN inst /\ Objects(Now) /\ Now.inst = inst /\ inst[i] \in Instance
  BY TypeFacts DEF TypeOK
<1>2. x.home = inst[i].home /\ x.held = inst[i].held /\ x.lost = inst[i].lost
      /\ x.restarts = inst[i].restarts
  BY <1>1 DEF Instance
<1>3. /\ [Now.inst[i] EXCEPT !.child = 0, !.status = "stopped"] \in Instance
      /\ Changed(Now, t, i, [Now.inst[i] EXCEPT !.child = 0, !.status = "stopped"])
  <2>1. t = Cleanup(Now, i)
    OBVIOUS
  <2>. HIDE DEF t
  <2> QED
    BY <1>1, <2>1, CleanupEffect
<1>4. inst' = t.inst /\ UNCHANGED child
  BY DEF CleanupTimer
<1>5. x \in Instance /\ inst' = [inst EXCEPT ![i] = x]
  BY <1>1, <1>3, <1>4 DEF Changed
<1>. HIDE DEF x, t
<1>6. /\ DOMAIN inst' = DOMAIN inst /\ inst'[i] = x
      /\ \A j \in DOMAIN inst : j # i => inst'[j] = inst[j]
  BY <1>1, <1>5, InstUpdate
<1>7. ASSUME NEW j \in Slot PROVE Same(j)
  <2>1. KeptChildren(j)
    BY <1>4 DEF KeptChildren, Kept
  <2>2. CASE j \in DOMAIN inst
    BY <1>2, <1>6, <2>1, <2>2, LivesKept, SameWhere
  <2>3. CASE j \notin DOMAIN inst
    BY <1>6, <2>3, SameAbsent DEF Watched
  <2> QED
    BY <2>2, <2>3
<1> QED
  BY <1>7, Stutter

\* The end of the shutdown gives up every pending restart of a plain instance.
LEMMA FinishShutdownRefines ==
  ASSUME TypeOK, InstInv, FinishShutdown
  PROVE  [S!Next]_(S!vars)
<1> DEFINE B == {i \in Slot : Phase(i) = "backoff"}
           ph == [i \in Slot |-> Phase(i)]
           us == [i \in Slot |-> Used(i)]
<1>1. /\ DOMAIN inst' = DOMAIN inst /\ UNCHANGED child
      /\ \A i \in DOMAIN inst : inst'[i] = [inst[i] EXCEPT !.held = FALSE]
      /\ \A i \in DOMAIN inst : inst[i] \in Instance
  BY FinishShutdownType, TypeFacts DEF FinishShutdown
<1>2. \A i \in DOMAIN inst :
        /\ inst'[i].home = inst[i].home /\ ~inst'[i].held
        /\ inst'[i].lost = inst[i].lost /\ inst'[i].restarts = inst[i].restarts
  BY <1>1 DEF Instance
<1>3. \A i : Lives(i)' = Lives(i)
  BY <1>1 DEF Lives, Alive
<1>4. \A i \in Slot : Used(i)' = Used(i)
  BY <1>1, <1>2 DEF Used, Watched, Plain
<1>5. ASSUME NEW i \in Slot
      PROVE  Phase(i)' = IF Phase(i) = "backoff" THEN "over" ELSE Phase(i)
  <2>1. CASE Watched(i)
    <3>1. inst[i].lost = 0
      BY <2>1 DEF InstInv, PlainInv, Watched
    <3>2. Watched(i)' /\ ~Armed(i)'
      BY <1>1, <1>2, <2>1, <3>1 DEF Watched, Plain, Armed
    <3> QED
      BY <1>3, <2>1, <3>2 DEF Phase
  <2>2. CASE ~Watched(i)
    BY <1>1, <1>2, <2>2 DEF Phase, Watched, Plain
  <2> QED
    BY <2>1, <2>2
<1>6. ph' = [i \in Slot |-> IF i \in B THEN "over" ELSE ph[i]]
  BY <1>5
<1>7. us' = us
  BY <1>4
<1>8. \A i \in B : ph[i] = "backoff"
  OBVIOUS
<1>9. S!Abandon(B)
  BY <1>6, <1>7, <1>8 DEF S!Abandon
<1>10. B \in SUBSET Slot
  OBVIOUS
<1> QED
  BY <1>9, <1>10 DEF S!Next

-----------------------------------------------------------------------------
(* The refinement.                                                         *)

\* Every step of the orchestrator is one of Supervision, or none.
LEMMA StepRefines ==
  ASSUME IInv, IInv', [Next]_vars
  PROVE  [S!Next]_(S!vars)
<1>1. TypeOK /\ ReloadsClustered /\ InstInv /\ InstInv'
  BY DEF IInv
<1>2. ASSUME UNCHANGED <<inst, child>> PROVE [S!Next]_(S!vars)
  BY <1>2, StutterKept DEF Kept
<1>3. \A p \in Process : info[p].status \in ProcessStatus
  BY <1>1 DEF TypeOK
<1>4. CASE Request
  <2>1. CASE \E o \in Client, p \in Process : StartProcess(o, p)
    BY <1>1, <2>1, LaunchAllRefines DEF StartProcess, Call
  <2>2. CASE \E o \in Client, p \in Process : GracefulReload(o, p)
    <3>1. "reloading" \in ProcessStatus
      BY DEF ProcessStatus
    <3> QED
      BY <1>1, <2>2, <3>1, ReloadStepRefines DEF GracefulReload, Call
  <2> QED
    BY <1>2, <1>4, <2>1, <2>2, ZenonT(60)
       DEF Request, DeleteProcess, StopProcess, RestartProcess, ReloadAllProcesses,
           GracefulShutdown, BeginStop
<1>5. CASE \E o \in Call : Continue(o) \/ Pause(o)
  <2> SUFFICES ASSUME NEW o \in Call, Continue(o) \/ Pause(o) PROVE [S!Next]_(S!vars)
    BY <1>5
  <2>1. calls[o].phase # "idle" => calls[o].proc \in Process
    BY <1>1 DEF TypeOK
  <2>2. calls[o].phase \in {"spawning", "settling", "retiring", "pausing"}
          => calls[o].proc \in Clustered
    BY <1>1 DEF ReloadsClustered
  <2>3. CASE FinishStart(o)
    <3>1. UNCHANGED inst /\ child' = Unawait(o)
      BY <2>3 DEF FinishStart
    <3>2. \A c \in DOMAIN child : child[c] \in Child
      BY <1>1, TypeFacts
    <3>3. DOMAIN child' = DOMAIN child /\ \A c \in DOMAIN child : Kept(c)
      BY <1>1, <3>1, <3>2, UnawaitType, ZenonT(60) DEF Kept, Child
    <3> QED
      BY <3>1, <3>3, StutterKept
  <2>4. CASE FinishStop(o)
    BY <1>1, <1>2, <2>1, <2>4, LaunchAllRefines DEF FinishStop
  <2>5. CASE ReloadSpawned(o)
    BY <1>1, <1>2, <1>3, <2>1, <2>2, <2>5, ReloadStepRefines DEF ReloadSpawned
  <2>6. CASE ReloadRetired(o)
    BY <1>2, <2>6 DEF ReloadRetired
  <2>7. CASE ReloadSettled(o) \/ ReloadPaused(o)
    BY <1>1, <1>3, <2>1, <2>2, <2>7, ReloadStepRefines DEF ReloadSettled, ReloadPaused
  <2> QED
    BY <2>3, <2>4, <2>5, <2>6, <2>7 DEF Continue, Pause
<1>6. CASE \E c \in DOMAIN child :
             \/ Online(c) \/ SpawnError(c) \/ StartTimeout(c)
             \/ \E ok, long \in BOOLEAN : Exit(c, ok, long)
  BY <1>1, <1>6, OnlineRefines, SpawnErrorRefines, StartTimeoutRefines, ExitRefines
<1>7. CASE Restart
  BY <1>1, <1>7, RestartRefines DEF Restart
<1>8. CASE \E r \in stops : KillTimer(r) \/ CleanupTimer(r)
  BY <1>1, <1>2, <1>8, CleanupTimerRefines DEF KillTimer
<1>9. CASE FinishShutdown
  BY <1>1, <1>9, FinishShutdownRefines
<1>10. CASE UNCHANGED vars
  BY <1>2, <1>10 DEF vars
<1> QED
  BY <1>4, <1>5, <1>6, <1>7, <1>8, <1>9, <1>10 DEF Next

\* Whatever requests, exits, timers and shutdown do, and in whatever order, a
\* plain instance runs once at a time, comes back only from a backoff, at most
\* MaxRestarts times in a row, and never after it was given up.
THEOREM Refinement == Spec => Supervises
<1>1. Init => S!Init
  <2> SUFFICES ASSUME Init PROVE S!Init
    OBVIOUS
  <2>1. DOMAIN inst = {}
    BY DEF Init
  <2>2. \A i \in Slot : Phase(i) = "absent" /\ Used(i) = 0
    BY <2>1 DEF Phase, Used, Watched
  <2> QED
    BY <2>2 DEF S!Init
<1>2. IInv /\ IInv' /\ [Next]_vars => [S!Next]_(S!vars)
  BY StepRefines
<1> QED
  BY <1>1, <1>2, Invariance, PTL DEF Spec, Supervises, S!Spec

-----------------------------------------------------------------------------
(* The number of instances of a process.                                   *)

\* Process p has been started once, and is not forgotten by its objects.
Known(p) == info[p].status # "none"

\* T has n elements.
Has(T, n) == IsFiniteSet(T) /\ Cardinality(T) = n

\* Every object belongs to a process that is known; only gracefulReload has
\* the phases of a reload, and the shutdown's slots only stop.
KnownInv ==
  /\ \A p \in processes : Known(p)
  /\ \A i \in DOMAIN inst : Known(inst[i].home)
  /\ \A o \in Call :
       /\ calls[o].phase # "idle" => Known(calls[o].proc)
       /\ calls[o].kind = "reload"
            <=> calls[o].phase \in {"spawning", "settling", "retiring", "pausing"}
       /\ o \in Process => calls[o].kind \in {"none", "stop"}

\* What the reload of o has added to the instances it found.  While it stops
\* one, some are left to stop; in the pause after, that one is off the list.
ReloadCount(o) ==
  LET r == calls[o]
      added == info[r.proc].instances \ r.old
  IN /\ r.phase \in {"spawning", "settling"} =>
          r.todo \in 1..Count[r.proc] /\ Has(added, Count[r.proc] - r.todo + 1)
     /\ r.phase \in {"retiring", "pausing"} => Has(added, Count[r.proc])
     /\ r.phase = "retiring" => r.old # {}
     /\ r.phase = "pausing" => Oldest(r.old) \notin info[r.proc].instances

\* A process that no client reloads has all its instances.
ProcessCount(p) ==
  Known(p) /\ (\A o \in Client : calls[o].kind = "reload" => calls[o].proc # p)
    => Has(info[p].instances, Count[p])

\* No two callers are at work on the same process.
Serial ==
  \A a, b \in Client :
    calls[a].proc \in Process /\ calls[a].proc = calls[b].proc => a = b

CountInv ==
  /\ KnownInv
  /\ \A o \in Client : ReloadCount(o)
  /\ \A p \in Process : ProcessCount(p)

\* Processes are known as they were, and their instances the same.
SameProcesses ==
  \A q \in Process : /\ Known(q)' <=> Known(q)
                     /\ info'[q].instances = info[q].instances

\* The homes of the instances are those of instances that were there.
SameHomes ==
  \A i \in DOMAIN inst' : i \in DOMAIN inst /\ inst'[i].home = inst[i].home

\* The call of o goes on where it was.
SameCall(o) ==
  /\ calls'[o].kind = calls[o].kind /\ calls'[o].proc = calls[o].proc
  /\ calls'[o].phase = calls[o].phase /\ calls'[o].todo = calls[o].todo
  /\ calls'[o].old = calls[o].old

\* The call of o is not a reload and was none, and is on a known process.
OtherCall(o) ==
  /\ calls[o].kind # "reload" /\ calls'[o].kind # "reload"
  /\ calls'[o].phase \in {"idle", "starting", "stopping"}
  /\ calls'[o].phase # "idle" => calls'[o].proc \in Process /\ Known(calls[o].proc)'
  /\ o \in Process => calls'[o].kind \in {"none", "stop"}

\* A step that touches neither the instances of a process nor a reload.
LEMMA CountFrame ==
  ASSUME TypeOK, CountInv, SameProcesses, SameHomes, processes' \subseteq processes,
         \A o \in Call : SameCall(o) \/ OtherCall(o)
  PROVE  CountInv'
<1>1. /\ processes \subseteq Process
      /\ \A i \in DOMAIN inst : inst[i].home \in Process
      /\ \A o \in Call : calls[o].phase # "idle" => calls[o].proc \in Process
  BY TypeFacts DEF TypeOK, Instance
<1>2. KnownInv'
  <2>1. \A p \in processes' : Known(p)'
    BY <1>1 DEF CountInv, KnownInv, SameProcesses
  <2>2. \A i \in DOMAIN inst' : Known(inst[i].home)'
    <3> TAKE i \in DOMAIN inst'
    <3>1. inst[i].home \in Process /\ Known(inst[i].home) /\ inst'[i].home = inst[i].home
      BY <1>1 DEF CountInv, KnownInv, SameHomes
    <3> QED
      BY <3>1 DEF SameProcesses, Known
  <2>3. ASSUME NEW o \in Call
        PROVE  /\ calls'[o].phase # "idle" => Known(calls[o].proc)'
               /\ calls'[o].kind = "reload"
                    <=> calls'[o].phase \in {"spawning", "settling", "retiring", "pausing"}
               /\ o \in Process => calls'[o].kind \in {"none", "stop"}
    <3>1. /\ calls[o].phase # "idle" => calls[o].proc \in Process /\ Known(calls[o].proc)
          /\ calls[o].kind = "reload"
               <=> calls[o].phase \in {"spawning", "settling", "retiring", "pausing"}
          /\ o \in Process => calls[o].kind \in {"none", "stop"}
      BY <1>1 DEF CountInv, KnownInv
    <3>2. CASE SameCall(o)
      BY <3>1, <3>2 DEF SameCall, SameProcesses, Known
    <3>3. CASE OtherCall(o)
      BY <3>3 DEF OtherCall, SameProcesses, Known
    <3> QED
      BY <3>2, <3>3
  <2> QED
    BY <2>1, <2>2, <2>3 DEF KnownInv, Known
<1>3. ASSUME NEW o \in Client PROVE ReloadCount(o)'
  <2>1. o \in Call
    BY DEF Call
  <2>2. CASE SameCall(o)
    <3>1. CASE calls[o].phase = "idle"
      BY <2>2, <3>1 DEF SameCall, ReloadCount
    <3>2. CASE calls[o].phase # "idle"
      <4>1. info'[calls[o].proc].instances = info[calls[o].proc].instances
        BY <1>1, <2>1, <3>2 DEF SameProcesses
      <4>2. ReloadCount(o)
        BY DEF CountInv
      <4> QED
        BY <2>2, <4>1, <4>2 DEF SameCall, ReloadCount
    <3> QED
      BY <3>1, <3>2
  <2>3. CASE OtherCall(o)
    BY <2>3 DEF OtherCall, ReloadCount
  <2> QED
    BY <2>1, <2>2, <2>3
<1>4. ASSUME NEW p \in Process PROVE ProcessCount(p)'
  <2> SUFFICES ASSUME Known(p)', \A o \in Client : calls'[o].kind = "reload" => calls'[o].proc # p
               PROVE  Has(info'[p].instances, Count[p])
    BY DEF ProcessCount
  <2>1. \A o \in Client : calls[o].kind = "reload" => calls[o].proc # p
    BY DEF SameCall, OtherCall, Call
  <2>2. Known(p) /\ info'[p].instances = info[p].instances
    BY DEF SameProcesses
  <2>3. ProcessCount(p)
    BY DEF CountInv
  <2> QED
    BY <2>1, <2>2, <2>3 DEF ProcessCount
<1> QED
  BY <1>2, <1>3, <1>4 DEF CountInv

\* Launch adds ids that no process lists and no reload replaces.
LEMMA NewIdsFresh ==
  ASSUME TypeOK, NEW n \in Nat
  PROVE  /\ Has(NewIds(n), n)
         /\ \A i \in NewIds(n) : i \notin DOMAIN inst
<1>1. Len(inst) \in Nat /\ DOMAIN inst = 1..Len(inst)
  BY TypeFacts
<1>2. Len(inst) + 1 \in Int /\ Len(inst) + n \in Int
  BY <1>1
<1>3. /\ IsFiniteSet((Len(inst) + 1)..(Len(inst) + n))
      /\ Cardinality((Len(inst) + 1)..(Len(inst) + n))
           = IF Len(inst) + 1 > Len(inst) + n THEN 0 ELSE (Len(inst) + n) - (Len(inst) + 1) + 1
  BY <1>2, FS_Interval
<1>4. Cardinality((Len(inst) + 1)..(Len(inst) + n)) = n
  BY <1>1, <1>3
<1> QED
  BY <1>1, <1>3, <1>4 DEF NewIds, Has

\* What Launch does to the processes and the homes.
LEMMA LaunchKnown ==
  ASSUME TypeOK, NEW p \in Process, NEW n \in Nat, NEW worker \in BOOLEAN,
         NEW o \in Call, NEW keep \in SUBSET DOMAIN inst, NEW status \in ProcessStatus,
         Launch(p, n, worker, o, keep, status)
  PROVE  /\ info'[p].status = status /\ info'[p].instances = keep \cup NewIds(n)
         /\ \A q \in Process : q # p => info'[q] = info[q]
         /\ \A i \in DOMAIN inst' :
              inst'[i].home = p \/ (i \in DOMAIN inst /\ inst'[i].home = inst[i].home)
<1>1. /\ info'[p].status = status /\ info'[p].instances = keep \cup NewIds(n)
      /\ \A q \in Process : q # p => info'[q] = info[q]
  BY DEF Launch, TypeOK
<1>2. /\ Len(inst) \in Nat /\ DOMAIN inst = 1..Len(inst)
      /\ inst' \in Seq(Instance) /\ Len(inst') = Len(inst) + n
      /\ \A i \in DOMAIN inst : inst'[i] = inst[i]
      /\ \A j \in 1..n : inst'[Len(inst) + j] = NewInstance(p, Len(child) + j)
  BY TypeFacts, LaunchEffect
<1>3. ASSUME NEW i \in DOMAIN inst', i \notin DOMAIN inst PROVE inst'[i].home = p
  <2>1. i - Len(inst) \in 1..n /\ i = Len(inst) + (i - Len(inst))
    BY <1>2, <1>3, LenProperties
  <2>2. PICK j \in 1..n : i = Len(inst) + j
    BY <2>1
  <2>3. inst'[i] = NewInstance(p, Len(child) + j)
    BY <1>2, <2>2
  <2> QED
    BY <2>3 DEF NewInstance
<1> QED
  BY <1>1, <1>2, <1>3

\* A step of caller o on process p, which no other caller is at work on.
LEMMA CountOne ==
  ASSUME TypeOK, CountInv, Serial, Serial',
         NEW o \in Client, NEW p \in Process, NEW x,
         calls[o].kind = "reload" => calls[o].proc = p, calls[o].proc = p \/ x.proc = p,
         calls' = [calls EXCEPT ![o] = x], x.phase # "idle" => x.proc = p,
         x.kind = "reload"
           <=> x.phase \in {"spawning", "settling", "retiring", "pausing"},
         \A q \in Process : q # p => info'[q] = info[q],
         \A i \in DOMAIN inst' :
           inst'[i].home = p \/ (i \in DOMAIN inst /\ inst'[i].home = inst[i].home),
         processes' \subseteq processes \cup {p},
         Known(p)', ReloadCount(o)', ProcessCount(p)'
  PROVE  CountInv'
<1>1. /\ processes \subseteq Process
      /\ \A i \in DOMAIN inst : inst[i].home \in Process
      /\ \A c \in Call : calls[c].phase # "idle" => calls[c].proc \in Process
  BY TypeFacts DEF TypeOK, Instance
<1>2. \A q \in Process : Known(q) => Known(q)'
  BY DEF Known
<1>3. o \in Call /\ calls'[o] = x /\ \A c \in Call : c # o => calls'[c] = calls[c]
  BY DEF TypeOK, Call
<1>4. KnownInv'
  <2>1. \A q \in processes' : Known(q)'
    BY <1>1, <1>2 DEF CountInv, KnownInv
  <2>2. \A i \in DOMAIN inst' : Known(inst[i].home)'
    <3> TAKE i \in DOMAIN inst'
    <3>1. CASE inst'[i].home = p
      BY <3>1 DEF Known
    <3>2. CASE i \in DOMAIN inst /\ inst'[i].home = inst[i].home
      <4>1. inst[i].home \in Process /\ Known(inst[i].home)
        BY <1>1, <3>2 DEF CountInv, KnownInv
      <4> QED
        BY <1>2, <3>2, <4>1 DEF Known
    <3> QED
      BY <3>1, <3>2
  <2>3. ASSUME NEW c \in Call
        PROVE  /\ calls'[c].phase # "idle" => Known(calls[c].proc)'
               /\ calls'[c].kind = "reload"
                    <=> calls'[c].phase \in {"spawning", "settling", "retiring", "pausing"}
               /\ c \in Process => calls'[c].kind \in {"none", "stop"}
    <3>1. CASE c = o
      <4>1. o \notin Process
        BY SlotAssumption
      <4> QED
        BY <1>3, <3>1, <4>1 DEF Known
    <3>2. CASE c # o
      <4>1. /\ calls[c].phase # "idle" => calls[c].proc \in Process /\ Known(calls[c].proc)
            /\ calls[c].kind = "reload"
                 <=> calls[c].phase \in {"spawning", "settling", "retiring", "pausing"}
            /\ c \in Process => calls[c].kind \in {"none", "stop"}
        BY <1>1 DEF CountInv, KnownInv
      <4>2. calls'[c] = calls[c]
        BY <1>3, <3>2
      <4> QED
        BY <1>2, <4>1, <4>2 DEF Known
    <3> QED
      BY <3>1, <3>2
  <2> QED
    BY <2>1, <2>2, <2>3 DEF KnownInv, Known
<1>5. ASSUME NEW c \in Client PROVE ReloadCount(c)'
  <2>1. CASE c = o
    BY <2>1
  <2>2. CASE c # o
    <3>1. calls'[c] = calls[c] /\ c \in Call
      BY <1>3, <2>2 DEF Call
    <3>2. calls[c].proc # p
      BY <1>3, <2>2, <3>1 DEF Serial
    <3>3. CASE calls[c].phase = "idle"
      BY <3>1, <3>3 DEF ReloadCount
    <3>4. CASE calls[c].phase # "idle"
      <4>1. info'[calls[c].proc] = info[calls[c].proc]
        BY <1>1, <3>1, <3>2, <3>4
      <4>2. ReloadCount(c)
        BY DEF CountInv
      <4> QED
        BY <3>1, <4>1, <4>2 DEF ReloadCount, Has
    <3> QED
      BY <3>3, <3>4
  <2> QED
    BY <2>1, <2>2
<1>6. ASSUME NEW q \in Process PROVE ProcessCount(q)'
  <2>1. CASE q = p
    BY <2>1
  <2>2. CASE q # p
    <3>1. info'[q] = info[q]
      BY <2>2
    <3>2. ASSUME \A c \in Client : calls'[c].kind = "reload" => calls'[c].proc # q
          PROVE  \A c \in Client : calls[c].kind = "reload" => calls[c].proc # q
      BY <1>3, <2>2, <3>2 DEF Call
    <3>3. ProcessCount(q)
      BY DEF CountInv
    <3> QED
      BY <3>1, <3>2, <3>3 DEF ProcessCount, Known
  <2> QED
    BY <2>1, <2>2
<1> QED
  BY <1>4, <1>5, <1>6 DEF CountInv

\* Starting all instances of a process that is not being reloaded.
LEMMA LaunchAllCount ==
  ASSUME TypeOK, CountInv, Serial, Serial',
         NEW o \in Client, NEW p \in Process, LaunchAll(p, o), NEW x,
         calls[o].kind # "reload", calls' = [calls EXCEPT ![o] = x],
         x.kind # "reload", x.phase = "starting", x.proc = p,
         processes' \subseteq processes \cup {p}
  PROVE  CountInv'
<1>1. Count[p] \in Nat /\ o \in Call
  BY ConfigAssumption DEF Call
<1>2. {} \in SUBSET DOMAIN inst /\ "starting" \in ProcessStatus
  BY DEF ProcessStatus
<1>2a. (p \in Clustered /\ Count[p] > 1) \in BOOLEAN
  OBVIOUS
<1>2b. Launch(p, Count[p], p \in Clustered /\ Count[p] > 1, o, {}, "starting")
  BY DEF LaunchAll
<1>3. /\ \A q \in Process : q # p => info'[q] = info[q]
      /\ \A i \in DOMAIN inst' :
           inst'[i].home = p \/ (i \in DOMAIN inst /\ inst'[i].home = inst[i].home)
  BY <1>1, <1>2, <1>2a, <1>2b, LaunchKnown
<1>3a. info'[p] = [status |-> "starting", instances |-> {} \cup NewIds(Count[p])]
  BY <1>2b DEF Launch, TypeOK
<1>4. info'[p].instances = NewIds(Count[p])
  BY <1>3a
<1>5. Has(NewIds(Count[p]), Count[p])
  BY <1>1, NewIdsFresh
<1>6. ProcessCount(p)'
  <2>1. Has(info'[p].instances, Count[p])
    BY <1>4, <1>5
  <2> QED
    BY <2>1 DEF ProcessCount, Has
<1>7. calls'[o] = x
  BY <1>1 DEF TypeOK
<1>8. ReloadCount(o)'
  BY <1>7 DEF ReloadCount
<1>9. Known(p)'
  BY <1>3a DEF Known
<1> QED
  BY <1>3, <1>6, <1>8, <1>9, CountOne

\* Each way gracefulReload goes on.
LEMMA ReloadStepCount ==
  ASSUME TypeOK, CountInv, Serial, Serial',
         NEW o \in Client, NEW p \in Process, NEW todo \in 0..Count[p],
         NEW old \in SUBSET DOMAIN inst, NEW status \in ProcessStatus, status # "none",
         Known(p), calls[o].proc = p \/ (calls[o].kind # "reload" /\ todo > 0),
         Has(info[p].instances \ old, Count[p] - todo),
         ReloadStep(o, p, todo, old, status), processes' = processes
  PROVE  CountInv'
<1> DEFINE next(ph) == [NewCall("reload", p, ph) EXCEPT !.todo = todo, !.old = old]
           T == info[p].instances
<1>1. /\ Count[p] \in Nat \ {0} /\ o \in Call /\ T \in SUBSET DOMAIN inst
      /\ \A x : calls' = [calls EXCEPT ![o] = x] => calls'[o] = x
  BY ConfigAssumption DEF TypeOK, Call
<1>2. ASSUME NEW ph
      PROVE  /\ next(ph).kind = "reload" /\ next(ph).proc = p /\ next(ph).phase = ph
             /\ next(ph).todo = todo /\ next(ph).old = old
  BY DEF NewCall, NoCall
<1>3. \/ /\ todo > 0
         /\ Launch(p, 1, TRUE, o, T, status)
         /\ calls' = [calls EXCEPT ![o] = next("spawning")]
      \/ /\ todo = 0 /\ old # {}
         /\ calls' = [calls EXCEPT ![o] = next("retiring")]
         /\ UNCHANGED <<info, inst, child>>
      \/ /\ todo = 0 /\ old = {}
         /\ info' = [info EXCEPT ![p].status = "running"]
         /\ calls' = [calls EXCEPT ![o] = NoCall]
         /\ UNCHANGED <<inst, child>>
  BY DEF ReloadStep
<1>4. /\ processes' \subseteq processes \cup {p}
      /\ calls[o].kind = "reload" => calls[o].proc = p
      /\ todo = 0 => calls[o].proc = p
  OBVIOUS
<1>. HIDE DEF next
<1>5. CASE todo > 0 /\ Launch(p, 1, TRUE, o, T, status)
           /\ calls' = [calls EXCEPT ![o] = next("spawning")]
  <2>1. /\ info'[p].status = status /\ info'[p].instances = T \cup NewIds(1)
        /\ \A q \in Process : q # p => info'[q] = info[q]
        /\ \A i \in DOMAIN inst' :
             inst'[i].home = p \/ (i \in DOMAIN inst /\ inst'[i].home = inst[i].home)
    <3>1. 1 \in Nat /\ TRUE \in BOOLEAN
      OBVIOUS
    <3>. HIDE DEF T
    <3> QED
      BY <1>1, <1>5, <3>1, LaunchKnown
  <2>2. Known(p)'
    BY <2>1 DEF Known
  <2>3. Has(info'[p].instances \ old, Count[p] - todo + 1)
    <3> DEFINE i == Len(inst) + 1
    <3>1. NewIds(1) = {i} /\ i \notin DOMAIN inst
      BY TypeFacts DEF NewIds
    <3>2. info'[p].instances \ old = (T \ old) \cup {i} /\ i \notin T \ old
      BY <1>1, <2>1, <3>1
    <3>3. /\ IsFiniteSet((T \ old) \cup {i})
          /\ Cardinality((T \ old) \cup {i}) = Cardinality(T \ old) + 1
      BY <3>2, FS_AddElement DEF Has
    <3> QED
      BY <3>2, <3>3 DEF Has
  <2>4. calls'[o] = next("spawning")
    BY <1>1, <1>5
  <2>5. todo \in 1..Count[p]
    BY <1>1, <1>5
  <2>6. ReloadCount(o)'
    <3>1. /\ calls'[o].phase = "spawning" /\ calls'[o].proc = p
          /\ calls'[o].todo = todo /\ calls'[o].old = old
      BY <1>2, <2>4
    <3> QED
      BY <2>3, <2>5, <3>1 DEF ReloadCount, Has
  <2>7. ProcessCount(p)'
    <3>1. calls'[o].kind = "reload" /\ calls'[o].proc = p
      BY <1>2, <2>4
    <3> QED
      BY <3>1 DEF ProcessCount
  <2>8. /\ next("spawning").phase # "idle" => next("spawning").proc = p
        /\ calls[o].proc = p \/ next("spawning").proc = p
        /\ next("spawning").kind = "reload"
             <=> next("spawning").phase \in {"spawning", "settling", "retiring", "pausing"}
    BY <1>2
  <2> QED
    BY <1>4, <1>5, <2>1, <2>2, <2>6, <2>7, <2>8, CountOne
<1>6. CASE todo = 0 /\ old # {} /\ calls' = [calls EXCEPT ![o] = next("retiring")]
           /\ UNCHANGED <<info, inst, child>>
  <2>1. calls'[o] = next("retiring")
    BY <1>1, <1>6
  <2>2. Has(info'[p].instances \ old, Count[p])
    BY <1>1, <1>6
  <2>3. ReloadCount(o)'
    <3>1. /\ calls'[o].phase = "retiring" /\ calls'[o].proc = p /\ calls'[o].old = old
      BY <1>2, <2>1
    <3> QED
      BY <1>6, <2>2, <3>1 DEF ReloadCount, Has
  <2>4. ProcessCount(p)'
    <3>1. calls'[o].kind = "reload" /\ calls'[o].proc = p
      BY <1>2, <2>1
    <3> QED
      BY <3>1 DEF ProcessCount
  <2>5. /\ next("retiring").phase # "idle" => next("retiring").proc = p
        /\ calls[o].proc = p \/ next("retiring").proc = p
        /\ next("retiring").kind = "reload"
             <=> next("retiring").phase \in {"spawning", "settling", "retiring", "pausing"}
    BY <1>2
  <2>6. /\ Known(p)'
        /\ \A q \in Process : q # p => info'[q] = info[q]
        /\ \A i \in DOMAIN inst' :
             inst'[i].home = p \/ (i \in DOMAIN inst /\ inst'[i].home = inst[i].home)
    BY <1>6 DEF Known
  <2> QED
    BY <1>4, <1>6, <2>3, <2>4, <2>5, <2>6, CountOne
<1>7. CASE /\ todo = 0 /\ old = {}
           /\ info' = [info EXCEPT ![p].status = "running"]
           /\ calls' = [calls EXCEPT ![o] = NoCall]
           /\ UNCHANGED <<inst, child>>
  <2>1. calls'[o] = NoCall /\ NoCall.kind = "none" /\ NoCall.phase = "idle"
    BY <1>1, <1>7 DEF NoCall
  <2>2. /\ info'[p].instances = T /\ info'[p].status = "running"
        /\ \A q \in Process : q # p => info'[q] = info[q]
    BY <1>7 DEF TypeOK
  <2>3. Has(T, Count[p])
    <3>1. T \ old = T /\ Count[p] - todo = Count[p]
      BY <1>1, <1>7
    <3> QED
      BY <3>1
  <2>4. ProcessCount(p)'
    BY <2>2, <2>3 DEF ProcessCount, Has
  <2>5. ReloadCount(o)'
    BY <2>1 DEF ReloadCount
  <2>6. /\ Known(p)'
        /\ \A i \in DOMAIN inst' :
             inst'[i].home = p \/ (i \in DOMAIN inst /\ inst'[i].home = inst[i].home)
    BY <1>7, <2>2 DEF Known
  <2>7. /\ NoCall.kind = "reload"
             <=> NoCall.phase \in {"spawning", "settling", "retiring", "pausing"}
        /\ NoCall.phase # "idle" => NoCall.proc = p
        /\ calls[o].proc = p \/ NoCall.proc = p
    BY <1>4, <1>7, <2>1
  <2> QED
    BY <1>4, <1>7, <2>1, <2>2, <2>4, <2>5, <2>6, <2>7, CountOne
<1> QED
  BY <1>3, <1>5, <1>6, <1>7

\* updateProcessStatus never forgets a process.
SameKnown(s, t) == \A q \in Process : t[q].status # "none" <=> s[q].status # "none"

LEMMA UpdateKnows ==
  ASSUME NEW s, NEW p \in Process, s.info \in [Process -> Info],
         s = [inst |-> s.inst, info |-> s.info], s.info[p].status # "none",
         NEW t, t = UpdateProcessStatus(s, p)
  PROVE  SameKnown(s.info, t.info)
<1> DEFINE Some(T) == \E i \in s.info[p].instances : s.inst[i].status \in T
           v == IF Some({"running"}) THEN "running"
                ELSE IF Some({"errored", "crashed"}) THEN "errored"
                ELSE IF Some({"starting"}) THEN "starting" ELSE "stopped"
           f == s.info
           I == s.inst
           g == [f EXCEPT ![p].status = v]
<1>1. v # "none"
  OBVIOUS
<1>2. t = [s EXCEPT !.info[p].status = v]
  BY DEF UpdateProcessStatus
<1>. HIDE DEF v
<1>. HIDE DEF f, I
<1>3. s = [inst |-> I, info |-> f]
  BY DEF f, I
<1>3a. [s EXCEPT !.info[p].status = v] = [inst |-> I, info |-> g]
  BY <1>3
<1>4. t.info = g
  BY <1>2, <1>3a
<1>5. f \in [Process -> Info]
  BY DEF f
<1>6. \A q \in Process : g[q].status # "none" <=> f[q].status # "none"
  BY <1>1, <1>5 DEF Info, f
<1>. HIDE DEF g
<1> QED
  BY <1>4, <1>6 DEF SameKnown, f

LEMMA HandleKnows ==
  ASSUME NEW s, Objects(s), NEW i \in DOMAIN s.inst,
         NEW ok \in BOOLEAN, NEW long \in BOOLEAN,
         s.info[s.inst[i].home].status # "none",
         NEW t, t = HandleInstanceExit(s, i, ok, long)
  PROVE  SameKnown(s.info, t.info)
<1> DEFINE h == Handled(s, i, ok, long)
           p == s.inst[i].home
           u == [inst |-> [s.inst EXCEPT ![i] = h], info |-> s.info]
<1>1. s.inst[i] \in Instance
  BY LenProperties, ElementOfSeq DEF Objects
<1>2. p \in Process
  BY <1>1 DEF Instance
<1>3. t = UpdateProcessStatus([s EXCEPT !.inst[i] = h], p)
  BY DEF HandleInstanceExit, Handled
<1>4. [s EXCEPT !.inst[i] = h] = u
  <2>1. PICK I, f : I = s.inst /\ f = s.info
    OBVIOUS
  <2>2. s = [inst |-> I, info |-> f]
    BY <2>1 DEF Objects
  <2>. HIDE DEF h
  <2>3. [s EXCEPT !.inst[i] = h] = [inst |-> [I EXCEPT ![i] = h], info |-> f]
    BY <2>2
  <2> QED
    BY <2>1, <2>3
<1>5. /\ u.info \in [Process -> Info] /\ u.info = s.info
      /\ u = [inst |-> u.inst, info |-> u.info]
      /\ u.info[p].status # "none"
  BY DEF Objects
<1>. HIDE DEF u, p, h
<1>6. t = UpdateProcessStatus(u, p)
  BY <1>3, <1>4
<1>7. SameKnown(u.info, t.info)
  BY <1>2, <1>5, <1>6, UpdateKnows
<1> QED
  BY <1>5, <1>7

\* Whatever the listeners of an exit do, the process stays known.
LEMMA ExitKnows ==
  ASSUME TypeOK, NEW c \in DOMAIN child, NEW ok \in BOOLEAN, NEW long \in BOOLEAN,
         Exit(c, ok, long), Known(inst[child[c].owner].home)
  PROVE  SameKnown(info, info')
<1> DEFINE i == child[c].owner
           h == Handled(Now, i, ok, long)
           s1 == HandleInstanceExit(Now, i, ok, long)
           s2 == IF ResolvedBy(c) = {} THEN s1 ELSE Cleanup(s1, i)
           s3 == HandleWorkerExit(s2, c, ok, long)
<1>1. /\ i \in DOMAIN inst /\ inst[i] \in Instance
      /\ Objects(Now) /\ Now.inst = inst /\ Now.info = info
  BY TypeFacts DEF TypeOK
<1>2. h.home = inst[i].home
  BY <1>1, HandledChild
<1>3. info' = s3.info
  BY DEF Exit
<1>4. s1 = HandleInstanceExit(Now, i, ok, long)
  OBVIOUS
<1>5. s2 = IF ResolvedBy(c) = {} THEN s1 ELSE Cleanup(s1, i)
  OBVIOUS
<1>6. s3 = HandleInstanceExit(s2, i, ok, long) \/ s3 = s2
  BY DEF HandleWorkerExit
<1>7. Known(inst[i].home) /\ inst[i].home \in Process
  BY <1>1 DEF Instance
<1>. HIDE DEF h, s1, s2, s3, i
<1>8. h \in Instance /\ Objects(s1) /\ Changed(Now, s1, i, h)
  BY <1>1, <1>4, HandleInstanceExitEffect DEF h
<1>9. /\ DOMAIN s1.inst = DOMAIN inst /\ s1.inst[i] = h
  BY <1>1, <1>8, ChangedType
<1>10. SameKnown(info, s1.info)
  <2>1. Now.info[Now.inst[i].home].status # "none"
    BY <1>1, <1>7 DEF Known
  <2>2. SameKnown(Now.info, s1.info)
    BY <1>1, <1>4, <2>1, HandleKnows
  <2> QED
    BY <1>1, <2>2
<1>11. /\ Objects(s2) /\ DOMAIN s2.inst = DOMAIN inst /\ s2.inst[i].home = inst[i].home
       /\ s2.info = s1.info
  <2>1. CASE ResolvedBy(c) = {}
    BY <1>2, <1>5, <1>8, <1>9, <2>1
  <2>2. CASE ResolvedBy(c) # {}
    <3> DEFINE k == [s1.inst[i] EXCEPT !.child = 0, !.status = "stopped"]
    <3>1. s2 = Cleanup(s1, i)
      BY <1>5, <2>2
    <3>2. k \in Instance /\ Objects(s2) /\ Changed(s1, s2, i, k)
      BY <1>1, <1>8, <1>9, <3>1, CleanupEffect
    <3>3. k.home = h.home
      BY <1>8, <1>9 DEF Instance
    <3>. HIDE DEF k
    <3>4. /\ DOMAIN s2.inst = DOMAIN s1.inst
          /\ \A j \in DOMAIN s1.inst : s2.inst[j] = IF j = i THEN k ELSE s1.inst[j]
      BY <1>1, <1>8, <1>9, <3>2, ChangedType
    <3>5. s2.info = s1.info
      BY <1>8, <3>1 DEF Cleanup, Objects
    <3> QED
      BY <1>1, <1>2, <1>9, <3>2, <3>3, <3>4, <3>5
  <2> QED
    BY <2>1, <2>2
<1>12. CASE s3 = s2
  BY <1>3, <1>10, <1>11, <1>12
<1>13. CASE s3 = HandleInstanceExit(s2, i, ok, long)
  <2>1. s2.info[s2.inst[i].home].status # "none"
    BY <1>7, <1>10, <1>11 DEF SameKnown, Known
  <2>2. SameKnown(s2.info, s3.info)
    BY <1>1, <1>11, <1>13, <2>1, HandleKnows
  <2> QED
    BY <1>3, <1>10, <1>11, <2>2 DEF SameKnown
<1> QED
  BY <1>6, <1>12, <1>13

\* A rejected start promise resumes a call where it is, or marks an instance.
LEMMA RejectCount ==
  ASSUME TypeOK, CountInv, NEW c \in DOMAIN child, Reject(c), UNCHANGED processes
  PROVE  CountInv'
<1> DEFINE i == child[c].owner
           w == child[c].waiter
           x == [inst[i] EXCEPT !.status = "errored"]
           u == [inst |-> [inst EXCEPT ![i] = x], info |-> info]
           s == UpdateProcessStatus(u, inst[i].home)
           y == IF w = "restart" THEN x ELSE inst[i]
<1>1. i \in DOMAIN inst /\ inst[i] \in Instance
  BY TypeFacts DEF TypeOK
<1>2. inst[i].home \in Process /\ y.home = inst[i].home
  BY <1>1 DEF Instance
<1>3. y \in Instance /\ inst' = [inst EXCEPT ![i] = y]
      /\ \A q \in Process : info'[q].instances = info[q].instances
  BY RejectEffect
<1>. HIDE DEF y
<1>4. SameHomes
  BY <1>1, <1>2, <1>3, InstUpdate DEF SameHomes
<1>5. [Now EXCEPT !.inst[i].status = "errored"] = u
  BY DEF Now
<1>6. info' = IF w = "restart" THEN s.info ELSE info
  BY <1>5 DEF Reject
<1>7. /\ u.info \in [Process -> Info] /\ u.info = info
      /\ u = [inst |-> u.inst, info |-> u.info]
      /\ u.info[inst[i].home].status # "none"
  BY <1>1 DEF TypeOK, Info, CountInv, KnownInv, Known
<1>8. s = UpdateProcessStatus(u, inst[i].home)
  OBVIOUS
<1>. HIDE DEF u, s
<1>9. SameKnown(info, s.info)
  <2>1. SameKnown(u.info, s.info)
    BY <1>2, <1>7, <1>8, UpdateKnows
  <2> QED
    BY <1>7, <2>1
<1>10. SameProcesses
  <2>1. CASE w = "restart"
    BY <1>3, <1>6, <1>9, <2>1 DEF SameProcesses, SameKnown, Known
  <2>2. CASE w # "restart"
    BY <1>6, <2>2 DEF SameProcesses, Known
  <2> QED
    BY <2>1, <2>2
<1>11. \A o \in Call : SameCall(o)
  <2>1. CASE w \in Call
    <3>1. calls' = [calls EXCEPT ![w] = [calls[w] EXCEPT !.failed = TRUE]]
      BY <2>1 DEF Reject
    <3>2. calls[w] \in CallRecord
      BY <2>1 DEF TypeOK
    <3> DEFINE r == [calls[w] EXCEPT !.failed = TRUE]
    <3>3. /\ r.kind = calls[w].kind /\ r.proc = calls[w].proc /\ r.phase = calls[w].phase
          /\ r.todo = calls[w].todo /\ r.old = calls[w].old
      BY <3>2 DEF CallRecord
    <3>. HIDE DEF r
    <3>4. \A o \in Call : calls'[o] = IF o = w THEN r ELSE calls[o]
      BY <2>1, <3>1 DEF TypeOK, r
    <3> QED
      BY <3>3, <3>4 DEF SameCall
  <2>2. CASE w \notin Call
    BY <2>2 DEF Reject, SameCall
  <2> QED
    BY <2>1, <2>2
<1> QED
  BY <1>4, <1>10, <1>11, CountFrame

\* The synchronous part of stopProcess, on processes no slot of which reloads.
LEMMA BeginStopCount ==
  ASSUME TypeOK, CountInv, NEW D \in SUBSET processes, NEW slot \in [D -> Call],
         NEW kind \in {"stop", "restart"}, NEW force \in BOOLEAN,
         BeginStop(slot, kind, force), processes' = processes,
         \A p \in D : calls[slot[p]].kind # "reload"
                      /\ (slot[p] \in Process => kind = "stop")
  PROVE  CountInv'
<1>1. D \subseteq Process /\ \A p \in D : Known(p)
  BY DEF TypeOK, CountInv, KnownInv
<1>2. SameProcesses
  <2>1. info' = [p \in Process |-> IF p \in D THEN [info[p] EXCEPT !.status = "stopping"]
                                   ELSE info[p]]
    BY DEF BeginStop
  <2>2. \A p \in Process : info[p] \in Info
    BY DEF TypeOK, Info
  <2>3. \A p \in Process : /\ [info[p] EXCEPT !.status = "stopping"].status = "stopping"
                           /\ [info[p] EXCEPT !.status = "stopping"].instances = info[p].instances
    BY <2>2 DEF Info
  <2>4. ASSUME NEW p \in Process
        PROVE  (info'[p].status # "none" <=> info[p].status # "none")
               /\ info'[p].instances = info[p].instances
    <3>1. CASE p \in D
      <4>1. info'[p] = [info[p] EXCEPT !.status = "stopping"]
        BY <2>1, <3>1
      <4> QED
        BY <1>1, <2>3, <3>1, <4>1 DEF Known
    <3>2. CASE p \notin D
      BY <2>1, <3>2
    <3> QED
      BY <3>1, <3>2
  <2> QED
    BY <2>4 DEF SameProcesses, Known
<1>3. SameHomes
  BY DEF BeginStop, SameHomes
<1>4. ASSUME NEW o \in Call PROVE SameCall(o) \/ OtherCall(o)
  <2>1. CASE ~\E p \in D : slot[p] = o
    BY <2>1 DEF BeginStop, SameCall
  <2>2. CASE \E p \in D : slot[p] = o
    <3>1. PICK p \in D : slot[p] = o /\ calls'[o] = NewCall(kind, p, "stopping")
      <4>1. calls'[o] = NewCall(kind, CHOOSE p \in D : slot[p] = o, "stopping")
        BY <2>2 DEF BeginStop
      <4>2. (CHOOSE p \in D : slot[p] = o) \in D /\ slot[CHOOSE p \in D : slot[p] = o] = o
        BY <2>2
      <4> QED
        BY <4>1, <4>2
    <3>2. /\ calls'[o].kind = kind /\ calls'[o].phase = "stopping" /\ calls'[o].proc = p
      BY <3>1 DEF NewCall, NoCall
    <3>3. p \in Process /\ info'[p].status # "none"
      BY <1>1, <1>2, <3>1 DEF SameProcesses, Known
    <3> QED
      BY <3>1, <3>2, <3>3 DEF OtherCall, Known
  <2> QED
    BY <2>1, <2>2
<1> QED
  BY <1>2, <1>3, <1>4, CountFrame

\* The requests.
LEMMA RequestCount ==
  ASSUME TypeOK, CountInv, Serial, Serial', Request
  PROVE  CountInv'
<1>1. NoCall.kind = "none" /\ NoCall.phase = "idle"
  BY DEF NoCall
<1>2. \A p \in processes : p \in Process /\ Known(p)
  BY DEF TypeOK, CountInv, KnownInv
<1>3. ASSUME NEW o \in Client, NEW p \in Process, StartProcess(o, p)
      PROVE  CountInv'
  <2> DEFINE x == NewCall("start", p, "starting")
  <2>1. x.kind = "start" /\ x.phase = "starting" /\ x.proc = p
    BY DEF NewCall, NoCall
  <2>2. LaunchAll(p, o) /\ calls' = [calls EXCEPT ![o] = x] /\ calls[o].kind # "reload"
        /\ processes' \subseteq processes \cup {p}
    BY <1>1, <1>3 DEF StartProcess
  <2>. HIDE DEF x
  <2> QED
    BY <2>1, <2>2, LaunchAllCount
<1>4. ASSUME NEW o \in Client, NEW p \in Process, NEW kind \in {"stop", "restart"},
             NEW force \in BOOLEAN, calls[o] = NoCall, p \in processes,
             BeginStop([q \in {p} |-> o], kind, force), processes' = processes
      PROVE  CountInv'
  <2> DEFINE slot == [q \in {p} |-> o]
  <2>1. slot \in [{p} -> Call] /\ {p} \in SUBSET processes
    BY <1>4 DEF Call
  <2>2. \A q \in {p} : calls[slot[q]].kind # "reload" /\ slot[q] \notin Process
    BY <1>1, <1>4, SlotAssumption
  <2>3. BeginStop(slot, kind, force)
    BY <1>4
  <2>. HIDE DEF slot
  <2> QED
    BY <1>4, <2>1, <2>2, <2>3, BeginStopCount
<1>5. ASSUME NEW o \in Client, NEW p \in Process,
             (\E force \in BOOLEAN : StopProcess(o, p, force)) \/ RestartProcess(o, p)
      PROVE  CountInv'
  <2>1. PICK kind \in {"stop", "restart"}, force \in BOOLEAN :
          BeginStop([q \in {p} |-> o], kind, force)
    BY <1>5 DEF StopProcess, RestartProcess
  <2>2. calls[o] = NoCall /\ p \in processes /\ processes' = processes
    BY <1>5 DEF StopProcess, RestartProcess
  <2> QED
    BY <1>4, <2>1, <2>2
<1>6. ASSUME NEW o \in Client, NEW p \in Process, GracefulReload(o, p)
      PROVE  CountInv'
  <2>1. /\ calls[o] = NoCall /\ p \in processes /\ processes' = processes
        /\ ReloadStep(o, p, Count[p], info[p].instances, "reloading")
    BY <1>6 DEF GracefulReload
  <2>2. /\ Count[p] \in 0..Count[p] /\ info[p].instances \in SUBSET DOMAIN inst
        /\ "reloading" \in ProcessStatus
    BY ConfigAssumption DEF TypeOK, ProcessStatus
  <2>3. Has(info[p].instances \ info[p].instances, Count[p] - Count[p])
    <3>1. info[p].instances \ info[p].instances = {} /\ Count[p] - Count[p] = 0
      BY ConfigAssumption
    <3> QED
      BY <3>1, FS_EmptySet DEF Has
  <2>4. Known(p) /\ calls[o].kind # "reload" /\ Count[p] > 0
    BY <1>1, <1>2, <2>1, ConfigAssumption
  <2> DEFINE T == info[p].instances
             n == Count[p]
             s == "reloading"
  <2>5. /\ ReloadStep(o, p, n, T, s) /\ n \in 0..Count[p] /\ T \in SUBSET DOMAIN inst
        /\ s \in ProcessStatus /\ s # "none" /\ Has(info[p].instances \ T, Count[p] - n)
        /\ n > 0
    BY <2>1, <2>2, <2>3, <2>4
  <2>. HIDE DEF T, n, s
  <2> QED
    BY <2>1, <2>4, <2>5, ReloadStepCount
<1>7. ASSUME NEW p \in Process, DeleteProcess(p)
      PROVE  CountInv'
  <2>1. processes' \subseteq processes /\ UNCHANGED <<info, inst, calls>>
    BY <1>7 DEF DeleteProcess
  <2> QED
    BY <2>1, CountFrame DEF SameProcesses, SameHomes, SameCall, Known
<1>8. ASSUME ReloadAllProcesses
      PROVE  CountInv'
  <2> DEFINE running == {p \in processes : info[p].status = "running"}
  <2>1. running \in SUBSET processes
    OBVIOUS
  <2>2. PICK slot \in [running -> {o \in Client : calls[o] = NoCall}] :
          BeginStop(slot, "restart", FALSE)
    BY <1>8 DEF ReloadAllProcesses
  <2>3. processes' = processes
    BY <1>8 DEF ReloadAllProcesses
  <2>. HIDE DEF running
  <2>4. slot \in [running -> Call]
    BY <2>2 DEF Call
  <2>5. \A p \in running : calls[slot[p]].kind # "reload" /\ slot[p] \notin Process
    BY <1>1, <2>2, SlotAssumption
  <2> QED
    BY <2>1, <2>2, <2>3, <2>4, <2>5, BeginStopCount
<1>9. ASSUME GracefulShutdown
      PROVE  CountInv'
  <2> DEFINE active == {p \in processes : info[p].status \in {"running", "starting"}}
             slot == [p \in active |-> p]
  <2>1. active \in SUBSET processes
    OBVIOUS
  <2>2. BeginStop(slot, "stop", FALSE) /\ processes' = processes
    BY <1>9 DEF GracefulShutdown
  <2>3. slot \in [active -> Call]
    BY <1>2 DEF Call
  <2>4. \A p \in active : calls[slot[p]].kind # "reload"
    <3>1. \A p \in active : slot[p] = p /\ p \in Process /\ p \in Call
      BY <1>2 DEF Call
    <3>2. \A p \in Process : p \in Call /\ calls[p].kind \in {"none", "stop"}
      BY DEF CountInv, KnownInv, Call
    <3> QED
      BY <3>1, <3>2
  <2>. HIDE DEF active, slot
  <2> QED
    BY <2>1, <2>2, <2>3, <2>4, BeginStopCount
<1> QED
  BY <1>3, <1>5, <1>6, <1>7, <1>8, <1>9 DEF Request

\* The continuations of the calls.
LEMMA ContinueCount ==
  ASSUME TypeOK, CountInv, Serial, Serial',
         NEW o \in Call, Continue(o) \/ Pause(o)
  PROVE  CountInv'
<1>1. PICK r : r = calls[o]
  OBVIOUS
<1>2. PICK p \in Process : p = r.proc /\ Known(p)
  <2>1. r.phase # "idle"
    BY <1>1 DEF Continue, Pause, FinishStart, FinishStop, ReloadSpawned, ReloadRetired,
           ReloadSettled, ReloadPaused
  <2> QED
    BY <1>1, <2>1 DEF TypeOK, CountInv, KnownInv
<1>1a. /\ r \in CallRecord /\ r.old \in SUBSET DOMAIN inst
       /\ \A x : calls' = [calls EXCEPT ![o] = x] =>
            calls'[o] = x /\ \A c \in Call : c # o => calls'[c] = calls[c]
  BY <1>1 DEF TypeOK
<1> DEFINE T == info[p].instances
<1>3. /\ r.kind = "reload" <=> r.phase \in {"spawning", "settling", "retiring", "pausing"}
      /\ o \in Process => r.kind \in {"none", "stop"}
      /\ o \in Client \/ o \in Process
  BY <1>1 DEF CountInv, KnownInv, Call
<1>4. info[p] \in Info /\ Count[p] \in Nat \ {0}
  BY <1>1, <1>2, ConfigAssumption DEF TypeOK, Info
<1>5. r.kind = "reload" => o \in Client /\ ReloadCount(o)
  BY <1>1, <1>2, <1>3 DEF CountInv
<1>6. NoCall.kind = "none" /\ NoCall.phase = "idle"
  BY DEF NoCall
<1>7. ASSUME NEW v, v # "none", info' = [info EXCEPT ![p].status = v], inst' = inst,
             calls' = [calls EXCEPT ![o] = NoCall], r.kind # "reload", processes' = processes
      PROVE  CountInv'
  <2>1. SameProcesses
    BY <1>1, <1>2, <1>7 DEF SameProcesses, Known, TypeOK
  <2>2. SameHomes
    BY <1>7 DEF SameHomes
  <2>3. \A c \in Call : SameCall(c) \/ OtherCall(c)
    <3>1. calls'[o] = NoCall /\ \A c \in Call : c # o => calls'[c] = calls[c]
      BY <1>1, <1>1a, <1>2, <1>7
    <3> QED
      BY <1>1, <1>2, <1>6, <1>7, <3>1 DEF SameCall, OtherCall
  <2> QED
    BY <1>7, <2>1, <2>2, <2>3, CountFrame
<1>8. CASE FinishStart(o)
  <2> DEFINE v == IF ~r.failed THEN "running"
                  ELSE IF r.kind = "start" THEN "errored" ELSE info[p].status
  <2>1. /\ info' = [info EXCEPT ![p].status = v] /\ inst' = inst /\ processes' = processes
        /\ calls' = [calls EXCEPT ![o] = NoCall] /\ r.phase = "starting"
    BY <1>1, <1>2, <1>8 DEF FinishStart
  <2>2. v # "none" /\ r.kind # "reload"
    BY <1>1, <1>2, <1>3, <2>1 DEF Known
  <2>. HIDE DEF v
  <2> QED
    BY <1>7, <2>1, <2>2
<1>9. CASE FinishStop(o)
  <2>1. r.phase = "stopping" /\ r.kind # "reload" /\ processes' = processes
    BY <1>1, <1>2, <1>3, <1>9 DEF FinishStop
  <2>2. CASE /\ r.kind = "restart" /\ LaunchAll(p, o)
             /\ calls' = [calls EXCEPT ![o].phase = "starting"]
    <3> DEFINE x == [r EXCEPT !.phase = "starting"]
    <3>1. x.kind = r.kind /\ x.phase = "starting" /\ x.proc = p
      BY <1>1a, <1>2 DEF CallRecord
    <3>2. calls' = [calls EXCEPT ![o] = x] /\ LaunchAll(p, o) /\ o \in Client
          /\ calls[o].kind # "reload"
      BY <1>1, <1>3, <2>1, <2>2
    <3>3. x.kind # "reload" /\ p \in Process /\ processes' \subseteq processes \cup {p}
      BY <1>2, <2>1, <3>1
    <3>. HIDE DEF x
    <3> QED
      BY <3>1, <3>2, <3>3, LaunchAllCount
  <2>3. CASE /\ info' = [info EXCEPT ![p].status = "stopped"] /\ inst' = inst
             /\ calls' = [calls EXCEPT ![o] = NoCall]
    BY <1>7, <2>1, <2>3
  <2> QED
    BY <1>1, <1>2, <1>9, <2>2, <2>3 DEF FinishStop
<1>10. ASSUME NEW n \in 0..Count[p], NEW old \in SUBSET DOMAIN inst, r.kind = "reload",
              ReloadStep(o, p, n, old, info[p].status), processes' = processes,
              Has(T \ old, Count[p] - n)
       PROVE  CountInv'
  <2> DEFINE s == info[p].status
  <2>1. s \in ProcessStatus /\ s # "none"
    BY <1>2, <1>4 DEF Info, Known
  <2>2. o \in Client /\ calls[o].proc = p /\ ReloadStep(o, p, n, old, s)
        /\ Has(info[p].instances \ old, Count[p] - n)
    BY <1>1, <1>2, <1>3, <1>10
  <2>. HIDE DEF s, T
  <2> QED
    BY <1>2, <1>10, <2>1, <2>2, ReloadStepCount
<1>11. ASSUME r.phase \in {"spawning", "settling"}, processes' = processes,
              ReloadStep(o, p, r.todo - 1, r.old, info[p].status)
       PROVE  CountInv'
  <2>1. r.kind = "reload"
    BY <1>3, <1>11
  <2>2. r.todo \in 1..Count[p] /\ Has(T \ r.old, Count[p] - r.todo + 1)
    BY <1>1, <1>2, <1>5, <1>11, <2>1 DEF ReloadCount
  <2>3. r.todo - 1 \in 0..Count[p] /\ Count[p] - (r.todo - 1) = Count[p] - r.todo + 1
    BY <1>4, <2>2
  <2>4. Has(T \ r.old, Count[p] - (r.todo - 1))
    BY <2>2, <2>3
  <2> QED
    BY <1>1, <1>1a, <1>2, <1>10, <1>11, <2>1, <2>3, <2>4
<1>12. CASE ReloadSpawned(o)
  <2>1. r.phase = "spawning" /\ processes' = processes
    BY <1>1, <1>2, <1>12 DEF ReloadSpawned
  <2>2. CASE ReloadStep(o, p, r.todo - 1, r.old, info[p].status)
    BY <1>11, <2>1, <2>2
  <2>3. CASE calls' = [calls EXCEPT ![o].phase = "settling"] /\ UNCHANGED <<info, inst>>
    <3> DEFINE x == [r EXCEPT !.phase = "settling"]
    <3>1. /\ x.kind = r.kind /\ x.phase = "settling" /\ x.proc = p
          /\ x.todo = r.todo /\ x.old = r.old
      BY <1>1a, <1>2 DEF CallRecord
    <3>2. calls' = [calls EXCEPT ![o] = x]
      BY <1>1, <2>3
    <3>3. calls'[o] = x
      BY <1>1, <1>1a, <1>2, <3>2
    <3>4. r.kind = "reload"
      BY <1>3, <2>1
    <3>. HIDE DEF x
    <3>5. ReloadCount(o)'
      BY <1>1, <1>2, <1>5, <2>1, <2>3, <3>1, <3>3, <3>4 DEF ReloadCount, Has
    <3>6. ProcessCount(p)'
      BY <1>1, <1>2, <1>5, <3>1, <3>3, <3>4 DEF ProcessCount
    <3>7. /\ Known(p)' /\ p \in Process /\ processes' \subseteq processes \cup {p}
          /\ \A q \in Process : q # p => info'[q] = info[q]
          /\ \A i \in DOMAIN inst' :
               inst'[i].home = p \/ (i \in DOMAIN inst /\ inst'[i].home = inst[i].home)
      BY <1>1, <1>2, <2>1, <2>3 DEF Known
    <3>8. o \in Client /\ calls[o].proc = p /\ x.proc = p /\ x.kind = "reload"
          /\ x.phase = "settling"
      BY <1>1, <1>2, <1>5, <3>1, <3>4
    <3> QED
      BY <3>2, <3>5, <3>6, <3>7, <3>8, CountOne
  <2> QED
    BY <1>1, <1>2, <1>12, <2>2, <2>3 DEF ReloadSpawned
<1>13. CASE ReloadSettled(o)
  BY <1>1, <1>2, <1>11, <1>13 DEF ReloadSettled
<1>14. CASE ReloadRetired(o)
  <2> DEFINE x == [r EXCEPT !.phase = "pausing"]
             k == Oldest(r.old)
  <2>1. /\ r.phase = "retiring" /\ processes' = processes /\ inst' = inst
        /\ info' = [info EXCEPT ![p].instances = @ \ {k}]
        /\ calls' = [calls EXCEPT ![o] = x]
    BY <1>1, <1>2, <1>14 DEF ReloadRetired
  <2>2. /\ x.kind = r.kind /\ x.phase = "pausing" /\ x.proc = p
        /\ x.todo = r.todo /\ x.old = r.old
    BY <1>1a, <1>2 DEF CallRecord
  <2>3. calls'[o] = x /\ r.kind = "reload"
    BY <1>1, <1>1a, <1>2, <1>3, <2>1
  <2>4. /\ info'[p].instances = T \ {k} /\ info'[p].status = info[p].status
        /\ \A q \in Process : q # p => info'[q] = info[q]
    BY <1>1, <1>2, <2>1 DEF TypeOK
  <2>5. Has(T \ r.old, Count[p])
    BY <1>1, <1>2, <1>5, <2>1, <2>3 DEF ReloadCount
  <2>6. Has((T \ {k}) \ r.old, Count[p])
    <3>1. k \in r.old
      <4>1. r.old # {} /\ r.old \in SUBSET Nat
        BY <1>1, <1>1a, <1>2, <1>5, <2>1, <2>3 DEF ReloadCount, CallRecord
      <4> QED
        BY <4>1, OldestIn
    <3>2. (T \ {k}) \ r.old = T \ r.old
      BY <3>1
    <3> QED
      BY <2>5, <3>2
  <2>. HIDE DEF x
  <2>7. ReloadCount(o)'
    BY <1>1, <1>2, <2>2, <2>3, <2>4, <2>6 DEF ReloadCount, Has
  <2>8. ProcessCount(p)'
    BY <1>1, <1>2, <1>5, <2>2, <2>3 DEF ProcessCount
  <2>9. /\ Known(p)' /\ p \in Process /\ processes' \subseteq processes \cup {p}
        /\ \A q \in Process : q # p => info'[q] = info[q]
        /\ \A i \in DOMAIN inst' :
             inst'[i].home = p \/ (i \in DOMAIN inst /\ inst'[i].home = inst[i].home)
    BY <1>1, <1>2, <2>1, <2>4 DEF Known
  <2>10. o \in Client /\ calls[o].proc = p /\ x.proc = p /\ x.kind = "reload"
         /\ x.phase = "pausing" /\ calls' = [calls EXCEPT ![o] = x]
    BY <1>1, <1>2, <1>5, <2>1, <2>2, <2>3
  <2> QED
    BY <2>7, <2>8, <2>9, <2>10, CountOne
<1>15. CASE ReloadPaused(o)
  <2> DEFINE k == Oldest(r.old)
  <2>1. /\ r.phase = "pausing" /\ processes' = processes
        /\ ReloadStep(o, p, 0, r.old \ {k}, info[p].status)
    BY <1>1, <1>2, <1>15 DEF ReloadPaused
  <2>2. r.kind = "reload"
    BY <1>3, <2>1
  <2>3. Has(T \ r.old, Count[p]) /\ k \notin T
    BY <1>1, <1>2, <1>5, <2>1, <2>2 DEF ReloadCount
  <2>4. T \ (r.old \ {k}) = T \ r.old /\ Count[p] - 0 = Count[p]
    BY <1>4, <2>3
  <2>5. Has(T \ (r.old \ {k}), Count[p] - 0)
    BY <2>3, <2>4
  <2>6. 0 \in 0..Count[p] /\ r.old \ {k} \in SUBSET DOMAIN inst
    BY <1>1, <1>1a, <1>2, <1>4
  <2> QED
    BY <1>10, <2>1, <2>2, <2>5, <2>6
<1> QED
  BY <1>8, <1>9, <1>12, <1>13, <1>14, <1>15 DEF Continue, Pause

\* Every step keeps the number of instances.
LEMMA CountStep ==
  ASSUME TypeOK, CountInv, Serial, Serial', [Next]_vars
  PROVE  CountInv'
<1>1. ASSUME UNCHANGED <<processes, info, calls>>, SameHomes
      PROVE  CountInv'
  BY <1>1, CountFrame DEF SameProcesses, SameCall, Known
<1>2. ASSUME UNCHANGED inst PROVE SameHomes
  BY <1>2 DEF SameHomes
<1>3. CASE Request
  BY <1>3, RequestCount
<1>4. CASE \E o \in Call : Continue(o) \/ Pause(o)
  BY <1>4, ContinueCount
<1>5. ASSUME NEW c \in DOMAIN child, Online(c)
      PROVE  CountInv'
  <2> DEFINE i == child[c].owner
             x == [inst[i] EXCEPT !.status = "running", !.pid = c]
  <2>1. i \in DOMAIN inst /\ inst[i] \in Instance /\ c \in Nat
    BY TypeFacts DEF TypeOK
  <2>2. x \in Instance /\ x.home = inst[i].home
    BY <2>1 DEF Instance, InstanceStatus
  <2>3. inst' = [inst EXCEPT ![i] = x] /\ UNCHANGED <<processes, info, calls>>
    BY <1>5, <2>1 DEF Online
  <2>. HIDE DEF x, i
  <2>4. SameHomes
    BY <2>1, <2>2, <2>3, InstUpdate DEF SameHomes
  <2> QED
    BY <1>1, <2>3, <2>4
<1>6. ASSUME NEW c \in DOMAIN child, SpawnError(c) \/ StartTimeout(c)
      PROVE  CountInv'
  <2>1. \/ Reject(c) /\ UNCHANGED processes
        \/ UNCHANGED <<processes, info, inst, calls>>
    BY <1>6 DEF SpawnError, StartTimeout
  <2> QED
    BY <1>1, <1>2, <2>1, RejectCount
<1>7. ASSUME NEW c \in DOMAIN child, NEW ok \in BOOLEAN, NEW long \in BOOLEAN,
             Exit(c, ok, long)
      PROVE  CountInv'
  <2> DEFINE i == child[c].owner
  <2>1. /\ i \in DOMAIN inst /\ DOMAIN inst' = DOMAIN inst
        /\ inst'[i].home = inst[i].home
        /\ \A j \in DOMAIN inst : j # i => inst'[j] = inst[j]
        /\ \A q \in Process : info'[q].instances = info[q].instances
    BY <1>7, ExitEffect
  <2>2. SameHomes
    BY <2>1 DEF SameHomes
  <2>3. Known(inst[i].home)
    BY <2>1 DEF CountInv, KnownInv
  <2>4. SameKnown(info, info')
    BY <1>7, <2>3, ExitKnows
  <2>5. SameProcesses
    BY <2>1, <2>4 DEF SameProcesses, SameKnown, Known
  <2>6. UNCHANGED <<processes, calls>>
    BY <1>7 DEF Exit
  <2> QED
    BY <2>2, <2>5, <2>6, CountFrame DEF SameCall
<1>8. ASSUME NEW i \in DOMAIN inst, NEW kept \in BOOLEAN, RestartInstance(i, kept)
      PROVE  CountInv'
  <2> DEFINE x == Restarted(inst[i], kept, Len(child) + 1)
  <2>1. /\ DOMAIN inst' = DOMAIN inst
        /\ \A j \in DOMAIN inst : inst'[j] = IF j = i THEN x ELSE inst[j]
        /\ UNCHANGED <<processes, info, calls>>
    BY <1>8, RestartEffect
  <2>2. x.home = inst[i].home
    BY TypeFacts DEF Restarted, Instance
  <2>. HIDE DEF x
  <2> QED
    BY <1>1, <2>1, <2>2 DEF SameHomes
<1>9. ASSUME NEW r \in stops, CleanupTimer(r)
      PROVE  CountInv'
  <2> DEFINE x == [inst[r.inst] EXCEPT !.child = 0, !.status = "stopped"]
             t == Cleanup(Now, r.inst)
  <2>1. r.inst \in DOMAIN inst /\ inst[r.inst] \in Instance /\ Objects(Now) /\ Now.inst = inst
    BY TypeFacts DEF TypeOK
  <2>2. inst' = t.inst /\ UNCHANGED <<processes, info, calls>>
    BY <1>9 DEF CleanupTimer
  <2>3. t = Cleanup(Now, r.inst)
    OBVIOUS
  <2>4. x.home = inst[r.inst].home /\ x = [Now.inst[r.inst] EXCEPT !.child = 0, !.status = "stopped"]
    BY <2>1 DEF Instance
  <2>. HIDE DEF t, x
  <2>5. x \in Instance /\ Changed(Now, t, r.inst, x)
    BY <2>1, <2>3, <2>4, CleanupEffect
  <2>6. inst' = [inst EXCEPT ![r.inst] = x]
    BY <2>1, <2>2, <2>5 DEF Changed
  <2>7. SameHomes
    BY <2>1, <2>4, <2>5, <2>6, InstUpdate DEF SameHomes
  <2> QED
    BY <1>1, <2>2, <2>7
<1>10. CASE FinishShutdown
  <2>1. /\ DOMAIN inst' = DOMAIN inst
        /\ \A i \in DOMAIN inst : inst'[i] = [inst[i] EXCEPT !.held = FALSE]
                                  /\ inst[i] \in Instance
    BY <1>10, FinishShutdownType, TypeFacts
  <2>2. SameHomes
    BY <2>1 DEF SameHomes, Instance
  <2> QED
    BY <1>1, <1>10, <2>2 DEF FinishShutdown
<1>11. CASE UNCHANGED vars \/ \E r \in stops : KillTimer(r)
  BY <1>1, <1>2, <1>11 DEF vars, KillTimer
<1> QED
  BY <1>3, <1>4, <1>5, <1>6, <1>7, <1>8, <1>9, <1>10, <1>11 DEF Next, Restart

\* Nothing has been started.
LEMMA CountInit ==
  ASSUME Init
  PROVE  CountInv
<1>1. \A p \in Process : info[p].status = "none"
  BY DEF Init
<1>2. DOMAIN inst = {} /\ processes = {} /\ Process \subseteq Call /\ Client \subseteq Call
  BY DEF Init, Call
<1>3. \A o \in Call : calls[o].kind = "none" /\ calls[o].phase = "idle"
  BY DEF Init, NoCall
<1> QED
  BY <1>1, <1>2, <1>3 DEF CountInv, KnownInv, ReloadCount, ProcessCount, Known

\* A process on which no call is in flight has exactly the configured number
\* of instances, as long as no two callers are at work on the same process: in
\* a reload some of whose new instances failed, in one that a shutdown
\* overtakes, after every start that failed.
THEOREM SerialComplement == Spec /\ []Serial => []FullComplement
<1>1. Init => TypeOK /\ CountInv
  BY InitType, CountInit
<1>2. TypeOK /\ CountInv /\ Serial /\ Serial' /\ [Next]_vars => (TypeOK /\ CountInv)'
  BY TypeStep, CountStep
<1>3. CountInv => FullComplement
  <2> SUFFICES ASSUME CountInv, NEW p \in Process, info[p].status # "none",
                      \A o \in Call : calls[o].proc # p
               PROVE  Cardinality(info[p].instances) = Count[p]
    BY DEF FullComplement
  <2>1. ProcessCount(p)
    BY DEF CountInv
  <2> QED
    BY <2>1 DEF ProcessCount, Known, Has, Call
<1> QED
  BY <1>1, <1>2, <1>3, PTL DEF Spec

\* With one caller, as in the run, that is the case of itself.
THEOREM OneCallerComplement ==
  ASSUME \A a, b \in Client : a = b
  PROVE  Spec => []FullComplement
<1>1. Serial
  BY DEF Serial
<1> QED
  BY <1>1, SerialComplement, PTL
=============================================================================
