---------------------------- MODULE HealthProofs ----------------------------
(***************************************************************************)
(* The types of MonitoredProcesses and that a check measures each child    *)
(* once at most, for any number of processes and of checks that overlap.   *)
(***************************************************************************)
EXTENDS MonitoredProcesses, FiniteSetTheorems, SequenceTheorems, WellFoundedInduction, TLAPS

Phases ==
  {"none", "launching", "up", "starting", "stuck", "reloading", "replacing", "down"}

Place == Nat \ {0}

\* A check at work, and one whose listener is.
Walking ==
  [stage: {"measuring", "again"}, process: Processes, place: Place, index: Place,
   here: BOOLEAN, alive: BOOLEAN, rest: Seq(Processes),
   measured: SUBSET (Processes \X Place), todo: Seq(Demand)]
Acting == [stage: {"acting", "asked", "restarting"}, todo: Seq(Demand) \ {<<>>}]
Check == {Idle} \cup Walking \cup Acting

DaemonTypes ==
  /\ phase \in [Processes -> Phases] /\ deleted \subseteq Processes
  /\ calls \in [Processes -> SUBSET {"stop", "restart"}]
  /\ halting \in BOOLEAN /\ events \in 0..MaxEvents

InstanceTypes == instances \in [Processes -> Seq(Instance)]

LengthsHold == \A p \in Processes : Len(instances[p]) \in Lengths(p)

MonitorTypes ==
  /\ platform \in Platforms /\ isMonitoring \in BOOLEAN
  /\ monitored \in Seq(Processes) /\ IsInjective(monitored)
  /\ checks \in [Checks -> Check]

\* A process has no children before they spawn.
Unspawned == {"none", "launching", "starting"}
SpawnedFirst == \A p \in Processes : phase[p] \in Unspawned => Running(p) = {}

Walks(w) == w.stage \in {"measuring", "again"}

\* What a check has still to walk over is monitored, and not measured yet.
RestAhead(w) ==
  /\ IsInjective(w.rest) /\ ToSet(w.rest) \subseteq ToSet(monitored)
  /\ \A m \in w.measured : m[1] \notin ToSet(w.rest)

\* What it has measured still runs.
MeasuredRun(w) == \A m \in w.measured : m[2] \in Running(m[1])

\* The array it walks over is that of a process that has spawned; the process
\* does not come again, and the children it has measured are up to its place,
\* those before the one it measures.  A reload moves them to the front, and
\* leaves the place.
HereOnce(w) ==
  w.here =>
    /\ w.process \notin ToSet(w.rest)
    /\ phase[w.process] \notin Unspawned
    /\ \A m \in w.measured : m[1] = w.process => m[2] <= w.place
    /\ w.alive =>
         /\ w.index <= w.place
         /\ \A m \in w.measured : m[1] = w.process => m[2] < w.index

AliveRuns(w) == w.alive => w.here /\ w.index \in Running(w.process)

\* A child that is measured again, or a process that is walked over again, is a
\* new one: this is where every check is.
WalkInv(w) == Walks(w) => RestAhead(w) /\ MeasuredRun(w) /\ HereOnce(w) /\ AliveRuns(w)
ChecksWalk == \A c \in Checks : WalkInv(checks[c])

HealthInv ==
  DaemonTypes /\ InstanceTypes /\ MonitorTypes /\ SpawnedFirst /\ ChecksWalk

-----------------------------------------------------------------------------
(* Lists of different processes.                                           *)

LEMMA ListHas ==
  ASSUME NEW S, NEW list \in Seq(S)
  PROVE  /\ ToSet(list) \subseteq S
         /\ \A k \in DOMAIN list : list[k] \in ToSet(list)
         /\ \A p : Contains(list, p) <=> p \in ToSet(list)
  BY DEF ToSet, Contains

LEMMA WithoutIs ==
  ASSUME NEW S, NEW list \in Seq(S), IsInjective(list), NEW p
  PROVE  /\ Without(list, p) \in Seq(S) /\ IsInjective(Without(list, p))
         /\ ToSet(Without(list, p)) = ToSet(list) \ {p}
<1>1. CASE ~Contains(list, p)
  BY <1>1 DEF Without, Contains, ToSet
<1>2. CASE Contains(list, p)
  <2> DEFINE k == CHOOSE i \in DOMAIN list : list[i] = p
             w == Without(list, p)
             n == Len(list)
  <2>1. k \in 1..n /\ list[k] = p /\ n \in Nat
    BY <1>2 DEF Contains
  <2>2. w = SubSeq(list, 1, k - 1) \o SubSeq(list, k + 1, n)
    BY <1>2 DEF Without, RemoveAt
  <2> HIDE DEF w, k, n
  <2>3. /\ SubSeq(list, 1, k - 1) \in Seq(S) /\ Len(SubSeq(list, 1, k - 1)) = k - 1
        /\ \A i \in 1..k - 1 : SubSeq(list, 1, k - 1)[i] = list[i]
    BY <2>1 DEF n
  <2>4. /\ SubSeq(list, k + 1, n) \in Seq(S) /\ Len(SubSeq(list, k + 1, n)) = n - k
        /\ \A i \in 1..n - k : SubSeq(list, k + 1, n)[i] = list[i + k]
    BY <2>1 DEF n
  <2>5. /\ w \in Seq(S) /\ Len(w) = n - 1
        /\ \A i \in 1..n - 1 : w[i] = IF i < k THEN list[i] ELSE list[i + 1]
    <3> DEFINE u == SubSeq(list, 1, k - 1)
               v == SubSeq(list, k + 1, n)
    <3>1. u \in Seq(S) /\ v \in Seq(S) /\ w = u \o v /\ Len(u) = k - 1 /\ Len(v) = n - k
      BY <2>2, <2>3, <2>4
    <3>2. /\ \A i \in 1..k - 1 : u[i] = list[i]
          /\ \A i \in 1..n - k : v[i] = list[i + k]
      BY <2>3, <2>4
    <3> HIDE DEF u, v
    <3>3. /\ w \in Seq(S) /\ Len(w) = n - 1
          /\ \A i \in 1..n - 1 : w[i] = IF i <= k - 1 THEN u[i] ELSE v[i - (k - 1)]
      <4>1. w \in Seq(S) /\ Len(w) = Len(u) + Len(v)
        BY <3>1, ConcatProperties
      <4>2. \A i \in 1..Len(u) + Len(v) : w[i] = IF i <= Len(u) THEN u[i] ELSE v[i - Len(u)]
        BY <3>1, ConcatProperties
      <4>3. Len(u) + Len(v) = n - 1 /\ Len(u) = k - 1
        BY <2>1, <3>1
      <4> QED BY <4>1, <4>2, <4>3
    <3>4. ASSUME NEW i \in 1..n - 1 PROVE w[i] = IF i < k THEN list[i] ELSE list[i + 1]
      <4>1. CASE i < k
        BY <2>1, <3>2, <3>3, <4>1
      <4>2. CASE ~(i < k)
        <5>1. i - (k - 1) \in 1..n - k /\ (i - (k - 1)) + k = i + 1 /\ ~(i <= k - 1)
          BY <2>1, <4>2
        <5> QED BY <3>2, <3>3, <4>2, <5>1
      <4> QED BY <4>1, <4>2
    <3> QED BY <3>3, <3>4
  <2>6. IsInjective(w)
    <3> SUFFICES ASSUME NEW a \in 1..n - 1, NEW b \in 1..n - 1, w[a] = w[b] PROVE a = b
      BY <2>5 DEF IsInjective
    <3>1. \A i, j \in 1..n : list[i] = list[j] => i = j
      BY DEF IsInjective, n
    <3>2. (IF a < k THEN a ELSE a + 1) = (IF b < k THEN b ELSE b + 1)
      BY <2>1, <2>5, <3>1
    <3> QED BY <2>1, <3>2
  <2>7. ToSet(w) \subseteq ToSet(list) \ {p}
    <3> SUFFICES ASSUME NEW a \in 1..n - 1 PROVE w[a] \in ToSet(list) \ {p}
      BY <2>5 DEF ToSet
    <3> DEFINE i == IF a < k THEN a ELSE a + 1
    <3>1. i \in 1..n /\ i # k /\ w[a] = list[i]
      BY <2>1, <2>5
    <3> QED BY <2>1, <3>1 DEF IsInjective, ToSet, n
  <2>8. ToSet(list) \ {p} \subseteq ToSet(w)
    <3> SUFFICES ASSUME NEW i \in 1..n, i # k PROVE list[i] \in ToSet(w)
      BY <2>1 DEF ToSet, n
    <3> DEFINE a == IF i < k THEN i ELSE i - 1
    <3>1. a \in 1..n - 1 /\ w[a] = list[i]
      BY <2>1, <2>5
    <3> QED BY <2>5, <3>1 DEF ToSet
  <2> QED BY <2>5, <2>6, <2>7, <2>8 DEF w
<1> QED BY <1>1, <1>2

LEMMA AppendIs ==
  ASSUME NEW S, NEW list \in Seq(S), IsInjective(list), NEW p \in S, ~Contains(list, p)
  PROVE  /\ Append(list, p) \in Seq(S) /\ IsInjective(Append(list, p))
         /\ ToSet(Append(list, p)) = ToSet(list) \cup {p}
<1> DEFINE w == Append(list, p)
           n == Len(list)
<1>1. /\ w \in Seq(S) /\ Len(w) = n + 1 /\ n \in Nat
      /\ w[n + 1] = p /\ \A i \in 1..n : w[i] = list[i]
  OBVIOUS
<1>2. \A i \in 1..n : list[i] # p
  BY DEF Contains
<1> HIDE DEF w, n
<1>3. IsInjective(w)
  <2> SUFFICES ASSUME NEW a \in 1..n + 1, NEW b \in 1..n + 1, w[a] = w[b] PROVE a = b
    BY <1>1 DEF IsInjective
  <2> QED BY <1>1, <1>2 DEF IsInjective, n
<1>4. ToSet(w) = ToSet(list) \cup {p}
  BY <1>1 DEF ToSet, n
<1> QED BY <1>1, <1>3, <1>4 DEF w

LEMMA SuffixIs ==
  ASSUME NEW S, NEW list \in Seq(S), IsInjective(list), NEW k \in DOMAIN list
  PROVE  LET w == SubSeq(list, k + 1, Len(list))
         IN /\ w \in Seq(S) /\ IsInjective(w)
            /\ ToSet(w) \subseteq ToSet(list) /\ list[k] \notin ToSet(w)
<1> DEFINE w == SubSeq(list, k + 1, Len(list))
           n == Len(list)
<1>1. k \in 1..n /\ n \in Nat
  OBVIOUS
<1>2. /\ w \in Seq(S) /\ Len(w) = n - k
      /\ \A i \in 1..n - k : w[i] = list[i + k]
  BY <1>1
<1> HIDE DEF w, n
<1>3. \A i, j \in 1..n : list[i] = list[j] => i = j
  BY DEF IsInjective, n
<1>4. IsInjective(w)
  <2> SUFFICES ASSUME NEW a \in 1..n - k, NEW b \in 1..n - k, w[a] = w[b] PROVE a = b
    BY <1>2 DEF IsInjective
  <2>1. a + k \in 1..n /\ b + k \in 1..n
    BY <1>1
  <2>2. list[a + k] = list[b + k]
    BY <1>2
  <2>3. a + k = b + k
    BY <1>3, <2>1, <2>2
  <2> QED BY <1>1, <2>3
<1>5. ASSUME NEW a \in 1..n - k PROVE w[a] \in ToSet(list) /\ w[a] # list[k]
  <2>1. a + k \in 1..n /\ a + k # k /\ w[a] = list[a + k]
    BY <1>1, <1>2
  <2> QED BY <1>1, <1>3, <2>1 DEF ToSet, n
<1> QED BY <1>2, <1>4, <1>5 DEF ToSet, w, n

\* The first number of a set.
LEMMA MinIs ==
  ASSUME NEW T \in SUBSET Nat, T # {}
  PROVE  Min(T) \in T
<1>1. \E x \in T : \A y \in T : x <= y
  <2> DEFINE R == OpToRel(<, Nat)
  <2>1. IsWellFoundedOn(R, Nat)
    BY NatLessThanWellFounded
  <2>2. \A x, y \in Nat : x < y => <<x, y>> \in R
    BY DEF OpToRel
  <2> HIDE DEF R
  <2>3. PICK x \in T : \A y \in T : <<y, x>> \notin R
    BY <2>1, WFMin
  <2>4. \A y \in T : ~(y < x)
    BY <2>2, <2>3
  <2> QED BY <2>4
<1> QED BY <1>1 DEF Min

-----------------------------------------------------------------------------
(* Where the checks are.                                                   *)

LEMMA RunningIs ==
  ASSUME InstanceTypes, NEW p \in Processes
  PROVE  /\ Running(p) \subseteq Place /\ Running(p) \in SUBSET Nat
         /\ Running(p) \subseteq DOMAIN instances[p]
<1>1. PICK s \in Seq(Instance) : s = instances[p]
  BY DEF InstanceTypes
<1>2. DOMAIN s \subseteq Place
  BY DEF Place
<1> QED BY <1>1, <1>2 DEF Running, Place

LEMMA CheckIs ==
  ASSUME NEW w \in Check
  PROVE  /\ Walks(w) <=> w \in Walking
         /\ w \notin Walking => w = Idle \/ w \in Acting
         /\ w.stage \in {"acting", "asked", "restarting"} => w \in Acting
         /\ w # Idle => w \in Walking \cup Acting
BY DEF Check, Walks, Walking, Acting, Idle

\* The child that a walk comes to, if there is one.
Visits(w, at, measured) ==
  Walks(w) =>
    /\ w.here = TRUE /\ w.alive = TRUE /\ w.measured = measured
    /\ w.index \in Running(w.process) /\ w.place = w.index
    /\ \/ /\ at.here /\ w.process = at.process /\ w.index > at.place
          /\ w.rest = at.rest
       \/ \E k \in DOMAIN at.rest :
            w.process = at.rest[k] /\ w.rest = SubSeq(at.rest, k + 1, Len(at.rest))

\* A check that has come to the child at i of p.
VisitOf(p, i, rest, measured, todo) ==
  [stage |-> "measuring", process |-> p, place |-> i, index |-> i, here |-> TRUE,
   alive |-> TRUE, rest |-> rest, measured |-> measured, todo |-> todo]

ComesTo(w, p, i, rest, measured) ==
  /\ w.here = TRUE /\ w.alive = TRUE /\ w.measured = measured
  /\ w.process = p /\ w.place = i /\ w.index = i /\ w.rest = rest

LEMMA VisitIs ==
  ASSUME NEW p \in Processes, NEW i \in Place, NEW rest \in Seq(Processes),
         NEW measured \in SUBSET (Processes \X Place), NEW todo \in Seq(Demand)
  PROVE  \E w \in Walking :
           w = VisitOf(p, i, rest, measured, todo) /\ ComesTo(w, p, i, rest, measured)
<1> DEFINE w == VisitOf(p, i, rest, measured, todo)
<1>1. w \in Walking
  BY DEF VisitOf, Walking
<1>2. ComesTo(w, p, i, rest, measured)
  BY DEF VisitOf, ComesTo
<1> HIDE DEF w
<1> QED BY <1>1, <1>2 DEF w

LEMMA WalkIs ==
  ASSUME InstanceTypes, NEW at, NEW measured \in SUBSET (Processes \X Place),
         NEW todo \in Seq(Demand),
         at.rest \in Seq(Processes), IsInjective(at.rest), at.here \in BOOLEAN,
         at.here => at.process \in Processes /\ at.place \in Nat
  PROVE  \E w \in Check : w = Walk(at, measured, todo) /\ Visits(w, at, measured)
<1> DEFINE later == IF at.here THEN {i \in Running(at.process) : i > at.place} ELSE {}
           ahead == {k \in DOMAIN at.rest : Running(at.rest[k]) # {}}
           Visit(p, i, rest) == VisitOf(p, i, rest, measured, todo)
<1>2. Walk(at, measured, todo) =
        IF later # {} THEN Visit(at.process, Min(later), at.rest)
        ELSE IF ahead # {}
          THEN Visit(at.rest[Min(ahead)], Min(Running(at.rest[Min(ahead)])),
                     SubSeq(at.rest, Min(ahead) + 1, Len(at.rest)))
        ELSE IF todo # <<>> THEN [stage |-> "acting", todo |-> todo] ELSE Idle
  BY DEF Walk, VisitOf
<1>3. CASE later # {}
  <2>1. later \in SUBSET Nat /\ at.here /\ at.process \in Processes
    BY <1>3, RunningIs
  <2>2. PICK i : i = Min(later)
    OBVIOUS
  <2>3. i \in later
    BY <1>3, <2>1, <2>2, MinIs
  <2>4. i \in Running(at.process) /\ i \in Place /\ i > at.place
    BY <2>1, <2>3, RunningIs
  <2>5. PICK w \in Walking :
          w = Visit(at.process, i, at.rest) /\ ComesTo(w, at.process, i, at.rest, measured)
    BY <2>1, <2>4, VisitIs
  <2>6. w = Walk(at, measured, todo)
    BY <1>2, <1>3, <2>2, <2>5
  <2>7. Visits(w, at, measured)
    BY <2>1, <2>4, <2>5 DEF Visits, ComesTo
  <2> QED BY <2>6, <2>7 DEF Check
<1>4. CASE later = {} /\ ahead # {}
  <2>1. ahead \in SUBSET Nat
    BY DEF ahead
  <2>2. PICK k : k = Min(ahead)
    OBVIOUS
  <2>3. k \in ahead
    BY <1>4, <2>1, <2>2, MinIs
  <2>4. k \in DOMAIN at.rest /\ Running(at.rest[k]) # {}
    BY <2>3
  <2>5. PICK p \in Processes : p = at.rest[k]
    BY <2>4, ElementOfSeq
  <2>6. PICK i : i = Min(Running(p))
    OBVIOUS
  <2>7. i \in Running(p) /\ i \in Place
    BY <2>4, <2>5, <2>6, RunningIs, MinIs
  <2>8. PICK r \in Seq(Processes) : r = SubSeq(at.rest, k + 1, Len(at.rest))
    BY <2>4, SuffixIs
  <2>9. PICK w \in Walking :
          w = Visit(p, i, r) /\ ComesTo(w, p, i, r, measured)
    BY <2>7, VisitIs
  <2>10. w = Walk(at, measured, todo)
    BY <1>2, <1>4, <2>2, <2>5, <2>6, <2>8, <2>9
  <2>11. Visits(w, at, measured)
    BY <2>4, <2>5, <2>7, <2>8, <2>9 DEF Visits, ComesTo
  <2> QED BY <2>10, <2>11 DEF Check
<1>5. CASE later = {} /\ ahead = {} /\ todo # <<>>
  <2>1. [stage |-> "acting", todo |-> todo] \in Acting
    BY <1>5 DEF Acting
  <2>2. ~Walks([stage |-> "acting", todo |-> todo])
    BY DEF Walks
  <2> QED BY <1>2, <1>5, <2>1, <2>2 DEF Check, Visits
<1>6. CASE later = {} /\ ahead = {} /\ todo = <<>>
  <2>1. ~Walks(Idle)
    BY DEF Walks, Idle
  <2>2. Walk(at, measured, todo) = Idle
    BY <1>2, <1>6
  <2> QED BY <2>1, <2>2 DEF Check, Visits
<1> QED BY <1>3, <1>4, <1>5, <1>6

\* What a check has to do next is a child that it has not measured.
LEMMA NextChild ==
  ASSUME InstanceTypes, SpawnedFirst, NEW at, NEW measured \in SUBSET (Processes \X Place),
         NEW todo \in Seq(Demand),
         at.rest \in Seq(Processes), IsInjective(at.rest),
         ToSet(at.rest) \subseteq ToSet(monitored), at.here \in BOOLEAN,
         \A m \in measured : m[2] \in Running(m[1]) /\ m[1] \notin ToSet(at.rest),
         at.here =>
           /\ at.process \in Processes /\ at.place \in Nat
           /\ at.process \notin ToSet(at.rest)
           /\ \A m \in measured : m[1] = at.process => m[2] <= at.place
  PROVE  \E w \in Check : w = Walk(at, measured, todo) /\ WalkInv(w)
<1>1. PICK w \in Check : w = Walk(at, measured, todo) /\ Visits(w, at, measured)
  <2>1. at.here => at.process \in Processes /\ at.place \in Nat
    OBVIOUS
  <2> QED BY <2>1, WalkIs
<1>2. SUFFICES ASSUME Walks(w) PROVE RestAhead(w) /\ HereOnce(w)
  BY <1>1 DEF WalkInv, MeasuredRun, AliveRuns, Visits
<1>3. w \in Walking /\ w.process \in Processes /\ w.index \in Place /\ w.place = w.index
  BY <1>1, <1>2, CheckIs DEF Walking, Visits
<1>4. phase[w.process] \notin Unspawned
  BY <1>1, <1>2, <1>3 DEF SpawnedFirst, Visits
<1>5. CASE /\ at.here /\ w.process = at.process /\ w.index > at.place
           /\ w.rest = at.rest
  <2>1. \A m \in measured : m[1] = w.process => m[2] < w.index
    <3> SUFFICES ASSUME NEW m \in measured, m[1] = w.process PROVE m[2] < w.index
      OBVIOUS
    <3>1. m[2] \in Place /\ m[2] <= at.place
      BY <1>5
    <3> QED BY <1>3, <1>5, <3>1 DEF Place
  <2>2. \A m \in measured : m[1] = w.process => m[2] <= w.place
    BY <1>3, <2>1 DEF Place
  <2> QED BY <1>1, <1>2, <1>3, <1>4, <1>5, <2>1, <2>2 DEF RestAhead, HereOnce, Visits, Place
<1>6. ASSUME NEW k \in DOMAIN at.rest, w.process = at.rest[k],
             w.rest = SubSeq(at.rest, k + 1, Len(at.rest))
      PROVE  RestAhead(w) /\ HereOnce(w)
  <2>1. /\ IsInjective(w.rest) /\ ToSet(w.rest) \subseteq ToSet(at.rest)
        /\ w.process \notin ToSet(w.rest)
    BY <1>6, SuffixIs
  <2>2. w.process \in ToSet(at.rest)
    BY <1>6, ListHas
  <2> QED BY <1>1, <1>2, <1>3, <1>4, <2>1, <2>2 DEF RestAhead, HereOnce, Visits, Place
<1> QED BY <1>1, <1>2, <1>5, <1>6 DEF Visits

\* v is w after a step that moves no check on.
Follows(w, v) ==
  /\ v.process = w.process /\ v.place = w.place /\ v.index = w.index
  /\ v.here => w.here
  /\ v.alive => w.alive /\ v.here
  /\ v.measured \subseteq w.measured
  /\ IsInjective(v.rest)
  /\ \A q \in ToSet(v.rest) : q \in ToSet(w.rest) \/ (q \in Processes /\ phase[q] \in Unspawned)

\* What v says of the next state.
Holds(v) ==
  /\ ToSet(v.rest) \subseteq ToSet(monitored')
  /\ \A m \in v.measured : m[2] \in Running(m[1])'
  /\ v.alive => v.index \in Running(v.process)'
  /\ v.here => phase'[v.process] \notin Unspawned

LEMMA FollowsKeeps ==
  ASSUME SpawnedFirst, NEW w \in Walking, NEW v, WalkInv(w), Follows(w, v), Holds(v)
  PROVE  WalkInv(v)'
<1>1. RestAhead(w) /\ MeasuredRun(w) /\ HereOnce(w) /\ AliveRuns(w)
  BY DEF WalkInv, Walks, Walking
<1>2. ASSUME NEW q \in ToSet(v.rest), q \notin ToSet(w.rest)
      PROVE  phase[q] \in Unspawned /\ \A m \in w.measured : m[1] # q
  BY <1>1, <1>2 DEF Follows, MeasuredRun, SpawnedFirst
<1>3. RestAhead(v)'
  BY <1>1, <1>2 DEF RestAhead, Follows, Holds
<1>4. HereOnce(v)'
  BY <1>1, <1>2 DEF HereOnce, Follows, Holds
<1>5. MeasuredRun(v)' /\ AliveRuns(v)'
  BY DEF MeasuredRun, AliveRuns, Follows, Holds
<1> QED BY <1>3, <1>4, <1>5 DEF WalkInv

\* All checks of the next state.
LEMMA ChecksWalkNext ==
  ASSUME \A c \in Checks : \E v : v = checks'[c] /\ WalkInv(v)'
  PROVE  ChecksWalk'
<1> SUFFICES ASSUME NEW c \in Checks PROVE WalkInv(checks[c])'
  BY DEF ChecksWalk
<1>1. PICK v : v = checks'[c] /\ WalkInv(v)'
  OBVIOUS
<1> QED BY <1>1 DEF WalkInv, Walks, RestAhead, MeasuredRun, HereOnce, AliveRuns

\* The next state of the checks, one by one.
LEMMA ChecksNext ==
  ASSUME \A c \in Checks : \E v \in Check : v = checks'[c] /\ WalkInv(v)',
         checks' = [c \in Checks |-> checks'[c]]
  PROVE  checks' \in [Checks -> Check] /\ ChecksWalk'
<1>1. \A c \in Checks : checks'[c] \in Check
  OBVIOUS
<1>2. checks' \in [Checks -> Check]
  BY <1>1
<1> QED BY <1>2, ChecksWalkNext

\* A check without a walk.
Still == {Idle} \cup Acting

LEMMA StillIs ==
  ASSUME NEW v \in Still
  PROVE  v \in Check /\ WalkInv(v) /\ WalkInv(v)' /\ ~Walks(v)
BY DEF Still, Check, WalkInv, Walks, Idle, Acting

LEMMA CheckWalksOrNot ==
  ASSUME NEW w \in Check
  PROVE  (Walks(w) /\ w \in Walking) \/ (~Walks(w) /\ w \in Still)
BY CheckIs DEF Check, Still

\* A step that leaves the children, the list and the phases to a walk.
Undisturbed ==
  /\ \A p \in Processes : Running(p) \subseteq Running(p)'
  /\ ToSet(monitored) \subseteq ToSet(monitored')
  /\ \A p \in Processes : phase'[p] \in Unspawned => phase[p] \in Unspawned

LEMMA UndisturbedKeeps ==
  ASSUME SpawnedFirst, NEW w \in Check, WalkInv(w), Undisturbed
  PROVE  WalkInv(w)'
<1>1. CASE w \in Still
  BY <1>1, StillIs
<1>2. CASE Walks(w) /\ w \in Walking
  <2>1. RestAhead(w) /\ MeasuredRun(w) /\ HereOnce(w) /\ AliveRuns(w)
    BY <1>2 DEF WalkInv
  <2>2. Follows(w, w)
    BY <2>1 DEF Follows, RestAhead, AliveRuns
  <2>3. w.process \in Processes /\ \A m \in w.measured : m[1] \in Processes
    BY <1>2 DEF Walking
  <2>4. Holds(w)
    BY <2>1, <2>3 DEF Holds, Undisturbed, RestAhead, MeasuredRun, HereOnce, AliveRuns
  <2> QED BY <1>2, <2>2, <2>4, FollowsKeeps
<1> QED BY <1>1, <1>2, CheckWalksOrNot

\* No check changes.
LEMMA ChecksWait ==
  ASSUME SpawnedFirst, MonitorTypes, ChecksWalk, Undisturbed, checks' = checks
  PROVE  checks' \in [Checks -> Check] /\ ChecksWalk'
<1>1. ASSUME NEW c \in Checks PROVE \E v \in Check : v = checks'[c] /\ WalkInv(v)'
  <2>1. PICK w \in Check : w = checks[c]
    BY DEF MonitorTypes
  <2>2. WalkInv(w)
    BY <2>1 DEF ChecksWalk
  <2> QED BY <2>1, <2>2, UndisturbedKeeps
<1>2. checks' = [c \in Checks |-> checks'[c]]
  BY DEF MonitorTypes
<1> QED BY <1>1, <1>2, ChecksNext

\* One check changes.
LEMMA OneCheckMoves ==
  ASSUME SpawnedFirst, MonitorTypes, ChecksWalk, Undisturbed, NEW c \in Checks,
         NEW v \in Check, checks' = [checks EXCEPT ![c] = v], WalkInv(v)
  PROVE  checks' \in [Checks -> Check] /\ ChecksWalk'
<1>1. ASSUME NEW d \in Checks PROVE \E u \in Check : u = checks'[d] /\ WalkInv(u)'
  <2>1. CASE d = c
    BY <2>1, UndisturbedKeeps DEF MonitorTypes
  <2>2. CASE d # c
    <3>1. PICK w \in Check : w = checks[d] /\ w = checks'[d]
      BY <2>2 DEF MonitorTypes
    <3>2. WalkInv(w)
      BY <3>1 DEF ChecksWalk
    <3> QED BY <3>1, <3>2, UndisturbedKeeps
  <2> QED BY <2>1, <2>2
<1>2. checks' = [d \in Checks |-> checks'[d]]
  BY DEF MonitorTypes
<1> QED BY <1>1, <1>2, ChecksNext

-----------------------------------------------------------------------------
(* The children.                                                           *)

LEMMA InstanceChanges ==
  ASSUME InstanceTypes, NEW p \in Processes, NEW i \in DOMAIN instances[p],
         NEW x \in Instance, instances' = [instances EXCEPT ![p][i] = x]
  PROVE  /\ InstanceTypes' /\ Len(instances'[p]) = Len(instances[p])
         /\ \A q \in Processes : q # p => Running(q)' = Running(q)
         /\ \A j : j # i => (j \in Running(p)' <=> j \in Running(p))
         /\ x.running => i \in Running(p)'
<1>1. PICK s \in Seq(Instance) : s = instances[p]
  BY DEF InstanceTypes
<1>2. PICK t : t = [s EXCEPT ![i] = x]
  OBVIOUS
<1>3. t \in Seq(Instance) /\ Len(t) = Len(s) /\ DOMAIN t = DOMAIN s /\ t[i] = x
      /\ \A j \in DOMAIN s : j # i => t[j] = s[j]
  BY <1>1, <1>2, ExceptSeq
<1>4. instances' = [instances EXCEPT ![p] = t]
  BY <1>1, <1>2 DEF InstanceTypes
<1>5. instances'[p] = t /\ \A q \in Processes : q # p => instances'[q] = instances[q]
  BY <1>4 DEF InstanceTypes
<1>6. InstanceTypes'
  BY <1>3, <1>4 DEF InstanceTypes
<1> QED BY <1>1, <1>3, <1>5, <1>6 DEF Running

LEMMA InstancesReplaced ==
  ASSUME InstanceTypes, NEW p \in Processes, NEW list \in [1..Instances[p] -> Instance],
         instances' = [instances EXCEPT ![p] = list]
  PROVE  /\ InstanceTypes'
         /\ \A q \in Processes : q # p => Running(q)' = Running(q)
         /\ Running(p)' = {i \in 1..Instances[p] : list[i].running}
<1>1. Instances[p] \in Nat
  BY LimitAssumption
<1>2. list \in Seq(Instance) /\ Len(list) = Instances[p]
  BY <1>1
<1>3. instances'[p] = list /\ \A q \in Processes : q # p => instances'[q] = instances[q]
  BY DEF InstanceTypes
<1>4. InstanceTypes'
  BY <1>2, <1>3 DEF InstanceTypes
<1> QED BY <1>3, <1>4 DEF Running

LEMMA NotSpawnedIs ==
  ASSUME InstanceTypes, NEW p \in Processes,
         instances' = [instances EXCEPT ![p] = NotSpawned(p)]
  PROVE  /\ InstanceTypes'
         /\ \A q \in Processes : q # p => Running(q)' = Running(q)
         /\ Running(p)' = {}
<1>1. PICK list \in [1..Instances[p] -> Instance] :
        list = NotSpawned(p) /\ \A i \in 1..Instances[p] : ~list[i].running
  <2>1. Off \in Instance
    BY DEF Instance
  <2>2. ~Off.running
    BY DEF Off
  <2>3. NotSpawned(p) \in [1..Instances[p] -> Instance]
    BY <2>1 DEF NotSpawned
  <2>4. \A i \in 1..Instances[p] : ~NotSpawned(p)[i].running
    BY <2>2 DEF NotSpawned
  <2> QED BY <2>3, <2>4
<1> QED BY <1>1, InstancesReplaced

-----------------------------------------------------------------------------
(* What the events of the orchestrator do to the checks.                   *)

LEMMA GoesOnIs ==
  ASSUME NEW todo \in Seq(Demand) \ {<<>>}, NEW how \in {"restarting", "restarted", "aborted"}
  PROVE  GoesOn(todo, how) \in Still
<1>1. Head(todo) \in Demand /\ Tail(todo) \in Seq(Demand)
  OBVIOUS
<1>2. PICK d : d = [Head(todo) EXCEPT !.restarts = 1, !.first = FALSE]
  OBVIOUS
<1>3. d \in Demand
  BY <1>1, <1>2 DEF Demand
<1>4. <<d>> \o Tail(todo) \in Seq(Demand) \ {<<>>}
  <2>1. <<d>> \in Seq(Demand) /\ Len(<<d>>) = 1
    BY <1>3
  <2>2. /\ <<d>> \o Tail(todo) \in Seq(Demand)
        /\ Len(<<d>> \o Tail(todo)) = 1 + Len(Tail(todo))
    BY <1>1, <2>1, ConcatProperties
  <2> QED BY <1>1, <2>2
<1>5. \A rest \in Seq(Demand) \ {<<>>} :
        [stage |-> "acting", todo |-> rest] \in Still /\ [stage |-> "restarting", todo |-> rest] \in Still
  BY DEF Still, Acting
<1>6. Restarted(todo) \in Still
  BY <1>1, <1>2, <1>4, <1>5 DEF Restarted, Still
<1> QED BY <1>5, <1>6 DEF GoesOn, Still

LEMMA ResumedIs ==
  ASSUME MonitorTypes, NEW p, NEW stage \in {"asked", "restarting"},
         NEW how \in {"restarting", "restarted", "aborted"}, NEW current, NEW c \in Checks
  PROVE  /\ Walks(checks[c]) => Resumed(p, stage, current, how)[c] = current[c]
         /\ ~Walks(checks[c]) /\ current[c] \in Still => Resumed(p, stage, current, how)[c] \in Still
<1>1. PICK w \in Check : w = checks[c]
  BY DEF MonitorTypes
<1>2. Resumed(p, stage, current, how)[c] =
        IF w.stage = stage /\ Head(w.todo).process = p THEN GoesOn(w.todo, how) ELSE current[c]
  BY <1>1 DEF Resumed
<1>3. w.stage = stage => w \in Acting
  BY CheckIs
<1>4. w.stage = stage => GoesOn(w.todo, how) \in Still
  BY <1>3, GoesOnIs DEF Acting
<1> QED BY <1>1, <1>2, <1>4 DEF Walks

\* The restarts that no check waits for on the way go on, or fail.
LEMMA ResumedKeeps ==
  ASSUME SpawnedFirst, MonitorTypes, ChecksWalk, Undisturbed, NEW p,
         NEW stage \in {"asked", "restarting"}, NEW how \in {"restarting", "restarted", "aborted"},
         checks' = Resumed(p, stage, checks, how)
  PROVE  checks' \in [Checks -> Check] /\ ChecksWalk'
<1>1. ASSUME NEW c \in Checks PROVE \E v \in Check : v = checks'[c] /\ WalkInv(v)'
  <2>1. PICK w \in Check : w = checks[c]
    BY DEF MonitorTypes
  <2>2. CASE Walks(w)
    BY <2>1, <2>2, ResumedIs, UndisturbedKeeps DEF ChecksWalk
  <2>3. CASE w \in Still
    <3>1. ~Walks(w)
      BY <2>3, StillIs
    <3>2. PICK v \in Still : v = checks'[c]
      BY <2>1, <2>3, <3>1, ResumedIs
    <3> QED BY <3>2, StillIs
  <2> QED BY <2>2, <2>3, CheckWalksOrNot
<1>2. checks' = [c \in Checks |-> checks'[c]]
  BY DEF Resumed
<1> QED BY <1>1, <1>2, ChecksNext

\* What Gone leaves of a check u that was w when the child went.
Leaves(w, u, p, i, replaced, v) ==
  /\ v.process = u.process /\ v.place = u.place /\ v.index = u.index /\ v.rest = u.rest
  /\ v.here <=> u.here /\ ~(w.process = p /\ w.here /\ replaced)
  /\ v.alive <=> u.alive /\ ~(w.process = p /\ w.here /\ w.index = i)
  /\ v.measured = u.measured \ {<<p, i>>}

LEMMA GoneIs ==
  ASSUME NEW p, NEW i, NEW replaced \in BOOLEAN, NEW current, NEW c \in Checks,
         checks[c] \in Check
  PROVE  /\ ~Walks(checks[c]) => Gone(p, i, replaced, current)[c] = current[c]
         /\ Walks(checks[c]) /\ current[c] \in Walking =>
              \E v \in Walking : /\ v = Gone(p, i, replaced, current)[c]
                                 /\ Leaves(checks[c], current[c], p, i, replaced, v)
<1>1. ~Walks(checks[c]) => Gone(p, i, replaced, current)[c] = current[c]
  BY DEF Gone, Walks, Measuring
<1>2. ASSUME Walks(checks[c]), current[c] \in Walking
      PROVE  \E v \in Walking : /\ v = Gone(p, i, replaced, current)[c]
                                /\ Leaves(checks[c], current[c], p, i, replaced, v)
  <2>1. PICK w \in Walking, u \in Walking : w = checks[c] /\ u = current[c]
    BY <1>2, CheckWalksOrNot, StillIs
  <2>2. PICK h \in BOOLEAN : h <=> u.here /\ ~(w.process = p /\ w.here /\ replaced)
    OBVIOUS
  <2>3. PICK a \in BOOLEAN : a <=> u.alive /\ ~(w.process = p /\ w.here /\ w.index = i)
    OBVIOUS
  <2>4. PICK m : m = u.measured \ {<<p, i>>}
    OBVIOUS
  <2>5. PICK v : v = [u EXCEPT !.here = h, !.alive = a, !.measured = m]
    OBVIOUS
  <2>6. v \in Walking
    BY <2>4, <2>5 DEF Walking
  <2>7. /\ v.process = u.process /\ v.place = u.place /\ v.index = u.index /\ v.rest = u.rest
        /\ v.here = h /\ v.alive = a /\ v.measured = m
    BY <2>5 DEF Walking
  <2>8. Leaves(w, u, p, i, replaced, v)
    BY <2>2, <2>3, <2>4, <2>7 DEF Leaves
  <2>9. v = Gone(p, i, replaced, current)[c]
    <3>1. Gone(p, i, replaced, current)[c] =
            [u EXCEPT !.here = u.here /\ ~((w.process = p /\ w.here) /\ replaced),
                      !.alive = u.alive /\ ~((w.process = p /\ w.here) /\ w.index = i),
                      !.measured = u.measured \ {<<p, i>>}]
      BY <1>2, <2>1 DEF Gone, Measuring, Walks, Walking
    <3>2. h = (u.here /\ ~((w.process = p /\ w.here) /\ replaced))
      BY <2>2
    <3>3. a = (u.alive /\ ~((w.process = p /\ w.here) /\ w.index = i))
      BY <2>3
    <3> QED BY <2>4, <2>5, <3>1, <3>2, <3>3
  <2> QED BY <2>1, <2>6, <2>8, <2>9
<1> QED BY <1>1, <1>2

\* A child goes, and perhaps another has its place.
LEMMA GoneKeeps ==
  ASSUME SpawnedFirst, MonitorTypes, ChecksWalk, NEW p \in Processes, NEW i,
         UNCHANGED <<monitored, phase>>, checks' = Gone(p, i, FALSE, checks),
         \A q \in Processes : q # p => Running(q)' = Running(q),
         \A j : j # i => (j \in Running(p)' <=> j \in Running(p))
  PROVE  checks' \in [Checks -> Check] /\ ChecksWalk'
<1>1. ASSUME NEW c \in Checks PROVE \E v \in Check : v = checks'[c] /\ WalkInv(v)'
  <2>1. PICK w \in Check : w = checks[c]
    BY DEF MonitorTypes
  <2>2. CASE w \in Still
    <3>1. ~Walks(checks[c])
      BY <2>1, <2>2, StillIs
    <3>2. checks'[c] = w
      <4>1. Gone(p, i, FALSE, checks)[c] = checks[c]
        BY <3>1 DEF Gone, Walks, Measuring
      <4> QED BY <2>1, <4>1
    <3> QED BY <2>2, <3>2, StillIs
  <2>3. CASE Walks(w) /\ w \in Walking
    <3>1. PICK v \in Walking : v = checks'[c] /\ Leaves(w, w, p, i, FALSE, v)
      BY <2>1, <2>3, GoneIs
    <3>2. RestAhead(w) /\ MeasuredRun(w) /\ HereOnce(w) /\ AliveRuns(w) /\ WalkInv(w)
      BY <2>1, <2>3 DEF WalkInv, ChecksWalk
    <3>3. Follows(w, v)
      BY <3>1, <3>2 DEF Follows, Leaves, RestAhead, AliveRuns
    <3>4. Holds(v)
      <4>1. ToSet(v.rest) \subseteq ToSet(monitored')
        BY <3>1, <3>2 DEF Leaves, RestAhead
      <4>2. ASSUME NEW m \in v.measured PROVE m[2] \in Running(m[1])'
        <5>1. m \in w.measured /\ m # <<p, i>> /\ m \in Processes \X Place
          BY <2>3, <3>1, <4>2 DEF Leaves, Walking
        <5>2. m[1] # p \/ m[2] # i
          BY <5>1
        <5>3. m[2] \in Running(m[1]) /\ m[1] \in Processes
          BY <3>2, <5>1 DEF MeasuredRun
        <5> QED BY <5>2, <5>3
      <4>3. ASSUME v.alive PROVE v.index \in Running(v.process)'
        <5>1. w.alive /\ w.here /\ (w.process # p \/ w.index # i) /\ w.index \in Running(w.process)
          BY <3>1, <3>2, <4>3 DEF Leaves, AliveRuns
        <5>2. w.process \in Processes /\ v.process = w.process /\ v.index = w.index
          BY <2>3, <3>1 DEF Leaves, Walking
        <5> QED BY <5>1, <5>2
      <4>4. v.here => phase'[v.process] \notin Unspawned
        BY <3>1, <3>2 DEF Leaves, HereOnce
      <4> QED BY <4>1, <4>2, <4>3, <4>4 DEF Holds
    <3>5. v \in Check
      BY DEF Check
    <3> QED BY <2>3, <3>1, <3>2, <3>3, <3>4, <3>5, FollowsKeeps
  <2> QED BY <2>2, <2>3, CheckWalksOrNot
<1>2. checks' = [c \in Checks |-> checks'[c]]
  BY DEF Gone
<1> QED BY <1>1, <1>2, ChecksNext

LEMMA MapSetIs ==
  ASSUME MonitorTypes, NEW p \in Processes, monitored' = MapSet(p)
  PROVE  /\ monitored' \in Seq(Processes) /\ IsInjective(monitored')
         /\ ToSet(monitored') = ToSet(monitored) \cup {p}
<1>1. CASE Contains(monitored, p)
  BY <1>1, ListHas DEF MapSet, MonitorTypes
<1>2. CASE ~Contains(monitored, p)
  BY <1>2, AppendIs DEF MapSet, MonitorTypes
<1> QED BY <1>1, <1>2

\* The children of a process spawn: the checks on their way come to it last.
LEMMA AppendsKeeps ==
  ASSUME SpawnedFirst, MonitorTypes, ChecksWalk, NEW p \in Processes, phase[p] \in Unspawned,
         phase' = [phase EXCEPT ![p] = "up"], phase \in [Processes -> Phases],
         \A q \in Processes : q # p => Running(q)' = Running(q),
         monitored' = MapSet(p), NEW current,
         \A c \in Checks : /\ Walks(checks[c]) => current[c] = checks[c]
                           /\ ~Walks(checks[c]) => current[c] \in Still,
         checks' = IterationAppends(p, current)
  PROVE  checks' \in [Checks -> Check] /\ ChecksWalk'
<1>1. "up" \notin Unspawned /\ Running(p) = {}
  BY DEF Unspawned, SpawnedFirst
<1>2. \A q \in Processes : phase'[q] = IF q = p THEN "up" ELSE phase[q]
  OBVIOUS
<1>3. ToSet(monitored') = ToSet(monitored) \cup {p}
  BY MapSetIs
<1>4. Undisturbed
  BY <1>1, <1>2, <1>3 DEF Undisturbed
<1>5. ASSUME NEW c \in Checks PROVE \E v \in Check : v = checks'[c] /\ WalkInv(v)'
  <2>1. PICK w \in Check : w = checks[c] /\ WalkInv(w)
    BY DEF MonitorTypes, ChecksWalk
  <2>2. CASE w \in Still
    <3>1. ~Walks(w)
      BY <2>2, StillIs
    <3>2. checks'[c] = current[c] /\ current[c] \in Still
      BY <2>1, <3>1 DEF IterationAppends, Walks, Measuring
    <3> QED BY <3>2, StillIs
  <2>3. CASE Walks(w) /\ w \in Walking /\ Contains(monitored, p)
    <3>1. checks'[c] = w
      BY <2>1, <2>3 DEF IterationAppends
    <3> QED BY <1>4, <2>1, <3>1, UndisturbedKeeps
  <2>4. CASE Walks(w) /\ w \in Walking /\ ~Contains(monitored, p)
    <3>1. RestAhead(w) /\ MeasuredRun(w) /\ HereOnce(w) /\ AliveRuns(w)
      BY <2>1, <2>4 DEF WalkInv
    <3>2. w.rest \in Seq(Processes) /\ w.process \in Processes
          /\ \A m \in w.measured : m[1] \in Processes
      BY <2>4 DEF Walking
    <3>3. ~Contains(w.rest, p)
      BY <2>4, <3>1, <3>2, ListHas DEF RestAhead, MonitorTypes
    <3>4. PICK r \in Seq(Processes) : r = Append(w.rest, p)
      BY <3>2, AppendProperties
    <3>5. IsInjective(r) /\ ToSet(r) = ToSet(w.rest) \cup {p}
      BY <3>1, <3>2, <3>3, <3>4, AppendIs DEF RestAhead
    <3>6. PICK v : v = [w EXCEPT !.rest = r]
      OBVIOUS
    <3>7. v \in Walking
      BY <2>4, <3>6 DEF Walking
    <3>8. /\ v.process = w.process /\ v.place = w.place /\ v.index = w.index
          /\ v.here = w.here /\ v.alive = w.alive /\ v.measured = w.measured /\ v.rest = r
      BY <2>4, <3>6 DEF Walking
    <3>9. v = checks'[c]
      <4>1. Measuring(c) /\ current[c] = w
        BY <2>1, <2>4 DEF Walks, Measuring
      <4> QED BY <2>4, <3>4, <3>6, <4>1 DEF IterationAppends
    <3>10. Follows(w, v)
      BY <3>1, <3>5, <3>8 DEF Follows, AliveRuns
    <3>11. Holds(v)
      <4>1. ToSet(v.rest) \subseteq ToSet(monitored')
        BY <1>3, <3>1, <3>5, <3>8 DEF RestAhead
      <4>2. \A m \in v.measured : m[2] \in Running(m[1])'
        BY <1>1, <3>1, <3>2, <3>8 DEF MeasuredRun
      <4>3. v.alive => v.index \in Running(v.process)'
        BY <1>1, <3>1, <3>2, <3>8 DEF AliveRuns
      <4>4. v.here => phase'[v.process] \notin Unspawned
        BY <1>1, <1>2, <3>1, <3>2, <3>8 DEF HereOnce
      <4> QED BY <4>1, <4>2, <4>3, <4>4 DEF Holds
    <3>12. v \in Check
      BY <3>7 DEF Check
    <3> QED BY <2>1, <2>4, <3>9, <3>10, <3>11, <3>12, FollowsKeeps
  <2> QED BY <2>2, <2>3, <2>4, CheckWalksOrNot
<1>6. checks' = [c \in Checks |-> checks'[c]]
  BY DEF IterationAppends
<1> QED BY <1>5, <1>6, ChecksNext

\* The checks after the deletion of p from the Map.
Forgotten(p) == IF Contains(monitored, p) THEN IterationForgets(p) ELSE checks

LEMMA ForgottenIs ==
  ASSUME MonitorTypes, NEW p \in Processes, NEW c \in Checks,
         NEW w \in Walking, w = checks[c], RestAhead(w)
  PROVE  \E u \in Walking :
           /\ u = Forgotten(p)[c]
           /\ u.process = w.process /\ u.place = w.place /\ u.index = w.index /\ u.here = w.here /\ u.alive = w.alive
           /\ u.measured = w.measured
           /\ IsInjective(u.rest) /\ ToSet(u.rest) = ToSet(w.rest) \ {p}
<1>1. w.rest \in Seq(Processes) /\ IsInjective(w.rest) /\ ToSet(w.rest) \subseteq ToSet(monitored)
  BY DEF Walking, RestAhead
<1>2. CASE Contains(monitored, p)
  <2>1. PICK r : r = Without(w.rest, p)
    OBVIOUS
  <2>2. r \in Seq(Processes) /\ IsInjective(r) /\ ToSet(r) = ToSet(w.rest) \ {p}
    BY <1>1, <2>1, WithoutIs
  <2>3. PICK u : u = [w EXCEPT !.rest = r]
    OBVIOUS
  <2>4. u \in Walking
    BY <2>2, <2>3 DEF Walking
  <2>5. /\ u.process = w.process /\ u.place = w.place /\ u.index = w.index /\ u.here = w.here /\ u.alive = w.alive
        /\ u.measured = w.measured /\ u.rest = r
    BY <2>3 DEF Walking
  <2>6. u = Forgotten(p)[c]
    <3>1. Measuring(c)
      BY DEF Measuring, Walking
    <3> QED BY <1>2, <2>1, <2>3, <3>1 DEF Forgotten, IterationForgets
  <2> QED BY <2>2, <2>4, <2>5, <2>6
<1>3. CASE ~Contains(monitored, p)
  <2>1. p \notin ToSet(w.rest)
    BY <1>1, <1>3, ListHas DEF MonitorTypes
  <2>2. w = Forgotten(p)[c]
    BY <1>3 DEF Forgotten
  <2> QED BY <1>1, <2>1, <2>2
<1> QED BY <1>2, <1>3

LEMMA ForgottenStill ==
  ASSUME MonitorTypes, NEW p, NEW c \in Checks, ~Walks(checks[c])
  PROVE  Forgotten(p)[c] = checks[c]
BY DEF Forgotten, IterationForgets, Measuring, Walks

\* All children of p have exited, and it is monitored no more.
LEMMA StoppedKeeps ==
  ASSUME SpawnedFirst, MonitorTypes, ChecksWalk, NEW p \in Processes, Running(p) = {},
         \A q \in Processes : q # p => Running(q)' = Running(q) /\ phase'[q] = phase[q],
         monitored' = Without(monitored, p),
         \/ checks' = Gone(p, 0, TRUE, Resumed(p, "asked", Forgotten(p), "restarting"))
         \/ phase'[p] \notin Unspawned /\ checks' = Resumed(p, "asked", Forgotten(p), "aborted")
  PROVE  /\ monitored' \in Seq(Processes) /\ IsInjective(monitored')
         /\ checks' \in [Checks -> Check] /\ ChecksWalk'
<1>1. /\ monitored' \in Seq(Processes) /\ IsInjective(monitored')
      /\ ToSet(monitored') = ToSet(monitored) \ {p}
  BY WithoutIs DEF MonitorTypes
<1>2. ASSUME NEW c \in Checks PROVE \E v \in Check : v = checks'[c] /\ WalkInv(v)'
  <2>1. PICK w \in Check : w = checks[c] /\ WalkInv(w)
    BY DEF MonitorTypes, ChecksWalk
  <2>2. CASE w \in Still
    <3>1. ~Walks(checks[c]) /\ Forgotten(p)[c] = w
      BY <2>1, <2>2, StillIs, ForgottenStill
    <3>2. /\ Resumed(p, "asked", Forgotten(p), "restarting")[c] \in Still
          /\ Resumed(p, "asked", Forgotten(p), "aborted")[c] \in Still
      BY <2>2, <3>1, ResumedIs
    <3>3. Gone(p, 0, TRUE, Resumed(p, "asked", Forgotten(p), "restarting"))[c]
            = Resumed(p, "asked", Forgotten(p), "restarting")[c]
      BY <3>1 DEF Gone, Walks, Measuring
    <3>4. PICK v \in Still : v = checks'[c]
      BY <3>2, <3>3
    <3> QED BY <3>4, StillIs
  <2>3. CASE Walks(w) /\ w \in Walking
    <3>1. RestAhead(w) /\ MeasuredRun(w) /\ HereOnce(w) /\ AliveRuns(w)
      BY <2>1, <2>3 DEF WalkInv
    <3>2. PICK u \in Walking :
            /\ u = Forgotten(p)[c]
            /\ u.process = w.process /\ u.place = w.place /\ u.index = w.index /\ u.here = w.here /\ u.alive = w.alive
            /\ u.measured = w.measured
            /\ IsInjective(u.rest) /\ ToSet(u.rest) = ToSet(w.rest) \ {p}
      BY <2>1, <2>3, <3>1, ForgottenIs
    <3>3. /\ Resumed(p, "asked", Forgotten(p), "restarting")[c] = u
          /\ Resumed(p, "asked", Forgotten(p), "aborted")[c] = u
      BY <2>1, <2>3, <3>2 DEF Resumed, Walks
    <3>4. /\ w.process \in Processes
          /\ \A m \in w.measured : m[1] \in Processes /\ m[1] # p
          /\ w.alive => w.process # p
      BY <2>3, <3>1 DEF Walking, MeasuredRun, AliveRuns
    <3>5. PICK v \in Walking :
            /\ v = checks'[c]
            /\ v.process = w.process /\ v.place = w.place /\ v.index = w.index /\ v.rest = u.rest
            /\ v.here => w.here
            /\ v.alive => w.alive /\ v.here
            /\ v.measured \subseteq w.measured
            /\ v.here => w.process # p \/ phase'[p] \notin Unspawned
      <4>1. CASE checks' = Gone(p, 0, TRUE, Resumed(p, "asked", Forgotten(p), "restarting"))
        <5>1. PICK current : current = Resumed(p, "asked", Forgotten(p), "restarting")
          OBVIOUS
        <5>2. current[c] = u /\ checks'[c] = Gone(p, 0, TRUE, current)[c]
          BY <3>3, <4>1, <5>1
        <5>3. TRUE \in BOOLEAN /\ checks[c] \in Check /\ Walks(checks[c])
          BY <2>1, <2>3
        <5>4. PICK v \in Walking :
                v = Gone(p, 0, TRUE, current)[c] /\ Leaves(checks[c], current[c], p, 0, TRUE, v)
          BY ZenonT(60), <3>2, <5>2, <5>3, GoneIs
        <5>5. v = checks'[c] /\ Leaves(w, u, p, 0, TRUE, v)
          BY <2>1, <5>2, <5>4
        <5> QED BY <3>1, <3>2, <3>4, <5>5 DEF Leaves, AliveRuns
      <4>2. CASE phase'[p] \notin Unspawned /\ checks' = Resumed(p, "asked", Forgotten(p), "aborted")
        BY <3>1, <3>2, <3>3, <4>2 DEF AliveRuns
      <4> QED BY <4>1, <4>2
    <3>6. Follows(w, v)
      BY <3>2, <3>5 DEF Follows
    <3>7. Holds(v)
      <4>1. ToSet(v.rest) \subseteq ToSet(monitored')
        BY <1>1, <3>1, <3>2, <3>5 DEF RestAhead
      <4>2. \A m \in v.measured : m[2] \in Running(m[1])'
        BY <3>1, <3>4, <3>5 DEF MeasuredRun
      <4>3. v.alive => v.index \in Running(v.process)'
        BY <3>1, <3>4, <3>5 DEF AliveRuns
      <4>4. v.here => phase'[v.process] \notin Unspawned
        BY <3>1, <3>4, <3>5 DEF HereOnce
      <4> QED BY <4>1, <4>2, <4>3, <4>4 DEF Holds
    <3>8. v \in Check
      BY DEF Check
    <3> QED BY <2>1, <2>3, <3>5, <3>6, <3>7, <3>8, FollowsKeeps
  <2> QED BY <2>2, <2>3, CheckWalksOrNot
<1>3. checks' = [c \in Checks |-> checks'[c]]
  <2>1. Gone(p, 0, TRUE, Resumed(p, "asked", Forgotten(p), "restarting"))
          = [c \in Checks |-> Gone(p, 0, TRUE, Resumed(p, "asked", Forgotten(p), "restarting"))[c]]
    BY DEF Gone
  <2>2. Resumed(p, "asked", Forgotten(p), "aborted")
          = [c \in Checks |-> Resumed(p, "asked", Forgotten(p), "aborted")[c]]
    BY DEF Resumed
  <2> QED BY <2>1, <2>2
<1> QED BY <1>1, <1>2, <1>3, ChecksNext

-----------------------------------------------------------------------------
(* The steps of the orchestrator.                                          *)

LEMMA SameChildren ==
  ASSUME InstanceTypes, SpawnedFirst, UNCHANGED <<instances, monitored, phase>>
  PROVE  Undisturbed /\ InstanceTypes' /\ SpawnedFirst'
<1>1. \A p \in Processes : Running(p)' = Running(p)
  BY DEF Running
<1> QED BY <1>1 DEF Undisturbed, InstanceTypes, SpawnedFirst

LEMMA StartProcessKeeps ==
  ASSUME HealthInv, NEW p \in Processes, StartProcess(p)
  PROVE  HealthInv'
<1>1. DaemonTypes'
  BY LimitAssumption DEF HealthInv, DaemonTypes, StartProcess, Phases
<1>2. /\ InstanceTypes' /\ Running(p)' = {}
      /\ \A q \in Processes : q # p => Running(q)' = Running(q)
  BY NotSpawnedIs DEF HealthInv, StartProcess
<1>3. phase[p] \in Unspawned /\ \A q \in Processes : q # p => phase'[q] = phase[q]
  BY DEF StartProcess, Unspawned, HealthInv, DaemonTypes
<1>4. SpawnedFirst' /\ Undisturbed
  BY <1>2, <1>3 DEF SpawnedFirst, Undisturbed, HealthInv, StartProcess
<1>5. checks' \in [Checks -> Check] /\ ChecksWalk'
  BY <1>4, ChecksWait DEF HealthInv, StartProcess
<1>6. MonitorTypes'
  BY <1>5 DEF HealthInv, MonitorTypes, StartProcess
<1> QED BY <1>1, <1>2, <1>4, <1>5, <1>6 DEF HealthInv

LEMMA SpawnedKeeps ==
  ASSUME HealthInv, NEW p \in Processes, Spawned(p)
  PROVE  HealthInv'
<1>1. /\ phase[p] \in Unspawned /\ phase' = [phase EXCEPT ![p] = "up"]
      /\ UNCHANGED <<platform, deleted, calls, halting, events>>
  BY DEF Spawned, Unspawned
<1>2. DaemonTypes'
  BY <1>1 DEF HealthInv, DaemonTypes, Phases
<1>3. PICK list \in [1..Instances[p] -> Instance] : instances' = [instances EXCEPT ![p] = list]
  BY DEF Spawned, Instance
<1>4. InstanceTypes' /\ \A q \in Processes : q # p => Running(q)' = Running(q)
  BY <1>3, InstancesReplaced DEF HealthInv
<1>5. SpawnedFirst'
  BY <1>1, <1>4 DEF SpawnedFirst, HealthInv, DaemonTypes, Unspawned
<1>6. /\ monitored' = MapSet(p) /\ isMonitoring' \in BOOLEAN
      /\ \/ checks' = IterationAppends(p, checks)
         \/ checks' = IterationAppends(p, Resumed(p, "restarting", checks, "restarted"))
  BY DEF Spawned, AddProcess, UpdateProcess, HealthInv, MonitorTypes
<1>7. PICK current : /\ checks' = IterationAppends(p, current)
                     /\ current = checks \/ current = Resumed(p, "restarting", checks, "restarted")
  BY <1>6
<1>8. ASSUME NEW c \in Checks
      PROVE  /\ Walks(checks[c]) => current[c] = checks[c]
             /\ ~Walks(checks[c]) => current[c] \in Still
  <2>1. PICK w \in Check : w = checks[c]
    BY DEF HealthInv, MonitorTypes
  <2>2. MonitorTypes
    BY DEF HealthInv
  <2>3. PICK r : r = Resumed(p, "restarting", checks, "restarted")
    OBVIOUS
  <2>4. /\ Walks(checks[c]) => r[c] = checks[c]
        /\ ~Walks(checks[c]) /\ checks[c] \in Still => r[c] \in Still
    BY SMTT(30), <2>2, <2>3, ResumedIs
  <2>5. ~Walks(w) => w \in Still
    BY CheckWalksOrNot
  <2> QED BY <1>7, <2>1, <2>3, <2>4, <2>5
<1>9. checks' \in [Checks -> Check] /\ ChecksWalk'
  BY <1>1, <1>4, <1>6, <1>7, <1>8, AppendsKeeps DEF HealthInv, DaemonTypes
<1>10. MonitorTypes'
  BY <1>1, <1>6, <1>9, MapSetIs DEF HealthInv, MonitorTypes
<1> QED BY <1>2, <1>4, <1>5, <1>9, <1>10 DEF HealthInv

LEMMA SpawnFailsKeeps ==
  ASSUME HealthInv, NEW p \in Processes, SpawnFails(p)
  PROVE  HealthInv'
<1>1. DaemonTypes'
  BY DEF HealthInv, DaemonTypes, SpawnFails, Phases
<1>2. \A q \in Processes : Running(q)' = Running(q)
  BY DEF Running, SpawnFails
<1>3. \A q \in Processes : phase'[q] \in Unspawned => phase[q] \in Unspawned
  BY DEF SpawnFails, Unspawned, HealthInv, DaemonTypes
<1>4. SpawnedFirst' /\ Undisturbed /\ InstanceTypes'
  BY <1>2, <1>3 DEF SpawnedFirst, Undisturbed, HealthInv, SpawnFails, InstanceTypes
<1>5. checks' = Resumed(p, "restarting", checks, "aborted")
  BY DEF SpawnFails
<1>6. checks' \in [Checks -> Check] /\ ChecksWalk'
  BY <1>4, <1>5, ResumedKeeps DEF HealthInv
<1>7. MonitorTypes'
  BY <1>6 DEF HealthInv, MonitorTypes, SpawnFails
<1> QED BY <1>1, <1>4, <1>6, <1>7 DEF HealthInv

LEMMA InstanceExitKeeps ==
  ASSUME HealthInv, NEW p \in Processes, NEW i \in DOMAIN instances[p], InstanceExit(p, i)
  PROVE  HealthInv'
<1>1. Off \in Instance
  BY DEF Instance
<1>2. /\ InstanceTypes'
      /\ \A q \in Processes : q # p => Running(q)' = Running(q)
      /\ \A j : j # i => (j \in Running(p)' <=> j \in Running(p))
  BY <1>1, InstanceChanges DEF HealthInv, InstanceExit
<1>3. i \in Running(p)
  BY DEF Running, InstanceExit
<1>4. UNCHANGED <<platform, monitored, isMonitoring, phase, deleted, calls, halting, events>>
  BY DEF InstanceExit, daemonVars
<1>5. SpawnedFirst'
  BY <1>2, <1>3, <1>4 DEF SpawnedFirst, HealthInv
<1>6. checks' \in [Checks -> Check] /\ ChecksWalk'
  BY <1>2, <1>4, GoneKeeps DEF HealthInv, InstanceExit
<1> QED BY <1>2, <1>4, <1>5, <1>6 DEF HealthInv, MonitorTypes, DaemonTypes

LEMMA NewChild ==
  ASSUME InstanceTypes, NEW p \in Processes, NEW i \in DOMAIN instances[p], InstanceRestarted(p, i)
  PROVE  \E x \in Instance : instances' = [instances EXCEPT ![p][i] = x] /\ x.running
<1>1. PICK usage \in Usage : instances' = [instances EXCEPT ![p][i].usage = usage]
  BY DEF InstanceRestarted
<1>2. PICK x \in Instance : x = [instances[p][i] EXCEPT !.usage = usage] /\ x.running
  <2>1. instances[p][i] \in Instance /\ instances[p][i].running
    <3>1. instances[p] \in Seq(Instance)
      BY DEF InstanceTypes
    <3>2. instances[p][i] \in Instance
      BY <3>1, ElementOfSeq
    <3> QED BY <3>2 DEF InstanceRestarted
  <2>2. instances[p][i] \in [running: {TRUE}, usage: Usage]
    <3>1. ~Off.running
      BY DEF Off
    <3> QED BY <2>1, <3>1 DEF Instance
  <2>3. [instances[p][i] EXCEPT !.usage = usage] \in [running: {TRUE}, usage: Usage]
    BY <2>2
  <2> QED BY <2>3 DEF Instance
<1> QED BY <1>1, <1>2

LEMMA InstanceRestartedKeeps ==
  ASSUME HealthInv, NEW p \in Processes, NEW i \in DOMAIN instances[p], InstanceRestarted(p, i)
  PROVE  HealthInv'
<1>3. PICK x \in Instance : instances' = [instances EXCEPT ![p][i] = x] /\ x.running
  BY NewChild DEF HealthInv
<1>4. /\ InstanceTypes' /\ i \in Running(p)'
      /\ \A q \in Processes : q # p => Running(q)' = Running(q)
      /\ \A j : j # i => (j \in Running(p)' <=> j \in Running(p))
  BY <1>3, InstanceChanges DEF HealthInv
<1>5. i \in Running(p)
  BY DEF Running, InstanceRestarted
<1>6. UNCHANGED <<platform, monitored, isMonitoring, phase, deleted, calls, halting>>
  BY DEF InstanceRestarted
<1>7. SpawnedFirst'
  BY <1>4, <1>5, <1>6 DEF SpawnedFirst, HealthInv
<1>8. checks' \in [Checks -> Check] /\ ChecksWalk'
  BY <1>4, <1>6, GoneKeeps DEF HealthInv, InstanceRestarted
<1>9. events' \in 0..MaxEvents
  BY LimitAssumption DEF HealthInv, DaemonTypes, InstanceRestarted
<1> QED BY <1>4, <1>6, <1>7, <1>8, <1>9 DEF HealthInv, MonitorTypes, DaemonTypes

LEMMA RequestedKeeps ==
  ASSUME HealthInv, NEW p \in Processes, NEW call \in {"stop", "restart"}, Requested(p, call)
  PROVE  HealthInv'
<1>1. UNCHANGED <<platform, instances, monitored, isMonitoring, checks, phase, deleted, halting>>
  BY DEF Requested, monitorVars
<1>2. DaemonTypes'
  BY <1>1, LimitAssumption DEF HealthInv, DaemonTypes, Requested
<1>3. Undisturbed /\ InstanceTypes' /\ SpawnedFirst'
  BY <1>1, SameChildren DEF HealthInv
<1>4. ChecksWalk' /\ MonitorTypes'
  BY <1>1, <1>3, ChecksWait DEF HealthInv, MonitorTypes
<1> QED BY <1>2, <1>3, <1>4 DEF HealthInv

LEMMA ReloadRequestedKeeps ==
  ASSUME HealthInv, NEW p \in Processes, ReloadRequested(p)
  PROVE  HealthInv'
<1>1. /\ UNCHANGED <<platform, instances, monitored, isMonitoring, checks, deleted, calls, halting>>
      /\ phase[p] \notin Unspawned /\ phase' = [phase EXCEPT ![p] = "reloading"]
  BY DEF ReloadRequested, monitorVars, Unspawned
<1>2. DaemonTypes'
  BY <1>1, LimitAssumption DEF HealthInv, DaemonTypes, ReloadRequested, Phases
<1>3. \A q \in Processes : phase'[q] \in Unspawned <=> phase[q] \in Unspawned
  BY <1>1 DEF HealthInv, DaemonTypes, Unspawned
<1>4. InstanceTypes' /\ SpawnedFirst' /\ Undisturbed
  BY <1>1, <1>3 DEF HealthInv, InstanceTypes, SpawnedFirst, Undisturbed, Running
<1>5. ChecksWalk' /\ MonitorTypes'
  BY <1>1, <1>4, ChecksWait DEF HealthInv, MonitorTypes
<1> QED BY <1>2, <1>4, <1>5 DEF HealthInv

LEMMA InstanceAddedKeeps ==
  ASSUME HealthInv, NEW p \in Processes, InstanceAdded(p)
  PROVE  HealthInv'
<1>1. /\ UNCHANGED <<platform, monitored, isMonitoring, checks, deleted, calls, halting, events>>
      /\ phase[p] = "reloading"
      /\ phase' = [phase EXCEPT ![p] =
           IF Len(instances[p]) + 1 = 2 * Instances[p] THEN "replacing" ELSE phase[p]]
  BY DEF InstanceAdded, HealthInv, DaemonTypes
<1>2. DaemonTypes'
  BY <1>1 DEF HealthInv, DaemonTypes, Phases
<1>3. PICK s \in Seq(Instance), child \in Instance :
        s = instances[p] /\ instances' = [instances EXCEPT ![p] = Append(s, child)]
  BY DEF InstanceAdded, HealthInv, InstanceTypes
<1>4. PICK t \in Seq(Instance) :
        t = Append(s, child) /\ Len(t) = Len(s) + 1 /\ \A i \in 1..Len(s) : t[i] = s[i]
  <2>1. PICK t : t = Append(s, child)
    OBVIOUS
  <2>2. t \in Seq(Instance) /\ Len(t) = Len(s) + 1 /\ \A i \in 1..Len(s) : t[i] = s[i]
    BY <2>1, AppendProperties
  <2> QED BY <2>1, <2>2
<1>5. InstanceTypes' /\ instances'[p] = t /\ \A q \in Processes : q # p => instances'[q] = instances[q]
  BY <1>3, <1>4 DEF HealthInv, InstanceTypes
<1>6. \A i \in DOMAIN s : i \in DOMAIN t /\ t[i] = s[i]
  BY <1>4
<1>7. Running(p) \subseteq Running(p)' /\ \A q \in Processes : q # p => Running(q)' = Running(q)
  BY <1>3, <1>5, <1>6 DEF Running
<1>8. \A q \in Processes : phase'[q] \in Unspawned => phase[q] \in Unspawned /\ q # p
  BY <1>1 DEF HealthInv, DaemonTypes, Unspawned
<1>9. SpawnedFirst' /\ Undisturbed
  BY <1>1, <1>7, <1>8 DEF HealthInv, SpawnedFirst, Undisturbed
<1>10. ChecksWalk' /\ MonitorTypes'
  BY <1>1, <1>9, ChecksWait DEF HealthInv, MonitorTypes
<1> QED BY <1>2, <1>5, <1>9, <1>10 DEF HealthInv

\* What MovedUp leaves of a check.
MovesTo(w, p, v) ==
  /\ v.process = w.process /\ v.place = w.place /\ v.rest = w.rest /\ v.here = w.here
  /\ v.alive <=> w.alive /\ ~(w.process = p /\ w.here /\ w.index = 1)
  /\ v.index = IF v.alive /\ w.process = p THEN w.index - 1 ELSE w.index
  /\ v.measured = {IF m[1] = p THEN <<p, m[2] - 1>> ELSE m : m \in w.measured \ {<<p, 1>>}}

LEMMA MovedUpIs ==
  ASSUME NEW p \in Processes, NEW c \in Checks, checks[c] \in Check
  PROVE  /\ ~Walks(checks[c]) => MovedUp(p)[c] = checks[c]
         /\ Walks(checks[c]) /\ WalkInv(checks[c]) =>
              \E v \in Walking : v = MovedUp(p)[c] /\ MovesTo(checks[c], p, v)
<1>1. ASSUME ~Walks(checks[c]) PROVE MovedUp(p)[c] = checks[c]
  <2>1. Gone(p, 1, FALSE, checks)[c] = checks[c]
    BY <1>1 DEF Gone, Measuring, Walks
  <2> QED BY <1>1, <2>1 DEF MovedUp, Measuring, Walks
<1>2. ASSUME Walks(checks[c]), WalkInv(checks[c])
      PROVE  \E v \in Walking : v = MovedUp(p)[c] /\ MovesTo(checks[c], p, v)
  <2>1. PICK w \in Walking : w = checks[c] /\ AliveRuns(w)
    BY <1>2, CheckIs DEF WalkInv
  <2>2. PICK u \in Walking :
          u = Gone(p, 1, FALSE, checks)[c] /\ Leaves(w, w, p, 1, FALSE, u)
    BY <1>2, <2>1, GoneIs
  <2>3. /\ u.process = w.process /\ u.place = w.place /\ u.rest = w.rest /\ u.index = w.index
        /\ u.here = w.here /\ u.measured = w.measured \ {<<p, 1>>}
        /\ u.alive <=> w.alive /\ ~(w.process = p /\ w.here /\ w.index = 1)
    BY <2>2 DEF Leaves, Walking
  <2>4. PICK i : i = IF u.alive /\ u.process = p THEN u.index - 1 ELSE u.index
    OBVIOUS
  <2>5. PICK s : s = {IF m[1] = p THEN <<p, m[2] - 1>> ELSE m : m \in u.measured}
    OBVIOUS
  <2>6. i \in Place
    BY <2>1, <2>3, <2>4 DEF Walking, Place, AliveRuns
  <2>7. s \in SUBSET (Processes \X Place)
    <3> SUFFICES ASSUME NEW m \in u.measured
                 PROVE  (IF m[1] = p THEN <<p, m[2] - 1>> ELSE m) \in Processes \X Place
      BY <2>5
    <3>1. m \in Processes \X Place /\ m # <<p, 1>>
      BY <2>3 DEF Walking
    <3>2. CASE m[1] = p
      <4>1. m[2] \in Nat /\ m[2] # 0 /\ m[2] # 1
        BY <3>1, <3>2 DEF Place
      <4>2. m[2] - 1 \in Place
        BY <4>1 DEF Place
      <4> QED BY <3>2, <4>2
    <3> QED BY <3>1, <3>2
  <2>8. PICK v : v = [u EXCEPT !.index = i, !.measured = s]
    OBVIOUS
  <2>9. /\ v \in Walking
        /\ v.process = u.process /\ v.place = u.place /\ v.rest = u.rest /\ v.here = u.here
        /\ v.alive = u.alive /\ v.index = i /\ v.measured = s
    BY <2>6, <2>7, <2>8 DEF Walking
  <2>10. v = MovedUp(p)[c]
    <3>1. MovedUp(p)[c] =
            [u EXCEPT !.index = IF u.alive /\ u.process = p THEN u.index - 1 ELSE u.index,
                      !.measured = {IF m[1] = p THEN <<p, m[2] - 1>> ELSE m : m \in u.measured}]
      BY <1>2, <2>2 DEF MovedUp, Measuring, Walks
    <3> QED BY <2>4, <2>5, <2>8, <3>1
  <2>11. MovesTo(w, p, v)
    <3>1. v.alive <=> w.alive /\ ~(w.process = p /\ w.here /\ w.index = 1)
      BY <2>3, <2>9
    <3>2. v.index = IF v.alive /\ w.process = p THEN w.index - 1 ELSE w.index
      BY <2>3, <2>4, <2>9
    <3>3. v.measured = {IF m[1] = p THEN <<p, m[2] - 1>> ELSE m : m \in w.measured \ {<<p, 1>>}}
      BY <2>3, <2>5, <2>9
    <3> QED BY <2>3, <2>9, <3>1, <3>2, <3>3 DEF MovesTo
  <2> QED BY <2>1, <2>9, <2>10, <2>11
<1> QED BY <1>1, <1>2

\* The child of p that was at i runs, and is at i - 1.
LEMMA MovedRun ==
  ASSUME InstanceTypes, NEW p \in Processes, instances[p] # <<>>,
         instances' = [instances EXCEPT ![p] = Tail(instances[p])]
  PROVE  /\ InstanceTypes'
         /\ \A q \in Processes : q # p => Running(q)' = Running(q)
         /\ \A i \in Place : i # 1 /\ i \in Running(p) => i - 1 \in Running(p)'
<1>1. PICK s \in Seq(Instance) : s = instances[p] /\ s # <<>>
  BY SMTT(30) DEF InstanceTypes
<1>2. PICK t \in Seq(Instance) : t = Tail(s) /\ Len(t) = Len(s) - 1
                              /\ \A i \in 1..Len(s) - 1 : t[i] = s[i + 1]
  <2>1. Tail(s) \in Seq(Instance) /\ Len(Tail(s)) = Len(s) - 1
    BY <1>1, HeadTailProperties
  <2>2. \A i \in 1..Len(s) - 1 : Tail(s)[i] = s[i + 1]
    BY <1>1
  <2> QED BY <2>1, <2>2
<1>3. InstanceTypes' /\ instances'[p] = t /\ \A q \in Processes : q # p => instances'[q] = instances[q]
  BY <1>1, <1>2 DEF InstanceTypes
<1>4. ASSUME NEW i \in Place, i # 1, i \in Running(p) PROVE i - 1 \in Running(p)'
  <2>1. i \in 1..Len(s) /\ s[i].running
    BY <1>1, <1>4 DEF Running
  <2>2. i - 1 \in 1..Len(s) - 1 /\ (i - 1) + 1 = i
    BY <1>1, <1>4, <2>1 DEF Place
  <2>3. i - 1 \in DOMAIN t /\ t[i - 1] = s[i]
    BY <1>2, <2>2
  <2> QED BY <1>3, <2>1, <2>3 DEF Running
<1> QED BY <1>3, <1>4 DEF Running

\* A walk goes on in an array whose first child has gone.
LEMMA MovedKeeps ==
  ASSUME NEW p \in Processes, NEW w \in Walking, NEW v \in Walking, WalkInv(w), MovesTo(w, p, v),
         monitored' = monitored,
         \A q \in Processes : phase'[q] \in Unspawned => phase[q] \in Unspawned,
         \A q \in Processes : q # p => Running(q)' = Running(q),
         \A i \in Place : i # 1 /\ i \in Running(p) => i - 1 \in Running(p)'
  PROVE  WalkInv(v)'
<1>1. RestAhead(w) /\ MeasuredRun(w) /\ HereOnce(w) /\ AliveRuns(w)
  BY DEF WalkInv, Walks, Walking
<1>2. /\ w.process \in Processes /\ w.place \in Place /\ w.index \in Place
      /\ v.process = w.process /\ v.place = w.place /\ v.rest = w.rest /\ v.here = w.here
      /\ v.alive => w.alive
  BY DEF Walking, MovesTo
<1>3. ASSUME NEW m \in v.measured
      PROVE  \E k \in w.measured :
               /\ k \in Processes \X Place /\ m[1] = k[1]
               /\ k[1] = p => k[2] # 1 /\ m[2] = k[2] - 1
               /\ k[1] # p => m[2] = k[2]
  <2>1. PICK k \in w.measured \ {<<p, 1>>} : m = IF k[1] = p THEN <<p, k[2] - 1>> ELSE k
    BY <1>3 DEF MovesTo
  <2>2. k \in Processes \X Place
    BY <2>1 DEF Walking
  <2>3. CASE k[1] = p
    <3>1. m = <<p, k[2] - 1>> /\ k[2] # 1
      BY <2>1, <2>2, <2>3
    <3> QED BY <2>1, <2>2, <2>3, <3>1
  <2>4. CASE k[1] # p
    BY <2>1, <2>2, <2>4
  <2> QED BY <2>3, <2>4
<1>4. RestAhead(v)'
  BY <1>1, <1>2, <1>3 DEF RestAhead
<1>5. MeasuredRun(v)'
  <2> SUFFICES ASSUME NEW m \in v.measured PROVE m[2] \in Running(m[1])'
    BY DEF MeasuredRun
  <2>1. PICK k \in w.measured :
          /\ k \in Processes \X Place /\ m[1] = k[1]
          /\ k[1] = p => k[2] # 1 /\ m[2] = k[2] - 1
          /\ k[1] # p => m[2] = k[2]
    BY <1>3
  <2>2. k[1] \in Processes /\ k[2] \in Place /\ k[2] \in Running(k[1])
    BY <1>1, <2>1 DEF MeasuredRun
  <2>3. CASE k[1] = p
    BY <2>1, <2>2, <2>3
  <2>4. CASE k[1] # p
    BY <2>1, <2>2, <2>4
  <2> QED BY <2>3, <2>4
<1>6. ASSUME v.alive
      PROVE  /\ w.alive /\ w.here /\ w.index \in Running(w.process)
             /\ w.process = p => w.index # 1 /\ v.index = w.index - 1
             /\ w.process # p => v.index = w.index
  BY <1>1, <1>6 DEF MovesTo, AliveRuns
<1>7. AliveRuns(v)'
  <2> SUFFICES ASSUME v.alive PROVE v.here /\ v.index \in Running(v.process)'
    BY DEF AliveRuns
  <2>1. CASE w.process = p
    BY <1>2, <1>6, <2>1
  <2>2. CASE w.process # p
    BY <1>2, <1>6, <2>2
  <2> QED BY <2>1, <2>2
<1>8. HereOnce(v)'
  <2> SUFFICES ASSUME v.here
               PROVE  /\ v.process \notin ToSet(v.rest)
                      /\ phase'[v.process] \notin Unspawned
                      /\ \A m \in v.measured : m[1] = v.process => m[2] <= v.place
                      /\ v.alive =>
                           /\ v.index <= v.place
                           /\ \A m \in v.measured : m[1] = v.process => m[2] < v.index
    BY DEF HereOnce
  <2>1. v.process \notin ToSet(v.rest) /\ phase'[v.process] \notin Unspawned
    BY <1>1, <1>2 DEF HereOnce
  <2>2. ASSUME NEW m \in v.measured, m[1] = v.process
        PROVE  m[2] <= v.place /\ (v.alive => m[2] < v.index)
    <3>1. PICK k \in w.measured :
            /\ k \in Processes \X Place /\ m[1] = k[1]
            /\ k[1] = p => k[2] # 1 /\ m[2] = k[2] - 1
            /\ k[1] # p => m[2] = k[2]
      BY <1>3
    <3>2. /\ k[1] = w.process /\ k[2] \in Place /\ k[2] <= w.place
          /\ w.alive => k[2] < w.index
      BY <1>1, <1>2, <2>2, <3>1 DEF HereOnce
    <3>3. m[2] <= v.place
      BY <1>2, <3>1, <3>2 DEF Place
    <3>4. ASSUME v.alive PROVE m[2] < v.index
      BY <1>2, <1>6, <3>1, <3>2, <3>4 DEF Place
    <3> QED BY <3>3, <3>4
  <2>3. ASSUME v.alive PROVE v.index <= v.place
    <3>1. w.index <= w.place
      BY <1>1, <1>6, <2>3 DEF HereOnce
    <3> QED BY <1>2, <1>6, <2>3, <3>1 DEF Place
  <2> QED BY <2>1, <2>2, <2>3
<1> QED BY <1>4, <1>5, <1>7, <1>8 DEF WalkInv

LEMMA InstanceRemovedKeeps ==
  ASSUME HealthInv, LengthsHold, NEW p \in Processes, InstanceRemoved(p)
  PROVE  HealthInv'
<1>1. /\ UNCHANGED <<platform, monitored, isMonitoring, deleted, calls, halting, events>>
      /\ phase[p] = "replacing" /\ checks' = MovedUp(p)
      /\ instances' = [instances EXCEPT ![p] = Tail(instances[p])]
      /\ phase' = [phase EXCEPT ![p] =
           IF Len(instances[p]) - 1 = Instances[p] THEN "up" ELSE phase[p]]
  BY DEF InstanceRemoved, HealthInv, DaemonTypes, InstanceTypes
<1>2. DaemonTypes'
  BY <1>1 DEF HealthInv, DaemonTypes, Phases
<1>3. instances[p] # <<>>
  <2>1. Len(instances[p]) \in Instances[p] + 1..2 * Instances[p]
    BY <1>1 DEF LengthsHold, Lengths
  <2>2. Instances[p] \in Nat
    BY LimitAssumption
  <2> QED BY <2>1, <2>2
<1>4. /\ InstanceTypes'
      /\ \A q \in Processes : q # p => Running(q)' = Running(q)
      /\ \A i \in Place : i # 1 /\ i \in Running(p) => i - 1 \in Running(p)'
  BY <1>1, <1>3, MovedRun DEF HealthInv
<1>5. \A q \in Processes : phase'[q] \in Unspawned => phase[q] \in Unspawned /\ q # p
  BY <1>1 DEF HealthInv, DaemonTypes, Unspawned
<1>6. SpawnedFirst'
  BY <1>4, <1>5 DEF HealthInv, SpawnedFirst
<1>7. ASSUME NEW c \in Checks PROVE \E v \in Check : v = checks'[c] /\ WalkInv(v)'
  <2>1. PICK w \in Check : w = checks[c] /\ WalkInv(w)
    BY DEF HealthInv, MonitorTypes, ChecksWalk
  <2>2. CASE w \in Still
    <3>1. checks'[c] = w
      BY <1>1, <2>1, <2>2, StillIs, MovedUpIs
    <3> QED BY <2>2, <3>1, StillIs
  <2>3. CASE Walks(w) /\ w \in Walking
    <3>1. PICK v \in Walking : v = checks'[c] /\ MovesTo(w, p, v)
      BY <1>1, <2>1, <2>3, MovedUpIs
    <3>2. WalkInv(v)'
      BY <1>1, <1>4, <1>5, <2>1, <2>3, <3>1, MovedKeeps
    <3> QED BY <3>1, <3>2 DEF Check
  <2> QED BY <2>2, <2>3, CheckWalksOrNot
<1>8. checks' = [c \in Checks |-> checks'[c]]
  BY <1>1 DEF MovedUp
<1>9. checks' \in [Checks -> Check] /\ ChecksWalk'
  BY <1>7, <1>8, ChecksNext
<1> QED BY <1>1, <1>2, <1>4, <1>6, <1>9 DEF HealthInv, MonitorTypes

LEMMA ProcessStoppedKeeps ==
  ASSUME HealthInv, NEW p \in Processes, ProcessStopped(p)
  PROVE  HealthInv'
<1> DEFINE restarts == "restart" \in calls[p] /\ p \notin deleted
<1>1. /\ Running(p) = {}
      /\ calls' = [calls EXCEPT ![p] = {}] /\ UNCHANGED <<platform, deleted, halting, events>>
      /\ phase' = [phase EXCEPT ![p] = IF restarts THEN "starting" ELSE "down"]
      /\ instances' = [instances EXCEPT ![p] = IF restarts THEN NotSpawned(p) ELSE instances[p]]
      /\ monitored' = Without(monitored, p)
      /\ isMonitoring' = (isMonitoring /\ monitored' # <<>>)
      /\ checks' = IF restarts
           THEN Gone(p, 0, TRUE, Resumed(p, "asked", Forgotten(p), "restarting"))
           ELSE Resumed(p, "asked", Forgotten(p), "aborted")
  BY DEF ProcessStopped, RemoveProcess, Forgotten, HealthInv, DaemonTypes, InstanceTypes
<1> HIDE DEF restarts
<1>2. DaemonTypes'
  BY <1>1 DEF HealthInv, DaemonTypes, Phases
<1>3. /\ InstanceTypes' /\ Running(p)' = {}
      /\ \A q \in Processes : q # p => Running(q)' = Running(q)
  <2>1. CASE restarts
    BY <1>1, <2>1, NotSpawnedIs DEF HealthInv
  <2>2. CASE ~restarts
    <3>1. instances' = instances
      BY <1>1, <2>2 DEF HealthInv, InstanceTypes
    <3> QED BY <1>1, <3>1 DEF HealthInv, InstanceTypes, Running
  <2> QED BY <2>1, <2>2
<1>4. /\ \A q \in Processes : q # p => phase'[q] = phase[q]
      /\ ~restarts => phase'[p] \notin Unspawned
  BY <1>1 DEF HealthInv, DaemonTypes, Unspawned
<1>5. SpawnedFirst'
  BY <1>3, <1>4 DEF SpawnedFirst, HealthInv
<1>6. /\ monitored' \in Seq(Processes) /\ IsInjective(monitored')
      /\ checks' \in [Checks -> Check] /\ ChecksWalk'
  <2>1. \/ checks' = Gone(p, 0, TRUE, Resumed(p, "asked", Forgotten(p), "restarting"))
        \/ phase'[p] \notin Unspawned /\ checks' = Resumed(p, "asked", Forgotten(p), "aborted")
    BY <1>1, <1>4
  <2> QED BY <1>1, <1>3, <1>4, <2>1, StoppedKeeps DEF HealthInv
<1>7. MonitorTypes'
  BY <1>1, <1>6 DEF HealthInv, MonitorTypes
<1> QED BY <1>2, <1>3, <1>5, <1>6, <1>7 DEF HealthInv

LEMMA DeleteProcessKeeps ==
  ASSUME HealthInv, NEW p \in Processes, DeleteProcess(p)
  PROVE  HealthInv'
<1>1. UNCHANGED <<platform, instances, monitored, isMonitoring, checks, phase, calls, halting, events>>
  BY DEF DeleteProcess, monitorVars
<1>2. DaemonTypes'
  BY <1>1 DEF HealthInv, DaemonTypes, DeleteProcess
<1>3. Undisturbed /\ InstanceTypes' /\ SpawnedFirst'
  BY <1>1, SameChildren DEF HealthInv
<1>4. ChecksWalk' /\ MonitorTypes'
  BY <1>1, <1>3, ChecksWait DEF HealthInv, MonitorTypes
<1> QED BY <1>2, <1>3, <1>4 DEF HealthInv

LEMMA GracefulShutdownKeeps ==
  ASSUME HealthInv, GracefulShutdown
  PROVE  HealthInv'
<1>1. UNCHANGED <<platform, instances, monitored, checks, phase, deleted, events>> /\ isMonitoring' = FALSE
  BY DEF GracefulShutdown, StopMonitoring
<1>2. calls' \in [Processes -> SUBSET {"stop", "restart"}]
  BY DEF GracefulShutdown, HealthInv, DaemonTypes
<1>3. DaemonTypes'
  BY <1>1, <1>2 DEF HealthInv, DaemonTypes, GracefulShutdown
<1>4. Undisturbed /\ InstanceTypes' /\ SpawnedFirst'
  BY <1>1, SameChildren DEF HealthInv
<1>5. ChecksWalk' /\ MonitorTypes'
  BY <1>1, <1>4, ChecksWait DEF HealthInv, MonitorTypes
<1> QED BY <1>3, <1>4, <1>5 DEF HealthInv

-----------------------------------------------------------------------------
(* The steps of the checks.                                                *)

LEMMA CardinalityOfCauses ==
  ASSUME NEW causes \in SUBSET {"memory", "cpu"}, causes # {}
  PROVE  Cardinality(causes) \in {1, 2}
<1>1. causes = {"memory"} \/ causes = {"cpu"} \/ causes = {"memory", "cpu"}
  OBVIOUS
<1>2. Cardinality({"memory"}) = 1 /\ Cardinality({"cpu"}) = 1
  BY FS_Singleton
<1>3. Cardinality({"memory", "cpu"}) = 2
  <2>1. IsFiniteSet({"memory"}) /\ "cpu" \notin {"memory"} /\ {"memory", "cpu"} = {"memory"} \cup {"cpu"}
    BY FS_Singleton
  <2> QED BY <1>2, <2>1, FS_AddElement
<1> QED BY <1>1, <1>2, <1>3

LEMMA DemandsAre ==
  ASSUME NEW p \in Processes, NEW sample
  PROVE  Demands(p, sample) \in Seq(Demand)
<1> DEFINE causes == {issue \in Issues(sample) :
                   \/ issue = "memory" /\ Over(sample.memory, MemoryLimit[p])
                   \/ issue = "cpu" /\ Over(sample.cpu, CpuLimit[p])}
<1>1. causes \in SUBSET {"memory", "cpu"}
  BY DEF Issues
<1>2. Demands(p, sample) =
        IF causes = {} THEN <<>>
        ELSE <<[process |-> p, restarts |-> Cardinality(causes), first |-> TRUE]>>
  BY DEF Demands
<1> HIDE DEF causes
<1>3. CASE causes # {}
  <2>1. [process |-> p, restarts |-> Cardinality(causes), first |-> TRUE] \in Demand
    BY <1>1, <1>3, CardinalityOfCauses DEF Demand
  <2> QED BY <1>2, <1>3, <2>1
<1> QED BY <1>2, <1>3

\* A check has done with a child, in whatever way.
LEMMA MovesOn ==
  ASSUME HealthInv, NEW c \in Checks, Walks(checks[c]), NEW todo \in Seq(Demand),
         UNCHANGED <<platform, instances, monitored, isMonitoring, daemonVars>>,
         checks' = [checks EXCEPT ![c] = Walk(checks[c], Seen(c), todo)]
  PROVE  HealthInv'
<1>1. InstanceTypes /\ SpawnedFirst /\ MonitorTypes /\ ChecksWalk /\ DaemonTypes
  BY DEF HealthInv
<1>2. PICK w \in Walking : w = checks[c]
  BY <1>1, CheckWalksOrNot, StillIs DEF MonitorTypes
<1>3. RestAhead(w) /\ MeasuredRun(w) /\ HereOnce(w) /\ AliveRuns(w)
  BY <1>1, <1>2 DEF WalkInv, ChecksWalk
<1>4. /\ w.rest \in Seq(Processes) /\ w.here \in BOOLEAN /\ w.process \in Processes
      /\ w.index \in Nat /\ w.place \in Nat /\ <<w.process, w.index>> \in Processes \X Place
      /\ w.measured \in SUBSET (Processes \X Place)
  BY DEF Walking, Place
<1>5. PICK measured : measured = Seen(c)
  OBVIOUS
<1>6. /\ measured \subseteq w.measured \cup {<<w.process, w.index>>}
      /\ <<w.process, w.index>> \in measured => w.alive \/ <<w.process, w.index>> \in w.measured
  BY <1>2, <1>5 DEF Seen
<1>7. measured \in SUBSET (Processes \X Place)
  BY <1>4, <1>6
<1>8. ASSUME NEW m \in measured
      PROVE  /\ m[2] \in Running(m[1]) /\ m[1] \notin ToSet(w.rest)
             /\ w.here /\ m[1] = w.process => m[2] <= w.place
  <2>1. CASE m \in w.measured
    BY <1>3, <2>1 DEF HereOnce, MeasuredRun, RestAhead
  <2>2. CASE m \notin w.measured
    <3>1. m = <<w.process, w.index>> /\ w.alive
      BY <1>6, <2>2
    <3>2. m[1] = w.process /\ m[2] = w.index
      BY <3>1
    <3> QED BY <1>3, <1>4, <3>1, <3>2 DEF AliveRuns, HereOnce
  <2> QED BY <2>1, <2>2
<1>9. PICK v \in Check : v = Walk(w, measured, todo) /\ WalkInv(v)
  BY <1>1, <1>3, <1>4, <1>7, <1>8, NextChild DEF RestAhead, HereOnce
<1>10. checks' = [checks EXCEPT ![c] = v]
  BY <1>2, <1>5, <1>9
<1>11. Undisturbed /\ InstanceTypes' /\ SpawnedFirst'
  BY <1>1, SameChildren DEF daemonVars
<1>12. checks' \in [Checks -> Check] /\ ChecksWalk'
  BY <1>1, <1>9, <1>10, <1>11, OneCheckMoves
<1> QED BY <1>1, <1>11, <1>12 DEF HealthInv, MonitorTypes, DaemonTypes, daemonVars

LEMMA CheckBeginsKeeps ==
  ASSUME HealthInv, NEW c \in Checks, CheckBegins(c)
  PROVE  HealthInv'
<1>1. InstanceTypes /\ SpawnedFirst /\ MonitorTypes /\ ChecksWalk /\ DaemonTypes
  BY DEF HealthInv
<1>2. UNCHANGED <<platform, instances, monitored, isMonitoring, daemonVars>>
  BY DEF CheckBegins
<1>3. PICK at : at = [here |-> FALSE, rest |-> monitored]
  OBVIOUS
<1>4. at.here = FALSE /\ at.rest = monitored
  BY <1>3
<1>5. <<>> \in Seq(Demand) /\ {} \in SUBSET (Processes \X Place)
  OBVIOUS
<1>6. PICK v \in Check : v = Walk(at, {}, <<>>) /\ WalkInv(v)
  BY <1>1, <1>4, <1>5, NextChild DEF MonitorTypes
<1>7. checks' = [checks EXCEPT ![c] = v]
  BY <1>3, <1>6 DEF CheckBegins
<1>8. Undisturbed /\ InstanceTypes' /\ SpawnedFirst'
  BY <1>1, <1>2, SameChildren DEF daemonVars
<1>9. checks' \in [Checks -> Check] /\ ChecksWalk'
  BY <1>1, <1>6, <1>7, <1>8, OneCheckMoves
<1> QED BY <1>1, <1>2, <1>8, <1>9 DEF HealthInv, MonitorTypes, DaemonTypes, daemonVars

LEMMA ReadAgainKeeps ==
  ASSUME HealthInv, NEW c \in Checks, ReadAgain(c), UNCHANGED daemonVars
  PROVE  HealthInv'
<1>1. InstanceTypes /\ SpawnedFirst /\ MonitorTypes /\ ChecksWalk /\ DaemonTypes
  BY DEF HealthInv
<1>2. UNCHANGED <<platform, instances, monitored, isMonitoring, daemonVars>>
  BY DEF ReadAgain
<1>3. PICK w \in Check : w = checks[c] /\ Walks(w) /\ w \in Walking /\ WalkInv(w)
  BY <1>1, CheckIs DEF MonitorTypes, ReadAgain, Walks, ChecksWalk
<1>4. PICK v : v = [w EXCEPT !.stage = "again"]
  OBVIOUS
<1>5. /\ v \in Walking /\ v.process = w.process /\ v.place = w.place /\ v.index = w.index /\ v.here = w.here
      /\ v.alive = w.alive /\ v.rest = w.rest /\ v.measured = w.measured
  BY <1>3, <1>4 DEF Walking
<1>6. WalkInv(v) /\ v \in Check
  BY <1>3, <1>5 DEF WalkInv, RestAhead, MeasuredRun, HereOnce, AliveRuns, Check
<1>7. checks' = [checks EXCEPT ![c] = v]
  BY <1>3, <1>4 DEF ReadAgain
<1>8. Undisturbed /\ InstanceTypes' /\ SpawnedFirst'
  BY <1>1, <1>2, SameChildren DEF daemonVars
<1>9. checks' \in [Checks -> Check] /\ ChecksWalk'
  BY <1>1, <1>6, <1>7, <1>8, OneCheckMoves
<1> QED BY <1>1, <1>2, <1>8, <1>9 DEF HealthInv, MonitorTypes, DaemonTypes, daemonVars

LEMMA ReadFailsKeeps ==
  ASSUME HealthInv, NEW c \in Checks, ReadFails(c)
  PROVE  HealthInv'
<1>1. PICK w \in Walking : w = checks[c] /\ Walks(w)
  BY CheckIs DEF HealthInv, MonitorTypes, ReadFails, CannotRead, Walks
<1>2. checks[c].todo \in Seq(Demand)
  BY <1>1 DEF Walking
<1> QED BY <1>1, <1>2, MovesOn DEF ReadFails

LEMMA ReadDoneKeeps ==
  ASSUME HealthInv, NEW c \in Checks, ReadDone(c)
  PROVE  HealthInv'
<1>1. PICK w \in Walking : w = checks[c] /\ Walks(w)
  BY CheckIs DEF HealthInv, MonitorTypes, ReadDone, CanRead, Walks
<1>2. w.todo \in Seq(Demand) /\ w.process \in Processes
  BY <1>1 DEF Walking
<1>3. PICK sample : checks' = [checks EXCEPT ![c] =
                       Walk(checks[c], Seen(c), checks[c].todo \o Demands(checks[c].process, sample))]
  BY DEF ReadDone
<1>4. PICK todo : todo = checks[c].todo \o Demands(checks[c].process, sample)
  OBVIOUS
<1>5. todo \in Seq(Demand)
  BY <1>1, <1>2, <1>4, DemandsAre, ConcatProperties
<1> QED BY <1>1, <1>3, <1>4, <1>5, MovesOn DEF ReadDone

LEMMA AsksRestartKeeps ==
  ASSUME HealthInv, NEW c \in Checks, AsksRestart(c)
  PROVE  HealthInv'
<1>1. InstanceTypes /\ SpawnedFirst /\ MonitorTypes /\ ChecksWalk /\ DaemonTypes
  BY DEF HealthInv
<1>2. UNCHANGED <<platform, instances, monitored, isMonitoring, phase, deleted, halting, events>>
  BY DEF AsksRestart
<1>3. PICK w \in Acting : w = checks[c]
  BY <1>1, CheckIs DEF AsksRestart, MonitorTypes
<1>4. PICK demand, rest : demand = Head(w.todo) /\ rest = Tail(w.todo)
  OBVIOUS
<1>5. demand \in Demand /\ rest \in Seq(Demand) /\ demand.process \in Processes
  <2>1. w.todo \in Seq(Demand) /\ w.todo # <<>>
    BY DEF Acting
  <2>2. demand \in Demand /\ rest \in Seq(Demand)
    BY <1>4, <2>1
  <2> QED BY <2>2 DEF Demand
<1>6. PICK v \in Still : /\ checks' = [checks EXCEPT ![c] = v]
                         /\ \/ calls' = calls
                            \/ calls' = [calls EXCEPT ![demand.process] = calls[demand.process] \cup {"restart"}]
  <2>1. CASE demand.process \notin deleted
    <3>1. PICK v : v = [w EXCEPT !.stage = "asked"]
      OBVIOUS
    <3>2. v \in Still
      BY <3>1 DEF Still, Acting
    <3>3. checks' = [checks EXCEPT ![c] = v]
      BY <1>3, <1>4, <2>1, <3>1 DEF AsksRestart
    <3>4. calls' = [calls EXCEPT ![demand.process] = calls[demand.process] \cup {"restart"}]
      BY <1>1, <1>3, <1>4, <1>5, <2>1 DEF AsksRestart, DaemonTypes
    <3> QED BY <3>2, <3>3, <3>4
  <2>2. CASE demand.process \in deleted
    <3>1. PICK v : v = IF demand.first /\ rest # <<>> THEN [stage |-> "acting", todo |-> rest] ELSE Idle
      OBVIOUS
    <3>2. rest # <<>> => [stage |-> "acting", todo |-> rest] \in Acting
      BY <1>5 DEF Acting
    <3>3. v \in Still
      BY <3>1, <3>2 DEF Still
    <3>4. checks' = [checks EXCEPT ![c] = v] /\ calls' = calls
      BY <1>3, <1>4, <2>2, <3>1 DEF AsksRestart
    <3> QED BY <3>3, <3>4
  <2> QED BY <2>1, <2>2
<1>7. v \in Check /\ WalkInv(v)
  BY StillIs
<1>8. Undisturbed /\ InstanceTypes' /\ SpawnedFirst'
  BY <1>1, <1>2, SameChildren
<1>9. checks' \in [Checks -> Check] /\ ChecksWalk'
  BY <1>1, <1>6, <1>7, <1>8, OneCheckMoves
<1>10. DaemonTypes'
  BY <1>1, <1>2, <1>5, <1>6 DEF DaemonTypes
<1> QED BY <1>1, <1>2, <1>8, <1>9, <1>10 DEF HealthInv, MonitorTypes

-----------------------------------------------------------------------------
LEMMA InitHolds == Init => HealthInv
<1> SUFFICES ASSUME Init PROVE HealthInv
  OBVIOUS
<1>1. DaemonTypes
  <2>1. events \in 0..MaxEvents
    BY LimitAssumption DEF Init
  <2>2. phase \in [Processes -> Phases]
    BY DEF Init, Phases
  <2>3. calls \in [Processes -> SUBSET {"stop", "restart"}]
    BY DEF Init
  <2>4. halting \in BOOLEAN /\ deleted \subseteq Processes
    BY DEF Init
  <2> QED BY <2>1, <2>2, <2>3, <2>4 DEF DaemonTypes
<1>2. \A p \in Processes : instances[p] = <<>>
  BY DEF Init, MonitorInit
<1>3. InstanceTypes
  BY <1>2 DEF Init, MonitorInit, InstanceTypes
<1>4. SpawnedFirst
  BY <1>2 DEF SpawnedFirst, Running
<1>5. MonitorTypes
  BY DEF Init, MonitorInit, MonitorTypes, IsInjective, Check
<1>6. ChecksWalk
  BY DEF Init, MonitorInit, ChecksWalk, WalkInv, Walks, Idle
<1> QED BY <1>1, <1>3, <1>4, <1>5, <1>6 DEF HealthInv

LEMMA NextKeeps == HealthInv /\ LengthsHold /\ [Next]_vars => HealthInv'
<1> SUFFICES ASSUME HealthInv, LengthsHold, [Next]_vars PROVE HealthInv'
  OBVIOUS
<1>1. CASE ProcessStep
  BY <1>1, StartProcessKeeps, SpawnedKeeps, SpawnFailsKeeps, ProcessStoppedKeeps,
     DeleteProcessKeeps, RequestedKeeps, InstanceExitKeeps, InstanceRestartedKeeps,
     ReloadRequestedKeeps, InstanceAddedKeeps, InstanceRemovedKeeps
     DEF ProcessStep
<1>2. ASSUME NEW c \in Checks, CheckBegins(c) \/ CheckStep(c) PROVE HealthInv'
  BY <1>2, CheckBeginsKeeps, ReadAgainKeeps, ReadFailsKeeps, ReadDoneKeeps, AsksRestartKeeps
     DEF CheckStep
<1>3. CASE UNCHANGED vars
  <2>1. UNCHANGED <<monitorVars, daemonVars>>
    BY <1>3 DEF vars
  <2>2. Undisturbed /\ InstanceTypes' /\ SpawnedFirst'
    BY <2>1, SameChildren DEF HealthInv, monitorVars, daemonVars
  <2>3. ChecksWalk' /\ MonitorTypes'
    BY <2>1, <2>2, ChecksWait DEF HealthInv, MonitorTypes, monitorVars
  <2> QED BY <2>1, <2>2, <2>3 DEF HealthInv, DaemonTypes, daemonVars
<1> QED BY <1>1, <1>2, <1>3, GracefulShutdownKeeps DEF Next

\* A step that changes at most the length and the phase of p.
LEMMA LengthsFollow ==
  ASSUME LengthsHold, NEW p \in Processes,
         \A q \in Processes : q # p => Len(instances'[q]) = Len(instances[q]) /\ phase'[q] = phase[q],
         Len(instances'[p]) \in Lengths(p)'
  PROVE  LengthsHold'
BY DEF LengthsHold, Lengths

LEMMA NextLengths == HealthInv /\ LengthsHold /\ [Next]_vars => LengthsHold'
<1> SUFFICES ASSUME HealthInv, LengthsHold, [Next]_vars PROVE LengthsHold'
  OBVIOUS
<1>0. /\ instances \in [Processes -> Seq(Instance)] /\ phase \in [Processes -> Phases]
      /\ \A p \in Processes : Instances[p] \in Nat \ {0}
  BY LimitAssumption DEF HealthInv, InstanceTypes, DaemonTypes
<1>1. CASE UNCHANGED <<instances, phase>>
  BY <1>1 DEF LengthsHold, Lengths
<1>2. ASSUME NEW p \in Processes, phase[p] \notin {"none", "reloading", "replacing"}
      PROVE  Len(instances[p]) = Instances[p]
  BY <1>2 DEF LengthsHold, Lengths
<1>3. ASSUME NEW p \in Processes PROVE Len(NotSpawned(p)) = Instances[p]
  BY <1>0 DEF NotSpawned
<1>4. ASSUME NEW p \in Processes, StartProcess(p) PROVE LengthsHold'
  <2>1. Len(instances'[p]) = Instances[p] /\ phase'[p] = "launching"
    BY <1>0, <1>3, <1>4 DEF StartProcess
  <2> QED BY <1>0, <1>4, <2>1, LengthsFollow DEF StartProcess, Lengths
<1>5. ASSUME NEW p \in Processes, Spawned(p) PROVE LengthsHold'
  <2>1. PICK list \in [1..Instances[p] -> Instance] : instances' = [instances EXCEPT ![p] = list]
    BY <1>5 DEF Spawned, Instance
  <2>2. Len(list) = Instances[p]
    BY <1>0
  <2>3. Len(instances'[p]) = Instances[p] /\ phase'[p] = "up"
    BY <1>0, <1>5, <2>1, <2>2 DEF Spawned
  <2> QED BY <1>0, <1>5, <2>1, <2>3, LengthsFollow DEF Spawned, Lengths
<1>6. ASSUME NEW p \in Processes, SpawnFails(p) PROVE LengthsHold'
  <2>1. Len(instances'[p]) = Instances[p] /\ phase'[p] \in {"down", "stuck"}
    BY <1>0, <1>2, <1>6 DEF SpawnFails
  <2> QED BY <1>0, <1>6, <2>1, LengthsFollow DEF SpawnFails, Lengths
<1>7. ASSUME NEW p \in Processes, ProcessStopped(p) PROVE LengthsHold'
  <2>1. phase[p] \in {"up", "stuck", "down"} /\ phase'[p] \in {"starting", "down"}
    BY <1>0, <1>7 DEF ProcessStopped
  <2>2. Len(instances'[p]) = Instances[p]
    BY <1>0, <1>2, <1>3, <1>7, <2>1 DEF ProcessStopped
  <2> QED BY <1>0, <1>7, <2>1, <2>2, LengthsFollow DEF ProcessStopped, Lengths
<1>8. ASSUME NEW p \in Processes, ReloadRequested(p) PROVE LengthsHold'
  <2>1. instances' = instances /\ Len(instances[p]) = Instances[p] /\ phase'[p] = "reloading"
    BY <1>0, <1>2, <1>8 DEF ReloadRequested, monitorVars
  <2> QED BY <1>0, <1>8, <2>1, LengthsFollow DEF ReloadRequested, Lengths
<1>9. ASSUME NEW p \in Processes, InstanceAdded(p) PROVE LengthsHold'
  <2>1. Len(instances[p]) \in Instances[p]..2 * Instances[p] - 1
    BY <1>9 DEF InstanceAdded, LengthsHold, Lengths
  <2>2. PICK child \in Instance : instances' = [instances EXCEPT ![p] = Append(instances[p], child)]
    BY <1>0, <1>9 DEF InstanceAdded
  <2>3. Len(instances'[p]) = Len(instances[p]) + 1
    BY <1>0, <2>2
  <2>4. phase'[p] = IF Len(instances[p]) + 1 = 2 * Instances[p] THEN "replacing" ELSE "reloading"
    BY <1>0, <1>9 DEF InstanceAdded
  <2>5. Len(instances'[p]) \in Lengths(p)'
    <3>1. CASE Len(instances[p]) + 1 = 2 * Instances[p]
      BY <1>0, <2>1, <2>3, <2>4, <3>1 DEF Lengths
    <3>2. CASE Len(instances[p]) + 1 # 2 * Instances[p]
      <4>1. PICK n, k : n = Len(instances[p]) /\ k = Instances[p]
        OBVIOUS
      <4>2. k \in Nat /\ n \in k..2 * k - 1 /\ n + 1 # 2 * k
        BY <1>0, <2>1, <3>2, <4>1
      <4>3. n + 1 \in k..2 * k - 1
        BY <4>2
      <4> QED BY <2>3, <2>4, <3>2, <4>1, <4>3 DEF Lengths
    <3> QED BY <3>1, <3>2
  <2> QED BY <1>0, <1>9, <2>2, <2>5, LengthsFollow DEF InstanceAdded
<1>10. ASSUME NEW p \in Processes, InstanceRemoved(p) PROVE LengthsHold'
  <2>1. Len(instances[p]) \in Instances[p] + 1..2 * Instances[p]
    BY <1>10 DEF InstanceRemoved, LengthsHold, Lengths
  <2>2. instances[p] # <<>>
    BY <1>0, <2>1
  <2>3. instances' = [instances EXCEPT ![p] = Tail(instances[p])]
    BY <1>0, <1>10 DEF InstanceRemoved
  <2>4. Len(instances'[p]) = Len(instances[p]) - 1
    BY <1>0, <2>2, <2>3
  <2>5. phase'[p] = IF Len(instances[p]) - 1 = Instances[p] THEN "up" ELSE "replacing"
    BY <1>0, <1>10 DEF InstanceRemoved
  <2>6. Len(instances'[p]) \in Lengths(p)'
    <3>1. CASE Len(instances[p]) - 1 = Instances[p]
      BY <1>0, <2>1, <2>4, <2>5, <3>1 DEF Lengths
    <3>2. CASE Len(instances[p]) - 1 # Instances[p]
      BY <1>0, <2>1, <2>4, <2>5, <3>2 DEF Lengths
    <3> QED BY <3>1, <3>2
  <2> QED BY <1>0, <1>10, <2>3, <2>6, LengthsFollow DEF InstanceRemoved
<1>11. ASSUME NEW p \in Processes, NEW i \in DOMAIN instances[p],
              InstanceExit(p, i) \/ InstanceRestarted(p, i)
       PROVE  LengthsHold'
  <2>1. Len(instances'[p]) = Len(instances[p])
    <3>1. PICK x \in Instance : instances' = [instances EXCEPT ![p][i] = x]
      BY <1>11, NewChild DEF HealthInv, InstanceExit, Instance
    <3> QED BY <3>1, InstanceChanges DEF HealthInv
  <2>2. phase' = phase /\ \A q \in Processes : q # p => instances'[q] = instances[q]
    BY <1>0, <1>11 DEF InstanceExit, InstanceRestarted, daemonVars
  <2> QED BY <2>1, <2>2 DEF LengthsHold, Lengths
<1>12. ASSUME NEW p \in Processes, DeleteProcess(p) \/ \E call \in {"stop", "restart"} : Requested(p, call)
       PROVE  LengthsHold'
  BY <1>1, <1>12 DEF DeleteProcess, Requested, monitorVars
<1>13. ASSUME NEW c \in Checks, CheckBegins(c) \/ CheckStep(c) PROVE LengthsHold'
  BY <1>1, <1>13 DEF CheckBegins, CheckStep, ReadAgain, ReadFails, ReadDone, AsksRestart, daemonVars
<1>14. CASE GracefulShutdown
  BY <1>1, <1>14 DEF GracefulShutdown, StopMonitoring
<1>15. CASE UNCHANGED vars
  BY <1>1, <1>15 DEF vars, monitorVars, daemonVars
<1> QED
  BY <1>4, <1>5, <1>6, <1>7, <1>8, <1>9, <1>10, <1>11, <1>12, <1>13, <1>14, <1>15
     DEF Next, ProcessStep

LEMMA InitLengths == Init => LengthsHold
BY DEF Init, MonitorInit, LengthsHold, Lengths

LEMMA Invariance == Spec => [](HealthInv /\ LengthsHold)
BY InitHolds, InitLengths, NextKeeps, NextLengths, PTL DEF Spec

\* The variables keep their types.  No process is in the Map twice, and an
\* iteration over the Map has nothing ahead of it that was deleted.  A process has
\* as many instances as it should, also when a graceful reload has ended.
THEOREM TypeInvariance == Spec => []TypeOK
<1>1. HealthInv /\ LengthsHold => TypeOK
  <2> SUFFICES ASSUME HealthInv, LengthsHold PROVE TypeOK
    OBVIOUS
  <2>1. DaemonTypes /\ InstanceTypes /\ MonitorTypes /\ ChecksWalk
    BY DEF HealthInv
  <2>2. \A p \in Processes : ToSet(instances[p]) \subseteq Instance
    BY <2>1, ListHas DEF InstanceTypes
  <2>3. ASSUME NEW c \in Checks
        PROVE  /\ checks[c] # Idle => ToSet(checks[c].todo) \subseteq Demand
               /\ Measuring(c) => ToSet(checks[c].rest) \subseteq ToSet(monitored)
    <3>1. PICK w \in Check : w = checks[c] /\ WalkInv(w)
      BY <2>1 DEF MonitorTypes, ChecksWalk
    <3>2. w # Idle => w.todo \in Seq(Demand)
      BY CheckIs DEF Walking, Acting
    <3>3. Walks(w) => ToSet(w.rest) \subseteq ToSet(monitored)
      BY <3>1 DEF WalkInv, RestAhead
    <3> QED BY <3>1, <3>2, <3>3, ListHas DEF Measuring, Walks
  <2>4. ToSet(monitored) \subseteq Processes
    BY <2>1, ListHas DEF MonitorTypes
  <2> QED BY <2>1, <2>2, <2>3, <2>4 DEF TypeOK, DaemonTypes, LengthsHold, MonitorTypes, Phases
<1> QED BY <1>1, Invariance, PTL

\* However many checks overlap, and however processes are removed, restarted and
\* added again while they wait for a measurement, a check comes to no child that
\* it has measured: a process is walked over again only with new children, and a
\* graceful reload brings none back that the walk has passed.
THEOREM EachChildOnce == Spec => []OncePerCheck
<1>1. HealthInv => OncePerCheck
  <2> SUFFICES ASSUME HealthInv, NEW c \in Checks, Measuring(c), checks[c].alive
               PROVE  <<checks[c].process, checks[c].index>> \notin checks[c].measured
    BY DEF OncePerCheck
  <2>1. PICK w \in Check : w = checks[c] /\ WalkInv(w)
    BY DEF HealthInv, MonitorTypes, ChecksWalk
  <2>2. Walks(w) /\ w \in Walking
    BY <2>1, CheckIs DEF Measuring, Walks
  <2>3. \A m \in w.measured : m[1] = w.process => m[2] < w.index
    BY <2>1, <2>2 DEF WalkInv, HereOnce, AliveRuns
  <2>4. w.index \in Nat
    BY <2>2 DEF Walking, Place
  <2>5. SUFFICES ASSUME <<w.process, w.index>> \in w.measured PROVE FALSE
    BY <2>1
  <2>6. w.index < w.index
    BY <2>3, <2>5
  <2> QED BY <2>4, <2>6
<1> QED BY <1>1, Invariance, PTL
=============================================================================
