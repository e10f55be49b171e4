--------------------------- MODULE HealthMonitor ---------------------------
(***************************************************************************)
(* The HealthMonitor of NodeDaemon: the processes it knows and its checks. *)
(* A check walks over the processes and their instances and is suspended   *)
(* while it measures each child; nothing keeps the interval from starting  *)
(* the next check meanwhile.  The histories of samples, which only the log *)
(* sees, are left out.  The actions are steps of MonitoredProcesses.       *)
(***************************************************************************)
EXTENDS Naturals, SequencesExt

CONSTANTS
  Processes,
  Checks,            \* bound: so many checks overlap
  Usage,             \* what a child uses: [memory: Nat, cpu: Nat]
  MEMORY_THRESHOLD,
  CPU_THRESHOLD,
  Platforms

ASSUME HealthAssumption ==
  /\ Usage \subseteq [memory: Nat, cpu: Nat]
  /\ MEMORY_THRESHOLD \in Nat /\ CPU_THRESHOLD \in Nat
  /\ Platforms \subseteq {"linux", "darwin", "win32"}

VARIABLES
  platform,      \* of the daemon, never changed
  instances,     \* instances[p]: the instances of the ProcessInfo, which the
                 \* monitor shares with the orchestrator
  monitored,     \* the keys of the Map, in its order
  isMonitoring,  \* and the interval is armed
  checks         \* the calls of performHealthCheck, up to the end of the
                 \* listener of 'healthIssues'

monitorVars == <<platform, instances, monitored, isMonitoring, checks>>

\* An instance whose child runs, with what it uses, or does not.
Off == [running |-> FALSE]
Instance == {Off} \cup [running: {TRUE}, usage: Usage]

\* What the listener has to do for a result: so many restarts, the first of
\* them only if the process is still found.
Demand == [process: Processes, restarts: {1, 2}, first: BOOLEAN]

Idle == [stage |-> "idle"]

Measuring(c) == checks[c].stage \in {"measuring", "again"}

MonitorInit ==
  /\ platform \in Platforms
  /\ instances = [p \in Processes |-> <<>>]
  /\ monitored = <<>>
  /\ isMonitoring = TRUE   \* start() arms it before anything is started
  /\ checks = [c \in Checks |-> Idle]

-----------------------------------------------------------------------------
(* The Map of processes.  An iteration over it sees what is removed and    *)
(* added meanwhile: a check keeps the rest of its iteration.               *)

\* A list of different processes without p.
Without(list, p) ==
  IF Contains(list, p) THEN RemoveAt(list, CHOOSE k \in DOMAIN list : list[k] = p) ELSE list

BugIterationForgets(p) == checks

\* Deleting a key takes it from the iterations that have not reached it.
IterationForgets(p) ==
  [c \in Checks |->
     IF Measuring(c) THEN [checks[c] EXCEPT !.rest = Without(@, p)] ELSE checks[c]]

\* A new key comes last, in the Map and in every iteration.
IterationAppends(p, current) ==
  [c \in Checks |->
     IF Measuring(c) /\ ~Contains(monitored, p)
       THEN [current[c] EXCEPT !.rest = Append(@, p)]
       ELSE current[c]]

MapSet(p) == IF Contains(monitored, p) THEN monitored ELSE Append(monitored, p)

\* addProcess.
AddProcess(p) ==
  /\ monitored' = MapSet(p)
  /\ checks' = IterationAppends(p, checks)
  /\ isMonitoring' = TRUE

\* removeProcess; "current" are the checks as the event leaves them.
RemoveProcess(p, current) ==
  /\ monitored' = Without(monitored, p)
  /\ checks' = current
  /\ isMonitoring' = (isMonitoring /\ monitored' # <<>>)

\* updateProcess leaves the interval as it is.
UpdateProcess(p, current) ==
  /\ monitored' = MapSet(p)
  /\ checks' = IterationAppends(p, current)
  /\ UNCHANGED isMonitoring

StopMonitoring ==
  isMonitoring' = FALSE /\ UNCHANGED <<platform, instances, monitored, checks>>

-----------------------------------------------------------------------------
(* A check.                                                                *)

Running(p) == {i \in DOMAIN instances[p] : instances[p][i].running}

\* The loops of performHealthCheck go on to the next child that is running.
\* "here" says that the instances of the process are still the array the inner
\* loop walks over (those of one that was replaced have all stopped), "place" is
\* where the loop is in it, "alive" that the child whose pid was taken is still
\* there, at "index".
Walk(at, measured, todo) ==
  LET later == IF at.here THEN {i \in Running(at.process) : i > at.place} ELSE {}
      ahead == {k \in DOMAIN at.rest : Running(at.rest[k]) # {}}
      Visit(p, i, rest) ==
        [stage |-> "measuring", process |-> p, place |-> i, index |-> i, here |-> TRUE,
         alive |-> TRUE, rest |-> rest, measured |-> measured, todo |-> todo]
  IN IF later # {} THEN Visit(at.process, Min(later), at.rest)
     ELSE IF ahead # {}
       THEN LET k == Min(ahead)
            IN Visit(at.rest[k], Min(Running(at.rest[k])), SubSeq(at.rest, k + 1, Len(at.rest)))
     ELSE IF todo # <<>> THEN [stage |-> "acting", todo |-> todo]
     ELSE Idle

\* The child at i of p is no longer the one that was there, nor the array if
\* it was replaced.
Gone(p, i, replaced, current) ==
  [c \in Checks |->
     IF ~Measuring(c) THEN current[c]
     ELSE LET here == checks[c].process = p /\ checks[c].here
          IN [current[c] EXCEPT
                !.here = @ /\ ~(here /\ replaced),
                !.alive = @ /\ ~(here /\ checks[c].index = i),
                !.measured = @ \ {<<p, i>>}]]

\* The first child of p goes, and the others move up in the array; the loop that
\* walks over it stays at its place.
MovedUp(p) ==
  LET left == Gone(p, 1, FALSE, checks)
  IN [c \in Checks |->
        IF ~Measuring(c) THEN left[c]
        ELSE [left[c] EXCEPT
                !.index = IF left[c].alive /\ left[c].process = p THEN @ - 1 ELSE @,
                !.measured = {IF m[1] = p THEN <<p, m[2] - 1>> ELSE m : m \in @}]]

\* The first of the two reads of Linux and Windows; ps needs one.
ReadAgain(c) ==
  /\ checks[c].stage = "measuring" /\ platform # "darwin" /\ checks[c].alive
  /\ checks' = [checks EXCEPT ![c].stage = "again"]
  /\ UNCHANGED <<platform, instances, monitored, isMonitoring>>

\* checkInstanceHealth throws when the child is gone; the second command of
\* Windows may fail.
CannotRead(c) ==
  /\ \/ checks[c].stage = "measuring"
     \/ checks[c].stage = "again" /\ platform = "linux"
  /\ ~checks[c].alive

CanRead(c) ==
  \/ checks[c].stage = "measuring" /\ platform = "darwin" /\ checks[c].alive
  \/ checks[c].stage = "again" /\ (platform = "win32" \/ checks[c].alive)

\* Only ps tells a percentage of the CPU: the others leave 0.
Sample(usage) == IF platform = "darwin" THEN usage ELSE [usage EXCEPT !.cpu = 0]

\* What is read: what the child uses, or used before it went.
Samples(c) ==
  LET child == instances[checks[c].process][checks[c].index]
  IN IF checks[c].alive THEN {Sample(child.usage)} ELSE {Sample(usage) : usage \in Usage}

\* checkInstanceHealth after its await.
Issues(sample) ==
  {issue \in {"memory", "cpu"} :
     \/ issue = "memory" /\ sample.memory > MEMORY_THRESHOLD
     \/ issue = "cpu" /\ sample.cpu > CPU_THRESHOLD}
=============================================================================
