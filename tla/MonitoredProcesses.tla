------------------------- MODULE MonitoredProcesses -------------------------
(***************************************************************************)
(* The HealthMonitor as the daemon wires it: the events of the orchestrator *)
(* add and remove processes, and the listener of 'healthIssues' restarts    *)
(* what exceeds its limits, one after the other.                           *)
(*                                                                         *)
(* The orchestrator appears as its events show it (module Orchestrator has *)
(* it in full).  Calls for one process that overlap end together, and after *)
(* a start or a graceful reload that is under way; a crash and the restart  *)
(* that answers it are one step.                                           *)
(***************************************************************************)
EXTENDS HealthMonitor

CONSTANTS
  Instances,    \* Instances[p]: how many
  Gracefully,   \* the processes that clients restart gracefully
  MemoryLimit,  \* MemoryLimit[p]: memoryThreshold, if p has autoRestartOnHighMemory
  CpuLimit,     \* the same for the CPU
  Unlimited,
  MaxEvents     \* bound: so many events of clients and crashes that are restarted;
                \* a graceful reload, which starts and stops, counts for two

ASSUME LimitAssumption ==
  /\ Instances \in [Processes -> Nat \ {0}]
  /\ Gracefully \subseteq {p \in Processes : Instances[p] > 1}
  /\ MemoryLimit \in [Processes -> Nat \cup {Unlimited}] /\ Unlimited \notin Nat
  /\ CpuLimit \in [Processes -> Nat \cup {Unlimited}]
  /\ MaxEvents \in Nat

VARIABLES
  phase,    \* of each process: "none", "launching" for startProcess, "up",
            \* "starting" in a restart, "stuck" when that failed, "reloading"
            \* while a graceful reload adds its instances, "replacing" while it
            \* stops the old ones, "down"
  deleted,  \* the processes that the orchestrator knows no longer
  calls,    \* the calls that wait for its children to exit
  halting,  \* gracefulShutdown of the daemon has begun
  events    \* how many of them there were

daemonVars == <<phase, deleted, calls, halting, events>>
vars == <<monitorVars, daemonVars>>

Init ==
  /\ MonitorInit
  /\ phase = [p \in Processes |-> "none"]
  /\ deleted = {}
  /\ calls = [p \in Processes |-> {}]
  /\ halting = FALSE
  /\ events = 0

NotSpawned(p) == [i \in 1..Instances[p] |-> Off]

-----------------------------------------------------------------------------
(* The orchestrator.                                                       *)

StartProcess(p) ==
  /\ phase[p] = "none" /\ ~halting
  /\ events < MaxEvents
  /\ events' = events + 1
  /\ phase' = [phase EXCEPT ![p] = "launching"]
  /\ instances' = [instances EXCEPT ![p] = NotSpawned(p)]
  /\ UNCHANGED <<platform, monitored, isMonitoring, checks, deleted, calls, halting>>

\* The await of restartProcess returns.
Restarted(todo) ==
  IF Head(todo).restarts = 2
    THEN [stage |-> "acting", todo |-> <<[Head(todo) EXCEPT !.restarts = 1, !.first = FALSE]>> \o Tail(todo)]
    ELSE IF Tail(todo) = <<>> THEN Idle ELSE [stage |-> "acting", todo |-> Tail(todo)]

\* If it throws, nothing catches it: what was left to do is not done.
GoesOn(todo, how) ==
  CASE how = "restarting" -> [stage |-> "restarting", todo |-> todo]
    [] how = "restarted"  -> Restarted(todo)
    [] how = "aborted"    -> Idle

\* The checks whose listener waits for a restart of p go on.
Resumed(p, stage, current, how) ==
  [c \in Checks |->
     IF checks[c].stage = stage /\ Head(checks[c].todo).process = p
       THEN GoesOn(checks[c].todo, how) ELSE current[c]]

\* The children spawn: startProcess or restartProcess ends and says so.
Spawned(p) ==
  /\ phase[p] \in {"launching", "starting"}
  /\ phase' = [phase EXCEPT ![p] = "up"]
  /\ \E list \in [1..Instances[p] -> [running: {TRUE}, usage: Usage]] :
       instances' = [instances EXCEPT ![p] = list]
  /\ IF phase[p] = "launching"
       THEN AddProcess(p)
       ELSE UpdateProcess(p, Resumed(p, "restarting", checks, "restarted"))
  /\ UNCHANGED <<platform, deleted, calls, halting, events>>

\* A spawn fails: startProcess or restartProcess throws.
SpawnFails(p) ==
  /\ phase[p] \in {"launching", "starting"}
  /\ phase' = [phase EXCEPT ![p] = IF @ = "launching" THEN "down" ELSE "stuck"]
  /\ checks' = Resumed(p, "restarting", checks, "aborted")
  /\ UNCHANGED <<platform, instances, monitored, isMonitoring, deleted, calls, halting, events>>

\* A child exits, because a call stops it or by itself.
InstanceExit(p, i) ==
  /\ instances[p][i].running
  /\ instances' = [instances EXCEPT ![p][i] = Off]
  /\ checks' = Gone(p, i, FALSE, checks)
  /\ UNCHANGED <<platform, monitored, isMonitoring, daemonVars>>

\* A child crashes, and its instance has another one after the backoff; nobody
\* listens to 'instanceRestarted'.
InstanceRestarted(p, i) ==
  /\ instances[p][i].running /\ calls[p] = {} /\ ~halting
  /\ events < MaxEvents
  /\ events' = events + 1
  /\ \E usage \in Usage : instances' = [instances EXCEPT ![p][i].usage = usage]
  /\ checks' = Gone(p, i, FALSE, checks)
  /\ UNCHANGED <<platform, monitored, isMonitoring, phase, deleted, calls, halting>>

\* stopProcess and restartProcess up to the exit of the children, by a client.
Requested(p, call) ==
  /\ phase[p] \in {"up", "down", "stuck"} /\ p \notin deleted /\ calls[p] = {}
  /\ events < MaxEvents
  /\ events' = events + 1
  /\ calls' = [calls EXCEPT ![p] = {call}]
  /\ UNCHANGED <<monitorVars, phase, deleted, halting>>

\* restartProcess for a client that asks for a graceful restart of a cluster.
ReloadRequested(p) ==
  /\ p \in Gracefully \ deleted /\ phase[p] \in {"up", "down", "stuck"} /\ calls[p] = {}
  /\ events + 2 <= MaxEvents
  /\ events' = events + 2
  /\ phase' = [phase EXCEPT ![p] = "reloading"]
  /\ UNCHANGED <<monitorVars, deleted, calls, halting>>

\* One instance too many.
BugOneMore(p) ==
  /\ phase[p] = "reloading"
  /\ \E child \in Instance : instances' = [instances EXCEPT ![p] = Append(@, child)]
  /\ phase' = [phase EXCEPT ![p] =
       IF Len(instances[p]) = 2 * Instances[p] THEN "replacing" ELSE @]
  /\ UNCHANGED <<platform, monitored, isMonitoring, checks, deleted, calls, halting, events>>

\* gracefulReload pushes an instance, whose spawn may fail.
InstanceAdded(p) ==
  /\ phase[p] = "reloading"
  /\ \E child \in Instance : instances' = [instances EXCEPT ![p] = Append(@, child)]
  /\ phase' = [phase EXCEPT ![p] =
       IF Len(instances[p]) + 1 = 2 * Instances[p] THEN "replacing" ELSE @]
  /\ UNCHANGED <<platform, monitored, isMonitoring, checks, deleted, calls, halting, events>>

\* gracefulReload has stopped the next old instance, and takes it from the array;
\* nobody listens to 'processReloaded'.
InstanceRemoved(p) ==
  /\ phase[p] = "replacing"
  /\ instances' = [instances EXCEPT ![p] = Tail(@)]
  /\ checks' = MovedUp(p)
  /\ phase' = [phase EXCEPT ![p] =
       IF Len(instances[p]) - 1 = Instances[p] THEN "up" ELSE @]
  /\ UNCHANGED <<platform, monitored, isMonitoring, deleted, calls, halting, events>>

\* All children have exited: 'processStopped', and a restart goes on with a new
\* array of instances, unless the process is no longer found.
ProcessStopped(p) ==
  LET restarts == "restart" \in calls[p] /\ p \notin deleted
      forgotten == IF Contains(monitored, p) THEN IterationForgets(p) ELSE checks
  IN /\ calls[p] # {} /\ Running(p) = {} /\ phase[p] \in {"up", "stuck", "down"}
     /\ calls' = [calls EXCEPT ![p] = {}]
     /\ phase' = [phase EXCEPT ![p] = IF restarts THEN "starting" ELSE "down"]
     /\ instances' = [instances EXCEPT ![p] = IF restarts THEN NotSpawned(p) ELSE @]
     /\ RemoveProcess(p,
          IF restarts
            THEN Gone(p, 0, TRUE, Resumed(p, "asked", forgotten, "restarting"))
            ELSE Resumed(p, "asked", forgotten, "aborted"))
     /\ UNCHANGED <<platform, deleted, halting, events>>

\* deleteProcess: not while the status is 'running' or 'starting', which that of
\* a reload is not before a child exits; nobody listens to 'processDeleted'.
DeleteProcess(p) ==
  /\ p \notin deleted
  /\ \/ phase[p] \in {"up", "down"} /\ (Running(p) = {} \/ calls[p] # {})
     \/ phase[p] \in {"reloading", "replacing"}
  /\ deleted' = deleted \cup {p}
  /\ UNCHANGED <<monitorVars, phase, calls, halting, events>>

\* The processes that are running or starting, unless a reload hides it.
Alive ==
  {p \in Processes :
     \/ phase[p] \in {"launching", "starting", "stuck"}
     \/ phase[p] = "up" /\ Running(p) # {}}

\* gracefulShutdown: monitoring stops, then all processes; checks go on.
GracefulShutdown ==
  /\ ~halting
  /\ halting' = TRUE
  /\ StopMonitoring
  /\ \E hidden \in SUBSET {p \in Processes : phase[p] \in {"reloading", "replacing"}} :
       calls' = [p \in Processes |->
         IF p \in (Alive \cup hidden) \ deleted THEN calls[p] \cup {"stop"} ELSE calls[p]]
  /\ UNCHANGED <<phase, deleted, events>>

-----------------------------------------------------------------------------
(* The checks and their listener.                                          *)

Over(value, limit) == limit # Unlimited /\ value > limit

BugDemands(p, sample) ==
  IF Over(sample.memory, MemoryLimit[p]) /\ Over(sample.cpu, CpuLimit[p])
    THEN <<[process |-> p, restarts |-> 1, first |-> TRUE]>> ELSE <<>>

\* What the listener of 'healthIssues' will find in the result.
Demands(p, sample) ==
  LET causes == {issue \in Issues(sample) :
                   \/ issue = "memory" /\ Over(sample.memory, MemoryLimit[p])
                   \/ issue = "cpu" /\ Over(sample.cpu, CpuLimit[p])}
  IN IF causes = {} THEN <<>>
     ELSE <<[process |-> p, restarts |-> Cardinality(causes), first |-> TRUE]>>

CheckBegins(c) ==
  /\ isMonitoring /\ checks[c] = Idle
  /\ checks' = [checks EXCEPT ![c] = Walk([here |-> FALSE, rest |-> monitored], {}, <<>>)]
  /\ UNCHANGED <<platform, instances, monitored, isMonitoring, daemonVars>>

Seen(c) ==
  IF checks[c].alive THEN checks[c].measured \cup {<<checks[c].process, checks[c].index>>}
                     ELSE checks[c].measured

\* A failed check is an issue that no limit is compared with.
ReadFails(c) ==
  /\ CannotRead(c)
  /\ checks' = [checks EXCEPT ![c] = Walk(checks[c], Seen(c), checks[c].todo)]
  /\ UNCHANGED <<platform, instances, monitored, isMonitoring, daemonVars>>

ReadDone(c) ==
  /\ CanRead(c)
  /\ \E sample \in Samples(c) :
       checks' = [checks EXCEPT ![c] =
         Walk(checks[c], Seen(c), checks[c].todo \o Demands(checks[c].process, sample))]
  /\ UNCHANGED <<platform, instances, monitored, isMonitoring, daemonVars>>

\* The listener comes to its next restart.
AsksRestart(c) ==
  /\ checks[c].stage = "acting"
  /\ LET demand == Head(checks[c].todo)
         p == demand.process
         rest == Tail(checks[c].todo)
     IN IF p \notin deleted
          THEN /\ checks' = [checks EXCEPT ![c].stage = "asked"]
               /\ calls' = [calls EXCEPT ![p] = @ \cup {"restart"}]
          ELSE /\ checks' = [checks EXCEPT ![c] =
                    IF demand.first /\ rest # <<>> THEN [stage |-> "acting", todo |-> rest] ELSE Idle]
               /\ UNCHANGED calls
  /\ UNCHANGED <<platform, instances, monitored, isMonitoring, phase, deleted, halting, events>>

-----------------------------------------------------------------------------
ProcessStep ==
  \E p \in Processes :
    \/ StartProcess(p) \/ Spawned(p) \/ SpawnFails(p) \/ ProcessStopped(p) \/ DeleteProcess(p)
    \/ ReloadRequested(p) \/ InstanceAdded(p) \/ InstanceRemoved(p)
    \/ \E call \in {"stop", "restart"} : Requested(p, call)
    \/ \E i \in DOMAIN instances[p] : InstanceExit(p, i) \/ InstanceRestarted(p, i)

CheckStep(c) ==
  \/ (ReadAgain(c) /\ UNCHANGED daemonVars)
  \/ ReadFails(c) \/ ReadDone(c) \/ AsksRestart(c)

Next ==
  \/ ProcessStep
  \/ \E c \in Checks : CheckBegins(c) \/ CheckStep(c)
  \/ GracefulShutdown

Spec == Init /\ [][Next]_vars

\* The interval fires, /proc and ps answer, the listener goes on when a restart
\* has ended; spawns succeed or fail, and a child that a call stops goes at the
\* latest with SIGKILL.  Children owe no other exit, clients no request.
FairSpec ==
  /\ Spec
  /\ \A c \in Checks : WF_vars(CheckBegins(c)) /\ WF_vars(CheckStep(c))
  /\ \A p \in Processes :
       /\ WF_vars(Spawned(p) \/ SpawnFails(p)) /\ WF_vars(ProcessStopped(p))
       /\ WF_vars(InstanceAdded(p)) /\ WF_vars(InstanceRemoved(p))
       /\ \A i \in 1..2 * Instances[p] :
            WF_vars(i \in DOMAIN instances[p] /\ calls[p] # {} /\ InstanceExit(p, i))

-----------------------------------------------------------------------------
\* So many instances a process has, before it starts, in a reload and otherwise.
Lengths(p) ==
  CASE phase[p] = "none" -> {0}
    [] phase[p] = "reloading" -> Instances[p]..2 * Instances[p] - 1
    [] phase[p] = "replacing" -> Instances[p] + 1..2 * Instances[p]
    [] OTHER -> {Instances[p]}

\* The types of the variables.
TypeOK ==
  /\ platform \in Platforms
  /\ \A p \in Processes :
       /\ Len(instances[p]) \in Lengths(p)
       /\ ToSet(instances[p]) \subseteq Instance
       /\ phase[p] \in {"none", "launching", "up", "starting", "stuck", "reloading",
                         "replacing", "down"}
       /\ calls[p] \subseteq {"stop", "restart"}
  /\ IsInjective(monitored) /\ ToSet(monitored) \subseteq Processes
  /\ deleted \subseteq Processes
  /\ isMonitoring \in BOOLEAN /\ halting \in BOOLEAN
  /\ \A c \in Checks :
       /\ checks[c] # Idle => ToSet(checks[c].todo) \subseteq Demand
       /\ Measuring(c) => ToSet(checks[c].rest) \subseteq ToSet(monitored)
  /\ events \in 0..MaxEvents

\* However processes go and come back while a check is under way, and whatever
\* other checks do, it measures each child once at most.
OncePerCheck ==
  \A c \in Checks : Measuring(c) /\ checks[c].alive =>
    <<checks[c].process, checks[c].index>> \notin checks[c].measured

\* What a running child of a monitored process uses beyond its limits.
TooMuch(p) ==
  \E i \in Running(p) :
    LET sample == Sample(instances[p][i].usage)
    IN \/ sample.memory > MEMORY_THRESHOLD /\ Over(sample.memory, MemoryLimit[p])
       \/ sample.cpu > CPU_THRESHOLD /\ Over(sample.cpu, CpuLimit[p])

\* A process that goes on using too much is restarted: although checks measure
\* others first, restarts of others fail and abort the listener, and processes
\* and their instances come and go under the iteration.  One that was deleted
\* during a reload goes on unknown to the orchestrator, and nothing restarts it.
TooMuchRestarts ==
  \A p \in Processes :
    TooMuch(p) /\ Contains(monitored, p) /\ isMonitoring
      ~> \/ "restart" \in calls[p] \/ ~TooMuch(p)
         \/ ~Contains(monitored, p) \/ ~isMonitoring \/ p \in deleted
=============================================================================
