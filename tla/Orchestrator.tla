---------------------------- MODULE Orchestrator ----------------------------
(***************************************************************************)
(* The ProcessOrchestrator of NodeDaemon: the objects it supervises, the   *)
(* callbacks Node.js runs in it and the asynchronous calls in flight.      *)
(*                                                                         *)
(* Node.js is single threaded.  One action is one callback of the event    *)
(* loop (an event of a child, a timer, a request) together with everything *)
(* it does before its first await; what follows an await is an action of   *)
(* its own.  process.nextTick callbacks and promise continuations run      *)
(* before the next callback of the loop, so every callback carries the     *)
(* guard Quiet: nothing of that sort is pending.                           *)
(***************************************************************************)
EXTENDS Integers, Sequences, FiniteSets

CONSTANTS
  Process,      \* the identifiers startProcess may hand out
  Clustered,    \* the processes for which determineStrategy answers 'cluster'
  Count,        \* Count[p]: resolveInstanceCount of p's configuration
  MaxRestarts,  \* config.maxRestarts
  Client,       \* the callers: each has at most one call in flight
  NoProcess,    \* no process
  Faults,       \* what may go wrong outside: "error" (a spawn fails),
                \* "timeout" (a worker is not online after 30 s), "slow"
                \* (the exit of a killed child is seen after the cleanup timer)
  MaxChildren   \* bound: requests and restarts are let through only while
                \* fewer children than this have ever been spawned

\* A configuration with more than one instance always selects 'cluster';
\* a shutdown stops process p in a call slot of its own, named p.
ASSUME ConfigAssumption ==
  /\ Clustered \subseteq Process
  /\ Count \in [Process -> Nat \ {0}]
  /\ \A p \in Process \ Clustered : Count[p] = 1
  /\ MaxRestarts \in Nat /\ MaxChildren \in Nat
  /\ Faults \subseteq {"error", "timeout", "slow"}

ASSUME SlotAssumption ==
  /\ Process \cap Client = {}
  /\ NoProcess \notin Process
  /\ {"restart", "nobody"} \cap (Process \cup Client) = {}

VARIABLES
  processes,  \* the keys of the processes map
  info,       \* info[p]: the ProcessInfo object of p (status, instances)
  inst,       \* every ProcessInstance ever created, in creation order, with
              \* its childProcesses entry and its restart timers
  child,      \* every child process ever spawned, in spawning order
  stops,      \* the stopInstance promises that are pending
  calls,      \* the public methods that are suspended at an await
  shutdown    \* "no", or how far gracefulShutdown is (isShuttingDown)

vars == <<processes, info, inst, child, stops, calls, shutdown>>

Call == Client \cup Process

ProcessStatus == {"none", "starting", "running", "stopping", "stopped",
                  "errored", "reloading"}
InstanceStatus == {"starting", "running", "stopped", "crashed", "errored"}

\* child: the entry of childProcesses (0: none); pid: the child whose pid was
\* recorded last (0: undefined); held: the restart timer in restartTimers is
\* armed; lost: armed restart timers that restartTimers no longer holds.
Instance == [home: Process, status: InstanceStatus, restarts: Nat, pid: Nat,
             child: Nat, held: BOOLEAN, lost: Nat]

\* worker: forked by cluster.fork; waiter: who awaits its start promise;
\* timer: its start timeout is armed.
Child == [owner: Nat, state: {"spawned", "online", "exited", "failed"},
          worker: BOOLEAN, waiter: Call \cup {"restart", "nobody"},
          timer: BOOLEAN]

\* "term": SIGTERM sent, waiting for the exit or the kill timer;
\* "kill": SIGKILL sent, waiting for the timer that runs cleanup.
Stop == [call: Call, inst: Nat, child: Nat, phase: {"term", "kill"}]

\* todo, old: gracefulReload's instances still to start, still to stop.
CallRecord == [kind: {"none", "start", "stop", "restart", "reload"},
               proc: Process \cup {NoProcess},
               phase: {"idle", "starting", "stopping", "spawning",
                       "settling", "retiring", "pausing"},
               failed: BOOLEAN, todo: Nat, old: SUBSET Nat]

NoCall == [kind |-> "none", proc |-> NoProcess, phase |-> "idle",
           failed |-> FALSE, todo |-> 0, old |-> {}]

NewCall(kind, p, phase) ==
  [NoCall EXCEPT !.kind = kind, !.proc = p, !.phase = phase]

NewInstance(p, c) ==
  [home |-> p, status |-> "starting", restarts |-> 0, pid |-> 0,
   child |-> c, held |-> FALSE, lost |-> 0]

NewChild(i, worker, waiter) ==
  [owner |-> i, state |-> "spawned", worker |-> worker, waiter |-> waiter,
   timer |-> TRUE]

Init ==
  /\ processes = {}
  /\ info = [p \in Process |-> [status |-> "none", instances |-> {}]]
  /\ inst = <<>> /\ child = <<>>
  /\ stops = {}
  /\ calls = [o \in Call |-> NoCall]
  /\ shutdown = "no"

-----------------------------------------------------------------------------
(* What the event loop has to run before its next callback.                *)

\* The promise that call o awaits has been settled.
Ready(o) ==
  \/ /\ calls[o].phase \in {"starting", "spawning"}
     /\ calls[o].failed \/ \A c \in DOMAIN child : child[c].waiter # o
  \/ /\ calls[o].phase \in {"stopping", "retiring"}
     /\ \A r \in stops : r.call # o

\* The 'spawn' or 'error' event of a plain child is emitted on the next tick;
\* a worker's 'online' is a message that arrives later.
NextTick(c) == child[c].state = "spawned" /\ ~child[c].worker

Alive(c) == child[c].state \in {"spawned", "online"}

ShutdownStopped == shutdown = "stopping" /\ \A p \in Process : calls[p] = NoCall

Quiet ==
  /\ \A c \in DOMAIN child : ~NextTick(c)
  /\ \A o \in Call : ~Ready(o)
  /\ ~ShutdownStopped

\* The bound on the instance of the model.
Room == Len(child) < MaxChildren

-----------------------------------------------------------------------------
(* Helpers on s = [inst |-> ..., info |-> ...], the objects a callback     *)
(* works on, so that one callback can run several of them in order.        *)

Now == [inst |-> inst, info |-> info]

UpdateProcessStatus(s, p) ==
  LET Some(S) == \E i \in s.info[p].instances : s.inst[i].status \in S
  IN [s EXCEPT !.info[p].status =
        IF Some({"running"}) THEN "running"
        ELSE IF Some({"errored", "crashed"}) THEN "errored"
        ELSE IF Some({"starting"}) THEN "starting" ELSE "stopped"]

BugSupervised(s, i) == s.info[s.inst[i].home].status # "stopping"

\* The exit of instance i is taken for a crash.
Supervised(s, i) == s.info[s.inst[i].home].status # "stopping" /\ shutdown = "no"

BugMayRestart(n) == n <= MaxRestarts

MayRestart(n) == n < MaxRestarts

\* scheduleRestart: a timer already in restartTimers is overwritten, not cleared.
ScheduleRestart(x) == [x EXCEPT !.held = TRUE, !.lost = @ + (IF x.held THEN 1 ELSE 0)]

BugGiveUp(x) == [ScheduleRestart(x) EXCEPT !.status = "errored"]

GiveUp(x) == [x EXCEPT !.status = "errored"]

BugExited(x, ok, long) ==
  [x EXCEPT !.status = IF ok THEN "stopped" ELSE "crashed",
            !.restarts = IF long THEN 0 ELSE @]

\* ok: exit code 0; long: up for at least minUptime since it was last online.
Exited(x, ok, long) ==
  [x EXCEPT !.status = IF ok THEN "stopped" ELSE "crashed",
            !.child = 0,
            !.restarts = IF long THEN 0 ELSE @]

HandleInstanceExit(s, i, ok, long) ==
  LET exited == Exited(s.inst[i], ok, long)
      handled == IF ~Supervised(s, i) THEN exited
                 ELSE IF MayRestart(exited.restarts) THEN ScheduleRestart(exited)
                 ELSE GiveUp(exited)
  IN UpdateProcessStatus([s EXCEPT !.inst[i] = handled], s.inst[i].home)

\* The closure of stopInstance that ends its promise.
Cleanup(s, i) == [s EXCEPT !.inst[i].child = 0, !.inst[i].status = "stopped"]

BugHandleWorkerExit(s, c, ok, long) ==
  LET i == child[c].owner
  IN IF (\E p \in processes : i \in s.info[p].instances) /\ s.inst[i].pid = c
     THEN HandleInstanceExit(s, i, ok, long)
     ELSE s

\* handleWorkerExit: cluster's own 'exit' event finds the instance by pid.
HandleWorkerExit(s, c, ok, long) ==
  LET i == child[c].owner
  IN IF /\ child[c].worker
        /\ \E p \in processes : i \in s.info[p].instances
        /\ s.inst[i].pid = c
     THEN HandleInstanceExit(s, i, ok, long)
     ELSE s

BugNewIds(n) == Len(inst)..(Len(inst) + n - 1)

NewIds(n) == (Len(inst) + 1)..(Len(inst) + n)

\* Start n new instances of p, each in a child of its own, awaited by o.
Launch(p, n, worker, o, keep, status) ==
  /\ inst' = inst \o [j \in 1..n |-> NewInstance(p, Len(child) + j)]
  /\ child' = child \o [j \in 1..n |-> NewChild(Len(inst) + j, worker, o)]
  /\ info' = [info EXCEPT ![p] = [status |-> status, instances |-> keep \cup NewIds(n)]]

BugLaunchAll(p, o) ==
  Launch(p, Count[p], p \in Clustered /\ Count[p] > 1, o, info[p].instances, "starting")

\* startClusterProcess or startSingleProcess: a lone instance is never a worker.
LaunchAll(p, o) == Launch(p, Count[p], p \in Clustered /\ Count[p] > 1, o, {}, "starting")

\* The synchronous part of stopProcess, for every p in the domain of slot.
BeginStop(slot, kind, force) ==
  LET S == DOMAIN slot
      Targets(p) == {i \in info[p].instances : inst[i].child # 0}
  IN /\ info' = [p \in Process |-> IF p \in S THEN [info[p] EXCEPT !.status = "stopping"]
                                   ELSE info[p]]
     /\ stops' = stops \cup UNION
          {{[call |-> slot[p], inst |-> i, child |-> inst[i].child,
             phase |-> IF force THEN "kill" ELSE "term"] : i \in Targets(p)} : p \in S}
     /\ calls' = [o \in Call |->
          IF \E p \in S : slot[p] = o
          THEN NewCall(kind, CHOOSE p \in S : slot[p] = o, "stopping")
          ELSE calls[o]]
     /\ UNCHANGED <<inst, child>>

-----------------------------------------------------------------------------
(* Requests.  IPC handlers, the web interface, file changes and the health *)
(* monitor all end in one of these methods.                                *)

StartProcess(o, p) ==
  /\ Quiet /\ Room
  /\ calls[o] = NoCall
  /\ shutdown = "no"
  /\ info[p].status = "none"
  /\ processes' = processes \cup {p}
  /\ LaunchAll(p, o)
  /\ calls' = [calls EXCEPT ![o] = NewCall("start", p, "starting")]
  /\ UNCHANGED <<stops, shutdown>>

StopProcess(o, p, force) ==
  /\ Quiet
  /\ calls[o] = NoCall
  /\ p \in processes
  /\ BeginStop([q \in {p} |-> o], "stop", force)
  /\ UNCHANGED <<processes, shutdown>>

\* restartProcess other than the graceful reload of a cluster: it begins with
\* the synchronous part of stopProcess.
RestartProcess(o, p) ==
  /\ Quiet /\ Room
  /\ calls[o] = NoCall
  /\ p \in processes
  /\ BeginStop([q \in {p} |-> o], "restart", FALSE)
  /\ UNCHANGED <<processes, shutdown>>

\* SIGHUP: restartProcess for every running process.
ReloadAllProcesses ==
  LET running == {p \in processes : info[p].status = "running"}
  IN /\ Quiet /\ Room
     /\ running # {}
     /\ \E slot \in [running -> {o \in Client : calls[o] = NoCall}] :
          /\ \A p, q \in running : slot[p] = slot[q] => p = q
          /\ BeginStop(slot, "restart", FALSE)
     /\ UNCHANGED <<processes, shutdown>>

DeleteProcess(p) ==
  /\ Quiet
  /\ p \in processes
  /\ info[p].status \notin {"running", "starting"}
  /\ processes' = processes \ {p}
  /\ UNCHANGED <<info, inst, child, stops, calls, shutdown>>

\* With nothing to stop, gracefulShutdown returns before it clears the timers.
GracefulShutdown ==
  LET active == {p \in processes : info[p].status \in {"running", "starting"}}
  IN /\ Quiet
     /\ shutdown = "no"
     /\ shutdown' = IF active = {} THEN "done" ELSE "stopping"
     /\ BeginStop([p \in active |-> p], "stop", FALSE)
     /\ UNCHANGED processes

-----------------------------------------------------------------------------
(* Continuations of the suspended calls.                                   *)

Unawait(o) ==
  [c \in DOMAIN child |-> IF child[c].waiter = o THEN [child[c] EXCEPT !.waiter = "nobody"]
                          ELSE child[c]]

\* The end of startProcess and of restartProcess; Promise.all takes the first
\* failure.  Only startProcess records it.
FinishStart(o) ==
  LET p == calls[o].proc
      outcome == IF ~calls[o].failed THEN "running"
                 ELSE IF calls[o].kind = "start" THEN "errored" ELSE info[p].status
  IN /\ calls[o].phase = "starting" /\ Ready(o)
     /\ info' = [info EXCEPT ![p].status = outcome]
     /\ child' = Unawait(o)
     /\ calls' = [calls EXCEPT ![o] = NoCall]
     /\ UNCHANGED <<processes, inst, stops, shutdown>>

\* The end of stopProcess; restartProcess goes on to start, unless the process
\* has been deleted meanwhile.
FinishStop(o) ==
  LET p == calls[o].proc
      again == calls[o].kind = "restart" /\ p \in processes
  IN /\ calls[o].phase = "stopping" /\ Ready(o)
     /\ IF again
        THEN /\ LaunchAll(p, o)
             /\ calls' = [calls EXCEPT ![o].phase = "starting"]
        ELSE /\ info' = [info EXCEPT ![p].status = "stopped"]
             /\ calls' = [calls EXCEPT ![o] = NoCall]
             /\ UNCHANGED <<inst, child>>
     /\ UNCHANGED <<processes, stops, shutdown>>

FinishShutdown ==
  /\ ShutdownStopped
  /\ shutdown' = "done"
  /\ inst' = [i \in DOMAIN inst |-> [inst[i] EXCEPT !.held = FALSE]]
  /\ UNCHANGED <<processes, info, child, stops, calls>>

-----------------------------------------------------------------------------
(* gracefulReload: start the new instances one after the other, then stop  *)
(* the old ones one after the other.                                       *)

Oldest(S) == CHOOSE i \in S : \A j \in S : i <= j

\* Go on with todo instances to start and the instances of old to stop.
ReloadStep(o, p, todo, old, status) ==
  LET phase(ph) == [calls EXCEPT ![o] = [NewCall("reload", p, ph) EXCEPT !.todo = todo,
                                                                        !.old = old]]
      i == Oldest(old)
  IN \/ /\ todo > 0
        /\ Launch(p, 1, TRUE, o, info[p].instances, status)
        /\ calls' = phase("spawning")
        /\ UNCHANGED stops
     \/ /\ todo = 0 /\ old # {}
        /\ stops' = IF inst[i].child = 0 THEN stops
                    ELSE stops \cup {[call |-> o, inst |-> i, child |-> inst[i].child,
                                      phase |-> "term"]}
        /\ calls' = phase("retiring")
        /\ UNCHANGED <<info, inst, child>>
     \/ /\ todo = 0 /\ old = {}
        /\ info' = [info EXCEPT ![p].status = "running"]
        /\ calls' = [calls EXCEPT ![o] = NoCall]
        /\ UNCHANGED <<inst, child, stops>>

GracefulReload(o, p) ==
  /\ Quiet /\ Room
  /\ calls[o] = NoCall
  /\ p \in processes \cap Clustered
  /\ ReloadStep(o, p, Count[p], info[p].instances, "reloading")
  /\ UNCHANGED <<processes, shutdown>>

\* The new instance is online, or has failed: the failure is only logged and
\* the next one is started at once.
ReloadSpawned(o) ==
  LET p == calls[o].proc
  IN /\ calls[o].phase = "spawning" /\ Ready(o)
     /\ IF calls[o].failed
        THEN ReloadStep(o, p, calls[o].todo - 1, calls[o].old, info[p].status)
        ELSE /\ calls' = [calls EXCEPT ![o].phase = "settling"]
             /\ UNCHANGED <<info, inst, child, stops>>
     /\ UNCHANGED <<processes, shutdown>>

\* Two seconds after a new instance came online.
ReloadSettled(o) ==
  /\ Quiet
  /\ calls[o].phase = "settling"
  /\ ReloadStep(o, calls[o].proc, calls[o].todo - 1, calls[o].old,
                info[calls[o].proc].status)
  /\ UNCHANGED <<processes, shutdown>>

\* stopInstance has returned: the old instance leaves the list.
ReloadRetired(o) ==
  LET p == calls[o].proc
  IN /\ calls[o].phase = "retiring" /\ Ready(o)
     /\ info' = [info EXCEPT ![p].instances = @ \ {Oldest(calls[o].old)}]
     /\ calls' = [calls EXCEPT ![o].phase = "pausing"]
     /\ UNCHANGED <<processes, inst, child, stops, shutdown>>

\* One second after an old instance was stopped.
ReloadPaused(o) ==
  /\ Quiet
  /\ calls[o].phase = "pausing"
  /\ ReloadStep(o, calls[o].proc, 0, calls[o].old \ {Oldest(calls[o].old)},
                info[calls[o].proc].status)
  /\ UNCHANGED <<processes, shutdown>>

-----------------------------------------------------------------------------
(* Events of the children and of the timers.                               *)

BugOnline(c) ==
  LET i == child[c].owner
  IN /\ child[c].state = "spawned"
     /\ NextTick(c) \/ Quiet
     /\ child' = [child EXCEPT ![c] = [@ EXCEPT !.state = "online", !.waiter = "nobody",
                                               !.timer = FALSE]]
     /\ inst' = [inst EXCEPT ![i].status = "running"]
     /\ UNCHANGED <<processes, info, stops, calls, shutdown>>

\* 'spawn' of a plain child, 'online' of a worker.
Online(c) ==
  LET i == child[c].owner
  IN /\ child[c].state = "spawned"
     /\ NextTick(c) \/ Quiet
     /\ child' = [child EXCEPT ![c] = [@ EXCEPT !.state = "online", !.waiter = "nobody",
                                               !.timer = FALSE]]
     /\ inst' = [inst EXCEPT ![i].status = "running", ![i].pid = c]
     /\ UNCHANGED <<processes, info, stops, calls, shutdown>>

\* The start promise of child c is rejected: restartInstance marks the
\* instance, any other caller is resumed.
Reject(c) ==
  LET i == child[c].owner
      w == child[c].waiter
      s == UpdateProcessStatus([Now EXCEPT !.inst[i].status = "errored"], inst[i].home)
  IN /\ inst' = IF w = "restart" THEN s.inst ELSE inst
     /\ info' = IF w = "restart" THEN s.info ELSE info
     /\ calls' = IF w \in Call THEN [calls EXCEPT ![w].failed = TRUE] ELSE calls

BugSpawnError(c) ==
  /\ "error" \in Faults
  /\ child[c].state = "spawned"
  /\ NextTick(c) \/ Quiet
  /\ child' = [child EXCEPT ![c].state = "failed", ![c].timer = FALSE]
  /\ UNCHANGED <<processes, info, inst, stops, calls, shutdown>>

\* 'error': the child could not be spawned.  No 'exit' follows.
SpawnError(c) ==
  /\ "error" \in Faults
  /\ child[c].state = "spawned"
  /\ NextTick(c) \/ Quiet
  /\ Reject(c)
  /\ child' = [child EXCEPT ![c] = [@ EXCEPT !.state = "failed", !.waiter = "nobody",
                                            !.timer = FALSE]]
  /\ UNCHANGED <<processes, stops, shutdown>>

\* The 30 s start timeout; it is cleared once the child is online or failed.
StartTimeout(c) ==
  /\ "timeout" \in Faults
  /\ Quiet
  /\ child[c].timer
  /\ IF inst[child[c].owner].status = "starting"
     THEN /\ Reject(c)
          /\ child' = [child EXCEPT ![c] = [@ EXCEPT !.waiter = "nobody", !.timer = FALSE]]
     ELSE /\ child' = [child EXCEPT ![c].timer = FALSE]
          /\ UNCHANGED <<inst, info, calls>>
  /\ UNCHANGED <<processes, stops, shutdown>>

BugResolvedBy(c) == {r \in stops : r.child = c /\ r.phase = "kill"}

ResolvedBy(c) == {r \in stops : r.child = c /\ r.phase = "term"}

\* The listeners of 'exit' run in the order they were added: the one set when
\* the child was spawned, the ones of stopInstance, cluster's.  A worker may
\* exit before it is online; its start promise then stays pending.
Exit(c, ok, long) ==
  LET i == child[c].owner
      s1 == HandleInstanceExit(Now, i, ok, long)
      s2 == IF ResolvedBy(c) = {} THEN s1 ELSE Cleanup(s1, i)
      s3 == HandleWorkerExit(s2, c, ok, long)
  IN /\ Quiet
     /\ child[c].state = "online" \/ (child[c].state = "spawned" /\ child[c].worker)
     /\ long => inst[i].pid # 0
     /\ inst' = s3.inst /\ info' = s3.info
     /\ stops' = stops \ ResolvedBy(c)
     /\ child' = [child EXCEPT ![c].state = "exited"]
     /\ UNCHANGED <<processes, calls, shutdown>>

BugRestarted(x, kept, c) ==
  [x EXCEPT !.status = "starting", !.child = c, !.held = FALSE,
            !.lost = IF kept \/ x.held THEN x.lost ELSE x.lost - 1]

\* restartInstance on x: whichever of its timers fired (the one restartTimers
\* holds or a lost one), its entry is deleted from restartTimers.
Restarted(x, kept, c) ==
  [x EXCEPT !.restarts = x.restarts + 1, !.status = "starting", !.child = c,
            !.held = FALSE, !.lost = IF kept \/ x.held THEN x.lost ELSE x.lost - 1]

\* A restart timer of instance i fires.
RestartInstance(i, kept) ==
  /\ Quiet /\ Room
  /\ IF kept THEN inst[i].held ELSE inst[i].lost > 0
  /\ inst' = [inst EXCEPT ![i] = Restarted(inst[i], kept, Len(child) + 1)]
  /\ child' = Append(child, NewChild(i, inst[i].home \in Clustered, "restart"))
  /\ UNCHANGED <<processes, info, stops, calls, shutdown>>

BugKillTimer(r) ==
  /\ Quiet
  /\ shutdown = "no"
  /\ r \in stops /\ r.phase = "term"
  /\ stops' = (stops \ {r}) \cup {[r EXCEPT !.phase = "kill"]}
  /\ UNCHANGED <<processes, info, inst, child, calls, shutdown>>

\* 30 s after SIGTERM: SIGKILL.
KillTimer(r) ==
  /\ Quiet
  /\ r \in stops /\ r.phase = "term"
  /\ stops' = (stops \ {r}) \cup {[r EXCEPT !.phase = "kill"]}
  /\ UNCHANGED <<processes, info, inst, child, calls, shutdown>>

BugCleanupTimer(r) ==
  /\ Quiet
  /\ r \in stops /\ r.phase = "kill"
  /\ Alive(r.child) => "slow" \in Faults
  /\ inst[r.inst].child # 0
  /\ stops' = stops \ {r}
  /\ inst' = Cleanup(Now, r.inst).inst
  /\ UNCHANGED <<processes, info, child, calls, shutdown>>

\* 5 s (after a forced stop 1 s) after SIGKILL, without a look at the child.
CleanupTimer(r) ==
  /\ Quiet
  /\ r \in stops /\ r.phase = "kill"
  /\ Alive(r.child) => "slow" \in Faults
  /\ stops' = stops \ {r}
  /\ inst' = Cleanup(Now, r.inst).inst
  /\ UNCHANGED <<processes, info, child, calls, shutdown>>

-----------------------------------------------------------------------------
Request ==
  \/ \E o \in Client, p \in Process :
       \/ StartProcess(o, p)
       \/ \E force \in BOOLEAN : StopProcess(o, p, force)
       \/ RestartProcess(o, p)
       \/ GracefulReload(o, p)
  \/ \E p \in Process : DeleteProcess(p)
  \/ ReloadAllProcesses
  \/ GracefulShutdown

Continue(o) == FinishStart(o) \/ FinishStop(o) \/ ReloadSpawned(o) \/ ReloadRetired(o)

Pause(o) == ReloadSettled(o) \/ ReloadPaused(o)

Restart == \E i \in DOMAIN inst, kept \in BOOLEAN : RestartInstance(i, kept)

Next ==
  \/ Request
  \/ \E o \in Call : Continue(o) \/ Pause(o)
  \/ FinishShutdown
  \/ \E c \in DOMAIN child :
       \/ Online(c) \/ SpawnError(c) \/ StartTimeout(c)
       \/ \E ok, long \in BOOLEAN : Exit(c, ok, long)
  \/ Restart
  \/ \E r \in stops : KillTimer(r) \/ CleanupTimer(r)

Spec == Init /\ [][Next]_vars

\* The loop runs continuations to the end, and every timer that is due on each
\* turn, whatever else is waiting.  Children and callers owe nothing.
OfCall(o) == {r \in stops : r.call = o}

Fairness ==
  /\ \A o \in Call :
       /\ WF_vars(Continue(o))
       /\ SF_vars(Pause(o))
       /\ SF_vars(\E r \in OfCall(o) : KillTimer(r))
       /\ SF_vars(\E r \in OfCall(o) : CleanupTimer(r))
  /\ WF_vars(FinishShutdown)
  /\ WF_vars(\E c \in DOMAIN child : NextTick(c) /\ (Online(c) \/ SpawnError(c)))
  /\ SF_vars(\E c \in DOMAIN child : StartTimeout(c))
  /\ SF_vars(Restart)

FairSpec == Spec /\ Fairness

-----------------------------------------------------------------------------
(* Properties.                                                             *)

Plain(i) == inst[i].home \notin Clustered
Armed(i) == inst[i].held \/ inst[i].lost > 0

\* The types of the variables, and every reference names an existing object.
TypeOK ==
  /\ processes \subseteq Process
  /\ info \in [Process -> [status: ProcessStatus, instances: SUBSET Nat]]
  /\ inst \in Seq(Instance)
  /\ child \in Seq(Child)
  /\ stops \subseteq Stop
  /\ calls \in [Call -> CallRecord]
  /\ shutdown \in {"no", "stopping", "done"}
  /\ \A p \in Process : info[p].instances \subseteq DOMAIN inst
  /\ \A c \in DOMAIN child : child[c].owner \in DOMAIN inst
  /\ \A r \in stops : r.inst \in DOMAIN inst
  /\ \A o \in Call : /\ calls[o].old \subseteq DOMAIN inst
                     /\ calls[o].phase # "idle" => calls[o].proc \in Process

\* A plain instance has one living child, or one restart pending, or neither:
\* no interleaving of exits, timers, stops and restarts makes
\* handleInstanceExit and restartInstance run an instance twice.
PlainInstanceOnce ==
  \A i \in DOMAIN inst : Plain(i) =>
    /\ \A c, d \in DOMAIN child :
         child[c].owner = i /\ child[d].owner = i /\ Alive(c) /\ Alive(d) => c = d
    /\ \A c \in DOMAIN child : child[c].owner = i /\ Alive(c) => ~Armed(i)
    /\ inst[i].lost = 0

\* A plain instance is restarted at most MaxRestarts times in a row, and a
\* pending restart never exceeds the limit.
PlainRestartsBounded ==
  \A i \in DOMAIN inst : Plain(i) =>
    /\ inst[i].restarts <= MaxRestarts
    /\ Armed(i) => inst[i].restarts < MaxRestarts

\* An instance given up as errored (restart limit, failed restart) is over: it
\* has no living child and no restart pending, in whatever order its exit, its
\* timers and the calls on its process came.
PlainErroredIsFinal ==
  \A i \in DOMAIN inst : Plain(i) /\ inst[i].status = "errored" =>
    /\ ~Armed(i)
    /\ \A c \in DOMAIN child : child[c].owner = i => ~Alive(c)

\* A plain instance reported running has an online child: the pid shown by
\* status is that of a living child.
PlainRunningIsAlive ==
  \A i \in DOMAIN inst : Plain(i) /\ inst[i].status = "running" =>
    \E c \in DOMAIN child : child[c].owner = i /\ child[c].state = "online"
                            /\ inst[i].pid = c

\* childProcesses never holds a child whose exit has been handled: otherwise
\* stopInstance would wait for an exit event that has already been emitted.
NoStaleHandle ==
  \A i \in DOMAIN inst : inst[i].child # 0 =>
    /\ inst[i].child \in DOMAIN child
    /\ child[inst[i].child].owner = i
    /\ child[inst[i].child].state # "exited"

\* A stopInstance that waits for an exit waits for a child of its instance
\* that has not exited: the exit resolves every stop that waits for it.
StopAwaitsLiving ==
  \A r \in stops :
    /\ r.child \in DOMAIN child
    /\ child[r.child].owner = r.inst
    /\ r.phase = "term" => child[r.child].state # "exited"

\* With one caller, a process on which no call is in flight lists exactly the
\* configured number of instances, also after failed starts and reloads.
FullComplement ==
  \A p \in Process :
    info[p].status # "none" /\ (\A o \in Call : calls[o].proc # p)
      => Cardinality(info[p].instances) = Count[p]

\* Once the shutdown has begun no restart is scheduled any more, not even by
\* the two exit handlers of a worker.
NoRestartArmedInShutdown ==
  [][shutdown # "no" => \A i \in DOMAIN inst : Armed(i)' => Armed(i)]_vars

\* stopProcess returns: the child exits, or is killed after the timeouts.
StopReturns ==
  \A o \in Call : calls[o].kind = "stop" ~> calls[o].kind # "stop"

\* A start or restart of a plain process returns.
PlainStartReturns ==
  \A o \in Client :
    calls[o].kind \in {"start", "restart"} /\ calls[o].proc \notin Clustered
      ~> calls[o].kind \notin {"start", "restart"}

\* gracefulShutdown comes to an end.
ShutdownCompletes == shutdown = "stopping" ~> shutdown = "done"
=============================================================================
