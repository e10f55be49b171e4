# NodeDaemon in TLA+

NodeDaemon is a process manager for Node.js programs: a daemon starts scripts as
child processes or cluster workers, restarts them when they crash or their files
change, keeps its table of processes in a file, and is driven by a command line
over a local socket and by a web UI. These modules model what the daemon does
between one callback and the next, check it with TLC on small instances, and
prove the main safety properties with TLAPS for every value of the constants.

Everything is translated from the TypeScript sources. Abbreviations: PO is
`core/ProcessOrchestrator.ts`, SM `core/StateManager.ts`, ND
`daemon/NodeDaemonCore.ts`, FW `core/FileWatcher.ts`, HM `core/HealthMonitor.ts`, LM
`core/LogManager.ts`, WU `core/WebUIServer.ts`, WS `core/WebSocketServer.ts`, all under
`src/src/`.

Contents: [the system](#the-system), [the modules](#the-modules),
[the runs](#the-runs), [fairness](#fairness), [the proofs](#the-proofs),
[what the code does otherwise than its documents say](#where-the-code-and-its-documents-disagree),
[what is not modelled](#what-is-not-modelled), [the plan](#the-plan).

## The system

One Node.js process, hence one thread: a callback of the event loop runs to its
first `await` without interruption, promise continuations and `process.nextTick`
callbacks run before the next callback of the loop, and everything else may come
in between. What makes the code hard is all of that sort: state read before an
`await` and used after it, timers that outlive what armed them, events of objects
that have been replaced, and several callers of one asynchronous method.

| Component | State | Operations | Whom it talks to | What must be right |
|---|---|---|---|---|
| **ProcessOrchestrator** (PO) | `processes`, their instances and status, `childProcesses`, `restartTimers`, `isShuttingDown` | start, stop, restart, graceful reload, delete, SIGHUP reload, graceful shutdown; handlers of `spawn`, `error`, `exit`, `online`; the timers of restart backoff, start timeout, SIGKILL and cleanup | the operating system; emits `processStarted`, `processStopped`, `processRestarted`, `instanceExit`, `processDeleted` | an instance runs once; restarts stay in their limit; what was given up stays down; stops end; nothing is revived after a shutdown |
| **StateManager** (SM) | the table of processes, `isSaving`, one timer that is an interval or a debounce | load with its clean-up, set, update, save (write a temporary file, rename), force, shutdown | the disk; it shares the objects of the table with the orchestrator | the file is whole at any time and never goes back; every change reaches it |
| **Daemon** (ND) | phases of start and shutdown, `watchedProcesses`, clients and their buffers | start, restore, listeners that record events, requests, shutdown, exit | all the others | what restarts of the daemon do to processes and children |
| **FileWatcher** (FW) | watchers by path, known files, debounced handlers | watch, unwatch, process a change (stat, then read) | `fs.watch`, the disk; emits `fileChange`, on which ND restarts processes | a change restarts who watches; watchers live as long as they are needed |
| **IPCClient** (`cli/IPCClient.ts`) and the daemon's socket | the socket, `pendingRequests` and their timers; the buffer of each connection | connect, send, answer, time out, lose the connection, disconnect; put messages together, execute, answer | each other | a call ends, once, and as its request did; messages are taken whole and once |
| **StaticFileCache, RateLimiter, WebUIServer** | a Map in the order of use with a total size; time stamps by client; requests in progress | get, set, evict, expire; admit, clean up; serve, stop | the disk, the clock | sizes and order stay exact; stale content leaves; exactly the limit is admitted |
| **HealthMonitor** (HM) and its listener in ND | the Map of processes with metrics and history, `isMonitoring` and its interval; results on their way to the listener | add, remove, update a process; periodic checks of several awaits for each child; the listener restarts what exceeds its limits | `ps`, `/proc`, the orchestrator | a check measures each child once; what goes on using too much is restarted |
| **LogManager** (LM) | a ring buffer, one stream for each log, files and archives | log, recent entries, rotate, compress, shut down | the disk | every entry is written; recent entries are the last ones; shutdown ends |
| **Web UI control** (ND), **WebSocketServer** (WS) and the tables of WU | `webUIConfig`, `webUIServer`; for each server its sockets, `clients`, `subscriptions`, `csrfTokens` | start, stop and reconfigure by CLI messages; accept, upgrade, close; stop | browsers, the port | tables agree with the sockets; what serves is what was configured; a stop ends |
| CLI, helpers | none | one-shot commands; pure functions | the IPCClient | |

How they interact: the CLI's requests reach ND over the socket and call the
orchestrator. Its events go back through ND to the StateManager (table and
saves), the HealthMonitor, the FileWatcher (`processStopped` ends watching) and the
WebSocket. FileWatcher and HealthMonitor call `restartProcess` in turn. The
StateManager's table holds the orchestrator's own objects, so that what the
orchestrator writes is in the table before any event says so. Signals reach both
the orchestrator's handlers and ND's.

`PROJECT.json` lists the hazards with the lines they are at and the properties
that cover them.

## The modules

| Module | Models | State and actions |
|---|---|---|
| `Orchestrator` | PO, whole | `processes` and `info` are the Map and the ProcessInfo objects (those of deleted processes stay, as closures keep them). `inst` and `child` are all instances and children ever made, by number: a reference of the code is a number here. `inst[i].child` is the entry of `childProcesses`, `held` that of `restartTimers`, `lost` counts armed restart timers no entry refers to. `stops` are the calls of `stopInstance` in flight, `calls` where each call of an asynchronous method is suspended. One action is one callback up to its next `await`. |
| `Supervision` | the promise | An abstract supervisor: up, in backoff, or over; at most so many restarts in a row. |
| `OrchestratorSupervision` | refinement mapping | `Supervises`: Orchestrator implements Supervision for plain instances. |
| `OrchestratorProofs` | proofs | see [below](#the-proofs) |
| `StateManager` | SM | `processes` is the table, `age` how often it changed, `saves` the suspended calls of `saveStateAsync`, `temp` and `file` what is on the disk, torn or whole. |
| `Daemon` | ND around its state | EXTENDS StateManager. The daemon listens from `Boot` on, so that clients and signals come before, during and after `RestoreProcesses` (`restored`; `restoring` counts its starts that have not returned); the phases of `gracefulShutdown`; the listeners that record; `Crash`; children (`alive`) that outlive the daemon. The orchestrator appears as its events, `child` being the pid it has for each process. |
| `DaemonProofs` | proofs | |
| `FileWatcher` | FW | `watchers` are the keys of the Map, `open` counts the watchers really open on a path, `pending`/`dropped` are armed debounce timers whose handler is still/no longer in the Map, `checks` are suspended calls of `processFileChange`. |
| `WatchedProcesses` | FW with its wiring in ND | EXTENDS FileWatcher. `handleStart`, `restoreProcesses`, `handleFileChange`, `stopWatchingProcess`, the listener of `processStopped`; processes appear as their status and the call that is stopping them. `GracefulShutdown` closes the watchers while starts, checks and timers go on. |
| `WatchedProofs` | proofs | |
| `IPCSocket` | the Unix socket (external) | Bytes in order, in pieces; an end closes in two steps; the daemon's end may have ended writing while it still reads. |
| `IPCClient` | `cli/IPCClient.ts`, whole | `stage` of each call of `sendMessage`; `socket`, `connected`, `pending` and `timers` are the fields; `listening` says which connections have the handlers of `setupSocketHandlers`. |
| `IPCServer` | ND's end | `buffers`; messages taken apart, executed at once or later (`handling`), answered with a result or an error, refused by the limiter, discarded when too long; shutdown, exit, start. |
| `IPC` | both | the composition; `IPCProofs` its proofs |
| `StaticFileCache` | the cache | A record `[entries, currentSize]` and its operations as operators: entries in the order of the Map's keys. |
| `RateLimiter` | the limiter | `requests` the stamps kept; `admitted` is history. |
| `WebUIServer` | a file request | EXTENDS both: admitted, looked up, read from a disk that changes, cached; clean-ups, stop, time. A connection kept alive brings requests after `stop` too. |
| `WebFilesProofs` | proofs | of the cache, the limiter and the file requests |
| `HealthMonitor` | HM | `monitored` are the keys of the Map in their order, `instances` the arrays shared with the orchestrator. A check holds the `rest` of its iteration over the Map, which deletions shorten and additions lengthen, and its `place` in the array of instances (`here`: the array is still the one of the process; `alive`: the child whose pid was taken is still there, at `index`, which is not the place any more once a reload has spliced the array: `MovedUp`). Linux and Windows read twice for a sample, `ps` once. |
| `MonitoredProcesses` | HM with its wiring in ND | EXTENDS HealthMonitor. The listeners of the orchestrator's events, `healthIssues` with its restarts in turn, shutdown; processes appear as a phase and the calls that wait for their children. A graceful reload pushes its instances one by one and takes the old ones out in turn. |
| `HealthProofs` | proofs | |
| `LogManager` | LM | `current` and `ending` are the streams in the Map and those that were ended, each with the file it opened and its queue; `checking`, `full`, `jobs` the suspended calls of `checkLogRotationAsync` and `compressAndMove`, which open their source, read it and open their target in steps of their own. `file` and `archive` are what the paths name now; unlinked files stay while someone has them open. |
| `LogProofs` | proofs | |
| `WebSockets` | WS and the tables of WU | Each server ever made, with its tables; each connection with its server, upgraded or not. `isConnected` is `connected`; `late` is history. |
| `DaemonWebUI` | `setWebUIConfig`, `startWebUI` and the stop in `gracefulShutdown` of ND | EXTENDS WebSockets. `calls` where each call is suspended, also of a message that is handled during the shutdown; the server the daemon knows is the last one made. The host is an address: a name would take a lookup before the bind. |
| `WebUIProofs` | proofs | |
| `MC...` | instances for TLC | |

Time appears in three ways. Timers fire in any order that the fairness below
permits; delays are not compared (backoff, 5 s, 30 s are only "later"). Time
stamps in the cache and the limiter are ages in units, with one value for all that
is too old. Versions of the state file and of watched files are counters.

Definitions named `Bug...` are wrong versions of the definition they precede, each
a plausible mistake in the code it models; `PROJECT.json` says which property
notices which. They are used nowhere else.

## The runs

Every run that passes explores its instance completely.

| Run | Instance | Shows |
|---|---|---|
| `orchestrator_plain` | one plain process, two callers, `MaxRestarts` 1, two children, faults: spawn error, late exit | Any interleaving of requests, SIGHUP, shutdown, exits, failures and timers: `PlainInstanceOnce` (never two children of an instance, nor a child and a pending restart), `PlainRestartsBounded`, `PlainErroredIsFinal`, `PlainRunningIsAlive`, `NoStaleHandle`, `StopAwaitsLiving`, `NoRestartArmedInShutdown`, and `Supervises` (the refinement). |
| `orchestrator_worker` | one clustered process with one worker, one caller, three children, start timeouts | The number of instances after failed starts and reloads (`FullComplement`), although a worker's exit is handled twice. |
| `orchestrator_live` | one plain process, one caller | `StopReturns`, `PlainStartReturns`, `ShutdownCompletes`, with children that may never exit. |
| `daemon_state` | six changes of the table, saves that may fail, crashes at any time | `FileWhole`, `FileNeverOlder`, `ChangesReachFile`. |
| `file_watching` | two processes that share a directory, one file with two changes, two overlapping checks, a shutdown at any time | `WatchersHeld`, `ChangeRestarts`. |
| `ipc` | three calls, one slow, one with a multi-byte character, one too long; two connections | `WaitingIsTracked`, `ExecutedOnce`, `MessagesWhole`, `CallsEnd`. |
| `web_ui` | three files, one of which changes twice, two handlers, limit 2 | `CacheBounded`, `LruOrder`, `LimitExact`, `StaleLeaves`. |
| `health` | two processes, one with two instances and both limits, the other with one; Linux and macOS; one check at a time; starting both and one request or crash, or only one and two of them or a graceful reload, besides the restarts of the monitor | `OncePerCheck` (no child is measured twice in a check although processes leave and come back last in the Map it walks over, and a reload adds to its array and splices it), `TooMuchRestarts`. |
| `logging` | one log, three entries, buffer of two, every entry fills the file, two archives, two rotations at a time | `RecentAreLast`, `EntriesAreWritten`, `ShutdownResolves`. |
| `web_ui_control` | two messages at a time besides the start and the shutdown, two ports, four servers, two connections | `TablesAgree`, `ServesAsConfigured`, `StopsEnd`. |
| `restart_keeps_watch`, `lines_kept` | as `file_watching`; as `logging` with more archives than entries | each a counterexample, [below](#where-the-code-and-its-documents-disagree) |

Most runs also check a type invariant, `TypeOK`, which says too that every
reference names an object that exists.

**Why these bounds.** `MaxChildren` counts the children ever spawned: two are a
crash and its restart, or a start and a restart during it, and the limit
`MaxRestarts = 1` is reached with them. Requests are refused beyond the bound, exits and timers never,
so that whatever was started runs to its end. Processes share only the shutdown;
the interplay of several is left to the proofs, which hold for any number. Two
callers are needed for two calls to overlap; more do the same. A reload with one
worker already has the old and the new instance side by side. Six changes of the
table allow a start, a stop, a crash of the daemon and a restore with saves between
them. For file watching, two changes are what it takes for an older check to write
its entry over a newer one, and two processes for one to be watched while the
other stops. Two connections let the old one close late while the new one is in
use, and three calls let two be answered out of order while a third is cut. Two
files fit into the cache, so the third evicts; time to live and window are one and two
units, so each can be met from below, at and beyond the boundary.

For the monitor, a process with two instances makes the loop over its array visible
and the second process the one over the Map; usages are at the thresholds and above
them. Only one check is in progress at a time: nothing in the code keeps two from
overlapping (the interval does not look whether the last check is done), but each
then asks for its restarts behind those of the other, and while restarts take longer than
the interval the lists of what is left to do have no bound. The actions allow any
number of checks. `MaxEvents` counts starts, requests and crashes, a graceful reload for two, so that it
comes with one process only: with another one beside it there are some two million states, more than a run should take.
The constant `Gracefully` names the processes clients reload. `MAX_LOG_SIZE` 0 makes every line fill the file, so that three
entries with the rotations' own entries among them give two overlapping rotations and a ring
buffer that has come round; one log is enough, since those of different names share
only the buffer. Four servers are the first one and three more, enough for two
overlapping calls to make one each and for a third to replace the second; five
change nothing (191,000 states).

`CHECK_DEADLOCK FALSE` is set where the system may come to rest: all children
exited and the shutdown done, every change made, every call ended, the log closed. The web UI never rests
(time passes), and its run checks deadlock.

## Fairness

- *Orchestrator.* Promise continuations and next-tick callbacks run (weak
  fairness: nothing else runs before them). Timers get strong fairness: a turn of
  the loop runs every timer that is due, but `Quiet` disables them again and
  again between turns. Callers owe no request and children owe no exit; a child
  that was given SIGKILL is covered by the cleanup timer, not by its exit.
- *Daemon.* The interval fires, and the disk does not fail for ever (strong
  fairness of the successful write and rename, each of which a failure disables). The
  bound `MaxAge` ends the changes: the debounce of `scheduleSave` promises nothing
  while changes come faster than one a second.
- *File watching.* Events are delivered, debounce timers fire, stat and readFile
  return. Restarts need not end.
- *IPC.* Only the client's timers fire. The socket, the daemon and the
  orchestrator owe nothing: `CallsEnd` rests on the two timeouts and on
  `handleDisconnection` alone.
- *Web UI.* Time passes and the cleanup interval fires; requests may never come
  and the disk may never answer.
- *Health.* The interval fires, `/proc` and `ps` answer or fail, the listener goes on
  when a restart has ended, spawns succeed or fail, and a child that a call is stopping
  goes, at the latest with SIGKILL. Other exits, crashes and requests are owed by nobody.
- *Logging.* The disk answers the streams: each opens and writes what it is given. Rotations,
  stat and compressions owe nothing.
- *Web UI control.* A listen succeeds or fails, a call goes on when its server has
  closed, and a socket closes that the daemon has ended or that never was upgraded and whose
  server has stopped. A browser owes no end to any other connection, which is why
  `StopsEnd` has its second disjunct.

## The proofs

All are of the plain specification, without fairness, and assume only the
`ASSUME`s of the modules, which say what a configuration is (a process with more
than one instance is clustered, limits are natural numbers, model values differ
from data) and which TLC evaluates in the runs.

**Orchestrator** (`OrchestratorProofs`). `TypeInvariance`
proves TypeOK, with every reference in range; it is the larger half of the work since every
action writes several of the tables. `Invariance` proves
`IInv == TypeOK /\ ReloadsClustered /\ InstInv`, from which follow
`PlainInstanceHolds`, `PlainRestartsHolds`, `PlainErroredHolds`,
`PlainRunningHolds`, `HandlesHold` and `StopsHold`. None of these is inductive alone: that no
second child is spawned needs that a pending restart excludes a living child and
an instance given up has neither; that a start timeout does not mark a live
instance errored needs that the timer of a plain child does not outlive the tick in which
it was spawned; that reload does not touch plain instances needs
`ReloadsClustered`. `InstInv` puts all of it into one statement of one instance,
so that a step is analysed by the one instance it changes, and the others are
kept by a frame lemma. `ShutdownArmsNothing` (`NoRestartArmedInShutdown`, an action
property) is about every instance, workers included: the flag of the shutdown is up
when an exit is handled, by one handler or by two in a row, and `scheduleRestart` is
reached from there only.

`Refinement` is the refinement `Supervises` step by step:
every action of Orchestrator either leaves all plain instances where Supervision
sees them, or is one of its `Begin`, `Fall` and `Respawn` for one instance, or, where a stop, a delete
or the shutdown clears timers, its `Abandon` for a set of them. That a
fall leads to backoff only below the limit, that no child dies while
a restart is pending, and that a respawn comes from backoff and not from over, is read off
`IInv` before the step and after it. `Fall` resets the count and backs off in one
step, as `handleInstanceExit` does.

`SerialComplement` (`FullComplement`) is for any number of callers, as long as no two are
at work on the same process (`Serial`): two overlapping restarts do empty the list
(PO:624), so that without it the property is false. `OneCallerComplement` is the case of one
caller, which the run has. `CountInv` counts what a suspended reload has added to the
instances it found (`ReloadCount`): each start brings it one nearer to the configured
number, and what it stops is taken off the list in the pause after. The difference of the two
sets is counted and not their sizes, so that a failed start, whose instance stays in
the list, needs no case of its own; that a new instance is not among the old ones is typing.
A process is never forgotten by its instances and calls (`KnownInv`), or an exit
that is handled late would give a status to one that was never started.

**Daemon** (`DaemonProofs`). `TypeInvariance`, `FileStaysWhole` and
`FileIsMonotone` (an action property) from `TypeOK /\ EarlyInv /\ SaveInv`.
`SaveInv` is the argument of the code made explicit: `isSaving` admits one save at a time, so
between its write and its rename the temporary file is that save's and whole, and
ages are ordered from the file over the save to the table. `EarlyInv` is needed
for the types: the orchestrator's memory is lost with the daemon, so nothing is managed while it is down.

**File watching** (`WatchedProofs`). `TypeInvariance` and `WatchersStay`
(`WatchersHeld`, whose first half is promised until the daemon shuts down). It needs that every key of the Map has an open watcher
(`WatchersOpen`), since `unwatch` closes one watcher of each key and a path may
have had more.

**IPC** (`IPCProofs`). `CallsAreTracked` (`WaitingIsTracked`). The callback of
`connect` goes on with the call that opened the connection, so the invariant
also says that every connection that is in use has such a call, and
that `socket` is a connection in use. `TypeInvariance` rests on what the operators on
sequences return (`Decode`, `Incomplete`, `InOrder`, the pieces of the socket).

`RequestsRunOnce` (`ExecutedOnce`) follows a request by the end of its message, which
is what makes the daemon execute it. `OnceInv`: the end is in one place on the wire at
the most, and as long as it is there the request has been sent and not executed
(`TailsOnce`, `TailsToRun`); no buffer keeps an end (`BuffersOpen`), so that one message is
never put together twice; what is still handled and what is answered with success has been
executed (`HandledRan`, `AnsweredRan`), so a call resolved by it was.
`MessagesArriveWhole` (`MessagesWhole`): on a connection whose
buffer was never discarded, the buffer followed by what is on the wire is `Whole`, an end being
always behind the head of its message. Reading only moves the boundary
between the two, with a character broken at it perhaps, and that is why the
invariant is about the concatenation.

**Web UI control** (`WebUIProofs`). `TypeInvariance` and `TablesStayAgreed`
(`TablesAgree`), from `WebUIInv`, which is both of them split by the variables they are
about. `ServesWhatIsConfigured` (`ServesAsConfigured`) needs `ServeInv`. The
configuration is written while nothing binds, because a call that changes it has
waited for the last server or found it stopped; `BindsAsConfigured` says that what binds
does so as configured, for a call that waits for it. `EnabledServed` carries what is
promised at rest through the calls that are on their way to it, and `OneAtATime` that
without overlap no other server is left serving. A stop empties two of the tables and ends every socket of a third; that no
connected socket is then missing from the emptied tables needs that the third held
all of them, hence the agreement itself, and that no connection names a server
that is not yet made needs the types. What a step does to the server a call waits
for is said once (`Grows`), and each operation of the servers has its lemma.

**Monitor** (`HealthProofs`). `TypeInvariance` and `EachChildOnce` (`OncePerCheck`),
from `HealthInv`. That a check measures no child twice although a process may leave the Map
and come back behind the iteration needs all of `WalkInv`: what is ahead is monitored
and was not measured (`RestAhead`), so that it can come back only by a removal and an
addition; a process is added again only when new children have
spawned, while every child that was measured still runs under its number or is left out
of what the check remembers (`MeasuredRun`); in the array at hand the measured children are
before the index of the one being measured, and up to the place of the loop when that is gone
(`HereOnce`); and a child whose pid is in use belongs to that array
(`AliveRuns`). A reload adds instances behind all of them; what it splices moves those that were
measured to the front and the loop not at all, so they stay behind it (`MovedKeeps`). That a reload
ends with as many instances as it began with (`LengthsHold`) is part of the types. The theorem is for any number of overlapping checks, of which the run has one.

**Web files** (`WebFilesProofs`). `CacheStaysBounded` (`CacheBounded`), `EvictsLeastUsed`
(`LruOrder`) and `AdmitsTheLimit` (`LimitExact`), from `FilesInv`: the cache is `Good` after
every operation on it, and what the limiter keeps counts what it admitted. The cache's
size is a sum over a sequence and its eviction a loop, both recursive functions. What they
compute is proved by the least counterexample (`NatLeast`), and one
lemma (`Recursion`) gives every such function by its step, so no induction theorem has to
be instantiated. That removing an entry takes off just its size needs that no path has two,
and that the entry at the head is the least used needs that ages are in order, which only a
hit that moves its entry to the end keeps (`GetKeeps`). `RoomMade` is the loop: each
turn evicts one entry until there is room, and an empty cache has room for any file that `set` did
not refuse. In the limiter the stamps are in the order of their age, so that
those that expire come first (`SplitExists`), and the ones the limiter keeps agree with the
ones admitted as far as either is inside the window, though the clean-up drops
some and a refusal leaves expired ones. Assumed of the constants is only that sizes and
limits are natural numbers, that contents of files are numbered and that there is one.

**Log** (`LogProofs`). `TypeInvariance`, which is about references: the numbers of
files, archives and entries in streams, compressions and paths are of some that were
made, while all of them grow (`Grown`). `RecentEntriesAreLast` (`RecentAreLast`) from
`BufferHolds`: once the buffer has come round, the entries before the index are the latest in
their order, and the next to be overwritten is the oldest. The rest is the sort,
which `Sorted` defines by what it returns: that there is such a sequence
(`SortedExists`) is shown by taking the last element of a finite set away, that it leaves
nothing out by the pigeonhole principle. It holds for every capacity; the run has 2.

**Checked but not proved.**

- Liveness (`StopReturns`, `PlainStartReturns`, `ShutdownCompletes`, `ChangesReachFile`,
  `ChangeRestarts`, `CallsEnd`, `StaleLeaves`, `TooMuchRestarts`, `EntriesAreWritten`,
  `ShutdownResolves`, `StopsEnd`): out of the prover's reach. Every safety invariant and
  every action property that a passing run checks has its theorem.

## Where the code and its documents disagree

Each has a run whose counterexample shows it.

- `restart_keeps_watch`. Every restart emits `processStopped`, whose listener ends
  the watching (ND:107), and nothing begins it again: `--watch` works once.
- `lines_kept`. `compressAndMove` unlinks the path of its source when it is done (LM:239).
  By then the stream that rotation made has opened that path again: what it has written
  and will write is in a file without a name, and is lost.

Further observations, made while modelling and without a run of their own. First
the orchestrator and the daemon:

- A stop during the restart backoff leaves the restart timer armed (PO:567 returns
  before anything is cleared, PO:366 fires): a process reported stopped starts
  again (against `API.md:324`).
- The exit of a worker is handled by its own listener (PO:189) and by the cluster's
  (PO:298): one crash arms two restarts, both fire, and the limit is exceeded
  (against `README.md:270`).
- A successful automatic restart does not update the status of the process
  (PO:387-396): it stays `errored` while it runs, and the graceful shutdown (PO:779)
  leaves its child behind (against `API.md:232`).
- A process that a client starts before `restoreProcesses` runs (the daemon already listens,
  ND:779 against ND:802) is `running` in the table like those to restore: its instances are taken from it
  (ND:858), and its configuration is started a second time.
- After a crash of the daemon, a child that still runs is dropped from the table and
  started a second time (ND:859; against `README.md:28`).
- With two workers, `updateProcessStatus` after the exit of the first (PO:347)
  overwrites `stopping`, so the second's exit is taken for a crash and its restart is scheduled
  (against `API.md:334`, where stopping is final). A graceful reload stops the old instances under
  `reloading`, which PO:329 does not except: their exit schedules a restart of an
  instance no list shows, with the same effect as the leak that
  `tests/unit/graceful-reload-bug.test.js:189` guards against.
- Two concurrent restarts: the second empties the list (PO:624) after the first
  has started its instance, whose child lives on unlisted. A restart whose
  spawn fails leaves the process `starting`.
- A worker that exits before it is online leaves the promise of its start pending.
  A reload whose new workers all fail still stops the old ones.
- `gracefulShutdown` with nothing to stop returns (PO:781) before it clears the
  restart timers. On SIGTERM the orchestrator's handler runs first, so the
  daemon's own call returns at once and does not wait for the children; the
  final saves are asynchronous and `process.exit` waits for none.
- Processes whose children died with the daemon are marked stopped by the
  clean-up before `restoreProcesses` looks for running ones: they are not
  restored. A restored process is watched under its old id (ND:863), so no
  change ever restarts it. `processDeleted` has no listener: the entry stays in
  the table and in `watchedProcesses`.
- The first event of a file always counts as `add`; deleting a file that was never
  seen emits nothing; `startsWith` takes `/app2/x` for a file of `/app`; two
  overlapping first checks emit twice. A watcher whose path is watched again is
  never closed (FW:92).
- `handleDisconnection` does not know its connection: the late `close` of an old
  one drops a new one, and a connection accepted after that leaves the client connected
  without a socket, so that every later request is rejected. A message is decoded piece by piece
  (ND:418), so a character cut in two is garbled; a message that is too long takes
  others that came with it along, unanswered. Unix sockets have no remote
  address, so all clients share one rate limit (ND:464).
- The cache is filled again by requests in flight after `stop`.

The monitor:

- The restart of the only process ends the monitoring (HM:67, from `processStopped`) and
  `updateProcess`, which follows, does not start it: from then on nothing is checked (ND:106,
  ND:113; against `API.md:332` and `README.md:30`).
- `updateProcess` deletes the histories of all other processes (HM:88), and ND:189 stores
  one sample as that of every instance.
- Limits below `MEMORY_THRESHOLD` and `CPU_THRESHOLD` never restart anything, since only
  samples above those are issues. On Linux and Windows the percentage of the CPU is always
  0, so `autoRestartOnHighCpu` works on macOS alone.
- A sample above both limits restarts twice. A restart that fails or a process that was
  deleted ends the listener (ND:156), and the processes behind wait for the next check. A
  process that was deleted while `errored` stays monitored, and one deleted during a graceful reload (PO:711 looks for `running` and
  `starting` only) runs on besides, while every restart the monitor asks for throws. A check in flight can restart a process
  during the shutdown.

The log:

- Overlapping rotations compress into the same archive, which is then torn.
- After the unlink above, `stat` finds no file: the log is never rotated again.
- `getRecentLogs` sorts the latest first but entries of one millisecond the earliest first,
  so with a `count` it may leave out the later ones.
- `shutdown` waits for the streams in the Map, not for those that rotation has ended.

The web UI:

- `setWebUIConfig` writes to the copy that `getState` returns ("Save config to state",
  ND:955): it is never saved, and after a restart of the daemon the web UI is off.
- Two overlapping `webui start` wait for the same server to close and make one each; the
  one the daemon forgets listens on, and no `webui stop` (`README.md:386`) reaches it.
  `ServesAsConfigured` excepts other servers once calls have overlapped, for that reason.
- Each `startWebUI` registers its listeners at the orchestrator, the log and the monitor
  again (ND:925), so every event is broadcast once for every server ever made.
- `stop` waits until the last connection has closed: a browser that does not answer the close
  frame, or one that was upgraded after the stop and gets none, keeps it, and the graceful
  shutdown (ND:1019) before any process is stopped, waiting.
- A `listen` that fails is only logged, while the CLI says that the web UI has started.
- `SimpleWebSocket` drops a frame that did not come in one piece and the bytes that came
  with the upgrade.

## What is not modelled

- *The contents of WebSocket frames*, subscriptions and what is broadcast: each
  message is answered at once, from the tables. The HTTP API, authentication and CSRF:
  each request is decided at once, by comparison, and ends in the orchestrator's methods.
- *CLI, CommandParser, Formatter, helpers*: one-shot commands and pure functions.
  What the models need of them (the debounce) is in the module that uses it.
- *Inside what is modelled*: contents of configurations, pid reuse, logging, and
  operations nothing calls (`pause`, `resume`, `backup`, `restore`, `setTimeout`, ...).
  In `HealthMonitor`, the histories, which only the log sees. In `LogManager`, errors of a
  stream (they are only printed), the format of a line, and `cleanup`, `getLogFiles` and
  `getTotalLogSize`, which nothing calls. In `WatchedProcesses`, clusters and stops that come during a start; in
  `MonitoredProcesses`, calls that come during a start or a graceful reload take effect after it. In
  `IPCClient`, the pieces of an answer (the client puts them together as the
  daemon does messages, without a limit). In `IPCServer`, what a
  `socket.write` after the end does to a socket that is closing anyway.

## The plan

The order is that of importance: what supervises processes, what survives a
crash, what restarts them, what commands them, and what serves around them.

1. *Done.* Orchestrator, its abstract specification and its proofs; StateManager and
   Daemon with theirs; the web UI's file requests; file watching and its proofs;
   the refinement of Supervision; the socket and its theorems; the monitor and its theorems; the log; starting and stopping the web
   UI, its connections and their proofs.
2. *WebSockets*: subscriptions and broadcasts, and the parser of frames that come in pieces.
3. *Runs*: two processes in the orchestrator, two workers for one safety property, if the
   state space allows.
