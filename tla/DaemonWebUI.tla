----------------------------- MODULE DaemonWebUI -----------------------------
(***************************************************************************)
(* How the daemon starts and stops the web UI: setWebUIConfig for the       *)
(* messages of the CLI, startWebUI also when the daemon starts, and stop in *)
(* gracefulShutdown.  Calls that overlap share webUIConfig and webUIServer  *)
(* and are suspended while a server waits for its last connection to close. *)
(***************************************************************************)
EXTENDS WebSockets, FiniteSets

CONSTANTS
  Callers,          \* bound: so many messages are handled at a time
  Start, Shutdown,  \* the calls of start() and gracefulShutdown
  MaxServers,       \* bound: so many servers are made
  DefaultPort

ASSUME WebUIAssumption ==
  /\ Start \notin Callers /\ Shutdown \notin Callers \cup {Start}
  /\ MaxServers \in Nat /\ DefaultPort \in Ports

VARIABLES
  config,          \* webUIConfig
  calls,           \* what each call awaits
  isShuttingDown,
  overlapped       \* history: a call came while another was under way

daemonVars == <<config, calls, isShuttingDown, overlapped>>
vars == <<webVars, daemonVars>>

Config == [enabled: BOOLEAN, port: Ports]

\* A call waits for a server to stop, the last thing it does ("disabling"),
\* before startWebUI ("stopping") or in it ("restarting"), or to start.
Stopping == {"disabling", "stopping", "restarting"}
Idle == [stage |-> "idle", server |-> 0]
Booting == [stage |-> "booting", server |-> 0]
Awaits(stage, s) == [stage |-> stage, server |-> s]
Call == {Idle, Booting} \cup [stage: Stopping \cup {"starting"}, server: DOMAIN servers]

Current == Len(servers)

\* The IPC server takes messages before start() comes to startWebUI.  No
\* configuration counts as the default one, and the state that was saved holds
\* none: setWebUIConfig writes to the copy that getState returns.
Init ==
  /\ servers = <<NewServer("none", DefaultPort)>>
  /\ links = [c \in Connections |-> Free]
  /\ config = [enabled |-> FALSE, port |-> DefaultPort]
  /\ calls = [u \in Callers \cup {Start, Shutdown} |-> IF u = Start THEN Booting ELSE Idle]
  /\ isShuttingDown = FALSE
  /\ overlapped = FALSE

-----------------------------------------------------------------------------
\* The calls whose server has closed go on, and then a server listens, before
\* the next event: the host is an address, which needs no lookup.
Ready(u) == calls[u].stage \in Stopping /\ Drained(calls[u].server)
Settled == \A u \in DOMAIN calls : ~Ready(u)
Quiet == Settled /\ \A s \in DOMAIN servers : servers[s].http # "binding"

Returns(u) == calls' = [calls EXCEPT ![u] = Idle]

StopsCurrent(u, stage) ==
  /\ StopServer(Current)
  /\ calls' = [calls EXCEPT ![u] = Awaits(stage, Current)]

\* startWebUI from "new WebUIServer" on; one that has been disabled meanwhile
\* does not listen.
Launch(u, c) ==
  /\ servers' = Append(servers, NewServer(IF c.enabled THEN "binding" ELSE "none", c.port))
  /\ calls' = [calls EXCEPT ![u] = IF c.enabled THEN Awaits("starting", Len(servers')) ELSE Idle]
  /\ UNCHANGED links

StartWebUI(u, c) ==
  \/ ~c.enabled /\ Returns(u) /\ UNCHANGED webVars
  \/ c.enabled /\ Listening(Current) /\ StopsCurrent(u, "restarting")
  \/ c.enabled /\ ~Listening(Current) /\ Launch(u, c)

\* start() comes to it.
Boot ==
  /\ calls[Start] = Booting /\ Quiet
  /\ StartWebUI(Start, config)
  /\ UNCHANGED <<config, isShuttingDown, overlapped>>

UnderWay == {u \in DOMAIN calls : calls[u] # Idle}

BugWasEnabled(c) == c.enabled

WasEnabled(c) == config.enabled

\* A message of the CLI: "webui start", perhaps with a port, or "webui stop".
\* gracefulShutdown only half-closes the clients' sockets, so that one may still
\* be handled then.
SetWebUIConfig(u, c) ==
  /\ calls[u] = Idle /\ Quiet
  /\ c.enabled \/ c.port = config.port
  /\ Len(servers) + Cardinality(UnderWay) < MaxServers
  /\ config' = c
  /\ overlapped' = (overlapped \/ UnderWay # {})
  /\ \/ ~WasEnabled(c) /\ StartWebUI(u, c)
     \/ WasEnabled(c) /\ StopsCurrent(u, IF c.enabled THEN "stopping" ELSE "disabling")
  /\ UNCHANGED isShuttingDown

\* The server has closed.
Stopped(u) ==
  /\ Ready(u)
  /\ \/ calls[u].stage = "disabling" /\ Returns(u) /\ UNCHANGED webVars
     \/ calls[u].stage = "stopping" /\ StartWebUI(u, config)
     \/ calls[u].stage = "restarting" /\ Launch(u, config)
  /\ UNCHANGED <<config, isShuttingDown, overlapped>>

BugStarted(s) == calls

\* The promise of start() is settled.
Started(s) ==
  [u \in DOMAIN calls |-> IF calls[u] = Awaits("starting", s) THEN Idle ELSE calls[u]]

\* listen succeeds, or fails: the port may be taken, by another server of the
\* daemon or by a stranger.  A failure is only logged.
Bound(s) ==
  /\ servers[s].http = "binding" /\ Settled
  /\ \/ /\ \A t \in DOMAIN servers : Listening(t) => servers[t].port # servers[s].port
        /\ servers' = [servers EXCEPT ![s].http = "listening"]
     \/ servers' = [servers EXCEPT ![s].http = "failed"]
  /\ calls' = Started(s)
  /\ UNCHANGED <<links, config, isShuttingDown, overlapped>>

\* Up to the stop of the web UI; the processes come after it.
GracefulShutdown ==
  /\ ~isShuttingDown /\ Quiet
  /\ isShuttingDown' = TRUE
  /\ StopsCurrent(Shutdown, "disabling")
  /\ overlapped' = (overlapped \/ UnderWay # {})
  /\ UNCHANGED config

ConnectionStep(c) ==
  /\ Quiet
  /\ \/ \E s \in DOMAIN servers : Accept(c, s)
     \/ HandleUpgrade(c) \/ CloseFrame(c) \/ SocketClosed(c)
  /\ UNCHANGED daemonVars

-----------------------------------------------------------------------------
Next ==
  \/ Boot \/ GracefulShutdown
  \/ \E u \in Callers, c \in Config : SetWebUIConfig(u, c)
  \/ \E u \in DOMAIN calls : Stopped(u)
  \/ \E s \in DOMAIN servers : Bound(s)
  \/ \E c \in Connections : ConnectionStep(c)

Spec == Init /\ [][Next]_vars

\* A socket that was ended closes, since browsers answer a close frame; plain
\* HTTP connections time out.  Nobody owes the end of any other.
FairSpec ==
  /\ Spec
  /\ \A c \in Connections : WF_vars(Leaving(c) /\ ConnectionStep(c) /\ links'[c] = Free)
  /\ \A u \in Callers \cup {Start, Shutdown} : WF_vars(Stopped(u))
  /\ \A s \in 1..MaxServers : WF_vars(s \in DOMAIN servers /\ Bound(s))

-----------------------------------------------------------------------------
\* The types of the variables; start() is awaited as long as its server binds.
TypeOK ==
  /\ WebTypeOK
  /\ config \in Config
  /\ calls \in [Callers \cup {Start, Shutdown} -> Call]
  /\ \A u \in DOMAIN calls :
       calls[u].stage = "starting" => servers[calls[u].server].http = "binding"
  /\ isShuttingDown \in BOOLEAN /\ overlapped \in BOOLEAN

\* When nothing is under way, the server the daemon knows listens if the web UI
\* is enabled, unless it could not bind, and no server does if it is not; and
\* no other server listens at all unless calls overlapped.
ServesAsConfigured ==
  UnderWay = {} /\ ~isShuttingDown =>
    /\ config.enabled => servers[Current].http \in {"listening", "failed"}
    /\ Listening(Current) => config.enabled /\ servers[Current].port = config.port
    /\ ~overlapped => \A s \in DOMAIN servers : Listening(s) => s = Current

\* A call that waits for a server to stop goes on, if every browser answers
\* the close frame it gets; what keeps it waiting is at most a connection that
\* was upgraded after the stop and gets none.
StopsEnd ==
  \A u \in Callers \cup {Start, Shutdown} :
    calls[u].stage \in Stopping
      ~> \/ calls[u].stage \notin Stopping
         \/ \E c \in Open(calls[u].server) : links[c].late /\ links[c].connected
=============================================================================
