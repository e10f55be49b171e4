----------------------------- MODULE WebUIProofs -----------------------------
(***************************************************************************)
(* The types of DaemonWebUI, the agreement of the servers' tables with the *)
(* open sockets, and the agreement of what serves with what is configured, *)
(* for any number of callers, connections and servers.                     *)
(***************************************************************************)
EXTENDS DaemonWebUI, TLAPS

WebInv == WebTypeOK /\ TablesAgree

\* What no step does to the servers that were made.
Grows ==
  /\ Len(servers) <= Len(servers')
  /\ \A s \in DOMAIN servers : servers[s].http = "binding" => servers'[s].http = "binding"

LEMMA CurrentIsServer ==
  ASSUME WebTypeOK
  PROVE  /\ DOMAIN servers = 1..Len(servers)
         /\ Len(servers) \in Nat /\ Current \in DOMAIN servers
         /\ \A s \in DOMAIN servers : servers[s] \in Server
  BY DEF WebTypeOK, Current

\* What is not free belongs to a server.
LEMMA LinkHasServer ==
  ASSUME WebTypeOK, NEW c \in Connections
  PROVE  /\ links[c] \in {Free} \cup Link
         /\ links[c] # Free => links[c] \in Link /\ links[c].server \in DOMAIN servers
         /\ links[c].connected => links[c] # Free
         /\ links[c].server \in DOMAIN servers => links[c] # Free
  <1>1. 0 \notin DOMAIN servers
    BY CurrentIsServer
  <1> QED BY <1>1 DEF WebTypeOK, Link, Free

\* A step that changes one connection and the tables of one server at most.
LEMMA AcceptKeeps ==
  ASSUME WebInv, NEW c \in Connections, NEW s \in DOMAIN servers, Accept(c, s)
  PROVE  WebInv' /\ Grows
  <1>1. links[c] = Free /\ servers' = servers
    BY DEF Accept
  <1>2. links' = [links EXCEPT ![c] = [Free EXCEPT !.server = s]]
    BY DEF Accept
  <1>3. [Free EXCEPT !.server = s] \in Link
    BY DEF Link, Free
  <1>4. Link' = Link
    BY <1>1 DEF Link
  <1>5. WebTypeOK'
    BY <1>1, <1>2, <1>3, <1>4 DEF WebInv, WebTypeOK
  <1>6. ASSUME NEW t \in DOMAIN servers, NEW d \in Connections PROVE AgreesOn(t, d)'
    <2>1. AgreesOn(t, d)
      BY DEF WebInv, TablesAgree
    <2>2. CASE d = c
      <3>1. links'[c].server = s /\ ~links'[c].upgraded /\ ~links'[c].connected
        BY <1>2 DEF Free, WebInv, WebTypeOK
      <3>2. links[c].server # t
        BY <1>1, CurrentIsServer DEF Free, WebInv
      <3> QED BY <1>1, <2>1, <2>2, <3>1, <3>2 DEF AgreesOn
    <2>3. CASE d # c
      BY <1>1, <1>2, <2>1, <2>3 DEF AgreesOn, WebInv, WebTypeOK
    <2> QED BY <2>2, <2>3
  <1> QED BY <1>1, <1>5, <1>6, CurrentIsServer DEF WebInv, Grows, TablesAgree

LEMMA UpgradeKeeps ==
  ASSUME WebInv, NEW c \in Connections, HandleUpgrade(c)
  PROVE  WebInv' /\ Grows
  <1> DEFINE s == links[c].server
             l == [links[c] EXCEPT !.upgraded = TRUE, !.connected = TRUE, !.late = ~Listening(s)]
             r == [servers[s] EXCEPT !.clients = servers[s].clients \cup {c},
                                     !.sockets = servers[s].sockets \cup {c},
                                     !.tokens = servers[s].tokens \cup {c}]
  <1>1. links[c] \in Link /\ s \in DOMAIN servers /\ servers[s] \in Server
    BY LinkHasServer, CurrentIsServer DEF HandleUpgrade, WebInv
  <1>2. links' = [links EXCEPT ![c] = l] /\ servers' = [servers EXCEPT ![s] = r]
    BY <1>1 DEF HandleUpgrade, WebInv, WebTypeOK
  <1>3. l \in Link /\ l.server = s /\ l.upgraded
    BY <1>1 DEF Link, Listening
  <1>4. /\ r \in Server /\ r.http = servers[s].http
        /\ r.clients = servers[s].clients \cup {c}
        /\ r.sockets = servers[s].sockets \cup {c}
        /\ r.tokens = servers[s].tokens \cup {c}
    BY <1>1 DEF Server
  <1> HIDE DEF s, l, r
  <1>5. /\ servers' \in Seq(Server) /\ Len(servers') = Len(servers) /\ servers' # <<>>
        /\ DOMAIN servers' = DOMAIN servers
    BY <1>1, <1>2, <1>4, CurrentIsServer DEF WebInv, WebTypeOK
  <1>6. Link' = Link
    BY <1>5 DEF Link
  <1>7. WebTypeOK'
    BY <1>2, <1>3, <1>5, <1>6 DEF WebInv, WebTypeOK
  <1>8. ASSUME NEW t \in DOMAIN servers, NEW d \in Connections PROVE AgreesOn(t, d)'
    <2>1. AgreesOn(t, d)
      BY DEF WebInv, TablesAgree
    <2>2. links'[c] = l /\ (d # c => links'[d] = links[d])
      BY <1>2 DEF WebInv, WebTypeOK
    <2>3. servers'[s] = r /\ (t # s => servers'[t] = servers[t])
      BY <1>1, <1>2 DEF WebInv, WebTypeOK
    <2>4. links[c].server = s
      BY DEF s
    <2> QED BY <1>3, <1>4, <2>1, <2>2, <2>3, <2>4 DEF AgreesOn
  <1>9. Grows
    BY <1>1, <1>2, <1>4, <1>5, CurrentIsServer DEF WebInv, Grows
  <1> QED BY <1>5, <1>7, <1>8, <1>9 DEF WebInv, TablesAgree

LEMMA SocketClosedKeeps ==
  ASSUME WebInv, NEW c \in Connections, SocketClosed(c)
  PROVE  WebInv' /\ Grows
  <1> DEFINE s == links[c].server
             r == [servers[s] EXCEPT !.clients = servers[s].clients \ {c},
                                     !.sockets = servers[s].sockets \ {c},
                                     !.tokens = servers[s].tokens \ {c}]
  <1>1. links[c] \in Link /\ s \in DOMAIN servers /\ servers[s] \in Server
    BY LinkHasServer, CurrentIsServer DEF SocketClosed, WebInv
  <1>2. links' = [links EXCEPT ![c] = Free] /\ servers' = [servers EXCEPT ![s] = r]
    BY <1>1 DEF SocketClosed, Forgotten, WebInv, WebTypeOK
  <1>3. /\ r \in Server /\ r.http = servers[s].http
        /\ r.clients = servers[s].clients \ {c}
        /\ r.sockets = servers[s].sockets \ {c}
        /\ r.tokens = servers[s].tokens \ {c}
    BY <1>1 DEF Server
  <1> HIDE DEF s, r
  <1>4. /\ servers' \in Seq(Server) /\ Len(servers') = Len(servers) /\ servers' # <<>>
        /\ DOMAIN servers' = DOMAIN servers
    BY <1>1, <1>2, <1>3, CurrentIsServer DEF WebInv, WebTypeOK
  <1>5. Link' = Link
    BY <1>4 DEF Link
  <1>6. WebTypeOK'
    BY <1>2, <1>4, <1>5 DEF WebInv, WebTypeOK
  <1>7. ASSUME NEW t \in DOMAIN servers, NEW d \in Connections PROVE AgreesOn(t, d)'
    <2>1. AgreesOn(t, d)
      BY DEF WebInv, TablesAgree
    <2>2. /\ ~links'[c].upgraded /\ ~links'[c].connected
          /\ d # c => links'[d] = links[d]
      BY <1>2 DEF WebInv, WebTypeOK, Free
    <2>3. servers'[s] = r /\ (t # s => servers'[t] = servers[t])
      BY <1>1, <1>2 DEF WebInv, WebTypeOK
    <2>4. links[c].server = s
      BY DEF s
    <2> QED BY <1>3, <2>1, <2>2, <2>3, <2>4 DEF AgreesOn
  <1>8. Grows
    BY <1>1, <1>2, <1>3, <1>4, CurrentIsServer DEF WebInv, Grows
  <1> QED BY <1>4, <1>6, <1>7, <1>8 DEF WebInv, TablesAgree

\* Ending the daemon's side of some sockets keeps the links.
LEMMA ClosedLinks ==
  ASSUME WebTypeOK, NEW S
  PROVE  /\ Closed(S) \in [Connections -> {Free} \cup Link]
         /\ \A c \in Connections :
              /\ Closed(S)[c].server = links[c].server
              /\ Closed(S)[c].upgraded = links[c].upgraded
              /\ Closed(S)[c].connected => links[c].connected /\ c \notin S
  <1> SUFFICES ASSUME NEW c \in Connections
               PROVE  /\ Closed(S)[c] \in {Free} \cup Link
                      /\ Closed(S)[c].server = links[c].server
                      /\ Closed(S)[c].upgraded = links[c].upgraded
                      /\ Closed(S)[c].connected => links[c].connected /\ c \notin S
    BY DEF Closed
  <1>1. CASE c \notin S
    BY <1>1, LinkHasServer DEF Closed
  <1>2. CASE c \in S
    <2>1. Closed(S)[c] = [links[c] EXCEPT !.connected = FALSE]
      BY <1>2 DEF Closed
    <2>2. CASE links[c] = Free
      <3> DEFINE L == [server : Nat, upgraded : BOOLEAN, connected : BOOLEAN, late : BOOLEAN]
      <3>1. [Free EXCEPT !.connected = FALSE] = Free
        <4>1. ASSUME NEW l \in L, ~l.connected PROVE [l EXCEPT !.connected = FALSE] = l
          BY <4>1
        <4>2. Free \in L /\ ~Free.connected
          BY DEF Free
        <4> QED BY <4>1, <4>2
      <3>2. Closed(S)[c] = Free /\ ~Free.connected
        BY <2>1, <2>2, <3>1 DEF Free
      <3> QED BY <2>2, <3>2
    <2>3. CASE links[c] # Free
      BY <1>2, <2>1, <2>3, LinkHasServer DEF Link
    <2> QED BY <2>2, <2>3
  <1> QED BY <1>1, <1>2

LEMMA CloseFrameKeeps ==
  ASSUME WebInv, NEW c \in Connections, CloseFrame(c)
  PROVE  WebInv' /\ Grows
  <1>1. links' = Closed({c}) /\ servers' = servers
    BY DEF CloseFrame
  <1>2. Link' = Link
    BY <1>1 DEF Link
  <1>3. WebTypeOK'
    BY <1>1, <1>2, ClosedLinks DEF WebInv, WebTypeOK
  <1>4. ASSUME NEW t \in DOMAIN servers, NEW d \in Connections PROVE AgreesOn(t, d)'
    BY <1>1, ClosedLinks DEF WebInv, TablesAgree, AgreesOn
  <1> QED BY <1>1, <1>3, <1>4, CurrentIsServer DEF WebInv, Grows, TablesAgree

\* stop() empties the tables of the server; every socket that was in one has
\* been ended.
LEMMA StopKeeps ==
  ASSUME WebInv, NEW s \in DOMAIN servers, StopServer(s)
  PROVE  WebInv' /\ Grows /\ DOMAIN servers' = DOMAIN servers
  <1>1. CASE servers[s].http = "none"
    <2>1. links' = links /\ servers' = servers
      BY <1>1 DEF StopServer, webVars
    <2> QED BY <2>1, CurrentIsServer
            DEF WebInv, WebTypeOK, TablesAgree, AgreesOn, Link, Grows
  <1>2. CASE servers[s].http # "none"
    <2> DEFINE S == servers[s].clients \cup servers[s].sockets
               h == IF servers[s].http = "listening" THEN "closed" ELSE servers[s].http
               r == [servers[s] EXCEPT !.sockets = {}, !.tokens = {}, !.http = h]
    <2>1. servers[s] \in Server
      BY CurrentIsServer DEF WebInv
    <2>2. links' = Closed(S) /\ servers' = [servers EXCEPT ![s] = r]
      BY <1>2, <2>1 DEF StopServer, WebInv, WebTypeOK
    <2>3. /\ r \in Server /\ r.clients = servers[s].clients /\ r.sockets = {} /\ r.tokens = {}
          /\ servers[s].http = "binding" => r.http = "binding"
      BY <2>1 DEF Server
    <2> HIDE DEF r
    <2>4. /\ servers' \in Seq(Server) /\ Len(servers') = Len(servers) /\ servers' # <<>>
          /\ DOMAIN servers' = DOMAIN servers
      BY <2>2, <2>3, CurrentIsServer DEF WebInv, WebTypeOK
    <2>5. Link' = Link
      BY <2>4 DEF Link
    <2>6. WebTypeOK'
      BY <2>2, <2>4, <2>5, ClosedLinks DEF WebInv, WebTypeOK
    <2>7. ASSUME NEW t \in DOMAIN servers, NEW d \in Connections PROVE AgreesOn(t, d)'
      <3>1. AgreesOn(t, d)
        BY DEF WebInv, TablesAgree
      <3>2. /\ links'[d].server = links[d].server /\ links'[d].upgraded = links[d].upgraded
            /\ links'[d].connected => links[d].connected /\ d \notin S
        BY <2>2, ClosedLinks DEF WebInv
      <3>3. servers'[s] = r /\ (t # s => servers'[t] = servers[t])
        BY <2>2 DEF WebInv, WebTypeOK
      <3> QED BY <2>3, <3>1, <3>2, <3>3 DEF AgreesOn
    <2>8. Grows
      BY <2>2, <2>3, <2>4, CurrentIsServer DEF WebInv, Grows
    <2> QED BY <2>4, <2>6, <2>7, <2>8 DEF WebInv, TablesAgree
  <1> QED BY <1>1, <1>2

\* listen succeeds or fails.
LEMMA BoundKeeps ==
  ASSUME WebInv, NEW s \in DOMAIN servers, NEW h \in {"listening", "failed"},
         servers' = [servers EXCEPT ![s].http = h], links' = links
  PROVE  /\ WebInv' /\ DOMAIN servers' = DOMAIN servers
         /\ \A t \in DOMAIN servers : t # s => servers'[t] = servers[t]
  <1> DEFINE r == [servers[s] EXCEPT !.http = h]
  <1>1. servers[s] \in Server /\ servers' = [servers EXCEPT ![s] = r]
    BY CurrentIsServer DEF WebInv
  <1>2. /\ r \in Server /\ r.clients = servers[s].clients
        /\ r.sockets = servers[s].sockets /\ r.tokens = servers[s].tokens
    BY <1>1 DEF Server
  <1> HIDE DEF r
  <1>3. /\ servers' \in Seq(Server) /\ servers' # <<>> /\ DOMAIN servers' = DOMAIN servers
        /\ servers'[s] = r /\ \A t \in DOMAIN servers : t # s => servers'[t] = servers[t]
    BY <1>1, <1>2, CurrentIsServer DEF WebInv, WebTypeOK
  <1>4. Link' = Link
    BY <1>3 DEF Link
  <1>5. WebTypeOK'
    BY <1>3, <1>4 DEF WebInv, WebTypeOK
  <1>6. ASSUME NEW t \in DOMAIN servers, NEW d \in Connections PROVE AgreesOn(t, d)'
    BY <1>2, <1>3 DEF WebInv, TablesAgree, AgreesOn
  <1> QED BY <1>3, <1>5, <1>6 DEF WebInv, TablesAgree

\* A new server has no connection yet.
LEMMA AppendKeeps ==
  ASSUME WebInv, NEW h \in {"none", "binding"}, NEW p \in Ports,
         servers' = Append(servers, NewServer(h, p)), links' = links
  PROVE  /\ WebInv' /\ Grows /\ Len(servers') \in DOMAIN servers'
         /\ servers'[Len(servers')].http = h
  <1> DEFINE r == NewServer(h, p)
  <1>1. r \in Server /\ r.http = h /\ r.clients = {} /\ r.sockets = {} /\ r.tokens = {}
    BY DEF Server, NewServer
  <1> HIDE DEF r
  <1>2. /\ servers' \in Seq(Server) /\ servers' # <<>> /\ Len(servers') = Len(servers) + 1
        /\ servers'[Len(servers')] = r
        /\ DOMAIN servers' = DOMAIN servers \cup {Len(servers')}
        /\ \A t \in DOMAIN servers : servers'[t] = servers[t]
    BY <1>1, CurrentIsServer DEF WebInv, WebTypeOK, r
  <1>3. Link \subseteq Link'
    BY <1>2 DEF Link
  <1>4. WebTypeOK'
    BY <1>2, <1>3 DEF WebInv, WebTypeOK
  <1>5. ASSUME NEW t \in DOMAIN servers', NEW d \in Connections PROVE AgreesOn(t, d)'
    <2>1. CASE t \in DOMAIN servers
      BY <1>2, <2>1 DEF WebInv, TablesAgree, AgreesOn
    <2>2. CASE t = Len(servers')
      <3>1. t \notin DOMAIN servers /\ t # 0
        BY <1>2, <2>2, CurrentIsServer DEF WebInv
      <3>2. links[d].server # t
        BY <3>1, LinkHasServer DEF WebInv, Free
      <3> QED BY <1>1, <1>2, <2>2, <3>2 DEF AgreesOn
    <2> QED BY <1>2, <2>1, <2>2
  <1> QED BY <1>1, <1>2, <1>4, <1>5, CurrentIsServer DEF WebInv, Grows, TablesAgree

-----------------------------------------------------------------------------
Users == Callers \cup {Start, Shutdown}

CallsInv ==
  /\ calls \in [Users -> Call]
  /\ \A u \in Users : calls[u].stage = "starting" => servers[calls[u].server].http = "binding"

\* One call goes on and what the others await is still there.
LEMMA CallGoesOn ==
  ASSUME WebTypeOK, CallsInv, Grows, WebTypeOK', NEW u \in Users, NEW v \in Call',
         calls' = [calls EXCEPT ![u] = v],
         v.stage = "starting" => servers'[v.server].http = "binding"
  PROVE  CallsInv'
  <1>1. DOMAIN servers \subseteq DOMAIN servers'
    <2>1. DOMAIN servers = 1..Len(servers) /\ DOMAIN servers' = 1..Len(servers')
          /\ Len(servers) \in Nat /\ Len(servers') \in Nat
      BY DEF WebTypeOK
    <2> QED BY <2>1 DEF Grows
  <1>2. Call \subseteq Call'
    BY <1>1 DEF Call, Idle, Booting
  <1>3. \A w \in Call : w.stage = "starting" => w.server \in DOMAIN servers
    BY DEF Call, Idle, Booting, Stopping
  <1>4. calls' \in [Users -> Call']
    BY <1>2 DEF CallsInv
  <1>5. ASSUME NEW w \in Users, calls'[w].stage = "starting"
        PROVE  servers'[calls'[w].server].http = "binding"
    <2>1. CASE w = u
      BY <1>5, <2>1 DEF CallsInv
    <2>2. CASE w # u
      <3>1. calls'[w] = calls[w] /\ calls[w] \in Call
        BY <2>2 DEF CallsInv
      <3> QED BY <1>3, <1>5, <3>1 DEF CallsInv, Grows
    <2> QED BY <2>1, <2>2
  <1> QED BY <1>4, <1>5 DEF CallsInv

LEMMA ReturnKeeps ==
  ASSUME WebInv, CallsInv, NEW u \in Users, Returns(u), UNCHANGED webVars
  PROVE  WebInv' /\ CallsInv'
  <1>1. WebInv' /\ Grows
    BY CurrentIsServer
       DEF webVars, WebInv, WebTypeOK, TablesAgree, AgreesOn, Link, Grows
  <1>2. Idle \in Call' /\ Idle.stage # "starting"
    BY DEF Call, Idle
  <1> QED BY <1>1, <1>2, CallGoesOn DEF Returns, WebInv

LEMMA StopsCurrentKeeps ==
  ASSUME WebInv, CallsInv, NEW u \in Users, NEW stage \in Stopping, StopsCurrent(u, stage)
  PROVE  WebInv' /\ CallsInv'
  <1>1. Current \in DOMAIN servers
    BY CurrentIsServer DEF WebInv
  <1>2. WebInv' /\ Grows /\ DOMAIN servers' = DOMAIN servers
    BY <1>1, StopKeeps DEF StopsCurrent
  <1>3. /\ Awaits(stage, Current) \in Call'
        /\ Awaits(stage, Current).stage # "starting"
    BY <1>1, <1>2 DEF Call, Awaits, Stopping
  <1>4. calls' = [calls EXCEPT ![u] = Awaits(stage, Current)]
    BY DEF StopsCurrent
  <1> QED BY <1>2, <1>3, <1>4, CallGoesOn DEF WebInv

LEMMA LaunchKeeps ==
  ASSUME WebInv, CallsInv, NEW u \in Users, NEW c \in Config, Launch(u, c)
  PROVE  WebInv' /\ CallsInv'
  <1> DEFINE h == IF c.enabled THEN "binding" ELSE "none"
             v == IF c.enabled THEN Awaits("starting", Len(servers')) ELSE Idle
  <1>1. h \in {"none", "binding"} /\ c.port \in Ports
    BY DEF Config
  <1>2. /\ servers' = Append(servers, NewServer(h, c.port)) /\ links' = links
        /\ calls' = [calls EXCEPT ![u] = v]
    BY DEF Launch
  <1> HIDE DEF v
  <1>3. /\ WebInv' /\ Grows /\ Len(servers') \in DOMAIN servers'
        /\ servers'[Len(servers')].http = h
    BY <1>1, <1>2, AppendKeeps
  <1>4. v \in Call' /\ (v.stage = "starting" => servers'[v.server].http = "binding")
    BY <1>3 DEF v, Call, Awaits, Idle
  <1> QED BY <1>2, <1>3, <1>4, CallGoesOn DEF WebInv

LEMMA StartWebUIKeeps ==
  ASSUME WebInv, CallsInv, NEW u \in Users, NEW c \in Config, StartWebUI(u, c)
  PROVE  WebInv' /\ CallsInv'
  BY ReturnKeeps, StopsCurrentKeeps, LaunchKeeps DEF StartWebUI, Stopping

\* The calls are where they were.
LEMMA CallsWait ==
  ASSUME WebTypeOK, CallsInv, Grows, WebTypeOK', calls' = calls
  PROVE  CallsInv'
  <1>1. calls[Start] \in Call /\ Start \in Users
    BY DEF CallsInv, Users
  <1>2. calls' = [calls EXCEPT ![Start] = calls[Start]]
    BY DEF CallsInv
  <1>3. DOMAIN servers \subseteq DOMAIN servers'
    <2>1. DOMAIN servers = 1..Len(servers) /\ DOMAIN servers' = 1..Len(servers')
          /\ Len(servers) \in Nat /\ Len(servers') \in Nat
      BY DEF WebTypeOK
    <2> QED BY <2>1 DEF Grows
  <1>4. calls[Start] \in Call'
    BY <1>1, <1>3 DEF Call, Idle, Booting
  <1>5. calls[Start].stage = "starting" => servers'[calls[Start].server].http = "binding"
    <2>1. calls[Start].stage = "starting" => calls[Start].server \in DOMAIN servers
      BY <1>1 DEF Call, Idle, Booting, Stopping
    <2> QED BY <1>1, <2>1 DEF CallsInv, Grows
  <1> QED BY <1>1, <1>2, <1>4, <1>5, CallGoesOn

-----------------------------------------------------------------------------
\* TypeOK and TablesAgree, by the variables they are about.
WebUIInv ==
  /\ WebInv /\ CallsInv /\ config \in Config
  /\ isShuttingDown \in BOOLEAN /\ overlapped \in BOOLEAN

LEMMA InitHolds == Init => WebUIInv
  <1> SUFFICES ASSUME Init PROVE WebUIInv
    OBVIOUS
  <1> DEFINE r == NewServer("none", DefaultPort)
  <1>1. r \in Server /\ r.clients = {} /\ r.sockets = {} /\ r.tokens = {}
    BY WebUIAssumption DEF NewServer, Server
  <1>2. /\ servers = <<r>> /\ links = [c \in Connections |-> Free]
        /\ config = [enabled |-> FALSE, port |-> DefaultPort]
        /\ calls = [u \in Users |-> IF u = Start THEN Booting ELSE Idle]
        /\ isShuttingDown = FALSE /\ overlapped = FALSE
    BY DEF Init, Users
  <1> HIDE DEF r
  <1>3. WebTypeOK
    BY <1>1, <1>2 DEF WebTypeOK
  <1>4. TablesAgree
    <2> SUFFICES ASSUME NEW s \in DOMAIN servers, NEW c \in Connections PROVE AgreesOn(s, c)
      BY DEF TablesAgree
    <2>1. servers[s] = r /\ ~links[c].upgraded /\ ~links[c].connected
      BY <1>2 DEF Free
    <2> QED BY <1>1, <2>1 DEF AgreesOn
  <1>5. CallsInv
    BY <1>2 DEF CallsInv, Call, Idle, Booting
  <1>6. config \in Config
    BY <1>2, WebUIAssumption DEF Config
  <1> QED BY <1>2, <1>3, <1>4, <1>5, <1>6 DEF WebUIInv, WebInv

LEMMA NextKeeps == WebUIInv /\ [Next]_vars => WebUIInv'
  <1> SUFFICES ASSUME WebUIInv, [Next]_vars PROVE WebUIInv'
    OBVIOUS
  <1>1. /\ WebInv /\ CallsInv /\ config \in Config
        /\ isShuttingDown \in BOOLEAN /\ overlapped \in BOOLEAN
    BY DEF WebUIInv
  <1>2. Start \in Users /\ Shutdown \in Users /\ Callers \subseteq Users /\ DOMAIN calls = Users
    BY <1>1 DEF Users, CallsInv
  <1>3. CASE Boot
    BY <1>1, <1>2, <1>3, StartWebUIKeeps DEF WebUIInv, Boot
  <1>4. CASE GracefulShutdown
    <2>1. WebInv' /\ CallsInv'
      BY <1>1, <1>2, <1>4, StopsCurrentKeeps DEF GracefulShutdown, Stopping
    <2>2. config' \in Config /\ isShuttingDown' \in BOOLEAN /\ overlapped' \in BOOLEAN
      BY <1>1, <1>4 DEF GracefulShutdown
    <2> QED BY <2>1, <2>2 DEF WebUIInv
  <1>5. ASSUME NEW u \in Callers, NEW c \in Config, SetWebUIConfig(u, c) PROVE WebUIInv'
    <2>1. u \in Users
      BY <1>2
    <2>2. CASE StartWebUI(u, c)
      BY <1>1, <1>5, <2>1, <2>2, StartWebUIKeeps DEF WebUIInv, SetWebUIConfig
    <2>3. CASE StopsCurrent(u, IF c.enabled THEN "stopping" ELSE "disabling")
      <3>1. WebInv' /\ CallsInv'
        BY <1>1, <2>1, <2>3, StopsCurrentKeeps DEF Stopping
      <3> QED BY <1>1, <1>5, <3>1 DEF WebUIInv, SetWebUIConfig
    <2> QED BY <1>5, <2>2, <2>3 DEF SetWebUIConfig
  <1>6. ASSUME NEW u \in DOMAIN calls, Stopped(u) PROVE WebUIInv'
    <2>1. u \in Users
      BY <1>2
    <2>2. WebInv' /\ CallsInv'
      BY <1>1, <1>6, <2>1, ReturnKeeps, StartWebUIKeeps, LaunchKeeps DEF Stopped
    <2> QED BY <1>1, <1>6, <2>2 DEF WebUIInv, Stopped
  <1>7. ASSUME NEW s \in DOMAIN servers, Bound(s) PROVE WebUIInv'
    <2>1. PICK h \in {"listening", "failed"} : servers' = [servers EXCEPT ![s].http = h]
      BY <1>7 DEF Bound
    <2>2. links' = links /\ calls' = Started(s)
      BY <1>7 DEF Bound
    <2>3. /\ WebInv' /\ DOMAIN servers' = DOMAIN servers
          /\ \A t \in DOMAIN servers : t # s => servers'[t] = servers[t]
      BY <1>1, <2>1, <2>2, BoundKeeps
    <2>4. Call' = Call
      BY <2>3 DEF Call
    <2>5. /\ calls' = [w \in Users |-> IF calls[w] = Awaits("starting", s) THEN Idle ELSE calls[w]]
          /\ \A w \in Users : calls[w] \in Call
      BY <1>2, <1>1, <2>2 DEF Started, CallsInv
    <2>6. calls' \in [Users -> Call']
      BY <2>4, <2>5 DEF Call, Idle
    <2>7. ASSUME NEW w \in Users, calls'[w].stage = "starting"
          PROVE  servers'[calls'[w].server].http = "binding"
      <3>1. calls'[w] = calls[w] /\ calls[w] # Awaits("starting", s) /\ calls[w] \in Call
        BY <2>5, <2>7 DEF Idle
      <3>2. calls[w].server \in DOMAIN servers /\ calls[w].server # s
        BY <2>7, <3>1 DEF Call, Awaits, Idle, Booting, Stopping
      <3> QED BY <1>1, <2>3, <2>7, <3>1, <3>2 DEF CallsInv
    <2>8. CallsInv'
      BY <2>6, <2>7 DEF CallsInv
    <2> QED BY <1>1, <1>7, <2>3, <2>8 DEF WebUIInv, Bound
  <1>8. ASSUME NEW c \in Connections, ConnectionStep(c) PROVE WebUIInv'
    <2>1. WebInv' /\ Grows
      BY <1>1, <1>8, AcceptKeeps, UpgradeKeeps, CloseFrameKeeps, SocketClosedKeeps
         DEF ConnectionStep
    <2>2. UNCHANGED daemonVars
      BY <1>8 DEF ConnectionStep
    <2>3. CallsInv'
      BY <1>1, <2>1, <2>2, CallsWait DEF daemonVars, WebInv
    <2> QED BY <1>1, <2>1, <2>2, <2>3 DEF WebUIInv, daemonVars
  <1>9. CASE UNCHANGED vars
    BY <1>9 DEF vars, webVars, daemonVars, WebUIInv, WebTypeOK, TablesAgree, AgreesOn,
                Link, Call, WebInv, CallsInv
  <1> QED BY <1>3, <1>4, <1>5, <1>6, <1>7, <1>8, <1>9 DEF Next

LEMMA Invariance == Spec => []WebUIInv
  BY InitHolds, NextKeeps, PTL DEF Spec

\* The variables keep their types, and start() is awaited only while its server
\* binds: Bound settles the promises of all that wait for it.
THEOREM TypeInvariance == Spec => []TypeOK
<1>1. WebUIInv => TypeOK
  BY DEF WebUIInv, TypeOK, WebInv, CallsInv, Users
<1> QED BY <1>1, Invariance, PTL

\* In whatever order connections are accepted, upgraded and closed and servers
\* stopped and replaced, the three tables of every server agree with its open
\* sockets (clients and subscriptions of WebUIServer, the clients of the
\* SimpleWebSocketServer and the CSRF tokens).
THEOREM TablesStayAgreed == Spec => []TablesAgree
<1>1. WebUIInv => TablesAgree
  BY DEF WebUIInv, WebInv
<1> QED BY <1>1, Invariance, PTL

-----------------------------------------------------------------------------
(* What serves is what is configured.                                      *)

\* A server that binds does so as configured, and the call that made it waits.
BindsAsConfigured ==
  \A s \in DOMAIN servers : servers[s].http = "binding" =>
    /\ config.enabled /\ servers[s].port = config.port
    /\ \E u \in Users : calls[u] = Awaits("starting", s)

CurrentAsConfigured == Listening(Current) => config.enabled /\ servers[Current].port = config.port

\* If the web UI is enabled, its server is there or a call is about to make it.
EnabledServed ==
  config.enabled /\ ~isShuttingDown =>
    \/ servers[Current].http \in {"listening", "failed", "binding"}
    \/ \E u \in Users : calls[u].stage \in {"booting", "stopping", "restarting"}

Serving == {"listening", "binding"}

\* As long as no calls have overlapped, one is under way at most, the server is
\* stopped that it waits for, and no other server serves.
OneAtATime ==
  ~overlapped =>
    /\ \A u, v \in Users : calls[u] # Idle /\ calls[v] # Idle => u = v
    /\ \A u \in Users : calls[u].stage \in Stopping => servers[Current].http \notin Serving
    /\ \A s \in DOMAIN servers : servers[s].http \in Serving => s = Current

ServeInv == BindsAsConfigured /\ CurrentAsConfigured /\ EnabledServed /\ OneAtATime

NothingBinds == \A s \in DOMAIN servers : servers[s].http # "binding"

\* No call but u's is under way.
Alone(u) == \A w \in Users : calls[w] # Idle => w = u

\* Where the servers listen is what it was.
SameAddresses ==
  /\ DOMAIN servers' = DOMAIN servers /\ Len(servers') = Len(servers)
  /\ \A s \in DOMAIN servers :
       servers'[s].http = servers[s].http /\ servers'[s].port = servers[s].port

LEMMA ConnectionKeepsAddresses ==
  ASSUME WebInv, NEW c \in Connections, ConnectionStep(c)
  PROVE  SameAddresses
  <1>1. CASE servers' = servers
    BY <1>1 DEF SameAddresses
  <1>2. ASSUME NEW r,
               r.http = servers[links[c].server].http, r.port = servers[links[c].server].port,
               servers' = [servers EXCEPT ![links[c].server] = r],
               links[c] # Free, r \in Server
        PROVE  SameAddresses
    <2> DEFINE s == links[c].server
    <2>1. s \in DOMAIN servers
      BY <1>2, LinkHasServer DEF WebInv
    <2>2. DOMAIN servers' = DOMAIN servers /\ Len(servers') = Len(servers)
      BY <1>2, <2>1, CurrentIsServer DEF WebInv, WebTypeOK
    <2>3. ASSUME NEW t \in DOMAIN servers
          PROVE  servers'[t].http = servers[t].http /\ servers'[t].port = servers[t].port
      BY <1>2, <2>1, <2>3 DEF WebInv, WebTypeOK
    <2> QED BY <2>2, <2>3 DEF SameAddresses
  <1>3. CASE HandleUpgrade(c)
    <2> DEFINE s == links[c].server
               r == [servers[s] EXCEPT !.clients = servers[s].clients \cup {c},
                                       !.sockets = servers[s].sockets \cup {c},
                                       !.tokens = servers[s].tokens \cup {c}]
    <2>1. s \in DOMAIN servers /\ servers[s] \in Server /\ links[c] # Free
      BY <1>3, LinkHasServer, CurrentIsServer DEF HandleUpgrade, WebInv
    <2>2. servers' = [servers EXCEPT ![s] = r]
      BY <1>3, <2>1 DEF HandleUpgrade, WebInv, WebTypeOK
    <2>3. r.http = servers[s].http /\ r.port = servers[s].port /\ r \in Server
      BY <2>1 DEF Server
    <2> QED BY <1>2, <2>1, <2>2, <2>3
  <1>4. CASE SocketClosed(c)
    <2> DEFINE s == links[c].server
               r == [servers[s] EXCEPT !.clients = servers[s].clients \ {c},
                                       !.sockets = servers[s].sockets \ {c},
                                       !.tokens = servers[s].tokens \ {c}]
    <2>1. s \in DOMAIN servers /\ servers[s] \in Server /\ links[c] # Free
      BY <1>4, LinkHasServer, CurrentIsServer DEF SocketClosed, WebInv
    <2>2. servers' = [servers EXCEPT ![s] = r]
      BY <1>4, <2>1 DEF SocketClosed, Forgotten, WebInv, WebTypeOK
    <2>3. r.http = servers[s].http /\ r.port = servers[s].port /\ r \in Server
      BY <2>1 DEF Server
    <2> QED BY <1>2, <2>1, <2>2, <2>3
  <1> QED BY <1>1, <1>3, <1>4 DEF ConnectionStep, Accept, CloseFrame

\* A stop closes the server that the daemon knows if it listens.
LEMMA StopEffect ==
  ASSUME WebInv, StopServer(Current)
  PROVE  /\ DOMAIN servers' = DOMAIN servers /\ Len(servers') = Len(servers)
         /\ \A s \in DOMAIN servers : servers'[s].port = servers[s].port
         /\ \A s \in DOMAIN servers : s # Current => servers'[s].http = servers[s].http
         /\ servers'[Current].http
              = IF Listening(Current) THEN "closed" ELSE servers[Current].http
  <1>1. Current \in DOMAIN servers /\ servers[Current] \in Server
    BY CurrentIsServer DEF WebInv
  <1>2. CASE servers[Current].http = "none"
    BY <1>2 DEF StopServer, webVars, Listening
  <1>3. CASE servers[Current].http # "none"
    <2> DEFINE h == IF Listening(Current) THEN "closed" ELSE servers[Current].http
               r == [servers[Current] EXCEPT !.sockets = {}, !.tokens = {}, !.http = h]
    <2>1. servers' = [servers EXCEPT ![Current] = r]
      BY <1>1, <1>3 DEF StopServer, Listening, WebInv, WebTypeOK
    <2>2. r.http = h /\ r.port = servers[Current].port /\ r \in Server
      BY <1>1 DEF Server, Listening
    <2> HIDE DEF r
    <2>3. DOMAIN servers' = DOMAIN servers /\ Len(servers') = Len(servers)
      BY <1>1, <2>1, <2>2, CurrentIsServer DEF WebInv, WebTypeOK
    <2>4. /\ servers'[Current] = r
          /\ \A s \in DOMAIN servers : s # Current => servers'[s] = servers[s]
      BY <1>1, <2>1 DEF WebInv, WebTypeOK
    <2> QED BY <2>2, <2>3, <2>4
  <1> QED BY <1>2, <1>3

\* A new server becomes the one the daemon knows.
LEMMA LaunchEffect ==
  ASSUME WebInv, NEW c \in Config, NEW u \in Users, Launch(u, c)
  PROVE  /\ Len(servers') = Len(servers) + 1
         /\ DOMAIN servers' = DOMAIN servers \cup {Len(servers')}
         /\ \A s \in DOMAIN servers : servers'[s] = servers[s] /\ s # Len(servers')
         /\ servers'[Len(servers')].http = IF c.enabled THEN "binding" ELSE "none"
         /\ servers'[Len(servers')].port = c.port
  <1> DEFINE r == NewServer(IF c.enabled THEN "binding" ELSE "none", c.port)
  <1>1. r \in Server /\ r.http = (IF c.enabled THEN "binding" ELSE "none") /\ r.port = c.port
    BY DEF Server, NewServer, Config
  <1>2. servers' = Append(servers, r)
    BY DEF Launch
  <1> HIDE DEF r
  <1> QED BY <1>1, <1>2, CurrentIsServer DEF WebInv, WebTypeOK

\* What a call changes: its own entry.
Moves(u, v) ==
  /\ calls' = [calls EXCEPT ![u] = v]
  /\ calls[u].stage # "starting"

LEMMA OthersWait ==
  ASSUME CallsInv, NEW u \in Users, NEW v, Moves(u, v)
  PROVE  /\ calls'[u] = v
         /\ \A w \in Users : w # u => calls'[w] = calls[w]
         /\ \A s : \A w \in Users : calls[w] = Awaits("starting", s) => calls'[w] = calls[w]
  BY DEF Moves, CallsInv, Awaits

\* The configuration is written when nothing binds, or not at all.
ConfigWaits == NothingBinds \/ UNCHANGED config

LEMMA CallMoves ==
  ASSUME CallsInv, OneAtATime, NEW u \in Users, NEW v, Moves(u, v),
         ~overlapped' => ~overlapped /\ Alone(u)
  PROVE  ~overlapped' =>
           /\ \A w, x \in Users : calls'[w] # Idle /\ calls'[x] # Idle => w = x
           /\ \A w \in Users : calls'[w].stage \in Stopping => w = u
  <1>1. Idle.stage \notin Stopping
    BY DEF Idle, Stopping
  <1> QED BY <1>1, OthersWait DEF Alone

LEMMA StopsServe ==
  ASSUME WebInv, CallsInv, ServeInv, ConfigWaits,
         NEW u \in Users, NEW stage \in Stopping, StopsCurrent(u, stage),
         calls[u].stage # "starting", servers[Current].http # "binding",
         config'.enabled /\ ~isShuttingDown' => stage # "disabling",
         ~overlapped' => ~overlapped /\ Alone(u)
  PROVE  ServeInv'
  <1> DEFINE v == Awaits(stage, Current)
  <1>1. Moves(u, v) /\ StopServer(Current)
    BY DEF Moves, StopsCurrent
  <1>2. v.stage = stage /\ v.stage \in Stopping
    BY DEF Awaits
  <1> HIDE DEF v
  <1>3. /\ calls'[u] = v
        /\ \A s : \A w \in Users : calls[w] = Awaits("starting", s) => calls'[w] = calls[w]
    BY <1>1, OthersWait
  <1>4. /\ DOMAIN servers' = DOMAIN servers /\ Len(servers') = Len(servers)
        /\ \A s \in DOMAIN servers : servers'[s].port = servers[s].port
        /\ \A s \in DOMAIN servers : s # Current => servers'[s].http = servers[s].http
        /\ servers'[Current].http \notin Serving
        /\ Current \in DOMAIN servers /\ Current' = Current
    BY <1>1, StopEffect, CurrentIsServer DEF Serving, Listening, Current, WebInv
  <1>5. BindsAsConfigured'
    <2> SUFFICES ASSUME NEW s \in DOMAIN servers, servers'[s].http = "binding"
                 PROVE  /\ config'.enabled /\ servers'[s].port = config'.port
                        /\ \E w \in Users : calls'[w] = Awaits("starting", s)
      BY <1>4 DEF BindsAsConfigured, Awaits
    <2>1. servers[s].http = "binding" /\ servers'[s].port = servers[s].port
      BY <1>4 DEF Serving
    <2> QED BY <1>3, <2>1 DEF ConfigWaits, NothingBinds, ServeInv, BindsAsConfigured
  <1>6. CurrentAsConfigured'
    BY <1>4 DEF CurrentAsConfigured, Listening, Serving
  <1>7. EnabledServed'
    BY <1>2, <1>3 DEF EnabledServed, Stopping
  <1>8. OneAtATime'
    <2>1. ~overlapped' => \A w, x \in Users : calls'[w] # Idle /\ calls'[x] # Idle => w = x
      BY <1>1, CallMoves DEF ServeInv
    <2>2. \A s \in DOMAIN servers' : ~overlapped' /\ servers'[s].http \in Serving => s = Current'
      BY <1>4 DEF ServeInv, OneAtATime, Serving
    <2> QED BY <1>4, <2>1, <2>2 DEF OneAtATime, Serving, Idle
  <1> QED BY <1>5, <1>6, <1>7, <1>8 DEF ServeInv

LEMMA LaunchServes ==
  ASSUME WebInv, CallsInv, ServeInv, ConfigWaits,
         NEW u \in Users, NEW c \in Config, Launch(u, c), config' = c,
         calls[u].stage # "starting",
         ~overlapped' => ~overlapped /\ Alone(u) /\ servers[Current].http \notin Serving
  PROVE  ServeInv'
  <1> DEFINE n == Len(servers')
             v == IF c.enabled THEN Awaits("starting", n) ELSE Idle
  <1>1. Moves(u, v)
    BY DEF Moves, Launch
  <1>2. v.stage \notin Stopping /\ (c.enabled => v = Awaits("starting", n))
    BY DEF Awaits, Stopping, Idle
  <1>3. /\ DOMAIN servers' = DOMAIN servers \cup {n}
        /\ \A s \in DOMAIN servers : servers'[s] = servers[s] /\ s # n
        /\ servers'[n].http = IF c.enabled THEN "binding" ELSE "none"
        /\ servers'[n].port = c.port
        /\ Current' = n
    BY LaunchEffect DEF Current
  <1> HIDE DEF n, v
  <1>4. /\ calls'[u] = v
        /\ \A w \in Users : w # u => calls'[w] = calls[w]
        /\ \A s : \A w \in Users : calls[w] = Awaits("starting", s) => calls'[w] = calls[w]
    BY <1>1, OthersWait
  <1>5. BindsAsConfigured'
    <2> SUFFICES ASSUME NEW s \in DOMAIN servers', servers'[s].http = "binding"
                 PROVE  /\ config'.enabled /\ servers'[s].port = config'.port
                        /\ \E w \in Users : calls'[w] = Awaits("starting", s)
      BY DEF BindsAsConfigured, Awaits
    <2>1. CASE s = n
      BY <1>2, <1>3, <1>4, <2>1
    <2>2. CASE s \in DOMAIN servers
      <3>1. servers[s].http = "binding" /\ servers'[s] = servers[s]
        BY <1>3, <2>2
      <3> QED BY <1>4, <2>2, <3>1 DEF ConfigWaits, NothingBinds, ServeInv, BindsAsConfigured
    <2> QED BY <1>3, <2>1, <2>2
  <1>6. CurrentAsConfigured' /\ EnabledServed'
    BY <1>3 DEF CurrentAsConfigured, EnabledServed, Listening
  <1>7. OneAtATime'
    <2>1. ~overlapped' =>
            /\ \A w, x \in Users : calls'[w] # Idle /\ calls'[x] # Idle => w = x
            /\ \A w \in Users : calls'[w].stage \in Stopping => w = u
      BY <1>1, CallMoves DEF ServeInv
    <2>2. ASSUME NEW s \in DOMAIN servers', ~overlapped', servers'[s].http \in Serving
          PROVE  s = Current'
      BY <1>3, <2>2 DEF ServeInv, OneAtATime, Serving
    <2> QED BY <1>2, <1>4, <2>1, <2>2 DEF OneAtATime, Serving
  <1> QED BY <1>5, <1>6, <1>7 DEF ServeInv

LEMMA ReturnServes ==
  ASSUME CallsInv, ServeInv, ConfigWaits,
         NEW u \in Users, Returns(u), UNCHANGED webVars,
         calls[u].stage # "starting",
         Listening(Current) => UNCHANGED config,
         config'.enabled /\ ~isShuttingDown' =>
           calls[u].stage = "disabling" /\ UNCHANGED <<config, isShuttingDown>>,
         ~overlapped' => ~overlapped /\ Alone(u)
  PROVE  ServeInv'
  <1>1. Moves(u, Idle) /\ servers' = servers /\ Current' = Current
    BY DEF Moves, Returns, webVars, Current
  <1>2. /\ calls'[u] = Idle
        /\ \A w \in Users : w # u => calls'[w] = calls[w]
        /\ \A s : \A w \in Users : calls[w] = Awaits("starting", s) => calls'[w] = calls[w]
    BY <1>1, OthersWait
  <1>3. BindsAsConfigured'
    <2> SUFFICES ASSUME NEW s \in DOMAIN servers, servers[s].http = "binding"
                 PROVE  /\ config'.enabled /\ servers[s].port = config'.port
                        /\ \E w \in Users : calls'[w] = Awaits("starting", s)
      BY <1>1 DEF BindsAsConfigured, Awaits
    <2> QED BY <1>2 DEF ConfigWaits, NothingBinds, ServeInv, BindsAsConfigured
  <1>4. CurrentAsConfigured'
    BY <1>1 DEF ServeInv, CurrentAsConfigured, Listening
  <1>5. EnabledServed'
    BY <1>1, <1>2 DEF ServeInv, EnabledServed
  <1>6. OneAtATime'
    <2>1. ~overlapped' =>
            /\ \A w, x \in Users : calls'[w] # Idle /\ calls'[x] # Idle => w = x
            /\ \A w \in Users : calls'[w].stage \in Stopping => w = u
      BY <1>1, CallMoves DEF ServeInv
    <2> QED BY <1>1, <1>2, <2>1 DEF ServeInv, OneAtATime, Idle, Stopping
  <1> QED BY <1>3, <1>4, <1>5, <1>6 DEF ServeInv

\* Who starts the web UI waits for no server to bind; with overlapped calls the
\* server that is replaced may serve, and without them it does not.
LEMMA StartWebUIServes ==
  ASSUME WebUIInv, ServeInv, ConfigWaits,
         NEW u \in Users, NEW c \in Config, StartWebUI(u, c), config' = c,
         calls[u].stage # "starting",
         Listening(Current) => UNCHANGED config,
         ~overlapped' => ~overlapped /\ Alone(u),
         ~overlapped' => servers[Current].http # "binding"
  PROVE  ServeInv'
  <1>1. WebInv /\ CallsInv
    BY DEF WebUIInv
  <1>2. CASE ~c.enabled /\ Returns(u) /\ UNCHANGED webVars
    BY <1>1, <1>2, ReturnServes
  <1>3. CASE c.enabled /\ Listening(Current) /\ StopsCurrent(u, "restarting")
    <2>1. "restarting" \in Stopping /\ servers[Current].http # "binding"
      BY <1>3 DEF Stopping, Listening
    <2> QED BY <1>1, <1>3, <2>1, StopsServe
  <1>4. CASE c.enabled /\ ~Listening(Current) /\ Launch(u, c)
    BY <1>1, <1>4, LaunchServes DEF Serving, Listening
  <1> QED BY <1>2, <1>3, <1>4 DEF StartWebUI

LEMMA QuietIs ==
  ASSUME Quiet, WebUIInv
  PROVE  NothingBinds /\ ConfigWaits /\ servers[Current].http # "binding"
  BY CurrentIsServer DEF Quiet, NothingBinds, ConfigWaits, WebUIInv, WebInv

\* The first to call is alone.
LEMMA FirstIsAlone ==
  ASSUME WebUIInv, NEW u \in Users, overlapped' = (overlapped \/ UnderWay # {})
  PROVE  ~overlapped' => ~overlapped /\ Alone(u)
  BY DEF UnderWay, Alone, WebUIInv, CallsInv

LEMMA BootServes == ASSUME WebUIInv, ServeInv, Boot PROVE ServeInv'
  <1>1. Start \in Users /\ config \in Config /\ calls[Start].stage # "starting"
    BY DEF Users, WebUIInv, Boot, Booting
  <1>2. ~overlapped' => ~overlapped /\ Alone(Start)
    BY <1>1 DEF Boot, ServeInv, OneAtATime, Alone, Booting, Idle
  <1> QED BY <1>1, <1>2, QuietIs, StartWebUIServes DEF Boot

LEMMA SetWebUIConfigServes ==
  ASSUME WebUIInv, ServeInv, NEW u \in Callers, NEW c \in Config, SetWebUIConfig(u, c)
  PROVE  ServeInv'
  <1>1. u \in Users /\ calls[u].stage # "starting" /\ config' = c
    BY DEF Users, SetWebUIConfig, Idle
  <1>2. ~overlapped' => ~overlapped /\ Alone(u)
    BY <1>1, FirstIsAlone DEF SetWebUIConfig
  <1>3. NothingBinds /\ ConfigWaits /\ servers[Current].http # "binding"
    BY QuietIs DEF SetWebUIConfig
  <1>4. CASE ~WasEnabled(c) /\ StartWebUI(u, c)
    <2>1. ~Listening(Current)
      BY <1>4 DEF WasEnabled, ServeInv, CurrentAsConfigured
    <2> QED BY <1>1, <1>2, <1>3, <1>4, <2>1, StartWebUIServes
  <1>5. CASE StopsCurrent(u, IF c.enabled THEN "stopping" ELSE "disabling")
    <2> DEFINE stage == IF c.enabled THEN "stopping" ELSE "disabling"
    <2>1. stage \in Stopping /\ (config'.enabled => stage # "disabling")
      BY <1>1 DEF Stopping
    <2> QED BY <1>1, <1>2, <1>3, <1>5, <2>1, StopsServe DEF WebUIInv
  <1> QED BY <1>4, <1>5 DEF SetWebUIConfig

LEMMA GracefulShutdownServes == ASSUME WebUIInv, ServeInv, GracefulShutdown PROVE ServeInv'
  <1>1. Shutdown \in Users /\ "disabling" \in Stopping /\ isShuttingDown' = TRUE
    BY DEF Users, Stopping, GracefulShutdown
  <1>2. ~overlapped' => ~overlapped /\ Alone(Shutdown)
    BY <1>1, FirstIsAlone DEF GracefulShutdown
  <1>3. NothingBinds /\ ConfigWaits /\ servers[Current].http # "binding"
    BY QuietIs DEF GracefulShutdown
  <1>4. calls[Shutdown].stage # "starting"
    <2>1. calls[Shutdown].stage = "starting" => calls[Shutdown].server \in DOMAIN servers
      BY <1>1 DEF WebUIInv, CallsInv, Call, Idle, Booting, Stopping
    <2> QED BY <1>1, <1>3, <2>1 DEF NothingBinds, WebUIInv, CallsInv
  <1> QED BY <1>1, <1>2, <1>3, <1>4, StopsServe DEF GracefulShutdown, WebUIInv

LEMMA StoppedServes ==
  ASSUME WebUIInv, ServeInv, NEW u \in Users, Stopped(u)
  PROVE  ServeInv'
  <1>1. /\ calls[u].stage \in Stopping /\ calls[u].stage # "starting" /\ calls[u] # Idle
        /\ UNCHANGED <<config, isShuttingDown, overlapped>> /\ config \in Config
        /\ ConfigWaits
    BY DEF Stopped, Ready, Stopping, Idle, WebUIInv, ConfigWaits
  <1>2. ~overlapped' => ~overlapped /\ Alone(u) /\ servers[Current].http \notin Serving
    BY <1>1 DEF ServeInv, OneAtATime, Alone, Serving
  <1>3. CASE calls[u].stage = "disabling" /\ Returns(u) /\ UNCHANGED webVars
    BY <1>1, <1>2, <1>3, ReturnServes DEF WebUIInv
  <1>4. CASE StartWebUI(u, config)
    BY <1>1, <1>2, <1>4, StartWebUIServes DEF Serving
  <1>5. CASE Launch(u, config)
    BY <1>1, <1>2, <1>5, LaunchServes DEF WebUIInv
  <1> QED BY <1>3, <1>4, <1>5 DEF Stopped

LEMMA BoundServes ==
  ASSUME WebUIInv, ServeInv, NEW s \in DOMAIN servers, Bound(s)
  PROVE  ServeInv'
  <1>1. PICK h \in {"listening", "failed"} : servers' = [servers EXCEPT ![s].http = h]
    BY DEF Bound
  <1>2. /\ servers[s].http = "binding" /\ calls' = Started(s)
        /\ UNCHANGED <<links, config, isShuttingDown, overlapped>>
    BY DEF Bound
  <1>3. /\ DOMAIN servers' = DOMAIN servers /\ Current' = Current
        /\ servers'[s].http = h /\ servers'[s].port = servers[s].port
        /\ \A t \in DOMAIN servers : t # s => servers'[t] = servers[t]
    <2>1. servers[s] \in Server /\ servers' = [servers EXCEPT ![s] = [servers[s] EXCEPT !.http = h]]
      BY <1>1, CurrentIsServer DEF WebUIInv, WebInv
    <2>2. [servers[s] EXCEPT !.http = h].http = h /\ [servers[s] EXCEPT !.http = h].port = servers[s].port
      BY <2>1 DEF Server
    <2>3. /\ \A t \in DOMAIN servers : t # s => servers'[t] = servers[t]
          /\ servers'[s] = [servers[s] EXCEPT !.http = h]
          /\ Len(servers') = Len(servers) /\ DOMAIN servers' = DOMAIN servers
      BY <2>1, CurrentIsServer DEF WebUIInv, WebInv, WebTypeOK
    <2> QED BY <2>2, <2>3 DEF Current
  <1>4. \A u \in Users : calls'[u] = IF calls[u] = Awaits("starting", s) THEN Idle ELSE calls[u]
    BY <1>2 DEF Started, WebUIInv, CallsInv
  <1>5. BindsAsConfigured'
    <2> SUFFICES ASSUME NEW t \in DOMAIN servers, servers'[t].http = "binding"
                 PROVE  /\ config'.enabled /\ servers'[t].port = config'.port
                        /\ \E u \in Users : calls'[u] = Awaits("starting", t)
      BY <1>3 DEF BindsAsConfigured, Awaits
    <2>1. t # s /\ servers'[t] = servers[t]
      BY <1>3
    <2>2. PICK u \in Users : calls[u] = Awaits("starting", t)
      BY <2>1 DEF ServeInv, BindsAsConfigured
    <2>3. calls'[u] = Awaits("starting", t)
      BY <1>4, <2>1, <2>2 DEF Awaits
    <2> QED BY <1>2, <2>1, <2>3 DEF ServeInv, BindsAsConfigured
  <1>6. Current \in DOMAIN servers
    BY CurrentIsServer DEF WebUIInv, WebInv
  <1>7. CurrentAsConfigured'
    BY <1>2, <1>3, <1>6 DEF CurrentAsConfigured, Listening, ServeInv, BindsAsConfigured
  <1>8. EnabledServed'
    <2> SUFFICES ASSUME config.enabled, ~isShuttingDown
                 PROVE  \/ servers'[Current].http \in {"listening", "failed", "binding"}
                        \/ \E u \in Users : calls'[u].stage \in {"booting", "stopping", "restarting"}
      BY <1>2, <1>3 DEF EnabledServed
    <2>1. CASE servers[Current].http \in {"listening", "failed", "binding"}
      BY <1>3, <1>6, <2>1
    <2>2. ASSUME NEW u \in Users, calls[u].stage \in {"booting", "stopping", "restarting"}
          PROVE  calls'[u].stage \in {"booting", "stopping", "restarting"}
      BY <1>4, <2>2 DEF Awaits
    <2> QED BY <2>1, <2>2 DEF ServeInv, EnabledServed
  <1>9. OneAtATime'
    <2> SUFFICES ASSUME ~overlapped
                 PROVE  /\ \A u, v \in Users : calls'[u] # Idle /\ calls'[v] # Idle => u = v
                        /\ \A u \in Users : calls'[u].stage \in Stopping => servers'[Current].http \notin Serving
                        /\ \A t \in DOMAIN servers : servers'[t].http \in Serving => t = Current
      BY <1>2, <1>3 DEF OneAtATime, Serving
    <2>1. s = Current
      BY <1>2 DEF ServeInv, OneAtATime, Serving
    <2>2. \A u \in Users : calls'[u].stage \notin Stopping
      <3>1. \A u \in Users : calls[u].stage \notin Stopping
        BY <1>2, <2>1 DEF ServeInv, OneAtATime, Serving
      <3> QED BY <1>4, <3>1 DEF Idle, Stopping
    <2>3. \A u \in Users : calls'[u] # Idle => calls[u] # Idle
      BY <1>4
    <2> QED BY <1>3, <2>1, <2>2, <2>3 DEF ServeInv, OneAtATime, Serving
  <1> QED BY <1>5, <1>7, <1>8, <1>9 DEF ServeInv

\* Connections come and go, and nothing else changes.
LEMMA SameAddressesServe ==
  ASSUME WebUIInv, ServeInv, SameAddresses, UNCHANGED daemonVars
  PROVE  ServeInv'
  <1>1. Current \in DOMAIN servers /\ Current' = Current
    BY CurrentIsServer DEF WebUIInv, WebInv, Current, SameAddresses
  <1>2. BindsAsConfigured'
    <2> SUFFICES ASSUME NEW t \in DOMAIN servers, servers'[t].http = "binding"
                 PROVE  /\ config'.enabled /\ servers'[t].port = config'.port
                        /\ \E u \in Users : calls'[u] = Awaits("starting", t)
      BY DEF BindsAsConfigured, Awaits, SameAddresses
    <2> QED BY DEF daemonVars, SameAddresses, ServeInv, BindsAsConfigured
  <1>3. CurrentAsConfigured' /\ EnabledServed'
    BY <1>1 DEF daemonVars, SameAddresses, ServeInv, CurrentAsConfigured, EnabledServed, Listening
  <1>4. OneAtATime'
    BY <1>1 DEF daemonVars, SameAddresses, ServeInv, OneAtATime, Idle
  <1> QED BY <1>2, <1>3, <1>4 DEF ServeInv

LEMMA InitServes == Init => ServeInv
  <1> SUFFICES ASSUME Init PROVE ServeInv
    OBVIOUS
  <1>1. /\ servers = <<NewServer("none", DefaultPort)>> /\ NewServer("none", DefaultPort).http = "none"
        /\ ~config.enabled
        /\ \A u \in Users : calls[u] = IF u = Start THEN Booting ELSE Idle
    BY DEF Init, NewServer, Users
  <1>2. DOMAIN servers = {1} /\ Current = 1 /\ servers[1].http = "none"
    BY <1>1 DEF Current
  <1> QED BY <1>1, <1>2 DEF ServeInv, BindsAsConfigured, CurrentAsConfigured, EnabledServed,
                             OneAtATime, Listening, Booting, Idle, Stopping

LEMMA NextServes == WebUIInv /\ ServeInv /\ [Next]_vars => ServeInv'
  <1> SUFFICES ASSUME WebUIInv, ServeInv, [Next]_vars PROVE ServeInv'
    OBVIOUS
  <1>1. DOMAIN calls = Users
    BY DEF WebUIInv, CallsInv
  <1>2. ASSUME NEW c \in Connections, ConnectionStep(c) PROVE ServeInv'
    BY <1>2, ConnectionKeepsAddresses, SameAddressesServe DEF ConnectionStep, WebUIInv
  <1>3. CASE UNCHANGED vars
    BY <1>3, SameAddressesServe DEF vars, webVars, SameAddresses
  <1> QED BY <1>1, <1>2, <1>3, BootServes, GracefulShutdownServes, SetWebUIConfigServes,
             StoppedServes, BoundServes DEF Next

LEMMA ServesInvariance == Spec => [](WebUIInv /\ ServeInv)
  BY InitHolds, NextKeeps, InitServes, NextServes, PTL DEF Spec

\* Whenever no call is under way and the daemon does not shut down, the web UI
\* that setWebUIConfig, start() and the closing servers have left is the one
\* that webUIConfig describes: the last server listens, or could not, exactly
\* if it is enabled and then at its port; and unless calls have overlapped no
\* server that was replaced still listens.
THEOREM ServesWhatIsConfigured == Spec => []ServesAsConfigured
<1>1. WebUIInv /\ ServeInv => ServesAsConfigured
  <2> SUFFICES ASSUME WebUIInv, ServeInv, UnderWay = {}, ~isShuttingDown
               PROVE  /\ config.enabled => servers[Current].http \in {"listening", "failed"}
                      /\ Listening(Current) => config.enabled /\ servers[Current].port = config.port
                      /\ ~overlapped => \A s \in DOMAIN servers : Listening(s) => s = Current
    BY DEF ServesAsConfigured
  <2>1. \A u \in Users : calls[u] = Idle
    BY DEF UnderWay, WebUIInv, CallsInv
  <2>2. \A s \in DOMAIN servers : servers[s].http # "binding"
    <3>1. \A s : Awaits("starting", s) # Idle
      BY DEF Awaits, Idle
    <3> QED BY <2>1, <3>1 DEF ServeInv, BindsAsConfigured
  <2>3. Current \in DOMAIN servers
    BY CurrentIsServer DEF WebUIInv, WebInv
  <2> QED BY <2>1, <2>2, <2>3 DEF ServeInv, CurrentAsConfigured, EnabledServed, OneAtATime,
                                  Listening, Serving, Idle
<1> QED BY <1>1, ServesInvariance, PTL
=============================================================================
