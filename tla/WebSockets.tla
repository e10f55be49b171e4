----------------------------- MODULE WebSockets -----------------------------
(***************************************************************************)
(* The connections of the web UI's servers.  The daemon makes a WebUIServer *)
(* each time it starts the web UI; an HTTP connection may be upgraded to a  *)
(* WebSocket, which three tables of its server then know until the socket   *)
(* has closed.  Frames come as handleData parses them; what the messages    *)
(* say and what is broadcast is left out.                                   *)
(***************************************************************************)
EXTENDS Naturals, Sequences

CONSTANTS
  Connections,  \* bound: so many are open at a time
  Ports

VARIABLES
  servers,  \* each WebUIServer ever made; the last one is this.webUIServer
  links     \* the connections

webVars == <<servers, links>>

\* http: "none" without an httpServer, "binding" from listen on, "listening",
\* "closed" by stop, "failed" to listen.
\* clients: the keys of clients and of subscriptions; sockets: the clients of
\* the SimpleWebSocketServer; tokens: the keys of csrfTokens.
Server ==
  [http: {"none", "binding", "listening", "closed", "failed"}, port: Ports,
   clients: SUBSET Connections, sockets: SUBSET Connections, tokens: SUBSET Connections]

NewServer(http, port) ==
  [http |-> http, port |-> port, clients |-> {}, sockets |-> {}, tokens |-> {}]

\* connected: isConnected of the SimpleWebSocket; only close clears it before
\* the socket has closed, and it ends the daemon's side.  late (history): it
\* was upgraded when its server no longer listened.
Free == [server |-> 0, upgraded |-> FALSE, connected |-> FALSE, late |-> FALSE]
Link == [server: DOMAIN servers, upgraded: BOOLEAN, connected: BOOLEAN, late: BOOLEAN]

Open(s) == {c \in Connections : links[c].server = s}
Listening(s) == servers[s].http = "listening"

\* The 'close' of an httpServer: it does not listen, and no connection is left.
Drained(s) == ~Listening(s) /\ Open(s) = {}

-----------------------------------------------------------------------------
\* A browser connects.
Accept(c, s) ==
  /\ links[c] = Free /\ Listening(s)
  /\ links' = [links EXCEPT ![c] = [Free EXCEPT !.server = s]]
  /\ UNCHANGED servers

\* handleUpgrade, 'connection' and handleWebSocketConnection; also of a server
\* that was stopped since the connection was made.
HandleUpgrade(c) ==
  LET s == links[c].server
  IN /\ links[c] # Free /\ ~links[c].upgraded
     /\ links' = [links EXCEPT ![c].upgraded = TRUE, ![c].connected = TRUE,
                               ![c].late = ~Listening(s)]
     /\ servers' = [servers EXCEPT ![s].clients = @ \cup {c},
                                   ![s].sockets = @ \cup {c},
                                   ![s].tokens = @ \cup {c}]

BugClosed(sockets) == links

\* SimpleWebSocket.close of all of them.
Closed(sockets) ==
  [c \in Connections |-> IF c \in sockets THEN [links[c] EXCEPT !.connected = FALSE] ELSE links[c]]

\* A close frame, answered by one.
CloseFrame(c) ==
  /\ links[c].connected
  /\ links' = Closed({c})
  /\ UNCHANGED servers

\* stop(), up to its await.
StopServer(s) ==
  IF servers[s].http = "none" THEN UNCHANGED webVars
  ELSE /\ servers' = [servers EXCEPT ![s].sockets = {}, ![s].tokens = {},
                                     ![s].http = IF @ = "listening" THEN "closed" ELSE @]
       /\ links' = Closed(servers[s].clients \cup servers[s].sockets)

BugForgotten(table, c) == table

Forgotten(table, c) == table \ {c}

\* The socket of a connection closes: both listeners of 'close' run.
SocketClosed(c) ==
  LET s == links[c].server
  IN /\ links[c] # Free
     /\ links' = [links EXCEPT ![c] = Free]
     /\ servers' = [servers EXCEPT ![s].clients = @ \ {c},
                                   ![s].sockets = @ \ {c},
                                   ![s].tokens = Forgotten(@, c)]

\* The connections whose sockets close by themselves: those the daemon has
\* ended, and those that never became WebSockets, of a server that listens no
\* more.
Leaving(c) ==
  /\ links[c] # Free
  /\ IF links[c].upgraded THEN ~links[c].connected ELSE ~Listening(links[c].server)

\* The types of the variables; there is always a server, perhaps one that does
\* not listen.
WebTypeOK ==
  /\ servers \in Seq(Server) /\ servers # <<>>
  /\ links \in [Connections -> {Free} \cup Link]

\* What the tables of a server say of a connection.
AgreesOn(s, c) ==
  /\ c \in servers[s].clients <=> links[c].server = s /\ links[c].upgraded
  /\ c \in servers[s].sockets <=> c \in servers[s].tokens
  /\ links[c].server = s /\ links[c].connected => c \in servers[s].tokens
  /\ c \in servers[s].tokens => c \in servers[s].clients

\* All tables of all servers agree with the sockets that are open: one that is
\* connected is in all of them, wherever upgrades, stops and closing sockets
\* fall between each other, and one that is gone is in none.
TablesAgree == \A s \in DOMAIN servers, c \in Connections : AgreesOn(s, c)
=============================================================================
