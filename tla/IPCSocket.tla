----------------------------- MODULE IPCSocket -----------------------------
(***************************************************************************)
(* The Unix socket between the CLI and the daemon, as the handlers of both *)
(* ends see it: bytes arrive in order, in any pieces, and a connection is  *)
(* closed in two steps ('end' or 'error', then 'close').                   *)
(***************************************************************************)
EXTENDS Sequences

CONSTANTS
  Conns,     \* bound: the connections that are ever opened
  Requests,  \* every call of sendMessage, under its own id
  Large,     \* the requests longer than MAX_JSON_PAYLOAD_SIZE
  None

ASSUME NoneAssumption == None \notin Conns \cup Requests

\* A message as it is cut on its way: it ends in its newline, which its tail
\* brings; the text of a large one passes the limit with its body.
Message(r) ==
  LET piece(part) == [id |-> r, part |-> part]
  IN IF r \in Large THEN <<piece("head"), piece("body"), piece("tail")>>
     ELSE <<piece("head"), piece("tail")>>

VARIABLES
  near,      \* the client's end of each connection
  far,       \* the daemon's end; once it has "ended" it only reads
  toServer,  \* the bytes under way to the daemon
  toClient,  \* the answers under way to the client
  daemonUp   \* it accepts connections

socketVars == <<near, far, toServer, toClient, daemonUp>>

SocketInit ==
  /\ near = [c \in Conns |-> "unused"]
  /\ far = [c \in Conns |-> "none"]
  /\ toServer = [c \in Conns |-> <<>>] /\ toClient = [c \in Conns |-> <<>>]
  /\ daemonUp = TRUE

\* connect of net.Socket.  One unused connection is like another.
Dial(c) ==
  /\ near[c] = "unused" /\ c = CHOOSE d \in Conns : near[d] = "unused"
  /\ near' = [near EXCEPT ![c] = "opening"]
  /\ UNCHANGED <<far, toServer, toClient, daemonUp>>

Accept(c) ==
  /\ near[c] = "opening" /\ daemonUp
  /\ near' = [near EXCEPT ![c] = "open"]
  /\ far' = [far EXCEPT ![c] = "open"]

\* socket.end and socket.destroy of the client, and its 'close'.
Hangup(c, state) ==
  /\ near' = [near EXCEPT ![c] = state]
  /\ toClient' = [toClient EXCEPT ![c] = <<>>]
  /\ UNCHANGED <<far, toServer, daemonUp>>
=============================================================================
