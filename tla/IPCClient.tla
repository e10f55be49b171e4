----------------------------- MODULE IPCClient -----------------------------
(***************************************************************************)
(* The IPCClient of the CLI: requests wait in pendingRequests for their    *)
(* answer, their timeout or the loss of the connection, and connections    *)
(* are opened as requests need them.  handleDisconnection does not know    *)
(* which connection it is called for.                                      *)
(***************************************************************************)
EXTENDS IPCSocket

VARIABLES
  stage,      \* of each call of sendMessage
  opener,     \* the call whose connect opened the connection
  socket,     \* this.socket
  connected,
  listening,  \* the connections that have the handlers of setupSocketHandlers
  pending,    \* the keys of pendingRequests
  timers      \* the requests whose timeout is armed

clientVars == <<stage, opener, socket, connected, listening, pending, timers>>

ClientInit ==
  /\ stage = [r \in Requests |-> "unsent"]
  /\ opener = [c \in Conns |-> None]
  /\ socket = None /\ connected = FALSE
  /\ listening = {}
  /\ pending = {} /\ timers = {}

Settle(rs, result) == [r \in Requests |-> IF r \in rs THEN result ELSE stage[r]]

-----------------------------------------------------------------------------
(* sendMessage and connect.                                                *)

\* sendMessage from its second half on: the request is written and its timeout
\* armed.  The socket may have gone meanwhile, or be one that takes no more.
Write(r) ==
  IF socket # None /\ near[socket] \in {"opening", "open"}
    THEN /\ stage' = Settle({r}, "waiting")
         /\ pending' = pending \cup {r} /\ timers' = timers \cup {r}
         /\ toServer' = [toServer EXCEPT ![socket] = @ \o Message(r)]
    ELSE /\ stage' = Settle({r}, "rejected")
         /\ UNCHANGED <<pending, timers, toServer>>

\* sendMessage; connect returns at once when it takes the client for connected.
SendMessage(r) ==
  /\ stage[r] = "unsent"
  /\ \/ /\ connected
        /\ Write(r)
        /\ UNCHANGED <<near, far, toClient, daemonUp, opener, socket>>
     \/ /\ ~connected
        /\ \E c \in Conns :
             /\ Dial(c)
             /\ opener' = [opener EXCEPT ![c] = r]
             /\ socket' = c
        /\ stage' = Settle({r}, "connecting")
        /\ UNCHANGED <<pending, timers>>
  /\ UNCHANGED <<connected, listening>>

BugSetupSocketHandlers == listening' = listening \cup {socket}

SetupSocketHandlers == listening' = listening \cup ({socket} \ {None})

\* The callback of connect: the handlers go to what this.socket is now, and the
\* request follows.
Connected(c) ==
  /\ Accept(c)
  /\ connected' = TRUE
  /\ SetupSocketHandlers
  /\ IF stage[opener[c]] = "connecting"
       THEN Write(opener[c])
       ELSE UNCHANGED <<stage, pending, timers, toServer>>
  /\ UNCHANGED <<toClient, daemonUp, opener, socket>>

BugHandleDisconnection(c, rs) ==
  IF c \in listening
    THEN /\ connected' = FALSE /\ socket' = None
         /\ stage' = Settle(rs, "rejected")
         /\ pending' = {} /\ timers' = {}
    ELSE /\ stage' = Settle(rs, "rejected")
         /\ UNCHANGED <<connected, socket, pending, timers>>

\* handleDisconnection, if c has the handlers: whatever is pending is rejected,
\* and the calls rs that wait for c itself.
HandleDisconnection(c, rs) ==
  IF c \in listening
    THEN /\ connected' = FALSE /\ socket' = None
         /\ stage' = Settle(pending \cup rs, "rejected")
         /\ pending' = {} /\ timers' = {}
    ELSE /\ stage' = Settle(rs, "rejected")
         /\ UNCHANGED <<connected, socket, pending, timers>>

\* The 'error' of a connection that is not accepted; this.socket stays.
ConnectFails(c) ==
  /\ near[c] = "opening" /\ ~daemonUp
  /\ Hangup(c, "ended")
  /\ HandleDisconnection(c, {opener[c]} \cap {r \in Requests : stage[r] = "connecting"})
  /\ UNCHANGED <<opener, listening>>

\* The timer of connect, which destroys what this.socket is now.
ConnectTimeout(r) ==
  /\ stage[r] = "connecting"
  /\ stage' = Settle({r}, "rejected")
  /\ IF socket # None /\ near[socket] \in {"opening", "open"}
       THEN Hangup(socket, "ended") ELSE UNCHANGED socketVars
  /\ UNCHANGED <<opener, socket, connected, listening, pending, timers>>

-----------------------------------------------------------------------------
(* Answers, and the end of connections.                                    *)

\* An answer arrives: handleResponse, if its request still waits.  Its pieces
\* are put together as the daemon does with messages, but without a limit.
HandleResponse(c) ==
  /\ near[c] = "open" /\ c \in listening /\ toClient[c] # <<>>
  /\ LET response == Head(toClient[c])
     IN /\ pending' = pending \ {response.id} /\ timers' = timers \ {response.id}
        /\ stage' = Settle(pending \cap {response.id},
                           IF response.success THEN "resolved" ELSE "rejected")
  /\ toClient' = [toClient EXCEPT ![c] = Tail(@)]
  /\ UNCHANGED <<near, far, toServer, daemonUp, opener, socket, connected, listening>>

BugRequestTimeout(r) ==
  /\ r \in timers
  /\ timers' = timers \ {r}
  /\ stage' = Settle({r}, "rejected")
  /\ UNCHANGED <<socketVars, opener, socket, connected, listening, pending>>

\* requestTimeout: the answer may be on its way.
RequestTimeout(r) ==
  /\ r \in timers
  /\ timers' = timers \ {r} /\ pending' = pending \ {r}
  /\ stage' = Settle({r}, "rejected")
  /\ UNCHANGED <<socketVars, opener, socket, connected, listening>>

\* 'end' or 'error', when the daemon has closed; 'close' comes later.
Ended(c) ==
  /\ near[c] = "open" /\ far[c] # "open"
  /\ Hangup(c, "ended")
  /\ HandleDisconnection(c, {})
  /\ UNCHANGED <<opener, listening>>

Closed(c) ==
  /\ near[c] = "ended"
  /\ Hangup(c, "closed")
  /\ HandleDisconnection(c, {})
  /\ UNCHANGED <<opener, listening>>

\* disconnect: the socket loses its handlers, that of connect too.
Disconnect ==
  /\ socket # None
  /\ Hangup(socket, "closed")
  /\ listening' = listening \ {socket}
  /\ socket' = None /\ connected' = FALSE
  /\ stage' = Settle(pending, "rejected")
  /\ pending' = {} /\ timers' = {}
  /\ UNCHANGED opener
=============================================================================
