-------------------------------- MODULE IPC --------------------------------
(***************************************************************************)
(* The command line and the daemon over their socket.                      *)
(***************************************************************************)
EXTENDS IPCClient, IPCServer

vars == <<socketVars, clientVars, serverVars>>

Init == SocketInit /\ ClientInit /\ ServerInit

ClientStep ==
  \/ \E r \in Requests : SendMessage(r) \/ ConnectTimeout(r) \/ RequestTimeout(r)
  \/ \E c \in Conns : \/ Connected(c) \/ ConnectFails(c) \/ HandleResponse(c)
                      \/ Ended(c) \/ Closed(c)
  \/ Disconnect

ServerStep ==
  \/ \E c \in Conns : \/ \E n \in 1..Len(toServer[c]) : HandleClientMessage(c, n)
                      \/ ClientGone(c)
  \/ \E h \in handling, success \in BOOLEAN : SendResponse(h[1], h[2], success)
  \/ GracefulShutdown \/ DaemonExits \/ DaemonStarts

Next ==
  \/ ClientStep /\ UNCHANGED serverVars
  \/ ServerStep /\ UNCHANGED clientVars

Spec == Init /\ [][Next]_vars

\* The timers of the client fire.
FairSpec ==
  /\ Spec
  /\ \A r \in Requests :
       /\ WF_vars(ConnectTimeout(r) /\ UNCHANGED serverVars)
       /\ WF_vars(RequestTimeout(r) /\ UNCHANGED serverVars)

-----------------------------------------------------------------------------
Part == [id: Requests, part: {"head", "body", "tail", "broken"}]
Reply == [id: Requests \cup {None}, success: BOOLEAN]

\* The types of the variables.
TypeOK ==
  /\ near \in [Conns -> {"unused", "opening", "open", "ended", "closed"}]
  /\ far \in [Conns -> {"none", "open", "ended"}] /\ daemonUp \in BOOLEAN
  /\ toServer \in [Conns -> Seq(Part)] /\ buffers \in [Conns -> Seq(Part)]
  /\ toClient \in [Conns -> Seq(Reply)]
  /\ stage \in [Requests -> {"unsent", "connecting", "waiting", "resolved", "rejected"}]
  /\ opener \in [Conns -> Requests \cup {None}]
  /\ socket \in Conns \cup {None} /\ connected \in BOOLEAN
  /\ listening \subseteq Conns
  /\ pending \subseteq Requests /\ timers \subseteq Requests
  /\ handling \subseteq Conns \X Requests /\ executed \in [Requests -> Nat]
  /\ garbled \subseteq Conns \X Requests /\ oversized \subseteq Conns

\* A call that waits has its entry and its timeout, and nothing else has:
\* answers, timeouts and lost connections settle a call and forget it in one,
\* whichever comes first.
WaitingIsTracked == pending = {r \in Requests : stage[r] = "waiting"} /\ timers = pending

\* However the messages are cut and connections replaced, a request is executed
\* once at the most, and its call is resolved only if it has been.
ExecutedOnce ==
  \A r \in Requests : executed[r] <= 1 /\ (stage[r] = "resolved" => executed[r] = 1)

\* What the daemon takes for a message is the message, however it was cut;
\* unless a part of what came on that connection was discarded, or the cut went
\* through a character, which is decoded in two halves.
MessagesWhole == \A g \in garbled : g[1] \in oversized \/ g[2] \in NonAscii

\* Every call ends, whatever becomes of the daemon and of the connection: one
\* that did not would keep the client from ever being at rest again.
CallsEnd == []<>(\A r \in Requests : stage[r] \notin {"connecting", "waiting"})
=============================================================================
