----------------------------- MODULE IPCServer -----------------------------
(***************************************************************************)
(* The daemon's end: handleClientMessage puts the messages together that   *)
(* arrive in pieces, processIPCMessage answers them, some only after the   *)
(* orchestrator has done what they ask.                                    *)
(***************************************************************************)
EXTENDS IPCSocket, Integers, FiniteSets

CONSTANTS
  Slow,     \* the requests that wait for the orchestrator (start, stop, restart)
  NonAscii  \* those with a character of several bytes between head and tail

VARIABLES
  buffers,   \* messageBuffers
  handling,  \* <<c, r>>: what processIPCMessage waits for
  executed,  \* history: how often each request has been executed
  garbled,   \* history: <<c, r>>, what was taken for r was part of it, or altered
  oversized  \* history: the connections whose buffer was discarded; both are kept
             \* while the connection is open

serverVars == <<buffers, handling, executed, garbled, oversized>>

ServerInit ==
  /\ buffers = [c \in Conns |-> <<>>]
  /\ handling = {}
  /\ executed = [r \in Requests |-> 0]
  /\ garbled = {} /\ oversized = {}

\* data.toString(): a character cut in two becomes two that are not it.
Decode(chunk) ==
  LET last == Len(chunk)
  IN IF chunk[last].part = "head" /\ chunk[last].id \in NonAscii
       THEN [chunk EXCEPT ![last].part = "broken"] ELSE chunk

\* The places of a sequence, in their order.
InOrder(places) ==
  [k \in 1..Cardinality(places) |-> CHOOSE i \in places : Cardinality({j \in places : j <= i}) = k]

BugDropIncomplete(s) == <<>>

BugKeepBuffer(s) == s

\* What split leaves behind the last newline.
Incomplete(s) ==
  LET starts == {i \in 1..Len(s) + 1 : \A j \in i..Len(s) : s[j].part # "tail"}
  IN SubSeq(s, CHOOSE i \in starts : \A j \in starts : i <= j, Len(s))

\* The text that ends at i can be parsed.
Parses(s, i) == i > 1 /\ s[i - 1].id = s[i].id

Answer(id, success) == [id |-> id, success |-> success]

Send(c, answers) ==
  toClient' = IF near[c] = "open" /\ far[c] = "open" THEN [toClient EXCEPT ![c] = @ \o answers] ELSE toClient

\* The messages of s are processed in their order; the limiter refuses some, and
\* some of those that are answered at once fail.
HandleMessages(c, s, refused, failed) ==
  LET parsed == {i \in 1..Len(s) : s[i].part = "tail" /\ Parses(s, i)}
      started == {i \in parsed : s[i].id \notin refused}
      answered == InOrder({i \in 1..Len(s) : s[i].part = "tail" /\
                                ~(i \in started /\ s[i].id \in Slow)})
      answer(i) == IF i \in started THEN Answer(s[i].id, s[i].id \notin failed)
                   ELSE Answer(IF i \in parsed THEN s[i].id ELSE None, FALSE)
  IN /\ Send(c, [k \in 1..Len(answered) |-> answer(answered[k])])
     /\ executed' = [r \in DOMAIN executed |->
          executed[r] + (IF \E i \in started : s[i].id = r THEN 1 ELSE 0)]
     /\ garbled' = garbled \cup {<<c, s[i].id>> : i \in {j \in 1..Len(s) :
          s[j].part = "tail" /\ (j \in parsed => s[j - 1].part = "broken")}}
     /\ handling' = handling \cup {<<c, s[i].id>> : i \in {j \in started : s[j].id \in Slow}}

\* handleClientMessage, of the next n pieces.
HandleClientMessage(c, n) ==
  LET combined == buffers[c] \o Decode(SubSeq(toServer[c], 1, n))
  IN /\ far[c] # "none" /\ n \in 1..Len(toServer[c])
     /\ toServer' = [toServer EXCEPT ![c] = SubSeq(@, n + 1, Len(@))]
     /\ \/ /\ \E i \in 1..Len(combined) : combined[i].part = "body"
           /\ Send(c, <<Answer(None, FALSE)>>)
           /\ buffers' = [buffers EXCEPT ![c] = <<>>]
           /\ oversized' = oversized \cup {c}
           /\ UNCHANGED <<handling, executed, garbled>>
        \/ /\ \A i \in 1..Len(combined) : combined[i].part # "body"
           /\ LET ids == {combined[i].id : i \in 1..Len(combined)}
              IN \E refused \in SUBSET ids : \E failed \in SUBSET (ids \ (refused \cup Slow)) :
                   HandleMessages(c, combined, refused, failed)
           /\ buffers' = [buffers EXCEPT ![c] = Incomplete(combined)]
           /\ UNCHANGED oversized
     /\ UNCHANGED <<near, far, daemonUp>>

\* The orchestrator has done what r asks, or failed.
SendResponse(c, r, success) ==
  /\ <<c, r>> \in handling
  /\ handling' = handling \ {<<c, r>>}
  /\ Send(c, <<Answer(r, success)>>)
  /\ UNCHANGED <<near, far, toServer, daemonUp, buffers, executed, garbled, oversized>>

\* 'error' or 'close', after the client has closed.
ClientGone(c) ==
  /\ far[c] # "none" /\ near[c] # "open"
  /\ far' = [far EXCEPT ![c] = "none"]
  /\ buffers' = [buffers EXCEPT ![c] = <<>>]
  /\ toServer' = [toServer EXCEPT ![c] = <<>>]
  /\ garbled' = {g \in garbled : g[1] # c} /\ oversized' = oversized \ {c}
  /\ UNCHANGED <<near, toClient, daemonUp, handling, executed>>

\* gracefulShutdown: the daemon says that it will write no more; it still reads,
\* and the orchestrator goes on, until the process exits.
GracefulShutdown ==
  /\ daemonUp
  /\ daemonUp' = FALSE
  /\ far' = [c \in Conns |-> IF far[c] = "open" THEN "ended" ELSE far[c]]
  /\ UNCHANGED <<near, toServer, toClient, serverVars>>

Gone == ~daemonUp /\ handling = {} /\ \A c \in Conns : far[c] = "none"

\* process.exit, or a crash.
DaemonExits ==
  /\ ~Gone
  /\ daemonUp' = FALSE
  /\ far' = [c \in Conns |-> "none"] /\ handling' = {}
  /\ buffers' = [c \in Conns |-> <<>>] /\ toServer' = [c \in Conns |-> <<>>]
  /\ garbled' = {} /\ oversized' = {}
  /\ UNCHANGED <<near, toClient, executed>>

DaemonStarts ==
  /\ Gone
  /\ daemonUp' = TRUE
  /\ UNCHANGED <<near, far, toServer, toClient, serverVars>>
=============================================================================
