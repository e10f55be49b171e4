------------------------------ MODULE IPCProofs ------------------------------
(***************************************************************************)
(* The theorems about the client and the daemon's end of the socket, for   *)
(* any number of requests and connections: the calls that wait are         *)
(* tracked, the variables keep their types, no request is executed twice,  *)
(* and messages arrive whole.  Each part begins with its invariant; the    *)
(* first is IInv, since the callback of connect goes on with the request   *)
(* that opened the connection, and there must be one.                      *)
(***************************************************************************)
EXTENDS IPC, FiniteSetTheorems, SequenceTheorems, WellFoundedInduction, TLAPS

NearType == near \in [Conns -> {"unused", "opening", "open", "ended", "closed"}]

Opened ==
  /\ opener \in [Conns -> Requests \cup {None}]
  /\ \A c \in Conns : near[c] # "unused" => opener[c] \in Requests

SocketUsed == socket # None => socket \in Conns /\ near[socket] # "unused"

\* What concerns the connections, and what concerns the calls.
ConnsInv == NearType /\ Opened /\ SocketUsed

StageType == stage \in [Requests -> {"unsent", "connecting", "waiting", "resolved", "rejected"}]

IInv == ConnsInv /\ StageType /\ WaitingIsTracked

\* What Settle does, call by call.
LEMMA SettleEffect ==
  ASSUME StageType, NEW rs, NEW result \in {"waiting", "resolved", "rejected", "connecting"}
  PROVE  /\ Settle(rs, result) \in
              [Requests -> {"unsent", "connecting", "waiting", "resolved", "rejected"}]
         /\ \A r \in Requests : Settle(rs, result)[r] = IF r \in rs THEN result ELSE stage[r]
BY DEF StageType, Settle

LEMMA WriteKeeps ==
  ASSUME StageType, WaitingIsTracked, NEW r \in Requests,
         stage[r] \in {"unsent", "connecting"}, Write(r)
  PROVE  StageType' /\ WaitingIsTracked'
<1>1. CASE /\ stage' = Settle({r}, "waiting")
           /\ pending' = pending \cup {r} /\ timers' = timers \cup {r}
  BY <1>1, SettleEffect DEF StageType, WaitingIsTracked
<1>2. CASE stage' = Settle({r}, "rejected") /\ UNCHANGED <<pending, timers>>
  BY <1>2, SettleEffect DEF StageType, WaitingIsTracked
<1> QED
  BY <1>1, <1>2 DEF Write

\* The loss of a connection settles what waits, and calls that still connect.
LEMMA DisconnectionKeeps ==
  ASSUME StageType, WaitingIsTracked, NEW c,
         NEW rs, \A r \in rs : r \in Requests /\ stage[r] = "connecting",
         HandleDisconnection(c, rs)
  PROVE  StageType' /\ WaitingIsTracked'
<1>1. CASE /\ stage' = Settle(pending \cup rs, "rejected")
           /\ pending' = {} /\ timers' = {}
  BY <1>1, SettleEffect DEF StageType, WaitingIsTracked
<1>2. CASE stage' = Settle(rs, "rejected") /\ UNCHANGED <<pending, timers>>
  BY <1>2, SettleEffect DEF StageType, WaitingIsTracked
<1> QED
  BY <1>1, <1>2 DEF HandleDisconnection

\* Connections are used for good, and keep the call that opened them.
LEMMA ConnUsed ==
  ASSUME ConnsInv, NEW c \in Conns, near[c] # "unused",
         NEW state \in {"open", "ended", "closed"}, near' = [near EXCEPT ![c] = state],
         opener' = opener, socket' \in {socket, None}
  PROVE  ConnsInv'
BY DEF ConnsInv, NearType, Opened, SocketUsed

LEMMA ConnsKept ==
  ASSUME ConnsInv, near' = near, opener' = opener, socket' \in {socket, None}
  PROVE  ConnsInv'
BY DEF ConnsInv, NearType, Opened, SocketUsed

LEMMA CallsKept ==
  ASSUME StageType, WaitingIsTracked, UNCHANGED <<stage, pending, timers>>
  PROVE  StageType' /\ WaitingIsTracked'
BY DEF StageType, WaitingIsTracked

LEMMA InitIInv == Init => IInv
BY DEF Init, SocketInit, ClientInit, IInv, ConnsInv, NearType, Opened, SocketUsed,
       StageType, WaitingIsTracked

-----------------------------------------------------------------------------
(* The steps of the client.                                                *)

LEMMA SendMessageKeeps ==
  ASSUME IInv, NEW r \in Requests, SendMessage(r)
  PROVE  IInv'
<1>0. ConnsInv /\ StageType /\ WaitingIsTracked
  BY DEF IInv
<1>1. CASE Write(r) /\ UNCHANGED <<near, opener, socket>>
  <2>1. ConnsInv'
    BY <1>0, <1>1, ConnsKept
  <2>2. StageType' /\ WaitingIsTracked'
    BY <1>0, <1>1, WriteKeeps DEF SendMessage
  <2> QED
    BY <2>1, <2>2 DEF IInv
<1>2. ASSUME NEW c \in Conns, Dial(c), opener' = [opener EXCEPT ![c] = r], socket' = c,
             stage' = Settle({r}, "connecting"), UNCHANGED <<pending, timers>>
      PROVE  IInv'
  <2>1. near' = [near EXCEPT ![c] = "opening"]
    BY <1>2 DEF Dial
  <2>2. NearType' /\ SocketUsed'
    BY <1>0, <1>2, <2>1 DEF ConnsInv, NearType, SocketUsed
  <2>3. Opened'
    <3>0. opener \in [Conns -> Requests \cup {None}]
      BY <1>0 DEF ConnsInv, Opened
    <3> SUFFICES ASSUME NEW d \in Conns, near'[d] # "unused"
                 PROVE  opener'[d] \in Requests
      BY <1>2, <3>0 DEF Opened
    <3>1. CASE d = c
      BY <1>2, <3>0, <3>1
    <3>2. CASE d # c
      <4>1. near[d] # "unused"
        BY <1>0, <2>1, <3>2 DEF ConnsInv, NearType
      <4>2. opener'[d] = opener[d]
        BY <1>2, <3>2
      <4> QED
        BY <1>0, <4>1, <4>2 DEF ConnsInv, Opened
    <3> QED
      BY <3>1, <3>2
  <2>4. StageType' /\ WaitingIsTracked'
    BY <1>0, <1>2, SettleEffect DEF SendMessage, StageType, WaitingIsTracked
  <2> QED
    BY <2>2, <2>3, <2>4 DEF IInv, ConnsInv
<1> QED
  BY <1>1, <1>2 DEF SendMessage

LEMMA ConnectedKeeps ==
  ASSUME IInv, NEW c \in Conns, Connected(c)
  PROVE  IInv'
<1>0. ConnsInv /\ StageType /\ WaitingIsTracked
  BY DEF IInv
<1>1. near[c] = "opening" /\ near' = [near EXCEPT ![c] = "open"] /\ UNCHANGED <<opener, socket>>
  BY DEF Connected, Accept
<1>2. ConnsInv'
  BY <1>0, <1>1, ConnUsed
<1>3. CASE stage[opener[c]] = "connecting"
  <2>1. opener[c] \in Requests
    BY <1>0, <1>1 DEF ConnsInv, Opened
  <2>2. Write(opener[c])
    BY <1>3 DEF Connected
  <2>3. StageType' /\ WaitingIsTracked'
    BY <1>0, <1>3, <2>1, <2>2, WriteKeeps
  <2> QED
    BY <1>2, <2>3 DEF IInv
<1>4. CASE stage[opener[c]] # "connecting"
  <2>1. StageType' /\ WaitingIsTracked'
    BY <1>0, <1>4, CallsKept DEF Connected
  <2> QED
    BY <1>2, <2>1 DEF IInv
<1> QED
  BY <1>3, <1>4

\* A connection fails, or its end is seen.
LEMMA ConnectionLostKeeps ==
  ASSUME IInv, NEW c \in Conns, ConnectFails(c) \/ Ended(c) \/ Closed(c)
  PROVE  IInv'
<1>0. ConnsInv /\ StageType /\ WaitingIsTracked
  BY DEF IInv
<1> DEFINE rs == IF ConnectFails(c)
                   THEN {opener[c]} \cap {r \in Requests : stage[r] = "connecting"} ELSE {}
<1>1. /\ near[c] # "unused"
      /\ \E state \in {"ended", "closed"} : near' = [near EXCEPT ![c] = state]
      /\ opener' = opener
  BY DEF ConnectFails, Ended, Closed, Hangup
<1>2. HandleDisconnection(c, rs)
  BY DEF ConnectFails, Ended, Closed
<1>3. socket' \in {socket, None}
  BY <1>2 DEF HandleDisconnection
<1>4. ConnsInv'
  BY <1>0, <1>1, <1>3, ConnUsed
<1>5. \A r \in rs : r \in Requests /\ stage[r] = "connecting"
  OBVIOUS
<1> HIDE DEF rs
<1>6. StageType' /\ WaitingIsTracked'
  BY <1>0, <1>2, <1>5, DisconnectionKeeps
<1> QED
  BY <1>4, <1>6 DEF IInv

LEMMA TimeoutKeeps ==
  ASSUME IInv, NEW r \in Requests, ConnectTimeout(r) \/ RequestTimeout(r)
  PROVE  IInv'
<1>0. ConnsInv /\ StageType /\ WaitingIsTracked
  BY DEF IInv
<1>1. stage' = Settle({r}, "rejected")
  BY DEF ConnectTimeout, RequestTimeout
<1>2. CASE ConnectTimeout(r)
  <2>1. ConnsInv'
    <3>1. CASE socket # None /\ near[socket] \in {"opening", "open"}
      <4>1. socket \in Conns /\ near' = [near EXCEPT ![socket] = "ended"]
        BY <1>0, <1>2, <3>1 DEF ConnectTimeout, Hangup, ConnsInv, SocketUsed
      <4> QED
        BY <1>0, <1>2, <3>1, <4>1, ConnUsed DEF ConnectTimeout
    <3>2. CASE ~(socket # None /\ near[socket] \in {"opening", "open"})
      BY <1>0, <1>2, <3>2, ConnsKept DEF ConnectTimeout, socketVars
    <3> QED
      BY <3>1, <3>2
  <2>2. stage[r] = "connecting" /\ UNCHANGED <<pending, timers>>
    BY <1>2 DEF ConnectTimeout
  <2>3. StageType' /\ WaitingIsTracked'
    BY <1>0, <1>1, <2>2, SettleEffect DEF StageType, WaitingIsTracked
  <2> QED
    BY <2>1, <2>3 DEF IInv
<1>3. CASE RequestTimeout(r)
  <2>1. ConnsInv'
    BY <1>0, <1>3, ConnsKept DEF RequestTimeout, socketVars
  <2>2. pending' = pending \ {r} /\ timers' = timers \ {r}
    BY <1>3 DEF RequestTimeout
  <2>3. StageType' /\ WaitingIsTracked'
    BY <1>0, <1>1, <2>2, SettleEffect DEF StageType, WaitingIsTracked
  <2> QED
    BY <2>1, <2>3 DEF IInv
<1> QED
  BY <1>2, <1>3

LEMMA HandleResponseKeeps ==
  ASSUME IInv, NEW c \in Conns, HandleResponse(c)
  PROVE  IInv'
<1>0. ConnsInv /\ StageType /\ WaitingIsTracked
  BY DEF IInv
<1>1. ConnsInv'
  BY <1>0, ConnsKept DEF HandleResponse
<1> DEFINE id == Head(toClient[c]).id
           result == IF Head(toClient[c]).success THEN "resolved" ELSE "rejected"
<1>2. /\ pending' = pending \ {id} /\ timers' = timers \ {id}
      /\ stage' = Settle(pending \cap {id}, result)
  BY DEF HandleResponse
<1>3. result \in {"resolved", "rejected"}
  OBVIOUS
<1> HIDE DEF id, result
<1>4. StageType' /\ WaitingIsTracked'
  BY <1>0, <1>2, <1>3, SettleEffect DEF StageType, WaitingIsTracked
<1> QED
  BY <1>1, <1>4 DEF IInv

LEMMA DisconnectKeeps ==
  ASSUME IInv, Disconnect
  PROVE  IInv'
<1>0. ConnsInv /\ StageType /\ WaitingIsTracked
  BY DEF IInv
<1>1. socket \in Conns /\ near[socket] # "unused"
  BY <1>0 DEF Disconnect, ConnsInv, SocketUsed
<1>2. ConnsInv'
  BY <1>0, <1>1, ConnUsed DEF Disconnect, Hangup
<1>3. StageType' /\ WaitingIsTracked'
  BY <1>0, SettleEffect DEF Disconnect, StageType, WaitingIsTracked
<1> QED
  BY <1>2, <1>3 DEF IInv

-----------------------------------------------------------------------------
\* The daemon touches neither the calls nor the client's end.
LEMMA ServerKeeps ==
  ASSUME IInv, ServerStep, UNCHANGED clientVars
  PROVE  IInv'
<1>1. near' = near
  BY DEF ServerStep, HandleClientMessage, ClientGone, SendResponse, GracefulShutdown, DaemonExits, DaemonStarts
<1>2. UNCHANGED <<opener, socket, stage, pending, timers>>
  BY DEF clientVars
<1> QED
  BY <1>1, <1>2, ConnsKept, CallsKept DEF IInv

LEMMA NextIInv == IInv /\ [Next]_vars => IInv'
<1> SUFFICES ASSUME IInv, [Next]_vars PROVE IInv'
  OBVIOUS
<1>1. CASE ClientStep
  BY <1>1, SendMessageKeeps, ConnectedKeeps, ConnectionLostKeeps, TimeoutKeeps,
     HandleResponseKeeps, DisconnectKeeps DEF ClientStep
<1>2. CASE ServerStep /\ UNCHANGED clientVars
  BY <1>2, ServerKeeps
<1>3. CASE UNCHANGED vars
  BY <1>3, ConnsKept, CallsKept DEF IInv, vars, socketVars, clientVars
<1> QED
  BY <1>1, <1>2, <1>3 DEF Next

\* A call that waits has its entry and its timeout and no other call has, for
\* any number of calls and connections: none is left without a timeout, and no
\* timeout outlives its call.
THEOREM CallsAreTracked == Spec => []WaitingIsTracked
<1>1. IInv => WaitingIsTracked
  BY DEF IInv
<1> QED
  BY <1>1, InitIInv, NextIInv, PTL DEF Spec

-----------------------------------------------------------------------------
(* The messages and their pieces.                                          *)

\* A message ends once, with its last piece.
LEMMA MessageParts ==
  ASSUME NEW r \in Requests
  PROVE  /\ Message(r) \in Seq(Part) /\ Len(Message(r)) \in {2, 3}
         /\ \A i \in 1..Len(Message(r)) :
              /\ Message(r)[i].id = r
              /\ Message(r)[i].part \in {"head", "body", "tail"}
              /\ Message(r)[i].part = "tail" <=> i = Len(Message(r))
<1> DEFINE piece(part) == [id |-> r, part |-> part]
<1>1. piece("head") \in Part /\ piece("body") \in Part /\ piece("tail") \in Part
  BY DEF Part
<1>2. /\ piece("head").part = "head" /\ piece("body").part = "body" /\ piece("tail").part = "tail"
      /\ piece("head").id = r /\ piece("body").id = r /\ piece("tail").id = r
  OBVIOUS
<1>3. Message(r) = IF r \in Large THEN <<piece("head"), piece("body"), piece("tail")>>
                   ELSE <<piece("head"), piece("tail")>>
  BY DEF Message
<1> HIDE DEF piece
<1> QED
  BY <1>1, <1>2, <1>3

LEMMA NatLeast ==
  ASSUME NEW T \in SUBSET Nat, T # {}
  PROVE  \E x \in T : \A y \in T : x <= y
<1>1. PICK x \in T : \A y \in T : ~ (<<y, x>> \in OpToRel(<, Nat))
  BY NatLessThanWellFounded, WFMin
<1>2. OpToRel(<, Nat) = {ss \in Nat \X Nat : ss[1] < ss[2]}
  BY DEF OpToRel
<1>3. ASSUME NEW y \in T PROVE x <= y
  <2>1. <<y, x>> \in Nat \X Nat /\ ~ (y < x)
    BY <1>1, <1>2
  <2> QED
    BY <2>1
<1> QED
  BY <1>3

\* What is kept begins right after the last end of a message.
LEMMA IncompleteIs ==
  ASSUME NEW s \in Seq(Part)
  PROVE  \E k \in 1..Len(s) + 1 :
           /\ Incomplete(s) = SubSeq(s, k, Len(s))
           /\ \A j \in k..Len(s) : s[j].part # "tail"
           /\ k > 1 => s[k - 1].part = "tail"
<1> DEFINE starts == {i \in 1..Len(s) + 1 : \A j \in i..Len(s) : s[j].part # "tail"}
           k == CHOOSE i \in starts : \A j \in starts : i <= j
<1>0. Len(s) \in Nat
  OBVIOUS
<1>1. starts \in SUBSET Nat /\ Len(s) + 1 \in starts
  BY <1>0
<1>2. \E i \in starts : \A j \in starts : i <= j
  BY <1>1, NatLeast
<1>3. k \in starts /\ \A j \in starts : k <= j
  BY <1>2
<1>4. Incomplete(s) = SubSeq(s, k, Len(s))
  BY DEF Incomplete
<1>5. PICK m : m = k
  OBVIOUS
<1>6. m \in 1..Len(s) + 1 /\ \A j \in m..Len(s) : s[j].part # "tail"
  BY <1>3, <1>5
<1>7. ASSUME m > 1, s[m - 1].part # "tail" PROVE FALSE
  <2>1. m - 1 \in 1..Len(s) + 1
    BY <1>0, <1>6, <1>7
  <2>2. ASSUME NEW j \in (m - 1)..Len(s) PROVE s[j].part # "tail"
    <3>1. j = m - 1 \/ j \in m..Len(s)
      BY <1>0, <1>6
    <3> QED
      BY <3>1, <1>6, <1>7
  <2>3. m - 1 \in starts
    BY <2>1, <2>2
  <2>4. m <= m - 1
    BY <1>3, <1>5, <2>3
  <2> QED
    BY <1>6, <2>4
<1> QED
  BY <1>4, <1>5, <1>6, <1>7

\* Decoding keeps the pieces, but for a character cut in two.
LEMMA DecodeIs ==
  ASSUME NEW s \in Seq(Part), s # <<>>
  PROVE  /\ Decode(s) \in Seq(Part) /\ Len(Decode(s)) = Len(s)
         /\ \A i \in 1..Len(s) :
              /\ Decode(s)[i].id = s[i].id
              /\ \/ Decode(s)[i].part = s[i].part
                 \/ /\ Decode(s)[i].part = "broken" /\ s[i].part # "tail" /\ s[i].id \in NonAscii
<1>0. Len(s) \in 1..Len(s) /\ \A i \in 1..Len(s) : s[i] \in Part
  BY EmptySeq
<1>1. CASE s[Len(s)].part = "head" /\ s[Len(s)].id \in NonAscii
  <2> DEFINE p == [s[Len(s)] EXCEPT !.part = "broken"]
  <2>1. p \in Part /\ p.id = s[Len(s)].id /\ p.part = "broken"
    BY <1>0 DEF Part
  <2>2. Decode(s) = [s EXCEPT ![Len(s)] = p]
    BY <1>1 DEF Decode
  <2> HIDE DEF p
  <2>3. /\ Decode(s) \in Seq(Part) /\ Len(Decode(s)) = Len(s)
        /\ \A i \in 1..Len(s) : Decode(s)[i] = IF i = Len(s) THEN p ELSE s[i]
    BY <1>0, <2>1, <2>2, ExceptSeq
  <2> QED
    BY <1>1, <2>1, <2>3
<1>2. CASE ~(s[Len(s)].part = "head" /\ s[Len(s)].id \in NonAscii)
  BY <1>2 DEF Decode
<1> QED
  BY <1>1, <1>2

LEMMA InOrderIs ==
  ASSUME NEW n \in Nat, NEW places \in SUBSET (1..n)
  PROVE  Len(InOrder(places)) \in Nat
<1>1. IsFiniteSet(1..n)
  BY FS_Interval
<1>2. Cardinality(places) \in Nat
  BY <1>1, FS_Subset, FS_CardinalityType
<1> QED
  BY <1>2 DEF InOrder

-----------------------------------------------------------------------------
(* The types.                                                              *)

LEMMA InitTypeOK == Init => TypeOK
<1> SUFFICES ASSUME Init PROVE TypeOK
  OBVIOUS
<1>1. /\ near \in [Conns -> {"unused", "opening", "open", "ended", "closed"}]
      /\ far \in [Conns -> {"none", "open", "ended"}] /\ daemonUp \in BOOLEAN
  BY DEF Init, SocketInit
<1>2. /\ toServer \in [Conns -> Seq(Part)] /\ buffers \in [Conns -> Seq(Part)]
      /\ toClient \in [Conns -> Seq(Reply)]
  BY EmptySeq DEF Init, SocketInit, ServerInit
<1>3. /\ stage \in [Requests -> {"unsent", "connecting", "waiting", "resolved", "rejected"}]
      /\ opener \in [Conns -> Requests \cup {None}]
      /\ socket \in Conns \cup {None} /\ connected \in BOOLEAN
      /\ listening \subseteq Conns /\ pending \subseteq Requests /\ timers \subseteq Requests
  BY DEF Init, ClientInit
<1>4. /\ handling \subseteq Conns \X Requests /\ executed \in [Requests -> Nat]
      /\ garbled \subseteq Conns \X Requests /\ oversized \subseteq Conns
  BY DEF Init, ServerInit
<1> QED
  BY <1>1, <1>2, <1>3, <1>4 DEF TypeOK

LEMMA HangupTyped ==
  ASSUME TypeOK, NEW c \in Conns, NEW state \in {"ended", "closed"}, Hangup(c, state)
  PROVE  /\ near' \in [Conns -> {"unused", "opening", "open", "ended", "closed"}]
         /\ toClient' \in [Conns -> Seq(Reply)]
         /\ UNCHANGED <<far, toServer, daemonUp>>
BY DEF TypeOK, Hangup

LEMMA WriteTyped ==
  ASSUME TypeOK, NEW r \in Requests, Write(r)
  PROVE  /\ StageType' /\ pending' \subseteq Requests /\ timers' \subseteq Requests
         /\ toServer' \in [Conns -> Seq(Part)]
<1>1. StageType
  BY DEF TypeOK, StageType
<1>2. CASE socket # None /\ near[socket] \in {"opening", "open"}
  <2>1. toServer' = [toServer EXCEPT ![socket] = @ \o Message(r)]
    BY <1>2 DEF Write
  <2>2. socket \in Conns /\ toServer[socket] \in Seq(Part) /\ toServer \in [Conns -> Seq(Part)]
    BY <1>2 DEF TypeOK
  <2>3. toServer[socket] \o Message(r) \in Seq(Part)
    BY <2>2, MessageParts, ConcatProperties
  <2>4. toServer' \in [Conns -> Seq(Part)]
    BY <2>1, <2>2, <2>3
  <2> QED
    BY <1>1, <1>2, <2>4, SettleEffect DEF Write, TypeOK, StageType
<1>3. CASE ~(socket # None /\ near[socket] \in {"opening", "open"})
  BY <1>1, <1>3, SettleEffect DEF Write, TypeOK, StageType
<1> QED
  BY <1>2, <1>3

LEMMA DisconnectionTyped ==
  ASSUME TypeOK, NEW c, NEW rs, HandleDisconnection(c, rs)
  PROVE  /\ StageType' /\ pending' \subseteq Requests /\ timers' \subseteq Requests
         /\ socket' \in Conns \cup {None} /\ connected' \in BOOLEAN
<1>1. StageType
  BY DEF TypeOK, StageType
<1>2. CASE stage' = Settle(pending \cup rs, "rejected") /\ pending' = {} /\ timers' = {}
           /\ socket' = None /\ connected' = FALSE
  BY <1>1, <1>2, SettleEffect DEF StageType
<1>3. CASE stage' = Settle(rs, "rejected") /\ UNCHANGED <<connected, socket, pending, timers>>
  BY <1>1, <1>3, SettleEffect DEF TypeOK, StageType
<1> QED
  BY <1>2, <1>3 DEF HandleDisconnection

LEMMA ClientTyped ==
  ASSUME IInv, TypeOK, ClientStep, UNCHANGED serverVars
  PROVE  TypeOK'
<1>0. StageType /\ \A c \in Conns : near[c] # "unused" => opener[c] \in Requests
  BY DEF IInv, ConnsInv, Opened
<1> USE DEF serverVars
<1>1. ASSUME NEW r \in Requests, SendMessage(r) PROVE TypeOK'
  <2>1. CASE Write(r) /\ UNCHANGED <<near, far, toClient, daemonUp, opener, socket>>
    BY <1>1, <2>1, WriteTyped DEF TypeOK, SendMessage, StageType
  <2>2. ASSUME NEW c \in Conns, Dial(c), opener' = [opener EXCEPT ![c] = r], socket' = c,
               stage' = Settle({r}, "connecting"), UNCHANGED <<pending, timers>>
        PROVE  TypeOK'
    BY <1>0, <1>1, <2>2, SettleEffect DEF TypeOK, SendMessage, Dial, StageType
  <2> QED
    BY <1>1, <2>1, <2>2 DEF SendMessage
<1>2. ASSUME NEW r \in Requests, ConnectTimeout(r) PROVE TypeOK'
  <2>1. StageType'
    BY <1>0, <1>2, SettleEffect DEF ConnectTimeout, StageType
  <2>2. CASE Hangup(socket, "ended") /\ socket # None
    <3>1. socket \in Conns
      BY <2>2 DEF TypeOK
    <3> QED
      BY <1>2, <2>1, <2>2, <3>1, HangupTyped DEF TypeOK, ConnectTimeout, StageType
  <2>3. CASE UNCHANGED socketVars
    BY <1>2, <2>1, <2>3 DEF TypeOK, ConnectTimeout, StageType, socketVars
  <2> QED
    BY <1>2, <2>2, <2>3 DEF ConnectTimeout
<1>3. ASSUME NEW r \in Requests, RequestTimeout(r) PROVE TypeOK'
  BY <1>0, <1>3, SettleEffect DEF TypeOK, RequestTimeout, socketVars, StageType
<1>4. ASSUME NEW c \in Conns, Connected(c) PROVE TypeOK'
  <2>1. /\ near' \in [Conns -> {"unused", "opening", "open", "ended", "closed"}]
        /\ far' \in [Conns -> {"none", "open", "ended"}]
        /\ connected' = TRUE /\ listening' \subseteq Conns
        /\ UNCHANGED <<toClient, daemonUp, opener, socket>>
    BY <1>4 DEF TypeOK, Connected, Accept, SetupSocketHandlers
  <2>2. /\ StageType' /\ pending' \subseteq Requests /\ timers' \subseteq Requests
        /\ toServer' \in [Conns -> Seq(Part)]
    <3>1. CASE stage[opener[c]] = "connecting"
      <4>1. Write(opener[c]) /\ opener[c] \in Requests
        BY <1>0, <1>4, <3>1 DEF Connected, Accept
      <4> QED
        BY <4>1, WriteTyped
    <3>2. CASE stage[opener[c]] # "connecting"
      BY <1>4, <3>2 DEF TypeOK, Connected, StageType
    <3> QED
      BY <3>1, <3>2
  <2> QED
    BY <2>1, <2>2 DEF TypeOK, StageType
<1>5. ASSUME NEW c \in Conns, ConnectFails(c) \/ Ended(c) \/ Closed(c) PROVE TypeOK'
  <2>1. /\ \E state \in {"ended", "closed"} : Hangup(c, state)
        /\ \E rs : HandleDisconnection(c, rs)
        /\ UNCHANGED <<opener, listening>>
    BY <1>5 DEF ConnectFails, Ended, Closed
  <2> QED
    BY <2>1, HangupTyped, DisconnectionTyped DEF TypeOK, StageType
<1>6. ASSUME NEW c \in Conns, HandleResponse(c) PROVE TypeOK'
  <2> DEFINE id == Head(toClient[c]).id
             result == IF Head(toClient[c]).success THEN "resolved" ELSE "rejected"
  <2>1. stage' = Settle(pending \cap {id}, result) /\ result \in {"resolved", "rejected"}
    BY <1>6 DEF HandleResponse
  <2> HIDE DEF result
  <2>2. StageType'
    BY <1>0, <2>1, SettleEffect DEF StageType
  <2>3. toClient' \in [Conns -> Seq(Reply)]
    <3>1. toClient[c] # <<>> /\ toClient[c] \in Seq(Reply)
      BY <1>6 DEF HandleResponse, TypeOK
    <3>2. Tail(toClient[c]) \in Seq(Reply)
      BY <3>1, HeadTailProperties
    <3> QED
      BY <1>6, <3>2 DEF HandleResponse, TypeOK
  <2> QED
    BY <1>6, <2>2, <2>3 DEF TypeOK, HandleResponse, StageType
<1>7. CASE Disconnect
  <2>1. socket \in Conns
    BY <1>7 DEF Disconnect, TypeOK
  <2> QED
    <3>1. StageType' /\ pending' = {} /\ timers' = {}
      BY <1>0, <1>7, SettleEffect DEF Disconnect, StageType
    <3>2. Hangup(socket, "closed")
      BY <1>7 DEF Disconnect
    <3> QED
      BY <1>7, <2>1, <3>1, <3>2, HangupTyped DEF TypeOK, Disconnect, StageType
<1> QED
  BY <1>1, <1>2, <1>3, <1>4, <1>5, <1>6, <1>7 DEF ClientStep

\* What handleClientMessage puts together of what it kept and the next n pieces.
LEMMA CombinedIs ==
  ASSUME NEW kept \in Seq(Part), NEW stream \in Seq(Part), NEW n \in 1..Len(stream)
  PROVE  LET s == kept \o Decode(SubSeq(stream, 1, n))
         IN /\ s \in Seq(Part) /\ Len(s) = Len(kept) + n
            /\ \A i \in 1..Len(kept) : s[i] = kept[i]
            /\ \A i \in 1..n :
                 /\ s[Len(kept) + i].id = stream[i].id
                 /\ \/ s[Len(kept) + i].part = stream[i].part
                    \/ /\ s[Len(kept) + i].part = "broken"
                       /\ stream[i].part # "tail" /\ stream[i].id \in NonAscii
<1> DEFINE chunk == SubSeq(stream, 1, n)
<1>1. Len(kept) \in Nat /\ Len(stream) \in Nat /\ n \in Nat /\ \A i \in 1..n : stream[i] \in Part
  OBVIOUS
<1>2. chunk \in Seq(Part) /\ Len(chunk) = n /\ \A i \in 1..n : chunk[i] = stream[i]
  BY <1>1, SubSeqProperties
<1>3. chunk # <<>>
  BY <1>2, EmptySeq
<1> HIDE DEF chunk
<1> DEFINE decoded == Decode(chunk)
<1>4. /\ decoded \in Seq(Part) /\ Len(decoded) = n
      /\ \A i \in 1..n :
           /\ decoded[i].id = stream[i].id
           /\ \/ decoded[i].part = stream[i].part
              \/ /\ decoded[i].part = "broken"
                 /\ stream[i].part # "tail" /\ stream[i].id \in NonAscii
  BY SMTT(30), <1>2, <1>3, DecodeIs
<1> DEFINE s == kept \o decoded
<1> HIDE DEF decoded
<1>5. decoded \in Seq(Part) /\ Len(decoded) = n
  BY <1>4
<1>6. /\ s \in Seq(Part) /\ Len(s) = Len(kept) + n
      /\ \A i \in 1..Len(kept) + n : s[i] = IF i <= Len(kept) THEN kept[i] ELSE decoded[i - Len(kept)]
  BY <1>5, ConcatProperties
<1> HIDE DEF s
<1>7. ASSUME NEW i \in 1..n PROVE s[Len(kept) + i] = decoded[i]
  <2>1. /\ Len(kept) + i \in 1..Len(kept) + n /\ ~(Len(kept) + i <= Len(kept))
        /\ (Len(kept) + i) - Len(kept) = i
    BY <1>1
  <2> QED
    BY <1>6, <2>1
<1>8. ASSUME NEW i \in 1..Len(kept) PROVE s[i] = kept[i]
  BY <1>1, <1>6
<1>9. s = kept \o Decode(SubSeq(stream, 1, n))
  BY DEF s, decoded, chunk
<1> QED
  BY <1>4, <1>6, <1>7, <1>8, <1>9

LEMMA SuffixIs ==
  ASSUME NEW s \in Seq(Part), NEW k \in 1..Len(s) + 1
  PROVE  /\ SubSeq(s, k, Len(s)) \in Seq(Part)
         /\ Len(SubSeq(s, k, Len(s))) = Len(s) - (k - 1)
         /\ \A i \in 1..Len(s) - (k - 1) : SubSeq(s, k, Len(s))[i] = s[k - 1 + i]
<1>1. Len(s) \in Nat /\ \A i \in k..Len(s) : s[i] \in Part
  OBVIOUS
<1> QED
  BY <1>1, SubSeqProperties

LEMMA SendIs ==
  ASSUME TypeOK, NEW c \in Conns, NEW answers \in Seq(Reply), Send(c, answers)
  PROVE  /\ toClient' \in [Conns -> Seq(Reply)]
         /\ \A d \in Conns : \A i \in 1..Len(toClient'[d]) :
              \/ i \in 1..Len(toClient[d]) /\ toClient'[d][i] = toClient[d][i]
              \/ \E k \in 1..Len(answers) : toClient'[d][i] = answers[k]
<1>1. CASE toClient' = toClient
  BY <1>1 DEF TypeOK
<1>2. CASE toClient' = [toClient EXCEPT ![c] = toClient[c] \o answers]
  <2> DEFINE all == toClient[c] \o answers
  <2>1. toClient \in [Conns -> Seq(Reply)] /\ toClient[c] \in Seq(Reply)
        /\ Len(toClient[c]) \in Nat /\ Len(answers) \in Nat
    BY DEF TypeOK
  <2>2. /\ all \in Seq(Reply) /\ Len(all) = Len(toClient[c]) + Len(answers)
        /\ \A i \in 1..Len(toClient[c]) + Len(answers) :
             all[i] = IF i <= Len(toClient[c]) THEN toClient[c][i] ELSE answers[i - Len(toClient[c])]
    BY <2>1, ConcatProperties
  <2> HIDE DEF all
  <2>3. toClient' = [toClient EXCEPT ![c] = all]
    BY <1>2 DEF all
  <2>4. ASSUME NEW d \in Conns, NEW i \in 1..Len(toClient'[d])
        PROVE  \/ i \in 1..Len(toClient[d]) /\ toClient'[d][i] = toClient[d][i]
               \/ \E k \in 1..Len(answers) : toClient'[d][i] = answers[k]
    <3>1. CASE d # c
      BY <2>1, <2>3, <3>1
    <3>2. CASE d = c
      <4>1. toClient'[d] = all
        BY <2>1, <2>3, <3>2
      <4>2. CASE i <= Len(toClient[c])
        BY <2>1, <2>2, <3>2, <4>1, <4>2
      <4>3. CASE ~(i <= Len(toClient[c]))
        <5>1. i - Len(toClient[c]) \in 1..Len(answers)
          BY <2>1, <2>2, <4>1, <4>3
        <5>2. toClient'[d][i] = answers[i - Len(toClient[c])]
          BY <2>1, <2>2, <4>1, <4>3
        <5> QED
          BY <5>1, <5>2
      <4> QED
        BY <4>2, <4>3
    <3> QED
      BY <3>1, <3>2
  <2> QED
    BY <2>1, <2>2, <2>3, <2>4
<1> QED
  BY <1>1, <1>2 DEF Send

\* The messages that HandleMessages starts, and what comes of it.
LEMMA MessagesHandled ==
  ASSUME TypeOK, NEW c \in Conns, NEW s \in Seq(Part), NEW refused, NEW failed,
         HandleMessages(c, s, refused, failed)
  PROVE  /\ toClient' \in [Conns -> Seq(Reply)]
         /\ garbled' = garbled \cup {<<c, s[i].id>> : i \in {j \in 1..Len(s) :
              s[j].part = "tail" /\ (Parses(s, j) => s[j - 1].part = "broken")}}
         /\ \E started \in SUBSET {i \in 1..Len(s) : s[i].part = "tail"} :
              /\ executed' = [r \in Requests |->
                   executed[r] + (IF \E i \in started : s[i].id = r THEN 1 ELSE 0)]
              /\ handling' = handling \cup {<<c, s[i].id>> : i \in {j \in started : s[j].id \in Slow}}
              /\ \A d \in Conns : \A i \in 1..Len(toClient'[d]) :
                   \/ i \in 1..Len(toClient[d]) /\ toClient'[d][i] = toClient[d][i]
                   \/ toClient'[d][i].success => \E k \in started : toClient'[d][i].id = s[k].id
<1> DEFINE parsed == {i \in 1..Len(s) : s[i].part = "tail" /\ Parses(s, i)}
           started == {i \in parsed : s[i].id \notin refused}
           answered == InOrder({i \in 1..Len(s) : s[i].part = "tail" /\
                                ~(i \in started /\ s[i].id \in Slow)})
           answer(i) == IF i \in started THEN Answer(s[i].id, s[i].id \notin failed)
                        ELSE Answer(IF i \in parsed THEN s[i].id ELSE None, FALSE)
           answers == [k \in 1..Len(answered) |-> answer(answered[k])]
<1>1. /\ Send(c, answers)
      /\ executed' = [r \in DOMAIN executed |->
           executed[r] + (IF \E i \in started : s[i].id = r THEN 1 ELSE 0)]
      /\ garbled' = garbled \cup {<<c, s[i].id>> : i \in {j \in 1..Len(s) :
           s[j].part = "tail" /\ (j \in parsed => s[j - 1].part = "broken")}}
      /\ handling' = handling \cup {<<c, s[i].id>> : i \in {j \in started : s[j].id \in Slow}}
  BY DEF HandleMessages
<1>2. Len(answered) \in Nat
  BY InOrderIs
<1>3. ASSUME NEW i
      PROVE  answer(i) \in Reply /\ (answer(i).success => i \in started /\ answer(i).id = s[i].id)
  <2>1. CASE i \in started
    <3>1. s[i] \in Part
      BY <2>1
    <3> QED
      BY <2>1, <3>1 DEF Answer, Reply, Part
  <2>2. CASE i \notin started
    <3> DEFINE id == IF i \in parsed THEN s[i].id ELSE None
    <3>1. id \in Requests \cup {None}
      <4>1. i \in parsed => s[i] \in Part
        OBVIOUS
      <4> QED
        BY <4>1 DEF Part
    <3>2. answer(i) = Answer(id, FALSE)
      BY <2>2
    <3> HIDE DEF id
    <3> QED
      BY <2>2, <3>1, <3>2 DEF Answer, Reply
  <2> QED
    BY <2>1, <2>2
<1> HIDE DEF answer, answered
<1>4. answers \in Seq(Reply) /\ Len(answers) = Len(answered)
  BY <1>2, <1>3
<1>5. \A k \in 1..Len(answers) : answers[k] = answer(answered[k])
  BY <1>4
<1> HIDE DEF answers
<1>6. /\ toClient' \in [Conns -> Seq(Reply)]
      /\ \A d \in Conns : \A i \in 1..Len(toClient'[d]) :
           \/ i \in 1..Len(toClient[d]) /\ toClient'[d][i] = toClient[d][i]
           \/ \E k \in 1..Len(answers) : toClient'[d][i] = answers[k]
  BY <1>1, <1>4, SendIs
<1>7. DOMAIN executed = Requests
  BY DEF TypeOK
<1>8. started \in SUBSET {i \in 1..Len(s) : s[i].part = "tail"}
  OBVIOUS
<1>9. garbled' = garbled \cup {<<c, s[i].id>> : i \in {j \in 1..Len(s) :
        s[j].part = "tail" /\ (Parses(s, j) => s[j - 1].part = "broken")}}
  <2>1. \A j \in 1..Len(s) : s[j].part = "tail" => (j \in parsed <=> Parses(s, j))
    OBVIOUS
  <2>2. {j \in 1..Len(s) : s[j].part = "tail" /\ (j \in parsed => s[j - 1].part = "broken")}
        = {j \in 1..Len(s) : s[j].part = "tail" /\ (Parses(s, j) => s[j - 1].part = "broken")}
    BY <2>1
  <2> QED
    BY <1>1, <2>2
<1>10. ASSUME NEW d \in Conns, NEW i \in 1..Len(toClient'[d])
       PROVE  \/ i \in 1..Len(toClient[d]) /\ toClient'[d][i] = toClient[d][i]
              \/ toClient'[d][i].success => \E k \in started : toClient'[d][i].id = s[k].id
  <2>1. CASE i \in 1..Len(toClient[d]) /\ toClient'[d][i] = toClient[d][i]
    BY <2>1
  <2>2. ASSUME NEW k \in 1..Len(answers), toClient'[d][i] = answers[k]
        PROVE  toClient'[d][i].success => \E j \in started : toClient'[d][i].id = s[j].id
    <3>1. toClient'[d][i] = answer(answered[k])
      BY <1>5, <2>2
    <3> QED
      BY <1>3, <3>1
  <2> QED
    BY <1>6, <2>1, <2>2
<1> QED
  BY <1>1, <1>6, <1>7, <1>8, <1>9, <1>10

Combined(c, n) == buffers[c] \o Decode(SubSeq(toServer[c], 1, n))

\* handleClientMessage takes n pieces, and discards all, or handles the messages
\* and keeps what is left behind the last.
LEMMA ClientMessageIs ==
  ASSUME TypeOK, NEW c \in Conns, NEW n \in 1..Len(toServer[c]), HandleClientMessage(c, n)
  PROVE  /\ toServer' = [toServer EXCEPT ![c] = SubSeq(toServer[c], n + 1, Len(toServer[c]))]
         /\ \/ /\ Send(c, <<Answer(None, FALSE)>>)
               /\ buffers' = [buffers EXCEPT ![c] = <<>>]
               /\ oversized' = oversized \cup {c}
               /\ UNCHANGED <<handling, executed, garbled>>
            \/ /\ \E refused, failed : HandleMessages(c, Combined(c, n), refused, failed)
               /\ buffers' = [buffers EXCEPT ![c] = Incomplete(Combined(c, n))]
               /\ UNCHANGED oversized
         /\ UNCHANGED <<near, far, daemonUp>>
BY DEF HandleClientMessage, Combined

LEMMA DiscardedIs ==
  ASSUME TypeOK, NEW c \in Conns, Send(c, <<Answer(None, FALSE)>>)
  PROVE  /\ toClient' \in [Conns -> Seq(Reply)]
         /\ \A d \in Conns : \A i \in 1..Len(toClient'[d]) :
              \/ i \in 1..Len(toClient[d]) /\ toClient'[d][i] = toClient[d][i]
              \/ ~toClient'[d][i].success
<1> DEFINE reply == Answer(None, FALSE)
<1>1. reply \in Reply /\ ~reply.success
  BY DEF Answer, Reply
<1> HIDE DEF reply
<1>2. <<reply>> \in Seq(Reply) /\ Len(<<reply>>) = 1 /\ <<reply>>[1] = reply
  BY <1>1
<1>3. Send(c, <<reply>>)
  BY DEF reply
<1> DEFINE answers == <<reply>>
<1> HIDE DEF answers
<1>4. answers \in Seq(Reply) /\ Len(answers) = 1 /\ answers[1] = reply
  BY <1>2 DEF answers
<1>5. Send(c, answers)
  BY <1>3 DEF answers
<1>6. /\ toClient' \in [Conns -> Seq(Reply)]
      /\ \A d \in Conns : \A i \in 1..Len(toClient'[d]) :
           \/ i \in 1..Len(toClient[d]) /\ toClient'[d][i] = toClient[d][i]
           \/ \E k \in 1..Len(answers) : toClient'[d][i] = answers[k]
  BY <1>4, <1>5, SendIs
<1>7. \A k \in 1..Len(answers) : answers[k] = reply
  BY <1>4
<1> QED
  BY ZenonT(60), <1>1, <1>6, <1>7

LEMMA ResponseIs ==
  ASSUME TypeOK, NEW c \in Conns, NEW r \in Requests, NEW success \in BOOLEAN,
         Send(c, <<Answer(r, success)>>)
  PROVE  /\ toClient' \in [Conns -> Seq(Reply)]
         /\ \A d \in Conns : \A i \in 1..Len(toClient'[d]) :
              \/ i \in 1..Len(toClient[d]) /\ toClient'[d][i] = toClient[d][i]
              \/ toClient'[d][i].id = r
<1> DEFINE reply == Answer(r, success)
<1>1. reply \in Reply /\ reply.id = r
  BY DEF Answer, Reply
<1> HIDE DEF reply
<1>2. <<reply>> \in Seq(Reply) /\ Len(<<reply>>) = 1 /\ <<reply>>[1] = reply
  BY <1>1
<1>3. Send(c, <<reply>>)
  BY DEF reply
<1> DEFINE answers == <<reply>>
<1> HIDE DEF answers
<1>4. answers \in Seq(Reply) /\ Len(answers) = 1 /\ answers[1] = reply
  BY <1>2 DEF answers
<1>5. Send(c, answers)
  BY <1>3 DEF answers
<1>6. /\ toClient' \in [Conns -> Seq(Reply)]
      /\ \A d \in Conns : \A i \in 1..Len(toClient'[d]) :
           \/ i \in 1..Len(toClient[d]) /\ toClient'[d][i] = toClient[d][i]
           \/ \E k \in 1..Len(answers) : toClient'[d][i] = answers[k]
  BY <1>4, <1>5, SendIs
<1>7. \A k \in 1..Len(answers) : answers[k] = reply
  BY <1>4
<1> QED
  BY <1>1, <1>6, <1>7

LEMMA CombinedTyped ==
  ASSUME TypeOK, NEW c \in Conns, NEW n \in 1..Len(toServer[c])
  PROVE  /\ Combined(c, n) \in Seq(Part)
         /\ Incomplete(Combined(c, n)) \in Seq(Part)
         /\ SubSeq(toServer[c], n + 1, Len(toServer[c])) \in Seq(Part)
<1>1. /\ buffers[c] \in Seq(Part) /\ toServer[c] \in Seq(Part)
      /\ Len(toServer[c]) \in Nat /\ n + 1 \in 1..Len(toServer[c]) + 1
  BY DEF TypeOK
<1>2. Combined(c, n) \in Seq(Part)
  BY <1>1, CombinedIs DEF Combined
<1>3. Incomplete(Combined(c, n)) \in Seq(Part)
  BY <1>2, IncompleteIs, SuffixIs
<1> QED
  BY <1>1, <1>2, <1>3, SuffixIs

LEMMA ServerTyped ==
  ASSUME TypeOK, ServerStep, UNCHANGED clientVars
  PROVE  TypeOK'
<1>0. UNCHANGED <<stage, opener, socket, connected, listening, pending, timers>>
  BY DEF clientVars
<1>1. ASSUME NEW c \in Conns, NEW n \in 1..Len(toServer[c]), HandleClientMessage(c, n) PROVE TypeOK'
  <2>1. /\ toServer' \in [Conns -> Seq(Part)]
        /\ UNCHANGED <<near, far, daemonUp>>
    <3>1. /\ toServer' = [toServer EXCEPT ![c] = SubSeq(toServer[c], n + 1, Len(toServer[c]))]
          /\ UNCHANGED <<near, far, daemonUp>>
      BY <1>1, ClientMessageIs
    <3>2. SubSeq(toServer[c], n + 1, Len(toServer[c])) \in Seq(Part)
      BY CombinedTyped
    <3> QED
      BY <3>1, <3>2 DEF TypeOK
  <2>2. CASE /\ Send(c, <<Answer(None, FALSE)>>)
             /\ buffers' = [buffers EXCEPT ![c] = <<>>]
             /\ oversized' = oversized \cup {c}
             /\ UNCHANGED <<handling, executed, garbled>>
    <3>1. toClient' \in [Conns -> Seq(Reply)]
      BY <2>2, DiscardedIs
    <3>2. buffers' \in [Conns -> Seq(Part)]
      BY <2>2 DEF TypeOK
    <3> QED
      BY <1>0, <2>1, <2>2, <3>1, <3>2 DEF TypeOK
  <2>3. ASSUME NEW refused, NEW failed, HandleMessages(c, Combined(c, n), refused, failed),
               buffers' = [buffers EXCEPT ![c] = Incomplete(Combined(c, n))], UNCHANGED oversized
        PROVE  TypeOK'
    <3>1. PICK s \in Seq(Part) : s = Combined(c, n)
      BY CombinedTyped
    <3>2. \A i \in 1..Len(s) : s[i].id \in Requests
      <4>1. \A i \in 1..Len(s) : s[i] \in Part
        BY <3>1
      <4> QED
        BY <4>1 DEF Part
    <3>3. buffers' \in [Conns -> Seq(Part)]
      BY <2>3, CombinedTyped DEF TypeOK
    <3>4. HandleMessages(c, s, refused, failed)
      BY <2>3, <3>1
    <3>5. toClient' \in [Conns -> Seq(Reply)]
      BY <3>4, MessagesHandled
    <3>6. garbled' = garbled \cup {<<c, s[i].id>> : i \in {j \in 1..Len(s) :
            s[j].part = "tail" /\ (Parses(s, j) => s[j - 1].part = "broken")}}
      BY <3>4, MessagesHandled
    <3>7. garbled' \subseteq Conns \X Requests
      BY <3>2, <3>6 DEF TypeOK
    <3>8. PICK started \in SUBSET {i \in 1..Len(s) : s[i].part = "tail"} :
            /\ executed' = [r \in Requests |->
                 executed[r] + (IF \E i \in started : s[i].id = r THEN 1 ELSE 0)]
            /\ handling' = handling \cup {<<c, s[i].id>> : i \in {j \in started : s[j].id \in Slow}}
      BY ZenonT(60), <3>4, MessagesHandled
    <3>9. executed' \in [Requests -> Nat]
      <4>1. ASSUME NEW r \in Requests
            PROVE  executed[r] + (IF \E i \in started : s[i].id = r THEN 1 ELSE 0) \in Nat
        <5>1. executed[r] \in Nat
          BY DEF TypeOK
        <5> QED
          BY <5>1
      <4> QED
        BY <3>8, <4>1, Zenon
    <3>10. handling' \subseteq Conns \X Requests
      <4>1. \A i \in started : <<c, s[i].id>> \in Conns \X Requests
        BY <3>2
      <4>2. {<<c, s[i].id>> : i \in {j \in started : s[j].id \in Slow}} \subseteq Conns \X Requests
        BY <4>1, Zenon
      <4>3. handling \subseteq Conns \X Requests
        BY DEF TypeOK
      <4> QED
        BY <3>8, <4>2, <4>3, Zenon
    <3> QED
      BY <1>0, <2>1, <2>3, <3>3, <3>5, <3>7, <3>9, <3>10 DEF TypeOK
  <2> QED
    BY <1>1, <2>2, <2>3, ClientMessageIs
<1>2. ASSUME NEW c \in Conns, ClientGone(c) PROVE TypeOK'
  BY <1>0, <1>2, EmptySeq DEF TypeOK, ClientGone
<1>3. ASSUME NEW h \in handling, NEW success \in BOOLEAN, SendResponse(h[1], h[2], success) PROVE TypeOK'
  <2>1. h[1] \in Conns /\ h[2] \in Requests
    BY DEF TypeOK
  <2>2. toClient' \in [Conns -> Seq(Reply)]
    BY <1>3, <2>1, ResponseIs DEF SendResponse
  <2> QED
    BY <1>0, <1>3, <2>2 DEF TypeOK, SendResponse
<1>4. CASE GracefulShutdown
  BY <1>0, <1>4 DEF TypeOK, GracefulShutdown, serverVars
<1>5. CASE DaemonExits
  BY <1>0, <1>5, EmptySeq DEF TypeOK, DaemonExits
<1>6. CASE DaemonStarts
  BY <1>0, <1>6 DEF TypeOK, DaemonStarts, serverVars
<1> QED
  BY <1>1, <1>2, <1>3, <1>4, <1>5, <1>6 DEF ServerStep

LEMMA NextTypeOK == IInv /\ TypeOK /\ [Next]_vars => TypeOK'
<1> SUFFICES ASSUME IInv, TypeOK, [Next]_vars PROVE TypeOK'
  OBVIOUS
<1>1. CASE UNCHANGED vars
  BY <1>1 DEF TypeOK, vars, socketVars, clientVars, serverVars
<1> QED
  BY <1>1, ClientTyped, ServerTyped DEF Next

\* The variables of the client, the daemon and their connections keep their
\* types; the callback of connect always has a request to go on with.
THEOREM TypeInvariance == Spec => []TypeOK
<1>1. Init => IInv /\ TypeOK
  BY InitIInv, InitTypeOK
<1>2. IInv /\ TypeOK /\ [Next]_vars => (IInv /\ TypeOK)'
  BY NextIInv, NextTypeOK
<1> QED
  BY <1>1, <1>2, PTL DEF Spec

-----------------------------------------------------------------------------
(* A request is executed once at the most.  Its message ends once in all   *)
(* that is under way, and what has been read of it is not read again.      *)

Sent(r) == stage[r] \notin {"unsent", "connecting"}

TailAt(c, i) == i \in 1..Len(toServer[c]) /\ toServer[c][i].part = "tail"

\* No message ends at two places.
TailsOnce ==
  \A c, d \in Conns : \A i \in 1..Len(toServer[c]), j \in 1..Len(toServer[d]) :
    TailAt(c, i) /\ TailAt(d, j) /\ toServer[c][i].id = toServer[d][j].id => c = d /\ i = j

\* What is under way has been written, and not been executed.
TailsToRun ==
  \A c \in Conns : \A i \in 1..Len(toServer[c]) :
    TailAt(c, i) => executed[toServer[c][i].id] = 0 /\ Sent(toServer[c][i].id)

\* What is kept of a message is not all of it.
BuffersOpen == \A c \in Conns : \A i \in 1..Len(buffers[c]) : buffers[c][i].part # "tail"

Counted == \A r \in Requests : executed[r] \in {0, 1} /\ (executed[r] = 1 => Sent(r))

ResolvedRan == \A r \in Requests : stage[r] = "resolved" => executed[r] = 1

HandledRan == \A h \in handling : executed[h[2]] = 1

AnsweredRan ==
  \A c \in Conns : \A i \in 1..Len(toClient[c]) :
    toClient[c][i].success => toClient[c][i].id \in Requests /\ executed[toClient[c][i].id] = 1

OnceInv ==
  /\ TailsOnce /\ TailsToRun /\ BuffersOpen
  /\ Counted /\ ResolvedRan /\ HandledRan /\ AnsweredRan

\* The steps of the client, as far as the requests are concerned: calls go on
\* and a request is written at the most, by a call that had not written.
StageGoesOn == \A r \in Requests : Sent(r) => stage'[r] \notin {"unsent", "connecting"}

NoneResolved == \A r \in Requests : stage'[r] = "resolved" => stage[r] = "resolved"

WritesTo(c, r) == toServer' = [toServer EXCEPT ![c] = toServer[c] \o Message(r)]

WritesOnce ==
  \/ toServer' = toServer
  \/ \E c \in Conns, r \in Requests :
       /\ WritesTo(c, r)
       /\ ~Sent(r) /\ stage'[r] = "waiting"

RepliesKept ==
  \A c \in Conns : \A i \in 1..Len(toClient'[c]) :
    \E j \in 1..Len(toClient[c]) : toClient'[c][i] = toClient[c][j]

LEMMA WriteEffect ==
  ASSUME TypeOK, NEW r \in Requests, ~Sent(r), Write(r)
  PROVE  StageGoesOn /\ NoneResolved /\ WritesOnce
<1>1. StageType
  BY DEF TypeOK, StageType
<1>2. CASE socket # None /\ near[socket] \in {"opening", "open"}
  <2>1. socket \in Conns
    BY <1>2 DEF TypeOK
  <2>2. stage' = Settle({r}, "waiting") /\ toServer' = [toServer EXCEPT ![socket] = toServer[socket] \o Message(r)]
    BY <1>2 DEF Write
  <2>3. \A q \in Requests : stage'[q] = IF q = r THEN "waiting" ELSE stage[q]
    BY <1>1, <2>2, SettleEffect
  <2>4. WritesOnce
    BY <2>1, <2>2, <2>3 DEF WritesOnce, WritesTo
  <2> QED
    BY <2>3, <2>4 DEF StageGoesOn, NoneResolved, Sent
<1>3. CASE ~(socket # None /\ near[socket] \in {"opening", "open"})
  <2>1. stage' = Settle({r}, "rejected") /\ toServer' = toServer
    BY <1>3 DEF Write
  <2>2. \A q \in Requests : stage'[q] = IF q = r THEN "rejected" ELSE stage[q]
    BY <1>1, <2>1, SettleEffect
  <2> QED
    BY <2>1, <2>2 DEF StageGoesOn, NoneResolved, WritesOnce, Sent
<1> QED
  BY <1>2, <1>3

LEMMA RejectEffect ==
  ASSUME TypeOK, NEW rs, stage' = Settle(rs, "rejected")
  PROVE  StageGoesOn /\ NoneResolved
<1>1. StageType
  BY DEF TypeOK, StageType
<1>2. \A q \in Requests : stage'[q] = IF q \in rs THEN "rejected" ELSE stage[q]
  BY <1>1, SettleEffect
<1> QED
  BY <1>2 DEF StageGoesOn, NoneResolved, Sent

LEMMA StageKeptEffect ==
  ASSUME stage' = stage
  PROVE  StageGoesOn /\ NoneResolved
BY DEF StageGoesOn, NoneResolved, Sent

LEMMA DisconnectionEffect ==
  ASSUME TypeOK, NEW c, NEW rs, HandleDisconnection(c, rs)
  PROVE  StageGoesOn /\ NoneResolved
BY RejectEffect DEF HandleDisconnection

LEMMA RepliesSame ==
  ASSUME TypeOK, toClient' = toClient
  PROVE  RepliesKept
BY DEF RepliesKept, TypeOK

LEMMA HangupEffect ==
  ASSUME TypeOK, NEW c \in Conns, NEW state, Hangup(c, state)
  PROVE  toServer' = toServer /\ RepliesKept
<1>1. toServer' = toServer /\ toClient' = [toClient EXCEPT ![c] = <<>>]
  BY DEF Hangup
<1>2. ASSUME NEW d \in Conns, NEW i \in 1..Len(toClient'[d])
      PROVE  \E j \in 1..Len(toClient[d]) : toClient'[d][i] = toClient[d][j]
  <2>1. CASE d = c
    <3>1. toClient'[d] = <<>>
      BY <1>1, <2>1 DEF TypeOK
    <3> QED
      BY <3>1
  <2>2. CASE d # c
    BY <1>1, <2>2 DEF TypeOK
  <2> QED
    BY <2>1, <2>2
<1> QED
  BY <1>1, <1>2 DEF RepliesKept

\* A call is resolved by an answer to it.
ResolvedByAnswer ==
  \A r \in Requests : stage'[r] = "resolved" =>
    \/ stage[r] = "resolved"
    \/ \E c \in Conns : \E i \in 1..Len(toClient[c]) : toClient[c][i].success /\ toClient[c][i].id = r

LEMMA HandleResponseEffect ==
  ASSUME IInv, TypeOK, NEW c \in Conns, HandleResponse(c)
  PROVE  StageGoesOn /\ WritesOnce /\ RepliesKept /\ ResolvedByAnswer
<1> DEFINE id == Head(toClient[c]).id
           result == IF Head(toClient[c]).success THEN "resolved" ELSE "rejected"
<1>1. /\ toClient[c] # <<>> /\ toClient[c] \in Seq(Reply) /\ toServer' = toServer
      /\ toClient' = [toClient EXCEPT ![c] = Tail(toClient[c])]
      /\ stage' = Settle(pending \cap {id}, result)
  BY DEF HandleResponse, TypeOK
<1>2. Len(toClient[c]) \in Nat /\ Len(toClient[c]) >= 1 /\ toClient[c][1] = Head(toClient[c])
  BY <1>1, EmptySeq
<1>3. \A q \in Requests : stage'[q] = IF q \in pending \cap {id} THEN result ELSE stage[q]
  <2>1. StageType /\ result \in {"waiting", "resolved", "rejected", "connecting"}
    BY DEF TypeOK, StageType
  <2> HIDE DEF result
  <2> QED
    BY <1>1, <2>1, SettleEffect
<1>4. StageGoesOn
  BY <1>3 DEF StageGoesOn, Sent
<1>5. ResolvedByAnswer
  <2> SUFFICES ASSUME NEW r \in Requests, stage'[r] = "resolved", stage[r] # "resolved"
               PROVE  \E i \in 1..Len(toClient[c]) : toClient[c][i].success /\ toClient[c][i].id = r
    BY DEF ResolvedByAnswer
  <2>1. r = id /\ result = "resolved"
    BY <1>3
  <2>2. Head(toClient[c]).success
    BY <2>1
  <2> QED
    BY <1>2, <2>1, <2>2
<1>6. RepliesKept
  <2> SUFFICES ASSUME NEW d \in Conns, NEW i \in 1..Len(toClient'[d])
               PROVE  \E j \in 1..Len(toClient[d]) : toClient'[d][i] = toClient[d][j]
    BY DEF RepliesKept
  <2>1. CASE d = c
    <3> DEFINE rest == Tail(toClient[c])
    <3>1. /\ Len(rest) = Len(toClient[c]) - 1
          /\ \A k \in 1..Len(rest) : rest[k] = toClient[c][k + 1]
      BY <1>1, HeadTailProperties
    <3>2. toClient'[d] = rest
      BY <1>1, <2>1 DEF TypeOK
    <3> HIDE DEF rest
    <3>3. i + 1 \in 1..Len(toClient[c])
      BY <1>2, <3>1, <3>2
    <3> QED
      BY <2>1, <3>1, <3>2, <3>3
  <2>2. CASE d # c
    BY <1>1, <2>2 DEF TypeOK
  <2> QED
    BY <2>1, <2>2
<1> QED
  BY <1>1, <1>4, <1>5, <1>6 DEF WritesOnce

LEMMA ClientEffect ==
  ASSUME IInv, TypeOK, ClientStep
  PROVE  StageGoesOn /\ WritesOnce /\ RepliesKept /\ ResolvedByAnswer
<1>0. NoneResolved => ResolvedByAnswer
  BY DEF NoneResolved, ResolvedByAnswer
<1>1. ASSUME NEW r \in Requests, SendMessage(r)
      PROVE  StageGoesOn /\ NoneResolved /\ WritesOnce /\ RepliesKept
  <2>1. ~Sent(r)
    BY <1>1 DEF SendMessage, Sent
  <2>2. RepliesKept
    BY <1>1, RepliesSame DEF SendMessage, Dial
  <2>3. CASE Write(r)
    BY <2>1, <2>2, <2>3, WriteEffect
  <2>4. CASE stage' = Settle({r}, "connecting") /\ \E c \in Conns : Dial(c)
    <3>1. StageType
      BY DEF TypeOK, StageType
    <3>2. \A q \in Requests : stage'[q] = IF q = r THEN "connecting" ELSE stage[q]
      BY <2>4, <3>1, SettleEffect
    <3>3. StageGoesOn /\ NoneResolved
      BY <2>1, <3>2 DEF StageGoesOn, NoneResolved, Sent
    <3> QED
      BY <2>2, <2>4, <3>3 DEF Dial, WritesOnce
  <2> QED
    BY <1>1, <2>3, <2>4 DEF SendMessage
<1>2. ASSUME NEW r \in Requests, ConnectTimeout(r)
      PROVE  StageGoesOn /\ NoneResolved /\ WritesOnce /\ RepliesKept
  <2>1. StageGoesOn /\ NoneResolved
    BY <1>2, RejectEffect DEF ConnectTimeout
  <2>2. CASE socket # None /\ Hangup(socket, "ended")
    <3>1. socket \in Conns
      BY <2>2 DEF TypeOK
    <3> QED
      BY <2>1, <2>2, <3>1, HangupEffect DEF WritesOnce
  <2>3. CASE UNCHANGED socketVars
    BY <2>1, <2>3, RepliesSame DEF socketVars, WritesOnce
  <2> QED
    BY <1>2, <2>2, <2>3 DEF ConnectTimeout
<1>3. ASSUME NEW r \in Requests, RequestTimeout(r)
      PROVE  StageGoesOn /\ NoneResolved /\ WritesOnce /\ RepliesKept
  BY <1>3, RejectEffect, RepliesSame DEF RequestTimeout, socketVars, WritesOnce
<1>4. ASSUME NEW c \in Conns, Connected(c)
      PROVE  StageGoesOn /\ NoneResolved /\ WritesOnce /\ RepliesKept
  <2>1. RepliesKept
    BY <1>4, RepliesSame DEF Connected
  <2>2. CASE stage[opener[c]] = "connecting"
    <3>1. opener[c] \in Requests
      BY <1>4 DEF IInv, ConnsInv, Opened, Connected, Accept
    <3>2. ~Sent(opener[c]) /\ Write(opener[c])
      BY <1>4, <2>2 DEF Connected, Sent
    <3> QED
      BY <2>1, <3>1, <3>2, WriteEffect
  <2>3. CASE stage[opener[c]] # "connecting"
    BY <1>4, <2>1, <2>3, StageKeptEffect DEF Connected, WritesOnce
  <2> QED
    BY <2>2, <2>3
<1>5. ASSUME NEW c \in Conns, ConnectFails(c) \/ Ended(c) \/ Closed(c)
      PROVE  StageGoesOn /\ NoneResolved /\ WritesOnce /\ RepliesKept
  <2>1. (\E state : Hangup(c, state)) /\ \E rs : HandleDisconnection(c, rs)
    BY <1>5 DEF ConnectFails, Ended, Closed
  <2> QED
    BY <2>1, HangupEffect, DisconnectionEffect DEF WritesOnce
<1>6. CASE Disconnect
  <2>1. socket \in Conns /\ Hangup(socket, "closed") /\ stage' = Settle(pending, "rejected")
    BY <1>6 DEF Disconnect, TypeOK
  <2> QED
    BY <1>0, <2>1, HangupEffect, RejectEffect DEF WritesOnce
<1> QED
  BY <1>0, <1>1, <1>2, <1>3, <1>4, <1>5, <1>6, HandleResponseEffect DEF ClientStep

LEMMA UnderWayIds ==
  ASSUME TypeOK
  PROVE  \A c \in Conns : \A i \in 1..Len(toServer[c]) : toServer[c][i].id \in Requests
<1> SUFFICES ASSUME NEW c \in Conns, NEW i \in 1..Len(toServer[c])
             PROVE  toServer[c][i].id \in Requests
  OBVIOUS
<1>1. toServer[c] \in Seq(Part)
  BY DEF TypeOK
<1>2. toServer[c][i] \in Part
  BY <1>1
<1> QED
  BY <1>2 DEF Part

\* Where the ends of the messages are after one has been written.
LEMMA WrittenIs ==
  ASSUME TypeOK, NEW c \in Conns, NEW r \in Requests, WritesTo(c, r)
  PROVE  \A d \in Conns : \A i \in 1..Len(toServer'[d]) : toServer'[d][i].part = "tail" =>
           \/ i \in 1..Len(toServer[d]) /\ toServer'[d][i] = toServer[d][i]
           \/ d = c /\ i = Len(toServer[c]) + Len(Message(r)) /\ toServer'[d][i].id = r
<1> SUFFICES ASSUME NEW d \in Conns, NEW i \in 1..Len(toServer'[d]), toServer'[d][i].part = "tail"
             PROVE  \/ i \in 1..Len(toServer[d]) /\ toServer'[d][i] = toServer[d][i]
                    \/ d = c /\ i = Len(toServer[c]) + Len(Message(r)) /\ toServer'[d][i].id = r
  OBVIOUS
<1>1. CASE d # c
  BY <1>1 DEF TypeOK, WritesTo
<1>2. CASE d = c
  <2>1. PICK old \in Seq(Part) : old = toServer[c]
    BY DEF TypeOK
  <2>2. PICK new \in Seq(Part) : new = Message(r)
    BY MessageParts
  <2>3. toServer'[d] = old \o new
    BY <1>2, <2>1, <2>2 DEF TypeOK, WritesTo
  <2>4. /\ Len(old) \in Nat /\ Len(new) \in Nat /\ Len(old \o new) = Len(old) + Len(new)
        /\ \A j \in 1..Len(old) + Len(new) :
             (old \o new)[j] = IF j <= Len(old) THEN old[j] ELSE new[j - Len(old)]
    BY ConcatProperties
  <2>5. \A j \in 1..Len(new) : new[j].id = r /\ (new[j].part = "tail" => j = Len(new))
    BY <2>2, MessageParts
  <2>6. i \in 1..Len(old) + Len(new)
    BY <2>3, <2>4
  <2>7. CASE i <= Len(old)
    BY <1>2, <2>1, <2>3, <2>4, <2>6, <2>7
  <2>8. CASE ~(i <= Len(old))
    <3>0. i - Len(old) \in 1..Len(new)
      BY <2>4, <2>6, <2>8
    <3>1. i - Len(old) \in 1..Len(new) /\ toServer'[d][i] = new[i - Len(old)]
      BY <2>3, <2>4, <2>6, <2>8, <3>0
    <3>2. i - Len(old) = Len(new) /\ toServer'[d][i].id = r
      BY <2>5, <3>1
    <3> QED
      BY <1>2, <2>1, <2>2, <2>4, <2>6, <3>2
  <2> QED
    BY <2>7, <2>8
<1> QED
  BY <1>1, <1>2

LEMMA ClientOnce ==
  ASSUME IInv, TypeOK, OnceInv, ClientStep, UNCHANGED serverVars
  PROVE  OnceInv'
<1>1. StageGoesOn /\ WritesOnce /\ RepliesKept /\ ResolvedByAnswer
  BY ClientEffect
<1>2. UNCHANGED <<buffers, handling, executed>>
  BY DEF serverVars
<1>3. TailsOnce /\ TailsToRun /\ BuffersOpen /\ Counted /\ ResolvedRan /\ HandledRan /\ AnsweredRan
  BY DEF OnceInv
<1>4. BuffersOpen' /\ HandledRan'
  BY <1>2, <1>3 DEF BuffersOpen, HandledRan
<1>5. Counted'
  BY <1>1, <1>2, <1>3 DEF Counted, Sent, StageGoesOn
<1>6. ResolvedRan'
  BY <1>1, <1>2, <1>3 DEF ResolvedRan, AnsweredRan, ResolvedByAnswer
<1>7. AnsweredRan'
  BY <1>1, <1>2, <1>3 DEF AnsweredRan, RepliesKept
<1>8. CASE toServer' = toServer
  <2>1. TailsOnce'
    BY <1>3, <1>8 DEF TailsOnce, TailAt
  <2>2. TailsToRun'
    <3> SUFFICES ASSUME NEW c \in Conns, NEW i \in 1..Len(toServer[c]), TailAt(c, i)
                 PROVE  executed'[toServer[c][i].id] = 0 /\ stage'[toServer[c][i].id] \notin {"unsent", "connecting"}
      BY <1>8 DEF TailsToRun, TailAt, Sent
    <3>1. toServer[c][i].id \in Requests
      BY UnderWayIds
    <3> QED
      BY <1>1, <1>2, <1>3, <1>8, <3>1 DEF TailsToRun, StageGoesOn, Sent
  <2> QED
    BY <1>4, <1>5, <1>6, <1>7, <2>1, <2>2 DEF OnceInv
<1>9. ASSUME NEW c \in Conns, NEW r \in Requests, WritesTo(c, r), ~Sent(r), stage'[r] = "waiting"
      PROVE  OnceInv'
  <2>0. \A d \in Conns : \A i \in 1..Len(toServer'[d]) : toServer'[d][i].part = "tail" =>
          \/ i \in 1..Len(toServer[d]) /\ toServer'[d][i] = toServer[d][i]
          \/ d = c /\ i = Len(toServer[c]) + Len(Message(r)) /\ toServer'[d][i].id = r
    BY <1>9, WrittenIs
  <2>1. \A d \in Conns : \A i \in 1..Len(toServer'[d]) : toServer'[d][i].part = "tail" =>
          \/ /\ i \in 1..Len(toServer[d]) /\ toServer'[d][i] = toServer[d][i]
             /\ toServer[d][i].id # r
          \/ d = c /\ i = Len(toServer[c]) + Len(Message(r)) /\ toServer'[d][i].id = r
    <3> SUFFICES ASSUME NEW d \in Conns, NEW i \in 1..Len(toServer'[d]), toServer'[d][i].part = "tail"
                 PROVE  \/ /\ i \in 1..Len(toServer[d]) /\ toServer'[d][i] = toServer[d][i]
                           /\ toServer[d][i].id # r
                        \/ d = c /\ i = Len(toServer[c]) + Len(Message(r)) /\ toServer'[d][i].id = r
      OBVIOUS
    <3>1. \/ i \in 1..Len(toServer[d]) /\ toServer'[d][i] = toServer[d][i]
          \/ d = c /\ i = Len(toServer[c]) + Len(Message(r)) /\ toServer'[d][i].id = r
      BY <2>0
    <3>2. ASSUME i \in 1..Len(toServer[d]), toServer'[d][i] = toServer[d][i] PROVE toServer[d][i].id # r
      <4>1. TailAt(d, i)
        BY <3>2 DEF TailAt
      <4> QED
        BY <1>3, <1>9, <3>2, <4>1 DEF TailsToRun
    <3> QED
      BY <3>1, <3>2
  <2>2. TailsOnce'
    <3> SUFFICES ASSUME NEW d \in Conns, NEW e \in Conns,
                        NEW i \in 1..Len(toServer'[d]), NEW j \in 1..Len(toServer'[e]),
                        toServer'[d][i].part = "tail", toServer'[e][j].part = "tail",
                        toServer'[d][i].id = toServer'[e][j].id
                 PROVE  d = e /\ i = j
      BY DEF TailsOnce, TailAt
    <3>1. CASE /\ i \in 1..Len(toServer[d]) /\ toServer'[d][i] = toServer[d][i]
               /\ j \in 1..Len(toServer[e]) /\ toServer'[e][j] = toServer[e][j]
      BY <1>3, <3>1 DEF TailsOnce, TailAt
    <3> QED
      BY <2>1, <3>1
  <2>3. TailsToRun'
    <3> SUFFICES ASSUME NEW d \in Conns, NEW i \in 1..Len(toServer'[d]), toServer'[d][i].part = "tail"
                 PROVE  /\ executed'[toServer'[d][i].id] = 0
                        /\ stage'[toServer'[d][i].id] \notin {"unsent", "connecting"}
      BY DEF TailsToRun, TailAt, Sent
    <3>1. CASE i \in 1..Len(toServer[d]) /\ toServer'[d][i] = toServer[d][i]
      <4>1. toServer[d][i].id \in Requests
        BY <3>1, UnderWayIds
      <4>2. executed[toServer[d][i].id] = 0 /\ Sent(toServer[d][i].id)
        BY <1>3, <3>1 DEF TailsToRun, TailAt
      <4> QED
        BY <1>1, <1>2, <3>1, <4>1, <4>2 DEF StageGoesOn, Sent
    <3>2. CASE toServer'[d][i].id = r
      <4>1. executed[r] = 0
        BY <1>3, <1>9 DEF Counted
      <4> QED
        BY <1>2, <1>9, <3>2, <4>1 DEF Sent
    <3> QED
      BY <2>1, <3>1, <3>2
  <2> QED
    BY <1>4, <1>5, <1>6, <1>7, <2>2, <2>3 DEF OnceInv
<1> QED
  BY <1>1, <1>8, <1>9 DEF WritesOnce

\* What is under way is read from its front.
ReadUpTo(k) ==
  \A c \in Conns : \A i \in 1..Len(toServer'[c]) :
    i + k[c] \in 1..Len(toServer[c]) /\ toServer'[c][i] = toServer[c][i + k[c]]

LEMMA TailsLeft ==
  ASSUME TypeOK, TypeOK', TailsOnce, NEW k \in [Conns -> Nat], ReadUpTo(k)
  PROVE  TailsOnce'
<1> SUFFICES ASSUME NEW d \in Conns, NEW e \in Conns,
                    NEW i \in 1..Len(toServer'[d]), NEW j \in 1..Len(toServer'[e]),
                    toServer'[d][i].part = "tail", toServer'[e][j].part = "tail",
                    toServer'[d][i].id = toServer'[e][j].id
             PROVE  d = e /\ i = j
  BY DEF TailsOnce, TailAt
<1>1. /\ i + k[d] \in 1..Len(toServer[d]) /\ toServer'[d][i] = toServer[d][i + k[d]]
      /\ j + k[e] \in 1..Len(toServer[e]) /\ toServer'[e][j] = toServer[e][j + k[e]]
  BY DEF ReadUpTo
<1>2. PICK a \in 1..Len(toServer[d]), b \in 1..Len(toServer[e]) : a = i + k[d] /\ b = j + k[e]
  BY <1>1
<1>3. TailAt(d, a) /\ TailAt(e, b) /\ toServer[d][a].id = toServer[e][b].id
  BY <1>1, <1>2 DEF TailAt
<1>4. d = e /\ a = b
  BY <1>3 DEF TailsOnce
<1>5. i \in Nat /\ j \in Nat /\ k[d] \in Nat
  <2>1. toServer'[d] \in Seq(Part) /\ toServer'[e] \in Seq(Part)
    BY DEF TypeOK
  <2> QED
    BY <2>1
<1> QED
  BY <1>2, <1>4, <1>5

\* The pieces left after a cut, and where they were.
LEMMA CutIs ==
  ASSUME TypeOK, NEW c \in Conns, NEW n \in 1..Len(toServer[c]),
         toServer' = [toServer EXCEPT ![c] = SubSeq(toServer[c], n + 1, Len(toServer[c]))]
  PROVE  [d \in Conns |-> IF d = c THEN n ELSE 0] \in [Conns -> Nat]
         /\ ReadUpTo([d \in Conns |-> IF d = c THEN n ELSE 0])
<1> DEFINE k == [d \in Conns |-> IF d = c THEN n ELSE 0]
           rest == SubSeq(toServer[c], n + 1, Len(toServer[c]))
<1>1. toServer[c] \in Seq(Part) /\ Len(toServer[c]) \in Nat /\ n + 1 \in 1..Len(toServer[c]) + 1 /\ n \in Nat
  BY DEF TypeOK
<1>2. /\ Len(rest) = Len(toServer[c]) - ((n + 1) - 1)
      /\ \A i \in 1..Len(toServer[c]) - ((n + 1) - 1) : rest[i] = toServer[c][(n + 1) - 1 + i]
  BY <1>1, SuffixIs
<1>3. Len(rest) = Len(toServer[c]) - n /\ \A i \in 1..Len(rest) : rest[i] = toServer[c][i + n]
  <2>1. (n + 1) - 1 = n /\ \A i \in Nat : n + i = i + n
    BY <1>1
  <2> QED
    BY <1>1, <1>2, <2>1
<1> HIDE DEF rest
<1>4. toServer' = [toServer EXCEPT ![c] = rest]
  BY DEF rest
<1>5. k \in [Conns -> Nat]
  BY <1>1
<1>6. ASSUME NEW d \in Conns, NEW i \in 1..Len(toServer'[d])
      PROVE  i + k[d] \in 1..Len(toServer[d]) /\ toServer'[d][i] = toServer[d][i + k[d]]
  <2>1. CASE d = c
    <3>1. toServer'[d] = rest /\ k[d] = n
      BY <1>4, <2>1 DEF TypeOK
    <3>2. i + n \in 1..Len(toServer[c])
      BY <1>1, <1>3, <3>1
    <3> QED
      BY <1>3, <2>1, <3>1, <3>2
  <2>2. CASE d # c
    <3>1. toServer'[d] = toServer[d] /\ k[d] = 0
      BY <1>4, <2>2 DEF TypeOK
    <3>2. Len(toServer[d]) \in Nat
      BY DEF TypeOK
    <3> QED
      BY <3>1, <3>2
  <2> QED
    BY <2>1, <2>2
<1> QED
  BY <1>5, <1>6 DEF ReadUpTo

\* Nothing new is executed: what was under way may be lost, and so may answers.
NothingRuns ==
  /\ executed' = executed /\ handling' \subseteq handling
  /\ \A c \in Conns : buffers'[c] \in {buffers[c], <<>>} /\ toServer'[c] \in {toServer[c], <<>>}
  /\ \A c \in Conns : \A i \in 1..Len(toClient'[c]) :
       \/ i \in 1..Len(toClient[c]) /\ toClient'[c][i] = toClient[c][i]
       \/ ~toClient'[c][i].success
       \/ toClient'[c][i].id \in Requests /\ executed[toClient'[c][i].id] = 1

LEMMA ExecutedKept ==
  ASSUME TypeOK, OnceInv, UNCHANGED clientVars, executed' = executed, handling' \subseteq handling,
         \A c \in Conns : buffers'[c] \in {buffers[c], <<>>},
         \A c \in Conns : \A i \in 1..Len(toClient'[c]) :
           \/ i \in 1..Len(toClient[c]) /\ toClient'[c][i] = toClient[c][i]
           \/ ~toClient'[c][i].success
           \/ toClient'[c][i].id \in Requests /\ executed[toClient'[c][i].id] = 1
  PROVE  BuffersOpen' /\ Counted' /\ ResolvedRan' /\ HandledRan' /\ AnsweredRan'
<1>1. stage' = stage
  BY DEF clientVars
<1>2. BuffersOpen'
  BY DEF OnceInv, BuffersOpen
<1>3. Counted' /\ ResolvedRan' /\ HandledRan'
  BY <1>1 DEF OnceInv, Counted, ResolvedRan, HandledRan, Sent
<1>4. AnsweredRan'
  BY DEF OnceInv, AnsweredRan
<1> QED
  BY <1>2, <1>3, <1>4

LEMMA QuietOnce ==
  ASSUME TypeOK, OnceInv, UNCHANGED clientVars, NothingRuns
  PROVE  OnceInv'
<1>1. stage' = stage
  BY DEF clientVars
<1>2. \A c \in Conns : \A i \in 1..Len(toServer'[c]) : toServer'[c] = toServer[c]
  BY DEF NothingRuns
<1>3. TailsOnce'
  BY <1>2 DEF OnceInv, TailsOnce, TailAt
<1>4. TailsToRun'
  BY <1>1, <1>2 DEF OnceInv, NothingRuns, TailsToRun, TailAt, Sent
<1> QED
  BY <1>3, <1>4, ExecutedKept DEF NothingRuns, OnceInv

\* A message ends in what is put together where it ended on its way.
LEMMA CombinedTails ==
  ASSUME TypeOK, BuffersOpen, NEW c \in Conns, NEW n \in 1..Len(toServer[c]),
         NEW i \in 1..Len(Combined(c, n)), Combined(c, n)[i].part = "tail"
  PROVE  \E m \in 1..n : TailAt(c, m) /\ toServer[c][m].id = Combined(c, n)[i].id
<1>1. /\ buffers[c] \in Seq(Part) /\ toServer[c] \in Seq(Part)
      /\ Len(buffers[c]) \in Nat /\ Len(toServer[c]) \in Nat
  BY DEF TypeOK
<1> DEFINE s == Combined(c, n)
<1>2. /\ Len(s) = Len(buffers[c]) + n
      /\ \A j \in 1..Len(buffers[c]) : s[j] = buffers[c][j]
      /\ \A j \in 1..n :
           /\ s[Len(buffers[c]) + j].id = toServer[c][j].id
           /\ \/ s[Len(buffers[c]) + j].part = toServer[c][j].part
              \/ /\ s[Len(buffers[c]) + j].part = "broken"
                 /\ toServer[c][j].part # "tail" /\ toServer[c][j].id \in NonAscii
  BY <1>1, CombinedIs, ZenonT(60) DEF Combined
<1>3. s[i].part = "tail" /\ i \in 1..Len(s)
  OBVIOUS
<1> HIDE DEF s
<1>4. ~(i <= Len(buffers[c]))
  BY <1>1, <1>2, <1>3 DEF BuffersOpen
<1>5. PICK m \in 1..n : Len(buffers[c]) + m = i
  <2>1. i - Len(buffers[c]) \in 1..n /\ Len(buffers[c]) + (i - Len(buffers[c])) = i
    BY <1>1, <1>2, <1>3, <1>4
  <2> QED
    BY <2>1
<1>6. s[i].id = toServer[c][m].id /\ toServer[c][m].part = "tail"
  BY <1>2, <1>3, <1>5
<1>7. m \in 1..Len(toServer[c])
  BY <1>1
<1> QED
  BY <1>6, <1>7 DEF TailAt, s

LEMMA HandledOnce ==
  ASSUME TypeOK, TypeOK', OnceInv, UNCHANGED clientVars,
         NEW c \in Conns, NEW n \in 1..Len(toServer[c]),
         toServer' = [toServer EXCEPT ![c] = SubSeq(toServer[c], n + 1, Len(toServer[c]))],
         NEW refused, NEW failed, HandleMessages(c, Combined(c, n), refused, failed),
         buffers' = [buffers EXCEPT ![c] = Incomplete(Combined(c, n))]
  PROVE  OnceInv'
<1>0. /\ stage' = stage
      /\ TailsOnce /\ TailsToRun /\ BuffersOpen /\ Counted /\ ResolvedRan /\ HandledRan /\ AnsweredRan
  BY DEF clientVars, OnceInv
<1> DEFINE k == [d \in Conns |-> IF d = c THEN n ELSE 0]
<1>1. k \in [Conns -> Nat] /\ ReadUpTo(k)
  BY CutIs
<1>2. TailsOnce'
  BY <1>0, <1>1, TailsLeft
<1>3. PICK s \in Seq(Part) : s = Combined(c, n)
  BY CombinedTyped
<1>4. PICK started \in SUBSET {i \in 1..Len(s) : s[i].part = "tail"} :
        /\ executed' = [r \in Requests |->
             executed[r] + (IF \E i \in started : s[i].id = r THEN 1 ELSE 0)]
        /\ handling' = handling \cup {<<c, s[i].id>> : i \in {j \in started : s[j].id \in Slow}}
        /\ \A d \in Conns : \A i \in 1..Len(toClient'[d]) :
             \/ i \in 1..Len(toClient[d]) /\ toClient'[d][i] = toClient[d][i]
             \/ toClient'[d][i].success => \E j \in started : toClient'[d][i].id = s[j].id
  <2>1. HandleMessages(c, s, refused, failed)
    BY <1>3
  <2> QED
    BY <2>1, MessagesHandled
<1>5. \A i \in started : \E m \in 1..n : TailAt(c, m) /\ toServer[c][m].id = s[i].id
  BY <1>0, <1>3, CombinedTails
<1>6. \A i \in started : s[i].id \in Requests /\ executed[s[i].id] = 0 /\ Sent(s[i].id)
  <2> SUFFICES ASSUME NEW i \in started
               PROVE  s[i].id \in Requests /\ executed[s[i].id] = 0 /\ Sent(s[i].id)
    OBVIOUS
  <2>1. PICK m \in 1..n : TailAt(c, m) /\ toServer[c][m].id = s[i].id
    BY <1>5
  <2>2. m \in 1..Len(toServer[c])
    BY <2>1 DEF TailAt
  <2> QED
    BY <1>0, <2>1, <2>2, UnderWayIds DEF TailsToRun
<1>7. \A r \in Requests : executed'[r] = IF \E i \in started : s[i].id = r THEN 1 ELSE executed[r]
  <2> SUFFICES ASSUME NEW r \in Requests
               PROVE  executed'[r] = IF \E i \in started : s[i].id = r THEN 1 ELSE executed[r]
    OBVIOUS
  <2>1. CASE \E i \in started : s[i].id = r
    BY <1>4, <1>6, <2>1
  <2>2. CASE ~\E i \in started : s[i].id = r
    <3>1. executed'[r] = executed[r] + 0 /\ executed[r] \in Nat
      BY <1>4, <2>2 DEF TypeOK
    <3> QED
      BY <2>2, <3>1
  <2> QED
    BY <2>1, <2>2
<1>8. \A r \in Requests : executed[r] = 1 => executed'[r] = 1
  BY <1>7
<1>9. TailsToRun'
  <2> SUFFICES ASSUME NEW d \in Conns, NEW j \in 1..Len(toServer'[d]), toServer'[d][j].part = "tail"
               PROVE  /\ executed'[toServer'[d][j].id] = 0
                      /\ stage'[toServer'[d][j].id] \notin {"unsent", "connecting"}
    BY DEF TailsToRun, TailAt, Sent
  <2>1. j + k[d] \in 1..Len(toServer[d]) /\ toServer'[d][j] = toServer[d][j + k[d]]
    BY <1>1 DEF ReadUpTo
  <2>2. PICK a \in 1..Len(toServer[d]) : a = j + k[d]
    BY <2>1
  <2>3. TailAt(d, a) /\ toServer'[d][j] = toServer[d][a]
    BY <2>1, <2>2 DEF TailAt
  <2>4. toServer[d][a].id \in Requests /\ executed[toServer[d][a].id] = 0 /\ Sent(toServer[d][a].id)
    BY <1>0, <2>3, UnderWayIds DEF TailsToRun
  <2>5. ASSUME NEW i \in started, s[i].id = toServer[d][a].id PROVE FALSE
    <3>1. PICK m \in 1..n : TailAt(c, m) /\ toServer[c][m].id = s[i].id
      BY <1>5
    <3>2. m \in 1..Len(toServer[c])
      BY <3>1 DEF TailAt
    <3>3. c = d /\ m = a
      BY <1>0, <2>3, <2>5, <3>1, <3>2 DEF TailsOnce
    <3>4. k[d] = n
      BY <3>3
    <3>5. j \in Nat /\ j >= 1 /\ n \in Nat
      <4>1. Len(toServer'[d]) \in Nat /\ Len(toServer[c]) \in Nat
        BY DEF TypeOK
      <4> QED
        BY <4>1
    <3> QED
      BY <2>2, <3>3, <3>4, <3>5
  <2> QED
    BY <1>0, <1>7, <2>3, <2>4, <2>5 DEF Sent
<1>10. Counted'
  BY <1>0, <1>6, <1>7 DEF Counted, Sent
<1>11. ResolvedRan'
  BY <1>0, <1>8 DEF ResolvedRan
<1>12. HandledRan'
  <2> SUFFICES ASSUME NEW h \in handling' PROVE executed'[h[2]] = 1
    BY DEF HandledRan
  <2>1. CASE h \in handling
    BY <1>0, <1>8, <2>1 DEF HandledRan, TypeOK
  <2>2. ASSUME NEW i \in started, h = <<c, s[i].id>> PROVE executed'[h[2]] = 1
    BY <1>6, <1>7, <2>2
  <2> QED
    BY <1>4, <2>1, <2>2
<1>13. AnsweredRan'
  <2> SUFFICES ASSUME NEW d \in Conns, NEW i \in 1..Len(toClient'[d]), toClient'[d][i].success
               PROVE  toClient'[d][i].id \in Requests /\ executed'[toClient'[d][i].id] = 1
    BY DEF AnsweredRan
  <2>1. CASE i \in 1..Len(toClient[d]) /\ toClient'[d][i] = toClient[d][i]
    BY <1>0, <1>8, <2>1 DEF AnsweredRan
  <2>2. ASSUME NEW j \in started, toClient'[d][i].id = s[j].id
        PROVE  toClient'[d][i].id \in Requests /\ executed'[toClient'[d][i].id] = 1
    BY <1>6, <1>7, <2>2
  <2> QED
    BY <1>4, <2>1, <2>2
<1>14. BuffersOpen'
  <2> SUFFICES ASSUME NEW d \in Conns, NEW i \in 1..Len(buffers'[d]) PROVE buffers'[d][i].part # "tail"
    BY DEF BuffersOpen
  <2>1. CASE d # c
    BY <1>0, <2>1 DEF BuffersOpen, TypeOK
  <2>2. CASE d = c
    <3>1. buffers'[d] = Incomplete(s)
      BY <1>3, <2>2 DEF TypeOK
    <3>2. PICK from \in 1..Len(s) + 1 :
            /\ Incomplete(s) = SubSeq(s, from, Len(s))
            /\ \A j \in from..Len(s) : s[j].part # "tail"
      BY IncompleteIs
    <3>3. /\ Len(SubSeq(s, from, Len(s))) = Len(s) - (from - 1)
          /\ \A j \in 1..Len(s) - (from - 1) : SubSeq(s, from, Len(s))[j] = s[from - 1 + j]
      BY SuffixIs
    <3>4. i \in 1..Len(s) - (from - 1) /\ buffers'[d][i] = s[from - 1 + i]
      BY <3>1, <3>2, <3>3
    <3>5. from - 1 + i \in from..Len(s)
      BY <3>4
    <3> QED
      BY <3>2, <3>4, <3>5
  <2> QED
    BY <2>1, <2>2
<1> QED
  BY <1>2, <1>9, <1>10, <1>11, <1>12, <1>13, <1>14 DEF OnceInv

LEMMA ServerOnce ==
  ASSUME TypeOK, TypeOK', OnceInv, ServerStep, UNCHANGED clientVars
  PROVE  OnceInv'
<1>1. ASSUME NEW c \in Conns, NEW n \in 1..Len(toServer[c]), HandleClientMessage(c, n) PROVE OnceInv'
  <2>1. toServer' = [toServer EXCEPT ![c] = SubSeq(toServer[c], n + 1, Len(toServer[c]))]
    BY <1>1, ClientMessageIs
  <2>2. CASE /\ Send(c, <<Answer(None, FALSE)>>)
             /\ buffers' = [buffers EXCEPT ![c] = <<>>]
             /\ UNCHANGED <<handling, executed>>
    <3>1. \A d \in Conns : \A i \in 1..Len(toClient'[d]) :
            \/ i \in 1..Len(toClient[d]) /\ toClient'[d][i] = toClient[d][i]
            \/ ~toClient'[d][i].success
      BY <2>2, DiscardedIs
    <3>2. \A d \in Conns : buffers'[d] \in {buffers[d], <<>>}
      BY <2>2 DEF TypeOK
    <3>3. BuffersOpen' /\ Counted' /\ ResolvedRan' /\ HandledRan' /\ AnsweredRan'
      BY <2>2, <3>1, <3>2, ExecutedKept
    <3> DEFINE k == [d \in Conns |-> IF d = c THEN n ELSE 0]
    <3>4. k \in [Conns -> Nat] /\ ReadUpTo(k)
      BY <2>1, CutIs
    <3> HIDE DEF k
    <3>5. TailsOnce'
      BY <3>4, TailsLeft DEF OnceInv
    <3>6. TailsToRun'
      <4> SUFFICES ASSUME NEW d \in Conns, NEW j \in 1..Len(toServer'[d]), toServer'[d][j].part = "tail"
                   PROVE  /\ executed'[toServer'[d][j].id] = 0
                          /\ stage'[toServer'[d][j].id] \notin {"unsent", "connecting"}
        BY DEF TailsToRun, TailAt, Sent
      <4>1. PICK a \in 1..Len(toServer[d]) : toServer'[d][j] = toServer[d][a]
        BY <3>4 DEF ReadUpTo
      <4>2. TailAt(d, a)
        BY <4>1 DEF TailAt
      <4> QED
        BY <2>2, <4>1, <4>2 DEF OnceInv, TailsToRun, Sent, clientVars
    <3> QED
      BY <3>3, <3>5, <3>6 DEF OnceInv
  <2>3. ASSUME NEW refused, NEW failed, HandleMessages(c, Combined(c, n), refused, failed),
               buffers' = [buffers EXCEPT ![c] = Incomplete(Combined(c, n))]
        PROVE  OnceInv'
    BY <2>1, <2>3, HandledOnce
  <2> QED
    BY <1>1, <2>2, <2>3, ClientMessageIs
<1>2. ASSUME NEW c \in Conns, ClientGone(c) PROVE OnceInv'
  <2>1. NothingRuns
    BY <1>2 DEF ClientGone, NothingRuns, TypeOK
  <2> QED
    BY <2>1, QuietOnce
<1>3. ASSUME NEW h \in handling, NEW success \in BOOLEAN, SendResponse(h[1], h[2], success) PROVE OnceInv'
  <2>1. h[1] \in Conns /\ h[2] \in Requests /\ executed[h[2]] = 1
    BY DEF TypeOK, OnceInv, HandledRan
  <2>2. \A d \in Conns : \A i \in 1..Len(toClient'[d]) :
          \/ i \in 1..Len(toClient[d]) /\ toClient'[d][i] = toClient[d][i]
          \/ toClient'[d][i].id = h[2]
    BY <1>3, <2>1, ResponseIs DEF SendResponse
  <2>3. NothingRuns
    BY <1>3, <2>1, <2>2 DEF SendResponse, NothingRuns
  <2> QED
    BY <2>3, QuietOnce
<1>4. CASE GracefulShutdown \/ DaemonExits \/ DaemonStarts
  <2>1. NothingRuns
    BY <1>4 DEF GracefulShutdown, DaemonExits, DaemonStarts, NothingRuns, serverVars, TypeOK
  <2> QED
    BY <2>1, QuietOnce
<1> QED
  BY <1>1, <1>2, <1>3, <1>4 DEF ServerStep

LEMMA InitOnce == Init => OnceInv
BY DEF Init, SocketInit, ClientInit, ServerInit, OnceInv, TailsOnce, TailsToRun, TailAt,
       BuffersOpen, Counted, ResolvedRan, HandledRan, AnsweredRan, Sent

LEMMA NextOnce == IInv /\ TypeOK /\ TypeOK' /\ OnceInv /\ [Next]_vars => OnceInv'
<1> SUFFICES ASSUME IInv, TypeOK, TypeOK', OnceInv, [Next]_vars PROVE OnceInv'
  OBVIOUS
<1>1. CASE UNCHANGED vars
  <2>1. UNCHANGED clientVars /\ NothingRuns
    BY <1>1 DEF vars, socketVars, clientVars, serverVars, NothingRuns
  <2> QED
    BY <2>1, QuietOnce
<1> QED
  BY <1>1, ClientOnce, ServerOnce DEF Next

\* However messages are cut, connections lost and replaced and the daemon
\* restarted, no request is executed twice, and no call is resolved whose request
\* has not been executed; for any number of calls and connections.
THEOREM RequestsRunOnce == Spec => []ExecutedOnce
<1>1. Init => IInv /\ TypeOK /\ OnceInv
  BY InitIInv, InitTypeOK, InitOnce
<1>2. IInv /\ TypeOK /\ OnceInv /\ [Next]_vars => (IInv /\ TypeOK /\ OnceInv)'
  BY NextIInv, NextTypeOK, NextOnce
<1>3. OnceInv => ExecutedOnce
  BY DEF OnceInv, Counted, ResolvedRan, ExecutedOnce
<1> QED
  BY <1>1, <1>2, <1>3, PTL DEF Spec

-----------------------------------------------------------------------------
(* What is taken for a message is the message: in what is kept and what is *)
(* under way, an end follows the rest of its message.                      *)

Whole(s) ==
  \A i \in 1..Len(s) :
    /\ s[i].part = "tail" => i > 1 /\ s[i - 1].id = s[i].id /\ s[i - 1].part # "tail"
    /\ s[i].part = "broken" => s[i].id \in NonAscii

\* Up to the connections whose buffer was discarded.
StreamsWhole == \A c \in Conns \ oversized : Whole(buffers[c] \o toServer[c])

WholeInv == StreamsWhole /\ MessagesWhole

LEMMA WholeConcat ==
  ASSUME NEW s \in Seq(Part), NEW t \in Seq(Part), Whole(s), Whole(t)
  PROVE  Whole(s \o t)
<1> DEFINE all == s \o t
<1>1. /\ Len(s) \in Nat /\ Len(t) \in Nat /\ Len(all) = Len(s) + Len(t)
      /\ \A i \in 1..Len(s) + Len(t) : all[i] = IF i <= Len(s) THEN s[i] ELSE t[i - Len(s)]
  BY ConcatProperties
<1> HIDE DEF all
<1>2. ASSUME NEW i \in 1..Len(all)
      PROVE  /\ all[i].part = "tail" =>
                  i > 1 /\ all[i - 1].id = all[i].id /\ all[i - 1].part # "tail"
             /\ all[i].part = "broken" => all[i].id \in NonAscii
  <2>0. i \in 1..Len(s) + Len(t)
    BY <1>1
  <2>1. CASE i <= Len(s)
    <3>1. i \in 1..Len(s) /\ all[i] = s[i] /\ (i > 1 => all[i - 1] = s[i - 1])
      <4>1. i > 1 => i - 1 \in 1..Len(s) + Len(t) /\ i - 1 <= Len(s)
        BY <1>1, <2>0, <2>1
      <4> QED
        BY <1>1, <2>0, <2>1, <4>1
    <3> QED
      BY <3>1 DEF Whole
  <2>2. CASE ~(i <= Len(s))
    <3>1. PICK j \in 1..Len(t) : j = i - Len(s)
      BY <1>1, <2>0, <2>2
    <3>2. all[i] = t[j]
      BY <1>1, <2>0, <2>2, <3>1
    <3>3. j > 1 => all[i - 1] = t[j - 1]
      <4>1. j > 1 => i - 1 \in 1..Len(s) + Len(t) /\ ~(i - 1 <= Len(s)) /\ (i - 1) - Len(s) = j - 1
        BY <1>1, <2>0, <3>1
      <4> QED
        BY <1>1, <4>1
    <3>4. i > 1 \/ j = 1
      BY <1>1, <2>0, <3>1
    <3> QED
      BY <3>2, <3>3, <3>4 DEF Whole
  <2> QED
    BY <2>1, <2>2
<1>3. Whole(all)
  BY <1>2 DEF Whole
<1> QED
  BY <1>3 DEF all

\* t is s from its k-th piece on.
From(s, k, t) == Len(t) = Len(s) - (k - 1) /\ \A i \in 1..Len(t) : t[i] = s[k - 1 + i]

LEMMA WholeFrom ==
  ASSUME NEW s \in Seq(Part), NEW t \in Seq(Part), NEW k \in 1..Len(s) + 1,
         k > 1 => s[k - 1].part = "tail", From(s, k, t), Whole(s)
  PROVE  Whole(t)
<1>0. Len(s) \in Nat /\ Len(t) \in Nat
  OBVIOUS
<1> SUFFICES ASSUME NEW i \in 1..Len(t)
             PROVE  /\ t[i].part = "tail" => i > 1 /\ t[i - 1].id = t[i].id /\ t[i - 1].part # "tail"
                    /\ t[i].part = "broken" => t[i].id \in NonAscii
  BY DEF Whole
<1>1. PICK j \in 1..Len(s) : j = k - 1 + i
  BY <1>0 DEF From
<1>2. t[i] = s[j]
  BY <1>1 DEF From
<1>3. CASE i > 1
  <2>1. i - 1 \in 1..Len(t) /\ k - 1 + (i - 1) = j - 1
    BY <1>0, <1>1, <1>3
  <2>2. t[i - 1] = s[j - 1]
    BY <2>1 DEF From
  <2> QED
    BY <1>2, <1>3, <2>2 DEF Whole
<1>4. CASE i = 1
  <2>1. j = k
    BY <1>1, <1>4
  <2>2. s[j].part # "tail"
    BY <2>1 DEF Whole
  <2> QED
    BY <1>2, <2>2 DEF Whole
<1> QED
  BY <1>0, <1>3, <1>4

\* t is s with characters broken, and it may end earlier.
Decoded(s, t) ==
  /\ Len(t) <= Len(s)
  /\ \A i \in 1..Len(t) :
       /\ t[i].id = s[i].id
       /\ t[i].part = s[i].part \/ (t[i].part = "broken" /\ s[i].part # "tail" /\ s[i].id \in NonAscii)

LEMMA WholeDecoded ==
  ASSUME NEW s \in Seq(Part), NEW t \in Seq(Part), Decoded(s, t), Whole(s)
  PROVE  Whole(t)
<1>0. Len(s) \in Nat /\ Len(t) \in Nat
  OBVIOUS
<1> SUFFICES ASSUME NEW i \in 1..Len(t)
             PROVE  /\ t[i].part = "tail" => i > 1 /\ t[i - 1].id = t[i].id /\ t[i - 1].part # "tail"
                    /\ t[i].part = "broken" => t[i].id \in NonAscii
  BY DEF Whole
<1>1. i \in 1..Len(s)
  BY <1>0 DEF Decoded
<1>2. t[i].part = "broken" => t[i].id \in NonAscii
  BY <1>1 DEF Decoded, Whole
<1>3. ASSUME t[i].part = "tail" PROVE i > 1 /\ t[i - 1].id = t[i].id /\ t[i - 1].part # "tail"
  <2>1. s[i].part = "tail" /\ t[i].id = s[i].id
    BY <1>3 DEF Decoded
  <2>2. i > 1 /\ s[i - 1].id = s[i].id /\ s[i - 1].part # "tail"
    BY <1>1, <2>1 DEF Whole
  <2>3. i - 1 \in 1..Len(t)
    BY <1>0, <2>2
  <2>4. t[i - 1].id = s[i - 1].id /\ t[i - 1].part # "tail"
    BY <2>2, <2>3 DEF Decoded
  <2> QED
    BY <2>1, <2>2, <2>4
<1> QED
  BY <1>2, <1>3

LEMMA MessageWhole ==
  ASSUME NEW r \in Requests
  PROVE  Whole(Message(r))
<1>1. PICK m \in Seq(Part) : m = Message(r)
  BY MessageParts
<1>2. /\ Len(m) \in {2, 3}
      /\ \A i \in 1..Len(m) :
           m[i].id = r /\ m[i].part \in {"head", "body", "tail"} /\ (m[i].part = "tail" <=> i = Len(m))
  BY <1>1, MessageParts
<1>3. ASSUME NEW i \in 1..Len(m)
      PROVE  /\ m[i].part = "tail" => i > 1 /\ m[i - 1].id = m[i].id /\ m[i - 1].part # "tail"
             /\ m[i].part = "broken" => m[i].id \in NonAscii
  <2>1. m[i].part # "broken"
    BY <1>2
  <2>2. ASSUME m[i].part = "tail" PROVE i > 1 /\ i - 1 \in 1..Len(m) /\ i - 1 # Len(m)
    BY SMTT(30), <1>2, <2>2
  <2> QED
    BY <1>2, <2>1, <2>2
<1> QED
  BY <1>1, <1>3 DEF Whole

LEMMA StreamTyped ==
  ASSUME TypeOK, NEW c \in Conns
  PROVE  /\ buffers[c] \in Seq(Part) /\ toServer[c] \in Seq(Part)
         /\ buffers[c] \o toServer[c] \in Seq(Part)
BY ConcatProperties DEF TypeOK

LEMMA ClientWhole ==
  ASSUME IInv, TypeOK, WholeInv, ClientStep, UNCHANGED serverVars
  PROVE  WholeInv'
<1>1. UNCHANGED <<buffers, garbled, oversized>> /\ WritesOnce
  BY ClientEffect DEF serverVars
<1>2. MessagesWhole'
  BY <1>1 DEF WholeInv, MessagesWhole
<1>3. CASE toServer' = toServer
  BY <1>1, <1>2, <1>3 DEF WholeInv, StreamsWhole
<1>4. ASSUME NEW c \in Conns, NEW r \in Requests, WritesTo(c, r) PROVE StreamsWhole'
  <2> SUFFICES ASSUME NEW d \in Conns \ oversized PROVE Whole(buffers[d] \o toServer'[d])
    BY <1>1 DEF StreamsWhole
  <2>1. Whole(buffers[d] \o toServer[d])
    BY DEF WholeInv, StreamsWhole
  <2>2. CASE d # c
    <3>1. toServer'[d] = toServer[d]
      BY <1>4, <2>2 DEF WritesTo, TypeOK
    <3> QED
      BY <2>1, <3>1
  <2>3. CASE d = c
    <3>1. toServer'[d] = toServer[d] \o Message(r)
      BY <1>4, <2>3 DEF WritesTo, TypeOK
    <3>2. Message(r) \in Seq(Part) /\ Whole(Message(r))
      BY MessageParts, MessageWhole
    <3>3. buffers[d] \o toServer'[d] = (buffers[d] \o toServer[d]) \o Message(r)
      <4>1. PICK a \in Seq(Part), b \in Seq(Part), m \in Seq(Part) :
              a = buffers[d] /\ b = toServer[d] /\ m = Message(r)
        BY <3>2, StreamTyped
      <4>2. a \o (b \o m) = (a \o b) \o m
        BY ConcatAssociative
      <4> QED
        BY <3>1, <4>1, <4>2
    <3> QED
      BY <2>1, <3>2, <3>3, StreamTyped, WholeConcat
  <2> QED
    BY <2>2, <2>3
<1> QED
  BY <1>1, <1>2, <1>3, <1>4 DEF WritesOnce, WholeInv

\* What is put together, alone and with the pieces that have not been read.
LEMMA CombinedWhole ==
  ASSUME TypeOK, NEW c \in Conns, NEW n \in 1..Len(toServer[c]), Whole(buffers[c] \o toServer[c])
  PROVE  LET rest == SubSeq(toServer[c], n + 1, Len(toServer[c]))
         IN Whole(Combined(c, n)) /\ Whole(Combined(c, n) \o rest)
<1> DEFINE rest == SubSeq(toServer[c], n + 1, Len(toServer[c]))
           stream == buffers[c] \o toServer[c]
           s == Combined(c, n)
           all == s \o rest
<1>1. PICK kept \in Seq(Part), under \in Seq(Part) : kept = buffers[c] /\ under = toServer[c]
  BY StreamTyped
<1>2. Len(kept) \in Nat /\ Len(under) \in Nat /\ n \in 1..Len(under) /\ n + 1 \in 1..Len(under) + 1
  BY <1>1
<1>3. /\ stream \in Seq(Part) /\ Len(stream) = Len(kept) + Len(under)
      /\ \A i \in 1..Len(kept) + Len(under) : stream[i] = IF i <= Len(kept) THEN kept[i] ELSE under[i - Len(kept)]
  BY ZenonT(60), <1>1, ConcatProperties
<1>4. /\ s \in Seq(Part) /\ Len(s) = Len(kept) + n
      /\ \A i \in 1..Len(kept) : s[i] = kept[i]
      /\ \A i \in 1..n :
           /\ s[Len(kept) + i].id = under[i].id
           /\ \/ s[Len(kept) + i].part = under[i].part
              \/ /\ s[Len(kept) + i].part = "broken"
                 /\ under[i].part # "tail" /\ under[i].id \in NonAscii
  <2>1. s = kept \o Decode(SubSeq(under, 1, n))
    BY <1>1 DEF Combined
  <2> DEFINE q == kept \o Decode(SubSeq(under, 1, n))
  <2>2. /\ q \in Seq(Part) /\ Len(q) = Len(kept) + n
        /\ \A i \in 1..Len(kept) : q[i] = kept[i]
        /\ \A i \in 1..n :
             /\ q[Len(kept) + i].id = under[i].id
             /\ \/ q[Len(kept) + i].part = under[i].part
                \/ /\ q[Len(kept) + i].part = "broken"
                   /\ under[i].part # "tail" /\ under[i].id \in NonAscii
    BY <1>2, CombinedIs
  <2> HIDE DEF s
  <2> QED
    BY <2>1, <2>2
<1>5. /\ rest \in Seq(Part) /\ Len(rest) = Len(under) - n
      /\ \A i \in 1..Len(under) - n : rest[i] = under[n + i]
  <2>1. /\ SubSeq(under, n + 1, Len(under)) \in Seq(Part)
        /\ Len(SubSeq(under, n + 1, Len(under))) = Len(under) - ((n + 1) - 1)
        /\ \A i \in 1..Len(under) - ((n + 1) - 1) : SubSeq(under, n + 1, Len(under))[i] = under[(n + 1) - 1 + i]
    BY <1>2, SuffixIs
  <2>2. (n + 1) - 1 = n
    BY <1>2
  <2> QED
    BY <1>1, <2>1, <2>2
<1>6. Whole(stream)
  OBVIOUS
<1> HIDE DEF rest, stream, s
<1>7. /\ all \in Seq(Part) /\ Len(all) = Len(s) + Len(rest)
      /\ \A i \in 1..Len(s) + Len(rest) : all[i] = IF i <= Len(s) THEN s[i] ELSE rest[i - Len(s)]
  BY ZenonT(60), <1>4, <1>5, ConcatProperties
<1> HIDE DEF all
<1>8. ASSUME NEW i \in 1..Len(s)
      PROVE  /\ s[i].id = stream[i].id
             /\ \/ s[i].part = stream[i].part
                \/ s[i].part = "broken" /\ stream[i].part # "tail" /\ stream[i].id \in NonAscii
  <2>1. i \in 1..Len(kept) + n /\ i \in 1..Len(kept) + Len(under)
    BY <1>2, <1>4
  <2>2. CASE i <= Len(kept)
    <3>1. i \in 1..Len(kept)
      BY <1>2, <2>1, <2>2
    <3>2. s[i] = kept[i] /\ stream[i] = kept[i]
      BY <1>3, <1>4, <2>1, <3>1
    <3> QED
      BY <3>2
  <2>3. CASE ~(i <= Len(kept))
    <3>1. PICK j \in 1..n : j = i - Len(kept) /\ i = Len(kept) + j
      BY <1>2, <2>1, <2>3
    <3>2. stream[i] = under[j]
      BY <1>3, <2>1, <2>3, <3>1
    <3> QED
      BY <1>4, <3>1, <3>2
  <2> QED
    BY <2>2, <2>3
<1>9. Decoded(stream, s)
  BY <1>2, <1>3, <1>4, <1>8 DEF Decoded
<1>10. ASSUME NEW i \in 1..Len(all), ~(i <= Len(s)) PROVE all[i] = stream[i]
  <2>1. i \in 1..Len(kept) + Len(under) /\ ~(i <= Len(kept)) /\ i \in 1..Len(s) + Len(rest)
    BY <1>2, <1>4, <1>5, <1>7, <1>10
  <2>2. PICK j \in 1..Len(under) - n : j = i - Len(s) /\ n + j = i - Len(kept)
    <3>1. i - Len(s) \in 1..Len(under) - n
      BY <1>2, <1>4, <1>5, <1>10, <2>1
    <3>2. n + (i - Len(s)) = i - Len(kept)
      BY <1>2, <1>4, <2>1
    <3> QED
      BY <3>1, <3>2
  <2> QED
    BY <1>3, <1>5, <1>7, <1>10, <2>1, <2>2
<1>11. ASSUME NEW i \in 1..Len(all), i <= Len(s) PROVE all[i] = s[i] /\ i \in 1..Len(s)
  BY <1>4, <1>5, <1>7, <1>11
<1>12. Len(all) = Len(stream)
  BY <1>2, <1>3, <1>4, <1>5, <1>7
<1>13. Decoded(stream, all)
  BY <1>8, <1>10, <1>11, <1>12, <1>3 DEF Decoded
<1>14. Whole(s) /\ Whole(all)
  BY <1>3, <1>4, <1>6, <1>7, <1>9, <1>13, WholeDecoded
<1> QED
  BY <1>14 DEF all, s, rest

\* What is kept and what has not been read begin with a message.
LEMMA LeftWhole ==
  ASSUME NEW s \in Seq(Part), NEW rest \in Seq(Part), Whole(s \o rest)
  PROVE  Whole(Incomplete(s) \o rest)
<1>1. PICK k \in 1..Len(s) + 1 :
        Incomplete(s) = SubSeq(s, k, Len(s)) /\ (k > 1 => s[k - 1].part = "tail")
  BY IncompleteIs
<1>2. Len(s) \in Nat /\ Len(rest) \in Nat /\ k \in 1..Len(s) + 1
  OBVIOUS
<1> DEFINE left == SubSeq(s, k, Len(s))
           all == s \o rest
           t == left \o rest
<1>3. /\ left \in Seq(Part) /\ Len(left) = Len(s) - (k - 1)
      /\ \A i \in 1..Len(s) - (k - 1) : left[i] = s[k - 1 + i]
  BY SuffixIs
<1>4. /\ all \in Seq(Part) /\ Len(all) = Len(s) + Len(rest)
      /\ \A i \in 1..Len(s) + Len(rest) : all[i] = IF i <= Len(s) THEN s[i] ELSE rest[i - Len(s)]
  BY ConcatProperties
<1>5. Whole(all) /\ Incomplete(s) = left
  BY <1>1
<1> HIDE DEF left, all
<1>6. /\ t \in Seq(Part) /\ Len(t) = Len(left) + Len(rest)
      /\ \A i \in 1..Len(left) + Len(rest) : t[i] = IF i <= Len(left) THEN left[i] ELSE rest[i - Len(left)]
  BY <1>3, ConcatProperties
<1> HIDE DEF t
<1>7. Len(t) = Len(all) - (k - 1) /\ k \in 1..Len(all) + 1
  BY <1>2, <1>3, <1>4, <1>6
<1>8. ASSUME NEW i \in 1..Len(t) PROVE t[i] = all[k - 1 + i]
  <2>1. k - 1 + i \in 1..Len(s) + Len(rest) /\ i \in 1..Len(left) + Len(rest)
    BY <1>2, <1>3, <1>6
  <2>2. CASE i <= Len(left)
    <3>1. i \in 1..Len(s) - (k - 1) /\ k - 1 + i <= Len(s)
      BY <1>2, <1>3, <2>1, <2>2
    <3>2. t[i] = left[i] /\ all[k - 1 + i] = s[k - 1 + i]
      BY <1>4, <1>6, <2>1, <2>2, <3>1
    <3> QED
      BY <1>3, <3>1, <3>2
  <2>3. CASE ~(i <= Len(left))
    <3>1. ~(k - 1 + i <= Len(s)) /\ (k - 1 + i) - Len(s) = i - Len(left)
      BY <1>2, <1>3, <2>1, <2>3
    <3> QED
      BY <1>4, <1>6, <2>1, <2>3, <3>1
  <2> QED
    BY <2>2, <2>3
<1>9. From(all, k, t)
  BY <1>7, <1>8 DEF From
<1>10. k > 1 => all[k - 1].part = "tail"
  <2>1. k > 1 => k - 1 \in 1..Len(s) + Len(rest) /\ k - 1 <= Len(s)
    BY <1>2
  <2> QED
    BY <1>1, <1>4, <2>1
<1>11. Whole(t)
  BY <1>4, <1>5, <1>6, <1>7, <1>9, <1>10, WholeFrom
<1> QED
  BY <1>5, <1>11 DEF t

\* What was taken for a message on a connection of which nothing was discarded.
LEMMA GarbledIs ==
  ASSUME NEW s \in Seq(Part), Whole(s), NEW i \in 1..Len(s), s[i].part = "tail",
         Parses(s, i) => s[i - 1].part = "broken"
  PROVE  s[i].id \in NonAscii
<1>1. i > 1 /\ s[i - 1].id = s[i].id
  BY DEF Whole
<1>2. i - 1 \in 1..Len(s)
  BY <1>1
<1>3. Parses(s, i)
  BY <1>1 DEF Parses
<1> QED
  BY <1>1, <1>2, <1>3 DEF Whole

LEMMA HandledWhole ==
  ASSUME TypeOK, WholeInv, NEW c \in Conns, NEW n \in 1..Len(toServer[c]),
         toServer' = [toServer EXCEPT ![c] = SubSeq(toServer[c], n + 1, Len(toServer[c]))],
         NEW refused, NEW failed, HandleMessages(c, Combined(c, n), refused, failed),
         buffers' = [buffers EXCEPT ![c] = Incomplete(Combined(c, n))], oversized' = oversized
  PROVE  WholeInv'
<1> DEFINE rest == SubSeq(toServer[c], n + 1, Len(toServer[c]))
<1>1. PICK s \in Seq(Part) : s = Combined(c, n)
  BY CombinedTyped
<1>2. rest \in Seq(Part)
  BY CombinedTyped
<1>3. c \notin oversized => Whole(s) /\ Whole(s \o rest)
  <2>1. c \notin oversized => Whole(buffers[c] \o toServer[c])
    BY DEF WholeInv, StreamsWhole
  <2> QED
    BY <1>1, <2>1, CombinedWhole
<1>4. StreamsWhole'
  <2> SUFFICES ASSUME NEW d \in Conns, d \notin oversized PROVE Whole(buffers'[d] \o toServer'[d])
    BY DEF StreamsWhole
  <2>1. CASE d # c
    <3>1. buffers'[d] = buffers[d] /\ toServer'[d] = toServer[d]
      BY <2>1 DEF TypeOK
    <3> QED
      BY <3>1 DEF WholeInv, StreamsWhole
  <2>2. CASE d = c
    <3>1. buffers'[d] = Incomplete(s) /\ toServer'[d] = rest
      BY <1>1, <2>2 DEF TypeOK
    <3> HIDE DEF rest
    <3> QED
      BY <1>2, <1>3, <2>2, <3>1, LeftWhole
  <2> QED
    BY <2>1, <2>2
<1>5. MessagesWhole'
  <2> SUFFICES ASSUME NEW g \in garbled' PROVE g[1] \in oversized \/ g[2] \in NonAscii
    BY DEF MessagesWhole
  <2>1. HandleMessages(c, s, refused, failed)
    BY <1>1
  <2>2. garbled' = garbled \cup {<<c, s[i].id>> : i \in {j \in 1..Len(s) :
          s[j].part = "tail" /\ (Parses(s, j) => s[j - 1].part = "broken")}}
    BY <2>1, MessagesHandled
  <2>3. CASE g \in garbled
    BY <2>3 DEF WholeInv, MessagesWhole
  <2>4. ASSUME NEW i \in 1..Len(s), s[i].part = "tail", Parses(s, i) => s[i - 1].part = "broken",
               g = <<c, s[i].id>>, c \notin oversized
        PROVE  g[2] \in NonAscii
    <3>1. Whole(s)
      BY <1>3, <2>4
    <3>2. s[i].id \in NonAscii
      BY <2>4, <3>1, GarbledIs
    <3> QED
      BY <2>4, <3>2
  <2>5. g \notin garbled => \E i \in 1..Len(s) :
          s[i].part = "tail" /\ (Parses(s, i) => s[i - 1].part = "broken") /\ g = <<c, s[i].id>>
    BY <2>2
  <2>6. \A x, y : <<x, y>>[1] = x
    OBVIOUS
  <2> QED
    BY <2>3, <2>4, <2>5, <2>6
<1> QED
  BY <1>4, <1>5 DEF WholeInv

LEMMA EmptyWhole == Whole(<<>> \o <<>>)
<1>1. PICK s \in Seq(Part) : s = <<>> /\ Len(s) = 0
  BY EmptySeq
<1>2. Whole(s)
  BY <1>1 DEF Whole
<1> QED
  BY <1>1, <1>2, WholeConcat

\* Streams may be lost as a whole, with what is remembered of them.
StreamsLost ==
  /\ \A c \in Conns \ oversized' :
       \/ c \notin oversized /\ buffers'[c] = buffers[c] /\ toServer'[c] = toServer[c]
       \/ buffers'[c] = <<>> /\ toServer'[c] = <<>>
  /\ \A g \in garbled' : g \in garbled /\ (g[1] \in oversized => g[1] \in oversized')

LEMMA LostWhole ==
  ASSUME TypeOK, WholeInv, StreamsLost
  PROVE  WholeInv'
<1>1. Whole(<<>> \o <<>>)
  BY EmptyWhole
<1>2. StreamsWhole'
  BY <1>1 DEF WholeInv, StreamsWhole, StreamsLost
<1>3. MessagesWhole'
  BY DEF WholeInv, MessagesWhole, StreamsLost
<1> QED
  BY <1>2, <1>3 DEF WholeInv

LEMMA ServerWhole ==
  ASSUME TypeOK, WholeInv, ServerStep, UNCHANGED clientVars
  PROVE  WholeInv'
<1>1. ASSUME NEW c \in Conns, NEW n \in 1..Len(toServer[c]), HandleClientMessage(c, n) PROVE WholeInv'
  <2>1. toServer' = [toServer EXCEPT ![c] = SubSeq(toServer[c], n + 1, Len(toServer[c]))]
    BY <1>1, ClientMessageIs
  <2>2. CASE /\ buffers' = [buffers EXCEPT ![c] = <<>>]
             /\ oversized' = oversized \cup {c} /\ garbled' = garbled
    <3>1. \A d \in Conns \ oversized' :
            d \notin oversized /\ buffers'[d] = buffers[d] /\ toServer'[d] = toServer[d]
      BY <2>1, <2>2 DEF TypeOK
    <3>2. StreamsLost
      BY <2>2, <3>1 DEF StreamsLost
    <3> QED
      BY <3>2, LostWhole
  <2>3. ASSUME NEW refused, NEW failed, HandleMessages(c, Combined(c, n), refused, failed),
               buffers' = [buffers EXCEPT ![c] = Incomplete(Combined(c, n))], oversized' = oversized
        PROVE  WholeInv'
    BY <2>1, <2>3, HandledWhole
  <2> QED
    BY <1>1, <2>2, <2>3, ClientMessageIs
<1>2. ASSUME NEW c \in Conns, ClientGone(c) PROVE WholeInv'
  <2>1. StreamsLost
    BY <1>2 DEF ClientGone, StreamsLost, TypeOK
  <2> QED
    BY <2>1, LostWhole
<1>3. CASE UNCHANGED <<buffers, toServer, garbled, oversized>>
  BY <1>3 DEF WholeInv, StreamsWhole, MessagesWhole
<1>4. CASE DaemonExits
  <2>1. StreamsLost
    BY <1>4 DEF DaemonExits, StreamsLost
  <2> QED
    BY <2>1, LostWhole
<1> QED
  BY <1>1, <1>2, <1>3, <1>4
     DEF ServerStep, SendResponse, GracefulShutdown, DaemonStarts, serverVars

LEMMA InitWhole == Init => WholeInv
<1> SUFFICES ASSUME Init PROVE WholeInv
  OBVIOUS
<1>1. MessagesWhole /\ \A c \in Conns : buffers[c] = <<>> /\ toServer[c] = <<>>
  BY DEF Init, SocketInit, ServerInit, MessagesWhole
<1>2. Whole(<<>> \o <<>>)
  BY EmptyWhole
<1> QED
  BY <1>1, <1>2 DEF WholeInv, StreamsWhole

LEMMA NextWhole == IInv /\ TypeOK /\ WholeInv /\ [Next]_vars => WholeInv'
<1> SUFFICES ASSUME IInv, TypeOK, WholeInv, [Next]_vars PROVE WholeInv'
  OBVIOUS
<1>1. CASE UNCHANGED vars
  BY <1>1 DEF vars, socketVars, serverVars, WholeInv, StreamsWhole, MessagesWhole
<1> QED
  BY <1>1, ClientWhole, ServerWhole DEF Next

\* However a stream is cut, what the daemon takes for a message is one, unless
\* a part of that stream was discarded or a character was cut in two; for any
\* number of calls and connections.
THEOREM MessagesArriveWhole == Spec => []MessagesWhole
<1>1. Init => IInv /\ TypeOK /\ WholeInv
  BY InitIInv, InitTypeOK, InitWhole
<1>2. IInv /\ TypeOK /\ WholeInv /\ [Next]_vars => (IInv /\ TypeOK /\ WholeInv)'
  BY NextIInv, NextTypeOK, NextWhole
<1>3. WholeInv => MessagesWhole
  BY DEF WholeInv
<1> QED
  BY <1>1, <1>2, <1>3, PTL DEF Spec
=============================================================================
