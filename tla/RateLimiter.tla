----------------------------- MODULE RateLimiter -----------------------------
(***************************************************************************)
(* The rate limiter of the web UI (the IPC server and the WebSocket have   *)
(* one of their own): per client, the times of the requests it admitted.   *)
(* Times appear as in StaticFileCache: Window stands for all beyond it.    *)
(***************************************************************************)
EXTENDS Integers, Sequences

CONSTANTS Clients, MaxRequests, Window

ASSUME LimiterAssumption == MaxRequests \in Nat \ {0} /\ Window \in Nat \ {0}

VARIABLES
  requests,  \* the time stamps kept; a client without an entry has none
  admitted   \* those of all requests admitted in the window that ends now

limiterVars == <<requests, admitted>>

LimiterInit ==
  /\ requests = [c \in Clients |-> <<>>]
  /\ admitted = [c \in Clients |-> <<>>]

\* The time stamps inside the window that ends now.
Valid(stamps) ==
  LET kept[n \in 0..Len(stamps)] ==
        IF n = 0 THEN <<>>
        ELSE IF stamps[n] < Window THEN Append(kept[n - 1], stamps[n]) ELSE kept[n - 1]
  IN kept[Len(stamps)]

Allowed(c) == Len(Valid(requests[c])) < MaxRequests

\* checkDetailed: a refused request leaves the expired time stamps too.
CheckDetailed(c) ==
  IF Allowed(c)
  THEN /\ requests' = [requests EXCEPT ![c] = Append(Valid(@), 0)]
       /\ admitted' = [admitted EXCEPT ![c] = Append(@, 0)]
  ELSE UNCHANGED limiterVars

BugCleanup ==
  /\ requests' = [c \in Clients |->
       IF Len(Valid(requests[c])) < Len(requests[c]) THEN <<>> ELSE requests[c]]
  /\ UNCHANGED admitted

\* The timer of startCleanup.
Cleanup ==
  /\ requests' = [c \in Clients |-> Valid(requests[c])]
  /\ UNCHANGED admitted

\* destroy forgets the requests, and so does admitted.
Destroy ==
  /\ requests' = [c \in Clients |-> <<>>]
  /\ admitted' = [c \in Clients |-> <<>>]

\* One unit of time passes.
Elapse ==
  LET older(stamps) == [i \in DOMAIN stamps |->
                          IF stamps[i] < Window THEN stamps[i] + 1 ELSE Window]
  IN /\ requests' = [c \in Clients |-> older(requests[c])]
     /\ admitted' = [c \in Clients |-> Valid(older(admitted[c]))]
=============================================================================
