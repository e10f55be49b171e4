----------------------------- MODULE Supervision -----------------------------
(***************************************************************************)
(* What a process manager promises of a supervised instance: it runs at    *)
(* most once at a time, it is restarted only after it went down, at most   *)
(* Limit times in a row, and once it is over it never runs again.          *)
(***************************************************************************)
EXTENDS Integers

CONSTANTS Slot,   \* the instances
          Limit   \* restarts in a row

VARIABLES phase,  \* phase[i]: what instance i is doing
          used    \* used[i]: restarts since it last ran for long

vars == <<phase, used>>

Init ==
  /\ phase = [i \in Slot |-> "absent"]
  /\ used = [i \in Slot |-> 0]

Begin(i) ==
  /\ phase[i] = "absent"
  /\ phase' = [phase EXCEPT ![i] = "up"]
  /\ UNCHANGED used

\* The instance goes down; a restart is due only while some are left.
Fall(i) ==
  /\ phase[i] = "up"
  /\ used' \in {used, [used EXCEPT ![i] = 0]}
  /\ \/ /\ used'[i] < Limit
        /\ phase' = [phase EXCEPT ![i] = "backoff"]
     \/ phase' = [phase EXCEPT ![i] = "over"]

Respawn(i) ==
  /\ phase[i] = "backoff"
  /\ phase' = [phase EXCEPT ![i] = "up"]
  /\ used' = [used EXCEPT ![i] = @ + 1]

\* The pending restarts of S are given up.
Abandon(S) ==
  /\ \A i \in S : phase[i] = "backoff"
  /\ phase' = [i \in Slot |-> IF i \in S THEN "over" ELSE phase[i]]
  /\ UNCHANGED used

Next ==
  \/ \E i \in Slot : Begin(i) \/ Fall(i) \/ Respawn(i)
  \/ \E S \in SUBSET Slot : Abandon(S)

Spec == Init /\ [][Next]_vars
=============================================================================
