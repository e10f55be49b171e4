----------------------- MODULE OrchestratorSupervision -----------------------
(* Orchestrator supervises the instances of plain processes as Supervision *)
(* says.                                                                   *)
EXTENDS Orchestrator

CONSTANT Slot  \* the instances looked at

ASSUME SlotsAreIds == Slot \subseteq Nat \ {0}

\* A plain instance that has been created.
Watched(i) == i \in DOMAIN inst /\ Plain(i)

Lives(i) == \E c \in DOMAIN child : child[c].owner = i /\ Alive(c)

Phase(i) ==
  IF ~Watched(i) THEN "absent"
  ELSE IF Lives(i) THEN "up"
  ELSE IF Armed(i) THEN "backoff" ELSE "over"

Used(i) == IF Watched(i) THEN inst[i].restarts ELSE 0

S == INSTANCE Supervision WITH
       Limit <- MaxRestarts,
       phase <- [i \in Slot |-> Phase(i)],
       used <- [i \in Slot |-> Used(i)]

\* The orchestrator implements Supervision for plain instances: no order of
\* requests, exits, timers and shutdown makes handleInstanceExit,
\* scheduleRestart and restartInstance run one twice, restart it too often or
\* bring back one that is over.
Supervises == S!Spec
=============================================================================
