--------------------------- MODULE MCOrchestrator ---------------------------
(* Instances of Orchestrator for TLC.                                      *)
EXTENDS OrchestratorSupervision, TLC

OneEach == [p \in Process |-> 1]
TwoEach == [p \in Process |-> 2]

\* The callers are interchangeable.
Callers == Permutations(Client)
=============================================================================
