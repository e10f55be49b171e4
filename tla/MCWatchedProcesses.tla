------------------------- MODULE MCWatchedProcesses -------------------------
(* Instances of WatchedProcesses for TLC: the processes share a directory. *)
EXTENDS WatchedProcesses

CONSTANTS p1, p2, app, main

OneDir == [p \in Processes |-> app]
OneFile == [d \in Dirs |-> {main}]
=============================================================================
