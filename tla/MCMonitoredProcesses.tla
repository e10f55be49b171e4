------------------------ MODULE MCMonitoredProcesses ------------------------
(* An instance of MonitoredProcesses for TLC.                              *)
EXTENDS MonitoredProcesses

CONSTANTS p1, p2

\* At the thresholds of 1, and above both.
TwoUsages == {[memory |-> 1, cpu |-> 1], [memory |-> 2, cpu |-> 2]}

TwoOfFirst == [p \in Processes |-> IF p = p1 THEN 2 ELSE 1]
MemoryOfBoth == [p \in Processes |-> 1]
CpuOfFirst == [p \in Processes |-> IF p = p1 THEN 1 ELSE Unlimited]
=============================================================================
