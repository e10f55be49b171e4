------------------------------- MODULE MCIPC -------------------------------
(* Instances of IPC for TLC.                                               *)
EXTENDS IPC

CONSTANTS r1, r2, r3
=============================================================================
