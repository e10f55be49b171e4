---------------------------- MODULE MCLogManager ----------------------------
(* An instance of LogManager for TLC.                                      *)
EXTENDS LogManager

\* Every second entry is logged in the same millisecond as the one before.
InPairs == [e \in 1..MaxLines |-> e \div 2]
=============================================================================
