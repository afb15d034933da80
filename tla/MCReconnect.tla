------------------------------ MODULE MCReconnect ------------------------------
(* Instances of Reconnect for TLC.                                           *)
EXTENDS Reconnect

CallerSymmetry == Permutations(Callers)
=============================================================================
