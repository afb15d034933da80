---------------------------- MODULE MCExecSession ----------------------------
(* Instances of ExecSession for TLC.                                       *)
EXTENDS ExecRefinement, TLC

ConsumerSymmetry == Permutations(Consumers)
=============================================================================
