---------------------------- MODULE MCSessionStream ----------------------------
(* Instances of SessionStream for TLC.                                        *)
EXTENDS SessionStream

BothModes == {FALSE, TRUE}
IdleMode  == {TRUE}
=============================================================================
