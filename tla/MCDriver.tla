------------------------------ MODULE MCDriver ------------------------------
(***************************************************************************)
(* An instance of Driver for TLC.  The longest delays reach past TimeHigh  *)
(* from every time after the second one.                                   *)
(***************************************************************************)
EXTENDS Driver

CONSTANTS v1, v2

MCDelays == {-1, 0, 1, 2, 3}
=============================================================================
