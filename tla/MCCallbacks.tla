---------------------------- MODULE MCCallbacks ----------------------------
(* Instances of Callbacks for TLC. *)
EXTENDS Callbacks

CONSTANTS cb1, cb2, cb3, k1, k2, k3

MCId == {cb1, cb2, cb3}
MCCell == {k1, k2, k3}
=============================================================================
