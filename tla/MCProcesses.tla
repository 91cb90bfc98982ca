---------------------------- MODULE MCProcesses ----------------------------
(***************************************************************************)
(* Instances of Processes for TLC.  The designs are small; what a process  *)
(* does when it runs is left to TLC, so each of them stands for every      *)
(* program of its processes.                                               *)
(***************************************************************************)
EXTENDS Processes

CONSTANTS p1, p2, p3, s1

MCSignal == {s1}
MCDelays == {-1, 0, 1, 2}
MCSensitivity == [p \in Sensitized |-> {s1}]
=============================================================================
