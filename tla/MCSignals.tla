----------------------------- MODULE MCSignals -----------------------------
(***************************************************************************)
(* Instances of Signals for TLC.                                           *)
(***************************************************************************)
EXTENDS Signals

CONSTANTS s1, s2, d1, d2, v0, v1

\* A wired-or.
WiredOr(S) == IF v1 \in S THEN v1 ELSE v0

\* s1 has one driver, s2 has one direct driver.
LonelyDrivers == [s \in {s1, s2} |-> IF s = s1 THEN <<d1>> ELSE <<d2>>]

\* The delays, from a past one to one that goes beyond the end of the times.
MCDelays == {-1, 0, 1, 2}

\* s1 has both drivers.
SharedDrivers == [s \in {s1} |-> <<d1, d2>>]
=============================================================================
