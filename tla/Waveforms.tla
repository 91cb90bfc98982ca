------------------------------ MODULE Waveforms ------------------------------
(***************************************************************************)
(* The list of transactions of a driver (Driver_Type in grt-signals.ads),  *)
(* and what Ghdl_Signal_Start_Assign and Ghdl_Signal_Next_Assign do to it. *)
(*                                                                         *)
(* A waveform w is a sequence of transactions [time, val]: w[1] is         *)
(* First_Trans, the transaction that gave the current value of the driver, *)
(* and the last one is Last_Trans.  The kind and the value of a            *)
(* transaction are one field, since the code compares them together.       *)
(***************************************************************************)
EXTENDS Integers, Sequences, FiniteSetsExt

Transaction(t, v) == [time |-> t, val |-> v]

\* The last transaction before the first one (First_Trans apart) that is
\* projected at t or later.
Last_Before(w, t) ==
    Max({i \in 1 .. Len(w) : \A j \in 2 .. i : w[j].time < t})

\* LRM93 8.4.1 rule 1: the old transactions at or after t are deleted.
Delete_From(w, t) ==
    IF w[Len(w)].time >= t THEN SubSeq(w, 1, Last_Before(w, t)) ELSE w

Mut_Reject_Pulses(w, r) ==
    LET n == Len(w)
    IN  SelectSeq(w, LAMBDA x : x.time < w[n].time - r \/ x.val = w[n].val)

\* The rejection of the pulses in [T - r, T[, T being the time of the new
\* transaction at the end of w: the old transactions there are deleted, up to
\* the last one whose value is not the new value.
Reject_Pulses(w, r) ==
    LET n == Len(w)
        prev == Last_Before(w, w[n].time - r)
        differ == {i \in prev + 1 .. n - 1 : w[i].val # w[n].val}
    IN  IF differ = {} THEN w
        ELSE SubSeq(w, 1, prev) \o SubSeq(w, Max(differ) + 1, n)

\* An assignment of v at time t, with pulse rejection limit r.
Assigned(w, t, v, r) ==
    LET appended == Append(Delete_From(w, t), Transaction(t, v))
    IN  IF r > 0 THEN Reject_Pulses(appended, r) ELSE appended
==============================================================================
