-------------------------- MODULE ProjectedWaveform --------------------------
(***************************************************************************)
(* What the VHDL reference manual asks of one driver: the rules of LRM93   *)
(* 8.4.1, as the comments of grt-signals.adb (lines 679 to 736) quote      *)
(* them.  The projected output waveform is the sequence wave; wave[1] is   *)
(* the transaction that determines the current value.  Time has no width   *)
(* here.  One departure from the manual is admitted: a first element past  *)
(* TIME'HIGH leaves the waveform alone (line 657: "Beyond the future"),    *)
(* whatever its rejection limit, where rule 1 would still delete and       *)
(* reject old transactions.  The elements after it are then compared with  *)
(* the last transaction there is; if none is pending, one whose delay is   *)
(* not positive need not be caught, and nothing is asked after it.         *)
(* request is the last waveform element asked for, so that an              *)
(* implementation is compared on the same inputs.                          *)
(***************************************************************************)
EXTENDS Subsequences, SequencesExt

CONSTANTS Value, Delays, TimeHigh

VARIABLES wave, now, open, failed, request

vars == <<wave, now, open, failed, request>>

\* The marks M obey rules 1 to 4 of the inertial delay, the last transaction of
\* w being the new one.
Obey(M, w, r) ==
    LET n == Len(w)
    IN  /\ {1, n} \subseteq M
        /\ \A i \in 1 .. n : w[i].time < w[n].time - r => i \in M
        /\ \A i \in 1 .. n - 1 : i + 1 \in M /\ w[i].val = w[i + 1].val => i \in M

\* What the rules mark is what they cannot leave unmarked.
Marked(w, r) ==
    {i \in 1 .. Len(w) : \A M \in SUBSET (1 .. Len(w)) : Obey(M, w, r) => i \in M}

\* Rule 1 of the transport delay, rule 2, then the rules of inertial delay.
Projected(w, t, v, r) ==
    LET old == At(w, {1} \cup {i \in 2 .. Len(w) : w[i].time < t})
        new == Append(old, [time |-> t, val |-> v])
    IN  IF r > 0 THEN At(new, Marked(new, r)) ELSE new

Beyond(d) == now + d > TimeHigh

\* The first element of a waveform.
Assign(v, d, r) ==
    /\ ~failed
    /\ d >= 0
    /\ \/ Beyond(d) /\ wave' = wave
       \/ /\ ~Beyond(d)
          /\ r >= 0 /\ r <= d
          /\ wave' = Projected(wave, now + d, v, r)
    /\ open' = TRUE
    /\ request' = <<"start", v, d, r>>
    /\ UNCHANGED <<now, failed>>

\* One of the elements that follow it.
Continue(v, d) ==
    /\ ~failed /\ open
    /\ d > 0
    /\ now + d > Last(wave).time
    /\ ~Beyond(d)
    /\ wave' = Append(wave, [time |-> now + d, val |-> v])
    /\ request' = <<"next", v, d>>
    /\ UNCHANGED <<now, open, failed>>

\* The next transaction takes effect.
Activate ==
    /\ ~failed
    /\ Len(wave) > 1
    /\ now' = wave[2].time
    /\ wave' = Tail(wave)
    /\ open' = FALSE
    /\ UNCHANGED <<failed, request>>

\* Time passes.
Tick(t) ==
    /\ ~failed
    /\ t > now
    /\ Len(wave) > 1 => t < wave[2].time
    /\ now' = t
    /\ open' = FALSE
    /\ UNCHANGED <<wave, failed, request>>

\* A first element is in error: a negative delay or limit, or a limit greater
\* than the delay.
Assign_Error(v, d, r) ==
    /\ ~failed
    /\ d < 0 \/ (~Beyond(d) /\ (r < 0 \/ r > d))
    /\ failed' = TRUE
    /\ request' = <<"start", v, d, r>>
    /\ UNCHANGED <<wave, now, open>>

\* A following element is in error: its delay is not positive where that of the
\* first element is not negative, the elements are not in ascending order, or
\* this one is past TIME'HIGH.  The second disjunct is the departure: only a
\* first element past TIME'HIGH leaves an open waveform nothing pending.
Continue_Error(v, d) ==
    /\ ~failed /\ open
    /\ d <= 0 \/ now + d <= Last(wave).time \/ Beyond(d)
    /\ failed' = TRUE
    /\ UNCHANGED wave \/ (Len(wave) = 1 /\ d <= 0)
    /\ request' = <<"next", v, d>>
    /\ UNCHANGED <<now, open>>

\* After an error nothing is asked.
Undefined == failed /\ failed'

Init ==
    /\ \E v \in Value : wave = <<[time |-> 0, val |-> v]>>
    /\ now = 0
    /\ open = FALSE
    /\ failed = FALSE
    /\ request = <<>>

Next ==
    \/ \E v \in Value, d, r \in Delays : Assign(v, d, r) \/ Assign_Error(v, d, r)
    \/ \E v \in Value, d \in Delays : Continue(v, d) \/ Continue_Error(v, d)
    \/ Activate
    \/ \E t \in 0 .. TimeHigh : Tick(t)
    \/ Undefined

Spec == Init /\ [][Next]_vars
==============================================================================
