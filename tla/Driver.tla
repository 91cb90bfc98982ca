------------------------------- MODULE Driver -------------------------------
(***************************************************************************)
(* One driver of a signal whose net is Net_One_Driver: the assignments of  *)
(* its process (Ghdl_Signal_Start_Assign and Ghdl_Signal_Next_Assign) and  *)
(* the use of its transactions by Update_Signals.  Times are Std_Time      *)
(* values: a sum wraps, and a wrapped sum is negative.                     *)
(***************************************************************************)
EXTENDS Waveforms

CONSTANTS
    Value,      \* the values of the signal
    Delays,     \* the values of after and reject clauses
    TimeHigh    \* Std_Time'Last

ASSUME DriverAssumption ==
    /\ TimeHigh \in Nat \ {0}
    /\ Delays \subseteq -TimeHigh .. TimeHigh

VARIABLES
    wave,           \* the transactions of the driver, First_Trans first
    Current_Time,
    open,           \* the process is inside a waveform: Next_Assign may follow
    failed,         \* Error was called
    request,        \* history: the last waveform element of the process
    late            \* history: an element after the first one was accepted
                    \* although its delay is not positive

vars == <<wave, Current_Time, open, failed, request, late>>

Last_Trans == wave[Len(wave)]

Wrapped_Sum(a, b) ==
    IF a + b > TimeHigh THEN a + b - 2 * (TimeHigh + 1) ELSE a + b

Fail == failed' = TRUE /\ UNCHANGED <<wave, Current_Time, open, late>>

Mut_Beyond(t) == FALSE

\* "Beyond the future": the sum has wrapped.
Beyond(t) == t < 0

Ghdl_Signal_Start_Assign(v, after, reject) ==
    LET Assign_Time == Wrapped_Sum(Current_Time, after)
    IN  /\ ~failed
        /\ after >= 0
        /\ \/ /\ Beyond(Assign_Time)
              /\ UNCHANGED wave
           \/ /\ ~Beyond(Assign_Time)
              /\ reject \in 0 .. after
              /\ wave' = Assigned(wave, Assign_Time, v, reject)
        /\ open' = TRUE
        /\ request' = <<"start", v, after, reject>>
        /\ UNCHANGED <<Current_Time, failed, late>>

\* A negative delay, or a rejection limit that is negative or too large.
Start_Assign_Error(v, after, reject) ==
    /\ ~failed
    /\ \/ after < 0
       \/ /\ ~Beyond(Wrapped_Sum(Current_Time, after))
          /\ reject \notin 0 .. after
    /\ request' = <<"start", v, after, reject>>
    /\ Fail

Mut_In_Order(t) == t >= Last_Trans.time

In_Order(t) == t > Last_Trans.time

\* An element out of order is an error.  The delay itself is not looked at:
\* after a first element past TIME'HIGH, which is not in the list, the last
\* transaction may be one in the past, and so may the time that follows it.
Ghdl_Signal_Next_Assign(v, after) ==
    LET t == Wrapped_Sum(Current_Time, after)
    IN  /\ ~failed /\ open
            /\ request' = <<"next", v, after>>
        /\ IF In_Order(t)
           THEN /\ wave' = Append(wave, Transaction(t, v))
                /\ late' = (late \/ after <= 0)
                /\ UNCHANGED <<Current_Time, open, failed>>
           ELSE Fail

\* Update_Signals, in the cycle at the time of the next transaction.  What the
\* kernel makes of a late element is for module Signals to say: here only the
\* process goes on after one.
Update_Signals ==
    /\ ~failed /\ ~late
    /\ Len(wave) > 1
    /\ Current_Time' = wave[2].time
    /\ wave' = Tail(wave)
    /\ open' = FALSE
    /\ UNCHANGED <<failed, request, late>>

\* A cycle in which this driver is not active (Find_Next_Time).
Other_Cycle(t) ==
    /\ ~failed /\ ~late
    /\ t > Current_Time
    /\ Len(wave) > 1 => t < wave[2].time
    /\ Current_Time' = t
    /\ open' = FALSE
    /\ UNCHANGED <<wave, failed, request, late>>

\* Simulation is over at TIME'HIGH or after an error.
Over ==
    /\ failed \/ (Current_Time = TimeHigh /\ Len(wave) = 1)
    /\ UNCHANGED vars

Init ==
    /\ \E v \in Value : wave = <<Transaction(0, v)>>
    /\ Current_Time = 0
    /\ open = FALSE
    /\ failed = FALSE
    /\ request = <<>>
    /\ late = FALSE

Next ==
    \/ \E v \in Value, after, reject \in Delays :
          \/ Ghdl_Signal_Start_Assign(v, after, reject)
          \/ Start_Assign_Error(v, after, reject)
    \/ \E v \in Value, after \in Delays : Ghdl_Signal_Next_Assign(v, after)
    \/ Update_Signals
    \/ \E t \in 0 .. TimeHigh : Other_Cycle(t)
    \/ Over

Spec == Init /\ [][Next]_vars

-----------------------------------------------------------------------------
(***************************************************************************)
(* Properties                                                              *)
(***************************************************************************)
\* The type invariant.
TypeOK ==
    /\ wave \in Seq([time : 0 .. TimeHigh, val : Value])
    /\ Len(wave) >= 1
    /\ Current_Time \in 0 .. TimeHigh
    /\ open \in BOOLEAN
    /\ failed \in BOOLEAN
    /\ late \in BOOLEAN
    /\ request \in {<<>>} \cup {"start"} \X Value \X Delays \X Delays
                            \cup {"next"} \X Value \X Delays

\* The pending transactions are in strictly ascending order: what
\* Ghdl_Signal_Internal_Checks asserts after each process, and what lets
\* Find_Next_Time look at the first pending one only.  None of them is in the
\* past, unless an element without a positive delay was accepted, which takes
\* a waveform that begins past TIME'HIGH and no transaction pending (that is
\* the departure in Continue_Error of ProjectedWaveform).
Ascending ==
    /\ wave[1].time <= Current_Time
    /\ \A i \in 2 .. Len(wave) : wave[i].time >= Current_Time \/ late
    /\ \A i, j \in 2 .. Len(wave) : i < j => wave[i].time < wave[j].time

\* The driver behaves as LRM93 8.4.1 says, marking rules and errors included,
\* but for waveforms that begin past TIME'HIGH, where it does what
\* ProjectedWaveform says.  A late element is in error for the manual, and
\* nothing is asked of the driver afterwards.
LRM == INSTANCE ProjectedWaveform WITH now <- Current_Time, failed <- failed \/ late

ImplementsLRM == LRM!Spec
=============================================================================
