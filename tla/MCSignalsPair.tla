---------------------------- MODULE MCSignalsPair ----------------------------
(***************************************************************************)
(* Two designs of Signals in one run.  The first one, of the variables and *)
(* constants of Signals, has the signals of LonelyDrivers.  The second one *)
(* (the variables with a 2) has one resolved signal with an ordinary and a *)
(* direct driver, assigned by name only, and end-of-time-step callbacks.   *)
(* Only one of them runs: the other stays where it started.                *)
(***************************************************************************)
EXTENDS MCSignals

VARIABLES
    second,     \* which design runs
    wave2, val_ptr2, Is_Direct_Active2, Active_Chain2, Next_Active_Chain2,
    Future_List2, open2, late2, Current_Time2, Next_Time2, limit2, pc2, outcome2

Shared == INSTANCE Signals WITH
              Signal <- {s1}, Drivers <- SharedDrivers, Direct <- {d1}, Resolved <- {s1},
              Has_Active <- {}, Rejects <- {0}, Late_Callbacks <- TRUE,
              wave <- wave2, val_ptr <- val_ptr2, Is_Direct_Active <- Is_Direct_Active2,
              Ghdl_Signal_Active_Chain <- Active_Chain2,
              Next_Signal_Active_Chain <- Next_Active_Chain2, Future_List <- Future_List2,
              open <- open2, late <- late2, Current_Time <- Current_Time2, Next_Time <- Next_Time2,
              limit <- limit2, pc <- pc2, outcome <- outcome2

vars2 == <<wave2, val_ptr2, Is_Direct_Active2, Active_Chain2, Next_Active_Chain2,
           Future_List2, open2, late2, Current_Time2, Next_Time2, limit2, pc2, outcome2>>

\* The design that stays is in one of its initial states.
InitPair ==
    /\ second \in BOOLEAN
    /\ Init /\ Shared!Init
    /\ \A d \in {d1, d2} : (IF second THEN wave ELSE wave2)[d][1].val = v0
NextPair ==
    /\ IF second THEN Shared!Next /\ UNCHANGED vars ELSE Next /\ UNCHANGED vars2
    /\ UNCHANGED second
SpecPair == InitPair /\ [][NextPair]_<<vars, vars2, second>>

\* With two drivers on a signal an assignment to one of them may be dropped
\* because of the value of the other, and the activity of the signal says
\* nothing of which of them is due (Ghdl_Signal_Direct_Assign, Update_Signals):
\* no value is lost, no transaction is late or early, also when a callback at the
\* end of a time step makes the next time an earlier one.  As in Signals, a late
\* waveform element is the exception.
SharedSettled ==
    [][/\ ~late2 => Shared!TakesWhatIsDue
       /\ Shared!DirectDriversSettled'
       /\ Shared!ActiveExact' /\ Shared!FutureCovers' /\ Shared!NoFailure']_vars2
=============================================================================
