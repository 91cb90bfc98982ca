------------------------------ MODULE Signals ------------------------------
(***************************************************************************)
(* The signal side of the kernel (grt-signals.adb): the drivers of every   *)
(* user signal, the three chains that say which signals have something to  *)
(* do (active in the next delta cycle, active at the next time, active     *)
(* some day), and how a cycle uses them: Ghdl_Signal_Start_Assign and its  *)
(* variants while processes run, Find_Next_Time between the cycles,        *)
(* Update_Signals at the beginning of the next one.                        *)
(*                                                                         *)
(* The nets are those that need no propagation: one driver, one direct     *)
(* driver, one resolved signal.  The order inside a chain is abstracted to *)
(* a set; the Link field of a signal is not null when the signal is in the *)
(* active chain or in the next one, its Flink field when it is in the      *)
(* future list.  The processes and their timeouts are an environment here  *)
(* (module Processes models that side); the delays that end in an error    *)
(* message are left to module Driver.                                      *)
(*                                                                         *)
(* Nothing stops a waveform whose first element is beyond the end of the   *)
(* times from having a second one without a positive delay.  The variable  *)
(* late, which is not in the code, remembers such an element: what is due  *)
(* is then no longer on the chains, Find_Next_Time may end in an internal  *)
(* error or take the time back, and some properties are only about the     *)
(* runs without it.                                                        *)
(*                                                                         *)
(* A definition Mut_X, before X, is X with a plausible slip; the runs      *)
(* replace X by it to show that the properties notice.                     *)
(***************************************************************************)
EXTENDS Waveforms, Functions

CONSTANTS
    Signal,
    Drivers,        \* Sig.S.Drivers: the sequence of the drivers of a signal
    Direct,         \* the direct drivers
    Resolved,       \* the signals that have a resolution function
    Resolve(_),     \* the resolution function, on the set of driver values
    Has_Active,     \* the signals whose activity the program looks at
    Value,
    Delays,         \* the values of after clauses, negative ones included
    Rejects,        \* the values of pulse rejection limits
    Late_Callbacks, \* may an end-of-time-step callback ask for another one?
    TimeHigh        \* Std_Time'Last

Driver == UNION {Range(Drivers[s]) : s \in Signal}

\* No process is inside a waveform.
None == <<>>

ASSUME SignalAssumption ==
    /\ \A s \in Signal : Drivers[s] \in Seq(Driver) /\ Len(Drivers[s]) > 0
    /\ \A s, t \in Signal :
          s # t => Range(Drivers[s]) \cap Range(Drivers[t]) = {}
    /\ \A s \in Signal \ Resolved : Len(Drivers[s]) = 1
    /\ Direct \subseteq Driver
    /\ None \notin Driver
    /\ Has_Active \subseteq Signal
    /\ TimeHigh \in Nat \ {0}
    /\ Delays \subseteq -TimeHigh .. TimeHigh
    /\ Rejects \subseteq 0 .. TimeHigh
    /\ Late_Callbacks \in BOOLEAN

\* Resolution functions are not "weird" (trans-chap8.adb:4038): a driver that
\* takes the resolved value does not change it.
ASSUME ResolutionAssumption ==
    \A S \in (SUBSET Value) \ {{}} : \A R \in SUBSET S :
        /\ Resolve(S) \in Value
        /\ Resolve(R \cup {Resolve(S)}) = Resolve(S)

VARIABLES
    wave,                       \* the transactions of each driver
    val_ptr,                    \* Trans_Direct: the variable of the driver
    Is_Direct_Active,           \* a field of Ghdl_Signal_Flags
    Ghdl_Signal_Active_Chain,
    Next_Signal_Active_Chain,
    Future_List,
    open,                       \* the waveform a process is assigning
    late,                       \* has an element without a delay followed one?
    Current_Time,
    Next_Time,
    limit,                      \* the earliest timeout outside the signals
    pc,                         \* the step of the cycle
    outcome

driverVars == <<wave, val_ptr, Is_Direct_Active>>
chainVars == <<Ghdl_Signal_Active_Chain, Next_Signal_Active_Chain,
               Future_List>>
timeVars == <<Current_Time, Next_Time, limit>>
vars == <<driverVars, chainVars, open, late, timeVars, pc, outcome>>

\* The steps in which processes run.
Running == pc \in {"run", "postponed"}

Stop(how) == pc' = "stopped" /\ outcome' = how

SigOf(d) == CHOOSE s \in Signal : d \in Range(Drivers[s])

Net_One_Driver(s) == s \notin Resolved /\ Range(Drivers[s]) \cap Direct = {}
Net_One_Direct(s) == s \notin Resolved /\ Range(Drivers[s]) \subseteq Direct

\* Sig.Link /= null
Linked(s) == s \in Ghdl_Signal_Active_Chain \cup Next_Signal_Active_Chain

\* The transactions of d that have not taken effect yet.
Pending(d) == {wave[d][i] : i \in 2 .. Len(wave[d])}

\* Sig.Driving_Value
Driving_Value(s) == Resolve({wave[d][1].val : d \in Range(Drivers[s])})

-----------------------------------------------------------------------------
(***************************************************************************)
(* Assignments                                                             *)
(***************************************************************************)
\* Put s on the active chain, if it has no link.
Insert_Active(s) ==
    IF Linked(s) THEN Ghdl_Signal_Active_Chain
    ELSE Ghdl_Signal_Active_Chain \cup {s}

Mut_Insert_Future(s, after) == Future_List

Insert_Future(s, after) ==
    IF after > 0 THEN Future_List \cup {s} ELSE Future_List

\* Driver d has a transaction at the current time, w being the waveforms.
Next_Delta_Transaction(w, d) ==
    /\ d \notin Direct
    /\ Len(w[d]) > 1
    /\ w[d][2].time = Current_Time

Mut_Has_Transaction_In_Next_Delta(s, w) == FALSE

Has_Transaction_In_Next_Delta(s, w) ==
    \/ Is_Direct_Active[s]
    \/ \E d \in Range(Drivers[s]) : Next_Delta_Transaction(w, d)

\* The scan of Has_Transaction_In_Next_Delta reads First_Trans.Next of a driver
\* that has no pending transaction: a null pointer.
Null_Transaction(s, w) ==
    /\ ~Is_Direct_Active[s]
    /\ \E i \in DOMAIN Drivers[s] :
          /\ Drivers[s][i] \notin Direct
          /\ Len(w[Drivers[s][i]]) = 1
          /\ \A j \in 1 .. i - 1 : ~Next_Delta_Transaction(w, Drivers[s][j])

\* An assignment of a driver that is not direct: the first waveform element.
Ghdl_Signal_Start_Assign(d, v, after, reject) ==
    LET s == SigOf(d)
        active == IF after = 0 THEN Insert_Active(s)
                               ELSE Ghdl_Signal_Active_Chain
        w == [wave EXCEPT ![d] =
                 Assigned(wave[d], Current_Time + after, v, reject)]
        \* the transaction of the next delta may have been rejected
        recheck == reject > 0 /\ s \in active \cup Next_Signal_Active_Chain
    IN  /\ Running
        /\ d \notin Direct
        /\ after >= 0
        /\ Current_Time + after <= TimeHigh
        /\ reject <= after
        /\ wave' = w
        /\ Future_List' = Insert_Future(s, after)
        /\ IF recheck /\ Null_Transaction(s, w)
           THEN Stop("crash") /\ UNCHANGED <<Ghdl_Signal_Active_Chain, open>>
           ELSE /\ Ghdl_Signal_Active_Chain' =
                      IF recheck /\ ~Has_Transaction_In_Next_Delta(s, w)
                      THEN active \ {s} ELSE active
                /\ open' = d
                /\ UNCHANGED <<pc, outcome>>
        /\ UNCHANGED <<val_ptr, Is_Direct_Active, Next_Signal_Active_Chain,
                       late, timeVars>>

\* "Beyond the future": the transaction is freed and the procedure returns, the
\* signal being in the future list and the old transactions kept.  The rest of
\* the waveform follows.
Start_Assign_Beyond(d, after) ==
    /\ Running
    /\ d \notin Direct
    /\ Current_Time + after > TimeHigh
    /\ Future_List' = Insert_Future(SigOf(d), after)
    /\ open' = d
    /\ UNCHANGED <<driverVars, Ghdl_Signal_Active_Chain,
                   Next_Signal_Active_Chain, late, timeVars, pc, outcome>>

\* The same for a direct driver (the target is an aggregate).
Start_Assign_To_Direct(d, v) ==
    /\ Running
    /\ d \in Direct
    /\ val_ptr' = [val_ptr EXCEPT ![d] = v]
    /\ Ghdl_Signal_Active_Chain' = Insert_Active(SigOf(d))
    /\ open' = None
    /\ UNCHANGED <<wave, Is_Direct_Active, Next_Signal_Active_Chain,
                   Future_List, late, timeVars, pc, outcome>>

\* A waveform element after the first one.  It is only compared with the last
\* transaction of the driver: the active chain is not looked at.
Ghdl_Signal_Next_Assign(d, v, after) ==
    /\ Running
    /\ open = d
    /\ Current_Time + after <= TimeHigh
    /\ Current_Time + after > wave[d][Len(wave[d])].time
    /\ wave' = [wave EXCEPT ![d] =
                   Append(@, Transaction(Current_Time + after, v))]
    /\ Future_List' = Insert_Future(SigOf(d), after)
    /\ late' = (late \/ after <= 0)
    /\ UNCHANGED <<val_ptr, Is_Direct_Active, Ghdl_Signal_Active_Chain,
                   Next_Signal_Active_Chain, open, timeVars, pc, outcome>>

\* "s <= v;": Ghdl_Signal_Simple_Assign does nothing when v is the value of
\* the signal, and is Ghdl_Signal_Start_Assign otherwise.
Elided(d, v) ==
    LET s == SigOf(d)
    IN  /\ s \notin Has_Active
        /\ Net_One_Driver(s)
        /\ v = Driving_Value(s)
        /\ Len(wave[d]) = 1

Ghdl_Signal_Simple_Assign(d, v) ==
    /\ ~Elided(d, v)
    /\ Ghdl_Signal_Start_Assign(d, v, 0, 0)

Mut_Direct_Activity(s, v) == s \in Has_Active

\* The code generated for "s <= v;" puts s on the active chain only then.
Direct_Activity(s, v) == s \in Has_Active \/ v # Driving_Value(s)

\* "s <= v;" with a direct driver.
Ghdl_Signal_Direct_Assign(d, v) ==
    LET s == SigOf(d)
    IN  /\ Running
        /\ d \in Direct
        /\ val_ptr' = [val_ptr EXCEPT ![d] = v]
        /\ IF Direct_Activity(s, v)
           THEN /\ Ghdl_Signal_Active_Chain' = Insert_Active(s)
                /\ Is_Direct_Active' = [Is_Direct_Active EXCEPT ![s] = TRUE]
           ELSE UNCHANGED <<Ghdl_Signal_Active_Chain, Is_Direct_Active>>
        /\ open' = None
        /\ UNCHANGED <<wave, Next_Signal_Active_Chain, Future_List, late,
                       timeVars, pc, outcome>>

-----------------------------------------------------------------------------
(***************************************************************************)
(* The next time                                                           *)
(***************************************************************************)
\* The next transaction of each driver of the signals of the future list.
Candidates ==
    {wave[d][2].time :
        d \in {e \in Driver : SigOf(e) \in Future_List /\ Len(wave[e]) > 1}}

\* The signals of the future list with a candidate at t.
At_Time(t) ==
    {s \in Future_List : \E d \in Range(Drivers[s]) :
                            Len(wave[d]) > 1 /\ wave[d][2].time = t}

Earliest(tn) == Min({tn} \cup Candidates)

\* Find_Next_Time may end in Internal_Error ("find_next_time(2)"): the scan of
\* the future list meets a transaction of the current time.
Must_Have_Been_Active(tn) ==
    /\ tn # Current_Time
    /\ Ghdl_Signal_Active_Chain = {}
    /\ Current_Time \in Candidates

\* Compute_Next_Time, tn being the earliest timeout, and Find_Next_Time, chain
\* being the next active chain it starts from: that chain is flushed only when
\* a transaction is found before tn.  The scan gets past a transaction of the
\* current time if it has met one of the past before: the time then goes back.
Find_Next_Time(tn, chain) ==
    /\ limit' = tn
    /\ IF tn = Current_Time \/ Ghdl_Signal_Active_Chain # {}
       THEN /\ Next_Time' = Current_Time
            /\ Next_Signal_Active_Chain' = chain
       ELSE /\ Earliest(tn) # Current_Time
            /\ Next_Time' = Earliest(tn)
            /\ Next_Signal_Active_Chain' =
                  IF Earliest(tn) < tn THEN At_Time(Earliest(tn))
                                       ELSE chain \cup At_Time(tn)

\* A step of the cycle that computes the next time; then is the next step, or
\* "update" when the next cycle is a delta cycle.
Compute_Next_Time(tn, chain, then) ==
    /\ open' = None
    /\ \/ /\ Must_Have_Been_Active(tn)
          /\ Stop("internal_error")
          /\ UNCHANGED <<timeVars, chainVars>>
       \/ /\ Find_Next_Time(tn, chain)
          /\ pc' = IF Next_Time' = Current_Time THEN "update" ELSE then
          /\ UNCHANGED <<Ghdl_Signal_Active_Chain, Future_List, outcome,
                         Current_Time>>
    /\ UNCHANGED <<driverVars, late>>

\* The non-postponed processes have run.
Processes_Done(tn) ==
    /\ pc = "run"
    /\ Compute_Next_Time(tn, Next_Signal_Active_Chain, "last")

\* The callbacks of the last known delta cycle: the chain is flushed and the
\* next time computed again.
Last_Known_Delta(tn) ==
    /\ pc = "last"
    /\ tn <= limit
    /\ Compute_Next_Time(tn, {}, "last")

Mut_Flush_Active_Chain == UNCHANGED Next_Signal_Active_Chain

Flush_Active_Chain == Next_Signal_Active_Chain' = {}

Start_Postponed ==
    /\ pc = "last"
    /\ Flush_Active_Chain
    /\ pc' = "postponed"
    /\ UNCHANGED <<driverVars, Ghdl_Signal_Active_Chain, Future_List, open,
                   late, timeVars, outcome>>

\* It is an error if a postponed process causes a delta cycle.
End_Postponed(tn) ==
    /\ pc = "postponed"
    /\ IF tn = Current_Time \/ Ghdl_Signal_Active_Chain # {}
       THEN /\ Stop("error")
            /\ UNCHANGED <<driverVars, chainVars, open, late, timeVars>>
       ELSE Compute_Next_Time(tn, Next_Signal_Active_Chain, "end")

No_Postponed ==
    /\ pc = "last"
    /\ pc' = "end"
    /\ UNCHANGED <<driverVars, chainVars, open, late, timeVars, outcome>>

\* An end-of-time-step callback has registered an after-delay callback: the
\* next time is computed again, with nothing flushed and no check for a delta.
\* The scan meets the transactions in the order of the scan before: no error.
End_Of_Time_Step(tn) ==
    /\ pc = "end"
    /\ Late_Callbacks
    /\ tn < limit
    /\ Find_Next_Time(tn, Next_Signal_Active_Chain)
    /\ UNCHANGED <<driverVars, Ghdl_Signal_Active_Chain, Future_List, open,
                   late, Current_Time, pc, outcome>>

Update_Active_Chain ==
    /\ pc = "end"
    /\ Ghdl_Signal_Active_Chain' = Next_Signal_Active_Chain
    /\ Next_Signal_Active_Chain' = {}
    /\ pc' = "update"
    /\ UNCHANGED <<driverVars, Future_List, open, late, timeVars, outcome>>

-----------------------------------------------------------------------------
(***************************************************************************)
(* The next cycle                                                          *)
(***************************************************************************)
\* The effect of the activity of its signal on driver d, at time t.
Activate(d, t) ==
    LET s == SigOf(d)
        w == wave[d]
    IN  IF d \in Direct THEN <<[w[1] EXCEPT !.val = val_ptr[d]]>>
        ELSE IF Net_One_Driver(s) \/ (Len(w) > 1 /\ w[2].time = t)
        THEN Tail(w)
        ELSE w

\* A signal of the active chain whose only driver has nothing pending.
Nothing_Pending ==
    \E s \in Ghdl_Signal_Active_Chain :
        Net_One_Driver(s) /\ Pending(Drivers[s][1]) = {}

Mut_Clear_Direct_Active == UNCHANGED Is_Direct_Active

Clear_Direct_Active ==
    Is_Direct_Active' =
        [s \in Signal |-> Is_Direct_Active[s]
                              /\ s \notin Ghdl_Signal_Active_Chain]

Update_Signals ==
    /\ pc = "update"
    /\ Current_Time' = Next_Time
    /\ IF Nothing_Pending
       THEN /\ Stop("crash")
            /\ UNCHANGED <<driverVars, chainVars>>
       ELSE /\ wave' = [d \in Driver |->
                           IF SigOf(d) \in Ghdl_Signal_Active_Chain
                           THEN Activate(d, Next_Time) ELSE wave[d]]
            /\ Clear_Direct_Active
            /\ Ghdl_Signal_Active_Chain' = {}
            /\ pc' = "run"
            /\ UNCHANGED <<val_ptr, Next_Signal_Active_Chain, Future_List,
                           outcome>>
    /\ UNCHANGED <<open, late, Next_Time, limit>>

\* The end of the times.
Finish ==
    /\ pc = "run"
    /\ Current_Time = TimeHigh
    /\ Ghdl_Signal_Active_Chain = {}
    /\ Stop("finished")
    /\ UNCHANGED <<driverVars, chainVars, open, late, timeVars>>

Stopped == pc = "stopped" /\ UNCHANGED vars

Init ==
    /\ \E init \in [Signal -> Value] :
          /\ wave = [d \in Driver |-> <<Transaction(0, init[SigOf(d)])>>]
          /\ val_ptr = [d \in Direct |-> init[SigOf(d)]]
    /\ Is_Direct_Active = [s \in Signal |-> FALSE]
    /\ Ghdl_Signal_Active_Chain = {}
    /\ Next_Signal_Active_Chain = {}
    /\ Future_List = {}
    /\ open = None
    /\ late = FALSE
    /\ Current_Time = 0
    /\ Next_Time = 0
    /\ limit = 0
    /\ pc = "run"
    /\ outcome = "none"

Assign(d, v) ==
    \/ \E after \in Delays, reject \in Rejects :
          Ghdl_Signal_Start_Assign(d, v, after, reject)
    \/ \E after \in Delays :
          \/ Start_Assign_Beyond(d, after)
          \/ Ghdl_Signal_Next_Assign(d, v, after)
    \/ Start_Assign_To_Direct(d, v)
    \/ Ghdl_Signal_Simple_Assign(d, v)
    \/ Ghdl_Signal_Direct_Assign(d, v)

Cycle ==
    \/ \E tn \in Current_Time .. TimeHigh :
          \/ Processes_Done(tn)
          \/ Last_Known_Delta(tn)
          \/ End_Postponed(tn)
          \/ End_Of_Time_Step(tn)
    \/ Start_Postponed
    \/ No_Postponed
    \/ Update_Active_Chain
    \/ Update_Signals
    \/ Finish

Next == Cycle \/ (\E d \in Driver, v \in Value : Assign(d, v)) \/ Stopped

Spec == Init /\ [][Next]_vars

-----------------------------------------------------------------------------
(***************************************************************************)
(* Properties                                                              *)
(***************************************************************************)
\* The type invariant.
TypeOK ==
    /\ wave \in [Driver -> Seq([time : 0 .. TimeHigh, val : Value])]
    /\ \A d \in Driver : wave[d] # <<>>
    /\ val_ptr \in [Direct -> Value]
    /\ Is_Direct_Active \in [Signal -> BOOLEAN]
    /\ Ghdl_Signal_Active_Chain \subseteq Signal
    /\ Next_Signal_Active_Chain \subseteq Signal
    /\ Future_List \subseteq Signal
    /\ open \in Driver \cup {None}
    /\ late \in BOOLEAN
    /\ {Current_Time, Next_Time, limit} \subseteq 0 .. TimeHigh
    /\ pc \in {"run", "last", "postponed", "end", "update", "stopped"}
    /\ outcome \in {"none", "finished", "error", "internal_error", "crash"}

\* At any time, Is_Direct_Active belongs to a signal that is still to be
\* updated: a stale flag would keep a signal on the chain after its only
\* transaction has been rejected.  While processes run, nothing is left on the
\* next chain, and the active chain holds exactly the signals that will be
\* active in the next delta cycle: nothing scheduled for it is forgotten, and a
\* signal with one driver is there only for a transaction.  A late element is
\* scheduled for the next delta cycle or before it, and forgotten: that last
\* part is about the runs without one.
ActiveExact ==
    /\ \A s \in Signal : Is_Direct_Active[s] => s \in Ghdl_Signal_Active_Chain
    /\ Running => Next_Signal_Active_Chain = {}
    /\ Running /\ ~late =>
        /\ \A d \in Driver :
              (\E x \in Pending(d) : x.time = Current_Time)
                  => SigOf(d) \in Ghdl_Signal_Active_Chain
        /\ \A s \in Ghdl_Signal_Active_Chain :
              Net_One_Driver(s) =>
                  \E x \in Pending(Drivers[s][1]) : x.time = Current_Time

\* Every signal with a transaction in the real future is in the future list:
\* Find_Next_Time does not look anywhere else.  After a late element too, even
\* when the time has gone back.
FutureCovers ==
    \A d \in Driver :
        (\E x \in Pending(d) : x.time > Current_Time)
            => SigOf(d) \in Future_List

\* A direct driver whose signal is not about to be active contributes what its
\* variable holds: the value of the signal is the one the current values of
\* all its drivers resolve to, although assignments that do not change the
\* value of the signal are dropped.
DirectDriversSettled ==
    \A s \in Signal \ Ghdl_Signal_Active_Chain :
        Driving_Value(s) =
            Resolve({IF d \in Direct THEN val_ptr[d] ELSE wave[d][1].val :
                        d \in Range(Drivers[s])})

\* A transaction takes effect in the cycle of its own time, not before and not
\* after: in every cycle the drivers whose next transaction is due use it, and
\* no other driver does.
TakesWhatIsDue ==
    pc = "update" /\ pc' = "run" =>
        \A d \in Driver \ Direct :
            Len(wave[d]) > 1 =>
                /\ wave[d][2].time >= Current_Time'
                /\ wave'[d] = Tail(wave[d])
                      <=> wave[d][2].time = Current_Time'

\* Until there is a late element: the time of that one is over, or its signal
\* is not on the chain of the next cycle.
OnTime == [][~late => TakesWhatIsDue]_vars

\* No null pointer is followed: what the comment at grt-signals.adb:576 says
\* Has_Transaction_In_Next_Delta returns, it does return.
NoCrash == outcome # "crash"

\* No null pointer ends the simulation, whatever the waveforms, and an internal
\* error ("find_next_time(2)") only after a late element.
NoFailure ==
    /\ NoCrash
    /\ outcome = "internal_error" => late
=============================================================================
