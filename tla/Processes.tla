----------------------------- MODULE Processes -----------------------------
(***************************************************************************)
(* The process scheduler of the GHDL run-time (grt-processes.adb): the     *)
(* state of every VHDL process, the two resume tables, the chain of        *)
(* processes that wait with a timeout, and the simulation cycle that wakes *)
(* them, runs them and advances time.                                      *)
(*                                                                         *)
(* The signal network is an environment here: Update_Signals may put an    *)
(* event on any set of signals, and Find_Next_Time may return any time the *)
(* network could be active at, now or later.  Module Signals models that   *)
(* side; the transactions in the past that it finds possible (a waveform   *)
(* that begins past TIME'HIGH and goes on before now) are left out here,   *)
(* and time would go back with them.  The order inside the resume tables   *)
(* and the timeout chain is abstracted to sets: the processes of a table   *)
(* run in every order.                                                     *)
(*                                                                         *)
(* pragma Suppress (All_Checks) (grt-processes.ads:35) and the             *)
(* configuration pragma of grt.adc:49 turn overflow checks off, so the sum *)
(* of two times wraps.                                                     *)
(*                                                                         *)
(* A definition Mut_X, before X, is X with a plausible slip; the runs      *)
(* replace X by it to show that the properties notice.                     *)
(***************************************************************************)
EXTENDS Integers, FiniteSets, FiniteSetsExt

CONSTANTS
    Process,            \* the processes of the design
    Sensitized,         \* those with a sensitivity list
    Postponed,          \* those declared postponed
    Signal,             \* the signals a process can be sensitive to
    StaticSensitivity,  \* the sensitivity list of each sensitized process
    Delays,             \* the values a timeout clause may have
    FarTimeouts,        \* may "wait on s for t" reach past TIME'HIGH?
    TimeHigh,           \* Std_Time'Last
    Stop_Time,          \* --stop-time
    Stop_Delta,         \* --stop-delta
    None                \* no current process

ASSUME ProcessAssumption ==
    /\ IsFiniteSet(Process)
    /\ None \notin Process
    /\ Sensitized \subseteq Process
    /\ Postponed \subseteq Process
    /\ StaticSensitivity \in [Sensitized -> SUBSET Signal]

ASSUME TimeAssumption ==
    /\ TimeHigh \in Nat \ {0}
    /\ Delays \subseteq -TimeHigh .. TimeHigh
    /\ Stop_Time \in 0 .. TimeHigh
    /\ Stop_Delta \in Nat \ {0}
    /\ FarTimeouts \in BOOLEAN

VARIABLES
    State,                  \* Process_Type.State
    Timeout,                \* Process_Type.Timeout
    Resumed,                \* Process_Type.Resumed
    Sensitivity,            \* signals of the Action_List on Proc.Sensitivity
    until,                  \* the pending wait statement has a condition
    deadline,               \* history: when the pending timeout clause ends
    Process_Timeout_Chain,
    Process_First_Timeout,
    Resume_Process_Table,
    Postponed_Resume_Process_Table,
    table,                  \* what Run_Processes still has to run
    Current_Process,
    Current_Time,
    Next_Time,
    Current_Delta,
    ran,                    \* Status of Simulation_Cycle is Run_Resumed
    pc,                     \* the step of the simulation in progress
    outcome,                \* how the simulation ended
    first                   \* history: no cycle has begun

procVars == <<State, Timeout, Resumed, Sensitivity, until, deadline>>
chainVars == <<Process_Timeout_Chain, Process_First_Timeout>>
tableVars == <<Resume_Process_Table, Postponed_Resume_Process_Table, table>>
timeVars == <<Current_Time, Next_Time, Current_Delta, first>>
vars == <<procVars, chainVars, tableVars, timeVars,
          Current_Process, ran, pc, outcome>>

-----------------------------------------------------------------------------
(***************************************************************************)
(* Time                                                                    *)
(***************************************************************************)
Last_Time == TimeHigh
Bad_Time == -(TimeHigh + 1)
Time == Bad_Time .. TimeHigh

\* a + b in Std_Time, for non-negative a and b.
Wrapped_Sum(a, b) ==
    IF a + b > TimeHigh THEN a + b - 2 * (TimeHigh + 1) ELSE a + b

NoDeadline == -1

ProcessStates ==
    {"Sensitized", "Wait", "Ready", "Timeout", "Delayed", "Dead"}

Outcomes == {"none", "finished", "stop_time", "stop_delta",
             "error", "internal_error"}

Steps == {"init", "init_run", "init_postponed",
          "cycle", "update", "wake", "start", "run", "postponed", "stopped"}

\* The steps in which Run_Processes has the control.
RunSteps == {"init_run", "init_postponed", "run", "postponed"}

\* A process the timeout chain is still waiting for.
Waiting(p) == State[p] \in {"Wait", "Delayed"}

-----------------------------------------------------------------------------
(***************************************************************************)
(* Leaving the simulation                                                  *)
(***************************************************************************)
\* Error, Internal_Error, Run_Finished and Run_Limit leave the main loop.
Stop(how) == pc' = "stopped" /\ outcome' = how

\* Mutant: the time of the cycle that ends instead of the next one.
Mut_Next_Cycle(tn, delta) ==
    IF Current_Time > Stop_Time /\ tn # Last_Time THEN Stop("stop_time")
    ELSE IF delta >= Stop_Delta THEN Stop("stop_delta")
    ELSE pc' = "cycle" /\ UNCHANGED outcome

\* Has_Simulation_Timeout, asked by Simulation_Main_Loop after every cycle
\* that returns Run_Resumed.
Next_Cycle(tn, delta) ==
    IF tn > Stop_Time /\ tn # Last_Time THEN Stop("stop_time")
    ELSE IF delta >= Stop_Delta THEN Stop("stop_delta")
    ELSE pc' = "cycle" /\ UNCHANGED outcome

-----------------------------------------------------------------------------
(***************************************************************************)
(* Resuming processes                                                      *)
(***************************************************************************)
\* Resume_Process on every member of P: a process that is already resumed is
\* not queued a second time.
Resume_Process(P) ==
    LET fresh == {p \in P : ~Resumed[p]}
    IN  /\ Resumed' = [p \in Process |-> Resumed[p] \/ p \in P]
        /\ Resume_Process_Table' =
              Resume_Process_Table \cup (fresh \ Postponed)
        /\ Postponed_Resume_Process_Table' =
              Postponed_Resume_Process_Table \cup (fresh \cap Postponed)

\* The processes on the Event_List of the signals of E.
Sensitive(E) ==
    {p \in Process : \/ p \in Sensitized /\ StaticSensitivity[p] \cap E # {}
                     \/ Sensitivity[p] \cap E # {}}

\* The beginning of Run_Processes: take a table over.
Run_Processes(post) ==
    IF post
    THEN /\ table' = Postponed_Resume_Process_Table
         /\ Postponed_Resume_Process_Table' = {}
         /\ UNCHANGED Resume_Process_Table
    ELSE /\ table' = Resume_Process_Table
         /\ Resume_Process_Table' = {}
         /\ UNCHANGED Postponed_Resume_Process_Table

Mut_Clear_Resumed(p) == UNCHANGED Resumed

Clear_Resumed(p) == Resumed' = [Resumed EXCEPT ![p] = FALSE]

\* The next process of the table, in Run_Processes.
Dispatch(p) ==
    /\ pc \in RunSteps
    /\ Current_Process = None
    /\ p \in table
    /\ IF Resumed[p]
       THEN /\ Clear_Resumed(p)
            /\ table' = table \ {p}
            /\ Current_Process' = p
            /\ UNCHANGED <<pc, outcome>>
       ELSE /\ Stop("internal_error")
            /\ UNCHANGED <<Resumed, table, Current_Process>>
    /\ UNCHANGED <<State, Timeout, Sensitivity, until, deadline, chainVars,
                   Resume_Process_Table, Postponed_Resume_Process_Table,
                   timeVars, ran>>

-----------------------------------------------------------------------------
(***************************************************************************)
(* What the running process may call                                       *)
(***************************************************************************)
\* The process is executing its statements (it has no wait to close).
Executing(p) == Current_Process = p /\ State[p] \in {"Ready", "Sensitized"}

\* The subprogram of the process returns to Run_Processes.
Suspend == Current_Process' = None /\ UNCHANGED <<pc, outcome>>

\* Update_Process_First_Timeout, once Proc.Timeout is T.
Update_Process_First_Timeout(p, T) ==
    /\ Process_First_Timeout' =
          IF T < Process_First_Timeout THEN T ELSE Process_First_Timeout
    /\ Process_Timeout_Chain' = Process_Timeout_Chain \cup {p}

\* A sensitized process reached the end of its statements.
Return(p) ==
    /\ Executing(p)
    /\ State[p] = "Sensitized"
    /\ Suspend
    /\ UNCHANGED <<procVars, chainVars, tableVars, timeVars, ran>>

\* "wait;"
Ghdl_Process_Wait_Exit(p) ==
    /\ Executing(p)
    /\ State[p] # "Sensitized"
    /\ State' = [State EXCEPT ![p] = "Dead"]
    /\ deadline' = [deadline EXCEPT ![p] = NoDeadline]
    /\ Suspend
    /\ UNCHANGED <<Timeout, Resumed, Sensitivity, until, chainVars,
                   tableVars, timeVars, ran>>

Mut_Set_Delay(p, t) ==
    /\ Timeout' = [Timeout EXCEPT ![p] = Current_Time + t]
    /\ Update_Process_First_Timeout(p, Current_Time + t)

Mut_Set_Delay_Wraps(p, t) ==
    /\ Timeout' = [Timeout EXCEPT ![p] = Wrapped_Sum(Current_Time, t)]
    /\ Update_Process_First_Timeout(p, Wrapped_Sum(Current_Time, t))

\* A delay past the end of the times is never chained.
Set_Delay(p, t) ==
    IF t <= Last_Time - Current_Time
    THEN /\ Timeout' = [Timeout EXCEPT ![p] = Current_Time + t]
         /\ Update_Process_First_Timeout(p, Current_Time + t)
    ELSE /\ Timeout' = [Timeout EXCEPT ![p] = Last_Time]
         /\ UNCHANGED chainVars

\* "wait for t"
Ghdl_Process_Wait_Timeout(p, t) ==
    /\ Executing(p)
    /\ State[p] # "Sensitized"
    /\ t >= 0
    /\ State' = [State EXCEPT ![p] = "Delayed"]
    /\ deadline' = [deadline EXCEPT ![p] = Current_Time + t]
    /\ Set_Delay(p, t)
    /\ Suspend
    /\ UNCHANGED <<Resumed, Sensitivity, until, tableVars, timeVars, ran>>

\* "wait on S [until c]": Wait_Add_Sensitivity for each signal, Wait_Suspend.
Wait_On(p, S, c) ==
    /\ Executing(p)
    /\ State[p] # "Sensitized"
    /\ Sensitivity' = [Sensitivity EXCEPT ![p] = S]
    /\ until' = [until EXCEPT ![p] = c]
    /\ State' = [State EXCEPT ![p] = "Wait"]
    /\ deadline' = [deadline EXCEPT ![p] = NoDeadline]
    /\ Suspend
    /\ UNCHANGED <<Timeout, Resumed, chainVars, tableVars, timeVars, ran>>

\* "wait on S [until c] for t": Wait_Set_Timeout comes first, and unlike
\* Wait_Timeout it does not look for an overflow.
Wait_On_For(p, S, c, t) ==
    LET T == Wrapped_Sum(Current_Time, t)
    IN  /\ Executing(p)
        /\ State[p] # "Sensitized"
        /\ t >= 0
        /\ FarTimeouts \/ t <= Last_Time - Current_Time
        /\ Timeout' = [Timeout EXCEPT ![p] = T]
        /\ deadline' = [deadline EXCEPT ![p] = Current_Time + t]
        /\ Update_Process_First_Timeout(p, T)
        /\ Sensitivity' = [Sensitivity EXCEPT ![p] = S]
        /\ until' = [until EXCEPT ![p] = c]
        /\ State' = [State EXCEPT ![p] = "Wait"]
        /\ Suspend
        /\ UNCHANGED <<Resumed, tableVars, timeVars, ran>>

\* A wait in a sensitized process, or a negative timeout clause: Error.
Wait_Error(p, t) ==
    /\ Executing(p)
    /\ State[p] = "Sensitized" \/ t < 0
    /\ Stop("error")
    /\ Current_Process' = None
    /\ UNCHANGED <<procVars, chainVars, tableVars, timeVars, ran>>

\* The condition of the wait is evaluated and is false: suspend again.
Wait_Again(p) ==
    /\ Current_Process = p
    /\ State[p] = "Wait"        \* Ghdl_Process_Wait_Timed_Out is false
    /\ until[p]
    /\ Suspend
    /\ UNCHANGED <<procVars, chainVars, tableVars, timeVars, ran>>

Remove_Process_From_Timeout_Chain(P) == Process_Timeout_Chain \ P

Mut_Earliest_Timeout(P) == Last_Time

\* The earliest timeout of the processes of P, as Wait_Close and the scan of
\* the chain compute it.
Earliest_Timeout(P) ==
    Min({Last_Time} \cup
        {Timeout[q] : q \in {r \in P : Waiting(r) /\ Timeout[r] > 0}})

Mut_First_Timeout_Without(p) == Process_First_Timeout

\* Process_First_Timeout once p has left the chain: computed again only when
\* p had the first timeout.
First_Timeout_Without(p) ==
    IF Process_First_Timeout = Timeout[p]
    THEN Earliest_Timeout(Process_Timeout_Chain \ {p})
    ELSE Process_First_Timeout

\* The wait statement is over, by an event or by its timeout.
Ghdl_Process_Wait_Close(p) ==
    /\ Current_Process = p
    /\ State[p] \in {"Wait", "Timeout"}
    /\ Sensitivity' = [Sensitivity EXCEPT ![p] = {}]
    /\ until' = [until EXCEPT ![p] = FALSE]
    /\ Process_Timeout_Chain' = Remove_Process_From_Timeout_Chain({p})
    /\ Process_First_Timeout' = First_Timeout_Without(p)
    /\ Timeout' = [Timeout EXCEPT ![p] = Bad_Time]
    /\ deadline' = [deadline EXCEPT ![p] = NoDeadline]
    /\ State' = [State EXCEPT ![p] = "Ready"]
    /\ UNCHANGED <<Resumed, tableVars, timeVars, Current_Process, ran, pc,
                   outcome>>

Execute(p) ==
    \/ Return(p)
    \/ Ghdl_Process_Wait_Exit(p)
    \/ \E t \in Delays : Ghdl_Process_Wait_Timeout(p, t) \/ Wait_Error(p, t)
    \/ \E S \in SUBSET Signal, c \in BOOLEAN :
          \/ Wait_On(p, S, c)
          \/ \E t \in Delays : Wait_On_For(p, S, c, t)
    \/ Wait_Again(p)
    \/ Ghdl_Process_Wait_Close(p)

-----------------------------------------------------------------------------
(***************************************************************************)
(* The simulation cycle                                                    *)
(***************************************************************************)
\* Initialization_Phase, up to the first Run_Processes.
Initialization_Phase ==
    /\ pc = "init"
    /\ Current_Time' = 0
    /\ Resumed' = [p \in Process |-> TRUE]
    /\ table' = Process \ Postponed
    /\ Resume_Process_Table' = {}
    /\ Postponed_Resume_Process_Table' = Postponed
    /\ pc' = "init_run"
    /\ UNCHANGED <<State, Timeout, Sensitivity, until, deadline, chainVars,
                   Next_Time, Current_Delta, first, Current_Process, ran, outcome>>

\* Initialization_Phase: the postponed processes are always run as well.
Init_Postponed ==
    /\ pc = "init_run"
    /\ table = {} /\ Current_Process = None
    /\ Run_Processes(TRUE)
    /\ pc' = "init_postponed"
    /\ UNCHANGED <<procVars, chainVars, timeVars, Current_Process, ran,
                   outcome>>

\* The values Compute_Next_Time may return.  A driver that is active in the
\* next delta makes it the current time; otherwise the signals may be active
\* at any time before the first timeout, or not at all.
Compute_Next_Time ==
    LET res == Min({Last_Time, Process_First_Timeout})
    IN  IF res = Current_Time
        THEN {res}
        ELSE {Current_Time, res} \cup (Current_Time .. res)

\* The end of Initialization_Phase and the entry of Simulation_Main_Loop.
Init_Next_Time(tn) ==
    /\ pc = "init_postponed"
    /\ table = {} /\ Current_Process = None
    /\ tn \in Compute_Next_Time
    /\ Next_Time' = tn
    /\ Current_Delta' = 0
    /\ pc' = "cycle"
    /\ UNCHANGED <<procVars, chainVars, tableVars, Current_Time, first,
                   Current_Process, ran, outcome>>

\* Step a of Simulation_Cycle.
Begin_Cycle ==
    /\ pc = "cycle"
    /\ Current_Time' = Next_Time
    /\ first' = FALSE
    /\ pc' = "update"
    /\ UNCHANGED <<procVars, chainVars, tableVars, Next_Time, Current_Delta,
                   Current_Process, ran, outcome>>

\* Steps c and d: the signals of E have an event.
Update_Signals(E) ==
    /\ pc = "update"
    /\ Resume_Process(Sensitive(E))
    /\ pc' = "wake"
    /\ UNCHANGED <<State, Timeout, Sensitivity, until, deadline, chainVars,
                   table, timeVars, Current_Process, ran, outcome>>

\* The processes whose timeout is now.
Due == {p \in Process_Timeout_Chain :
            Waiting(p) /\ Timeout[p] = Current_Time}

\* Step f.2: the scan of the timeout chain, when a timeout is due.  A process
\* in State_Wait stays in the chain until it closes its wait statement.
Wake_Up ==
    /\ pc = "wake"
    /\ Current_Time = Process_First_Timeout
    /\ \A p \in Process_Timeout_Chain : State[p] \notin {"Timeout", "Ready"}
    /\ Timeout' = [p \in Process |-> IF p \in Due THEN Bad_Time
                                                  ELSE Timeout[p]]
    /\ State' = [p \in Process |->
                    CASE p \in Due /\ State[p] = "Delayed" -> "Ready"
                      [] p \in Due /\ State[p] = "Wait" -> "Timeout"
                      [] OTHER -> State[p]]
    /\ Process_Timeout_Chain' =
          Remove_Process_From_Timeout_Chain({p \in Due : State[p] = "Delayed"})
    /\ Process_First_Timeout' = Earliest_Timeout(Process_Timeout_Chain \ Due)
    /\ Resume_Process(Due)
    /\ pc' = "start"
    /\ UNCHANGED <<Sensitivity, until, deadline, table, timeVars,
                   Current_Process, ran, outcome>>

\* Step f.2: no timeout is due.
No_Wake_Up ==
    /\ pc = "wake"
    /\ Current_Time # Process_First_Timeout
    /\ pc' = "start"
    /\ UNCHANGED <<procVars, chainVars, tableVars, timeVars,
                   Current_Process, ran, outcome>>

\* Step f.2: Internal_Error ("process in timeout").
Wake_Up_Error ==
    /\ pc = "wake"
    /\ Current_Time = Process_First_Timeout
    /\ \E p \in Process_Timeout_Chain : State[p] \in {"Timeout", "Ready"}
    /\ Stop("internal_error")
    /\ UNCHANGED <<procVars, chainVars, tableVars, timeVars,
                   Current_Process, ran>>

\* Step f.3: the non-postponed processes.
Start_Processes ==
    /\ pc = "start"
    /\ Run_Processes(FALSE)
    /\ ran' = (Resume_Process_Table # {})
    /\ pc' = "run"
    /\ UNCHANGED <<procVars, chainVars, timeVars, Current_Process, outcome>>

\* The end of a cycle that is the last one at the current time.
End_Of_Time_Step(tn) ==
    /\ Next_Time' = tn
    /\ Current_Delta' = 0
    /\ Next_Cycle(tn, 0)
    /\ UNCHANGED <<procVars, chainVars, Current_Time, first, Current_Process, ran>>

Mut_Postponed_Pending == FALSE

Postponed_Pending == Postponed_Resume_Process_Table # {}

\* Steps g and h.  Tn is what the last call of Compute_Next_Time returned (a
\* Cb_Last_Known_Delta callback makes the code compute it twice).
Next_Step(tn) ==
    /\ pc = "run"
    /\ table = {} /\ Current_Process = None
    /\ tn \in Compute_Next_Time
    /\ tn # Current_Time
    /\ ~Postponed_Pending
    /\ End_Of_Time_Step(tn)
    /\ UNCHANGED tableVars

\* Step h.4: the postponed processes that have resumed at this time.
Start_Postponed(tn) ==
    /\ pc = "run"
    /\ table = {} /\ Current_Process = None
    /\ tn \in Compute_Next_Time
    /\ tn # Current_Time
    /\ Postponed_Pending
    /\ Run_Processes(TRUE)
    /\ ran' = TRUE
    /\ pc' = "postponed"
    /\ UNCHANGED <<procVars, chainVars, timeVars, Current_Process, outcome>>

\* Step h.5: it is an error if they cause a delta cycle.
End_Postponed(tn) ==
    /\ pc = "postponed"
    /\ table = {} /\ Current_Process = None
    /\ tn \in Compute_Next_Time
    /\ IF tn = Current_Time
       THEN /\ Stop("error")
            /\ UNCHANGED <<procVars, chainVars, timeVars, Current_Process,
                           ran>>
       ELSE End_Of_Time_Step(tn)
    /\ UNCHANGED tableVars

Mut_Next_Delta == Current_Delta

Next_Delta == Current_Delta + 1

\* The next cycle is a delta cycle, or the simulation is complete.
Delta_Cycle ==
    /\ pc = "run"
    /\ table = {} /\ Current_Process = None
    /\ Current_Time \in Compute_Next_Time
    /\ IF Current_Time = Last_Time /\ ~ran
       THEN Stop("finished") /\ UNCHANGED Current_Delta
       ELSE /\ Current_Delta' = Next_Delta
            /\ Next_Cycle(Next_Time, Next_Delta)
    /\ UNCHANGED <<procVars, chainVars, tableVars, Current_Time, Next_Time,
                   first, Current_Process, ran>>

\* The simulation has ended.
Stopped == pc = "stopped" /\ UNCHANGED vars

-----------------------------------------------------------------------------
\* Elaboration has registered every process (Process_Register).
Init ==
    /\ State = [p \in Process |->
                   IF p \in Sensitized THEN "Sensitized" ELSE "Ready"]
    /\ Timeout = [p \in Process |-> Bad_Time]
    /\ Resumed = [p \in Process |-> FALSE]
    /\ Sensitivity = [p \in Process |-> {}]
    /\ until = [p \in Process |-> FALSE]
    /\ deadline = [p \in Process |-> NoDeadline]
    /\ Process_Timeout_Chain = {}
    /\ Process_First_Timeout = Last_Time
    /\ Resume_Process_Table = {}
    /\ Postponed_Resume_Process_Table = {}
    /\ table = {}
    /\ Current_Process = None
    /\ Current_Time = 0
    /\ Next_Time = 0
    /\ Current_Delta = 0
    /\ ran = FALSE
    /\ pc = "init"
    /\ outcome = "none"
    /\ first = TRUE

Schedule ==
    \/ Initialization_Phase
    \/ Init_Postponed
    \/ \E tn \in Time : Init_Next_Time(tn)
    \/ Begin_Cycle
    \/ \E E \in SUBSET Signal : Update_Signals(E)
    \/ Wake_Up
    \/ No_Wake_Up
    \/ Wake_Up_Error
    \/ Start_Processes
    \/ \E p \in Process : Dispatch(p)
    \/ \E tn \in Time : Next_Step(tn) \/ Start_Postponed(tn) \/ End_Postponed(tn)
    \/ Delta_Cycle

Next == Schedule \/ (\E p \in Process : Execute(p)) \/ Stopped

\* The kernel is one loop that waits for nothing outside the program, and every
\* process suspends in the end (the LRM's requirement on a design): some step
\* is taken as long as one can be.
Fairness == WF_vars(Schedule \/ \E p \in Process : Execute(p))

Spec == Init /\ [][Next]_vars /\ Fairness

-----------------------------------------------------------------------------
(***************************************************************************)
(* Properties                                                              *)
(***************************************************************************)
\* The type invariant: every field holds a value of its Ada type.
TypeOK ==
    /\ State \in [Process -> ProcessStates]
    /\ Timeout \in [Process -> Time]
    /\ Resumed \in [Process -> BOOLEAN]
    /\ Sensitivity \in [Process -> SUBSET Signal]
    /\ until \in [Process -> BOOLEAN]
    /\ deadline \in [Process -> Int]
    /\ Process_Timeout_Chain \subseteq Process
    /\ Process_First_Timeout \in Time
    /\ Resume_Process_Table \subseteq Process
    /\ Postponed_Resume_Process_Table \subseteq Process
    /\ table \subseteq Process
    /\ Current_Process \in Process \cup {None}
    /\ Current_Time \in Time
    /\ Next_Time \in Time
    /\ Current_Delta \in Nat
    /\ ran \in BOOLEAN
    /\ pc \in Steps
    /\ outcome \in Outcomes
    /\ first \in BOOLEAN

\* The Resumed flag of a process is set exactly while the process is in one
\* of the tables, and in one only: a table sized for its processes at
\* initialization never overflows, and "run non-resumed process" is never
\* reached (Resume_Process, Run_Processes).
ResumedIffQueued ==
    /\ \A p \in Process :
          Resumed[p] <=> p \in Resume_Process_Table
                              \cup Postponed_Resume_Process_Table \cup table
    /\ Resume_Process_Table \subseteq Process \ Postponed
    /\ Postponed_Resume_Process_Table \subseteq Postponed
    /\ table \cap (Resume_Process_Table
                       \cup Postponed_Resume_Process_Table) = {}

\* Process_First_Timeout is exactly the earliest timeout of the processes in
\* the chain that still wait for one, through every way of entering and
\* leaving the chain; the guards "Timeout > 0" of Wait_Close and of the scan
\* never skip a live timeout.
FirstTimeoutExact ==
    Process_First_Timeout =
        Min({Last_Time} \cup
            {Timeout[p] : p \in {q \in Process_Timeout_Chain : Waiting(q)}})

\* No timeout is passed over: a process that still waits in the chain has its
\* deadline in the future or now, and the next cycle is not later than it.
NoMissedTimeout ==
    \A p \in Process_Timeout_Chain :
        Waiting(p) => /\ deadline[p] >= Current_Time
                      /\ pc = "cycle" => deadline[p] >= Next_Time
                      /\ pc = "start" => deadline[p] > Current_Time

\* A process woken by its timeout is run at the very time it asked for, the
\* postponed ones included, however many delta cycles delay them.
TimedOutOnTime ==
    \A p \in Process :
        /\ State[p] = "Timeout" => deadline[p] = Current_Time
        /\ State[p] = "Ready" /\ Resumed[p] /\ deadline[p] # NoDeadline
              => deadline[p] = Current_Time

\* The checks "process in timeout" and "run non-resumed process" of the
\* kernel never fail.
NoInternalError == outcome # "internal_error"

\* Time never goes back: what the assertion of Find_Next_Time
\* (grt-signals.adb:1907) states of every Tn.
TimeNeverDecreases == [][Current_Time' >= Current_Time]_vars

\* Time advances only when every process that was resumed at the current time
\* has been run: no resumption is carried over into a later time step.
NobodyLeftBehind ==
    [][Current_Time' # Current_Time =>
          \A p \in Process : ~Resumed[p] /\ State[p] # "Timeout"]_vars

\* --stop-time ("stop the simulation at time X", grt-options.adb:161) is looked at
\* after a cycle (Has_Simulation_Timeout), so the first cycle may be later than it;
\* and TIME'HIGH is let through (grt-processes.adb:1109), even if a timeout or a
\* transaction is due there.  No other cycle is later.  Nor does the simulation
\* stop early: when --stop-time ends it, the next cycle is later, and no timeout
\* that ends by then is still waited for.
NotLater ==
    Current_Time' # Current_Time /\ Current_Time' > Stop_Time =>
        first \/ Current_Time' = Last_Time
NotEarly ==
    outcome' = "stop_time" =>
        /\ Next_Time' > Stop_Time
        /\ \A p \in Process : Waiting(p)' => deadline'[p] \notin 0 .. Stop_Time
StoppedInTime == [][NotLater /\ NotEarly]_vars

\* A timeout that ends by --stop-time takes effect, unless an error or
\* --stop-delta ends the simulation: neither the end of the simulation nor an
\* endless run of other events makes the kernel forget it.
TimeoutTaken ==
    \A p \in Process :
        (Waiting(p) /\ deadline[p] \in 0 .. Stop_Time)
            ~> \/ ~Waiting(p)
               \/ outcome \in {"error", "internal_error", "stop_delta"}

\* Every simulation ends: --stop-delta breaks an endless run of delta cycles
\* and time cannot advance for ever.
Termination == <>(pc = "stopped")
=============================================================================
