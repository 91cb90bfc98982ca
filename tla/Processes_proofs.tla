-------------------------- MODULE Processes_proofs --------------------------
(***************************************************************************)
(* Proofs about the process scheduler, for every design, every TIME'HIGH   *)
(* and every setting of the options.                                       *)
(***************************************************************************)
EXTENDS Processes, WellFoundedInduction, NaturalsInduction, TLAPS

(***************************************************************************)
(* A non-empty set of times has a minimum: shift it into the naturals,     *)
(* which are well-founded.                                                 *)
(***************************************************************************)
LEMMA MinTime ==
    ASSUME NEW T \in SUBSET Time, T # {}
    PROVE  /\ Min(T) \in T
           /\ \A t \in T : Min(T) <= t
<1> DEFINE N == {t - Bad_Time : t \in T}
           Less == OpToRel(<, Nat)
<1>1. N \subseteq Nat /\ N # {}
  <2>1. Bad_Time \in Int /\ \A t \in T : t \in Int /\ t >= Bad_Time
    BY TimeAssumption DEF Time, Bad_Time
  <2>2. \A t \in T : t - Bad_Time \in Nat
    BY <2>1
  <2> QED
    BY <2>2
<1>2. PICK n \in N : \A m \in N : ~(<<m, n>> \in Less)
  <2>1. IsWellFoundedOn(Less, Nat)
    BY NatLessThanWellFounded
  <2> QED
    BY <1>1, <2>1, WFMin
<1>3. \A m \in N : n <= m
  <2>1. \A m, k \in Nat : m < k => <<m, k>> \in Less
    BY DEF OpToRel
  <2> HIDE DEF Less, N
  <2>2. \A m \in N : m \in Nat /\ n \in Nat /\ ~(m < n)
    BY <1>1, <1>2, <2>1
  <2> QED
    BY <2>2
<1>4. PICK t \in T : n = t - Bad_Time
  BY <1>2
<1>5. \A u \in T : t <= u
  <2> SUFFICES ASSUME NEW u \in T
               PROVE  t <= u
    OBVIOUS
  <2>1. u - Bad_Time \in N
    OBVIOUS
  <2>2. t - Bad_Time <= u - Bad_Time
    BY <1>3, <1>4, <2>1
  <2> QED
    BY <2>2, TimeAssumption DEF Time, Bad_Time
<1> QED
  BY <1>4, <1>5 DEF Min

(***************************************************************************)
(* The earliest timeout of a set of processes is a time, it is one of the  *)
(* timeouts it is the earliest of (or the end of time), and no other one   *)
(* is earlier.                                                             *)
(***************************************************************************)
LEMMA EarliestTimeout ==
    ASSUME TypeOK, NEW P \in SUBSET Process
    PROVE  /\ Earliest_Timeout(P) \in Time
           /\ Earliest_Timeout(P) <= Last_Time
           /\ \A q \in P : Waiting(q) /\ Timeout[q] > 0
                              => Earliest_Timeout(P) <= Timeout[q]
           /\ \/ Earliest_Timeout(P) = Last_Time
              \/ \E q \in P : /\ Waiting(q)
                              /\ Timeout[q] > 0
                              /\ Earliest_Timeout(P) = Timeout[q]
<1> DEFINE T == {Last_Time} \cup
                {Timeout[q] : q \in {r \in P : Waiting(r) /\ Timeout[r] > 0}}
<1>1. T \subseteq Time /\ T # {} /\ Last_Time \in T
  BY TimeAssumption DEF TypeOK, Time, Bad_Time, Last_Time
<1>2. Min(T) \in T /\ \A t \in T : Min(T) <= t
  BY <1>1, MinTime
<1>3. Earliest_Timeout(P) = Min(T)
  BY DEF Earliest_Timeout
<1> HIDE DEF T
<1>4. \A q \in P : Waiting(q) /\ Timeout[q] > 0 => Timeout[q] \in T
  BY DEF T
<1>5. \A t \in T : t = Last_Time
               \/ \E q \in P : Waiting(q) /\ Timeout[q] > 0 /\ t = Timeout[q]
  BY DEF T
<1> QED
  BY <1>1, <1>2, <1>3, <1>4, <1>5

-----------------------------------------------------------------------------
(***************************************************************************)
(* Type correctness                                                        *)
(***************************************************************************)
\* The sum of two times is a time, past the end of the times as well.
LEMMA WrappedSumType ==
    ASSUME NEW a \in Time, NEW b \in 0 .. TimeHigh
    PROVE  Wrapped_Sum(a, b) \in Time
BY TimeAssumption DEF Wrapped_Sum, Time, Bad_Time

\* Whatever Compute_Next_Time returns is a time.
LEMMA NextTimeType ==
    ASSUME TypeOK, NEW tn \in Compute_Next_Time
    PROVE  tn \in Time
<1>1. Last_Time \in Time
  BY TimeAssumption DEF Last_Time, Time, Bad_Time
<1>2. {Last_Time, Process_First_Timeout} \subseteq Time
  BY <1>1 DEF TypeOK
<1>3. Min({Last_Time, Process_First_Timeout}) \in Time
  BY <1>2, MinTime
<1> DEFINE res == Min({Last_Time, Process_First_Timeout})
<1>4. tn \in {Current_Time, res} \cup (Current_Time .. res)
  BY DEF Compute_Next_Time
<1> HIDE DEF res
<1>5. res \in Time
  BY <1>3 DEF res
<1> QED
  BY <1>4, <1>5, TimeAssumption DEF TypeOK, Time, Bad_Time

\* Steps of the running process keep the types.
LEMMA ExecuteType ==
    ASSUME TypeOK, NEW p \in Process, Execute(p)
    PROVE  TypeOK'
<1> USE TimeAssumption DEF TypeOK, procVars, chainVars, tableVars, timeVars,
        ProcessStates, Steps, Outcomes, Suspend, Stop
<1>1. CASE Return(p)
  BY <1>1 DEF Return
<1>2. CASE Ghdl_Process_Wait_Exit(p)
  BY <1>2 DEF Ghdl_Process_Wait_Exit, NoDeadline
<1>3. ASSUME NEW t \in Delays, Ghdl_Process_Wait_Timeout(p, t)
      PROVE  TypeOK'
  BY <1>3 DEF Ghdl_Process_Wait_Timeout, Set_Delay,
              Update_Process_First_Timeout, Time, Bad_Time, Last_Time
<1>4. ASSUME NEW t \in Delays, Wait_Error(p, t)
      PROVE  TypeOK'
  BY <1>4 DEF Wait_Error
<1>5. ASSUME NEW S \in SUBSET Signal, NEW c \in BOOLEAN, Wait_On(p, S, c)
      PROVE  TypeOK'
  BY <1>5 DEF Wait_On, NoDeadline
<1>6. ASSUME NEW S \in SUBSET Signal, NEW c \in BOOLEAN, NEW t \in Delays,
             Wait_On_For(p, S, c, t)
      PROVE  TypeOK'
  <2>1. t \in 0 .. TimeHigh
    BY <1>6 DEF Wait_On_For
  <2>2. Wrapped_Sum(Current_Time, t) \in Time
    BY <2>1, WrappedSumType
  <2> QED
    BY <1>6, <2>1, <2>2
    DEF Wait_On_For, Update_Process_First_Timeout, Time, Bad_Time
<1>7. CASE Wait_Again(p)
  BY <1>7 DEF Wait_Again
<1>8. CASE Ghdl_Process_Wait_Close(p)
  <2>1. First_Timeout_Without(p) \in Time
    BY EarliestTimeout DEF First_Timeout_Without
  <2>2. Bad_Time \in Time
    BY DEF Time, Bad_Time
  <2> QED
    BY <1>8, <2>1, <2>2
    DEF Ghdl_Process_Wait_Close, Remove_Process_From_Timeout_Chain, NoDeadline
<1> QED
  BY <1>1, <1>2, <1>3, <1>4, <1>5, <1>6, <1>7, <1>8 DEF Execute

\* Steps of the kernel keep the types.
LEMMA ScheduleType ==
    ASSUME TypeOK, Schedule
    PROVE  TypeOK'
<1> USE TimeAssumption, ProcessAssumption
    DEF TypeOK, procVars, chainVars, tableVars, timeVars,
        ProcessStates, Steps, Outcomes, Stop
<1>1. CASE Initialization_Phase
  BY <1>1 DEF Initialization_Phase, Time, Bad_Time
<1>2. CASE Init_Postponed
  BY <1>2 DEF Init_Postponed, Run_Processes
<1>3. ASSUME NEW tn \in Time, Init_Next_Time(tn)
      PROVE  TypeOK'
  BY <1>3 DEF Init_Next_Time
<1>4. CASE Begin_Cycle
  BY <1>4 DEF Begin_Cycle
<1>5. ASSUME NEW E \in SUBSET Signal, Update_Signals(E)
      PROVE  TypeOK'
  BY <1>5 DEF Update_Signals, Resume_Process, Sensitive
<1>6. CASE Wake_Up
  <2>1. Earliest_Timeout(Process_Timeout_Chain \ Due) \in Time
    BY EarliestTimeout
  <2>2. Bad_Time \in Time
    BY DEF Time, Bad_Time
  <2>3. State' \in [Process -> ProcessStates]
    BY <1>6 DEF Wake_Up
  <2>4. Timeout' \in [Process -> Time]
    BY <1>6, <2>2 DEF Wake_Up
  <2> QED
    BY <1>6, <2>1, <2>3, <2>4
    DEF Wake_Up, Resume_Process, Due, Remove_Process_From_Timeout_Chain
<1>7. CASE No_Wake_Up
  BY <1>7 DEF No_Wake_Up
<1>8. CASE Wake_Up_Error
  BY <1>8 DEF Wake_Up_Error
<1>9. CASE Start_Processes
  BY <1>9 DEF Start_Processes, Run_Processes
<1>10. ASSUME NEW p \in Process, Dispatch(p)
       PROVE  TypeOK'
  BY <1>10 DEF Dispatch, Clear_Resumed
<1>11. ASSUME NEW tn \in Time, Next_Step(tn)
       PROVE  TypeOK'
  BY <1>11 DEF Next_Step, End_Of_Time_Step, Next_Cycle
<1>12. ASSUME NEW tn \in Time, Start_Postponed(tn)
       PROVE  TypeOK'
  BY <1>12 DEF Start_Postponed, Run_Processes
<1>13. ASSUME NEW tn \in Time, End_Postponed(tn)
       PROVE  TypeOK'
  BY <1>13 DEF End_Postponed, End_Of_Time_Step, Next_Cycle
<1>14. CASE Delta_Cycle
  BY <1>14 DEF Delta_Cycle, Next_Cycle, Next_Delta
<1> QED
  BY <1>1, <1>2, <1>3, <1>4, <1>5, <1>6, <1>7, <1>8, <1>9, <1>10, <1>11,
     <1>12, <1>13, <1>14 DEF Schedule

\* Every field holds a value of its Ada type, in every reachable state: in
\* particular no time computed by the scheduler leaves Std_Time.
THEOREM TypeCorrect == Spec => []TypeOK
<1>1. Init => TypeOK
  <2> SUFFICES ASSUME Init
               PROVE  TypeOK
    OBVIOUS
  <2>1. {Bad_Time, Last_Time, 0} \subseteq Time /\ NoDeadline \in Int
    BY TimeAssumption DEF Time, Bad_Time, Last_Time, NoDeadline
  <2>2. State \in [Process -> ProcessStates]
    BY DEF Init, ProcessStates
  <2> QED
    BY <2>1, <2>2 DEF Init, TypeOK, Steps, Outcomes
<1>2. TypeOK /\ [Next]_vars => TypeOK'
  <2> SUFFICES ASSUME TypeOK, [Next]_vars
               PROVE  TypeOK'
    OBVIOUS
  <2>1. CASE Schedule
    BY <2>1, ScheduleType
  <2>2. ASSUME NEW p \in Process, Execute(p)
        PROVE  TypeOK'
    BY <2>2, ExecuteType
  <2>3. CASE UNCHANGED vars
    BY <2>3 DEF TypeOK, vars, procVars, chainVars, tableVars, timeVars
  <2> QED
    BY <2>1, <2>2, <2>3 DEF Next, Stopped
<1> QED
  BY <1>1, <1>2, PTL DEF Spec

-----------------------------------------------------------------------------
(***************************************************************************)
(* The resume tables                                                       *)
(***************************************************************************)
\* ResumedIffQueued is not inductive: it has to know at which steps the
\* tables are empty, and that the running process is no longer resumed.
QueueInv ==
    /\ ResumedIffQueued
    /\ pc \notin RunSteps \cup {"stopped"} => table = {}
    /\ pc \notin RunSteps => Current_Process = None
    /\ pc \notin {"wake", "start", "stopped"} => Resume_Process_Table = {}
    /\ pc \in {"init", "init_postponed", "postponed"} =>
          Postponed_Resume_Process_Table = {}
    /\ \A p \in Process : Current_Process = p => ~Resumed[p]

\* The running process does not touch the tables.
LEMMA ExecuteQueue ==
    ASSUME TypeOK, QueueInv, NEW p \in Process, Execute(p)
    PROVE  QueueInv'
<1>1. UNCHANGED <<Resumed, tableVars>> /\ Current_Process = p
  BY DEF Execute, Return, Ghdl_Process_Wait_Exit, Ghdl_Process_Wait_Timeout,
         Wait_Error, Wait_On, Wait_On_For, Wait_Again,
         Ghdl_Process_Wait_Close, Executing, procVars
<1>2. \/ UNCHANGED pc
      \/ pc' = "stopped" /\ Current_Process' = None
  BY DEF Execute, Return, Ghdl_Process_Wait_Exit, Ghdl_Process_Wait_Timeout,
         Wait_Error, Wait_On, Wait_On_For, Wait_Again,
         Ghdl_Process_Wait_Close, Suspend, Stop
<1>3. Current_Process' \in {p, None}
  BY DEF Execute, Return, Ghdl_Process_Wait_Exit, Ghdl_Process_Wait_Timeout,
         Wait_Error, Wait_On, Wait_On_For, Wait_Again,
         Ghdl_Process_Wait_Close, Executing, Suspend
<1>4. ResumedIffQueued'
  BY <1>1 DEF QueueInv, ResumedIffQueued, tableVars
<1> QED
  BY <1>1, <1>2, <1>3, <1>4, ProcessAssumption
  DEF QueueInv, RunSteps, tableVars

\* A step of the kernel keeps the tables and the flags in agreement.
LEMMA ScheduleQueue ==
    ASSUME TypeOK, QueueInv, Schedule
    PROVE  QueueInv'
<1> USE ProcessAssumption
    DEF TypeOK, QueueInv, ResumedIffQueued, RunSteps, procVars, chainVars,
        tableVars, timeVars, Stop
<1>1. CASE Initialization_Phase
  BY <1>1 DEF Initialization_Phase
<1>2. CASE Init_Postponed
  BY <1>2 DEF Init_Postponed, Run_Processes
<1>3. ASSUME NEW tn \in Time, Init_Next_Time(tn)
      PROVE  QueueInv'
  BY <1>3 DEF Init_Next_Time
<1>4. CASE Begin_Cycle
  BY <1>4 DEF Begin_Cycle
<1>5. ASSUME NEW P \in SUBSET Process, Resume_Process(P),
             pc \in {"update", "wake"}, pc' \in {"wake", "start"},
             UNCHANGED <<table, Current_Process>>
      PROVE  QueueInv'
  BY <1>5 DEF Resume_Process
<1>6. ASSUME NEW E \in SUBSET Signal, Update_Signals(E)
      PROVE  QueueInv'
  BY <1>5, <1>6 DEF Update_Signals, Sensitive
<1>7. CASE Wake_Up
  BY <1>5, <1>7 DEF Wake_Up, Due
<1>8. CASE No_Wake_Up \/ Wake_Up_Error
  BY <1>8 DEF No_Wake_Up, Wake_Up_Error
<1>9. CASE Start_Processes
  BY <1>9 DEF Start_Processes, Run_Processes
<1>10. ASSUME NEW p \in Process, Dispatch(p)
       PROVE  QueueInv'
  BY <1>10 DEF Dispatch, Clear_Resumed
<1>11. ASSUME NEW tn \in Time, Next_Step(tn)
       PROVE  QueueInv'
  BY <1>11 DEF Next_Step, End_Of_Time_Step, Next_Cycle
<1>12. ASSUME NEW tn \in Time, Start_Postponed(tn)
       PROVE  QueueInv'
  BY <1>12 DEF Start_Postponed, Run_Processes
<1>13. ASSUME NEW tn \in Time, End_Postponed(tn)
       PROVE  QueueInv'
  BY <1>13 DEF End_Postponed, End_Of_Time_Step, Next_Cycle
<1>14. CASE Delta_Cycle
  BY <1>14 DEF Delta_Cycle, Next_Cycle
<1> QED
  BY <1>1, <1>2, <1>3, <1>4, <1>6, <1>7, <1>8, <1>9, <1>10, <1>11, <1>12,
     <1>13, <1>14 DEF Schedule

\* The flag, the tables and the running process stay consistent, which is what
\* makes ResumedIffQueued inductive.
LEMMA QueueInvariant == Spec => []QueueInv
<1>1. Init => QueueInv
  BY ProcessAssumption DEF Init, QueueInv, ResumedIffQueued
<1>2. TypeOK /\ QueueInv /\ [Next]_vars => QueueInv'
  <2> SUFFICES ASSUME TypeOK, QueueInv, [Next]_vars
               PROVE  QueueInv'
    OBVIOUS
  <2>1. CASE Schedule
    BY <2>1, ScheduleQueue
  <2>2. ASSUME NEW p \in Process, Execute(p)
        PROVE  QueueInv'
    BY <2>2, ExecuteQueue
  <2>3. CASE UNCHANGED vars
    BY <2>3 DEF QueueInv, ResumedIffQueued, vars, procVars, tableVars
  <2> QED
    BY <2>1, <2>2, <2>3 DEF Next, Stopped
<1> QED
  BY <1>1, <1>2, TypeCorrect, PTL DEF Spec

\* A process is resumed exactly while it is in a resume table, and never in
\* two: the tables, allocated with one entry per process, never overflow.
THEOREM TablesAgree == Spec => []ResumedIffQueued
<1>1. QueueInv => ResumedIffQueued
  BY DEF QueueInv
<1> QED
  BY <1>1, QueueInvariant, PTL

(***************************************************************************)
(* The timeouts                                                            *)
(***************************************************************************)
\* What the state of one process says about its timeout and its deadline.
WaitInv(p) ==
    /\ p \in Sensitized <=> State[p] = "Sensitized"
    /\ Sensitivity[p] # {} => State[p] \in {"Wait", "Timeout"}
    /\ ~Waiting(p) => Timeout[p] = Bad_Time
    /\ State[p] = "Wait" /\ p \notin Process_Timeout_Chain =>
          Timeout[p] = Bad_Time
    /\ p \in Process_Timeout_Chain =>
          State[p] \in {"Wait", "Delayed", "Timeout"}
    /\ p \in Process_Timeout_Chain /\ Waiting(p) =>
          /\ Timeout[p] = deadline[p]
          /\ Timeout[p] >= Current_Time
          /\ pc = "start" => Timeout[p] > Current_Time
          /\ pc \in RunSteps /\ (Resumed[p] \/ Current_Process = p) =>
                Timeout[p] > Current_Time
    /\ State[p] = "Timeout" =>
          deadline[p] = Current_Time /\ (Resumed[p] \/ Current_Process = p)
    /\ State[p] = "Ready" /\ Resumed[p] /\ deadline[p] # NoDeadline =>
          deadline[p] = Current_Time
    /\ pc = "init" => deadline[p] = NoDeadline

\* Process_First_Timeout is a lower bound, and it is attained.
FirstInv ==
    /\ Process_First_Timeout >= Current_Time
    /\ Process_First_Timeout <= Last_Time
    /\ \A p \in Process_Timeout_Chain :
          Waiting(p) => Process_First_Timeout <= Timeout[p]
    /\ \/ Process_First_Timeout = Last_Time
       \/ \E p \in Process_Timeout_Chain :
             Waiting(p) /\ Timeout[p] = Process_First_Timeout

\* Time, and what holds when it may advance.
ClockInv ==
    /\ Current_Time >= 0
    /\ pc = "init" => Current_Time = 0 /\ Process_Timeout_Chain = {}
    /\ pc \in {"update", "wake", "start", "run", "postponed"} =>
          Next_Time = Current_Time
    /\ pc = "cycle" => /\ Next_Time >= Current_Time
                       /\ Next_Time <= Process_First_Timeout
                       /\ Next_Time # Current_Time =>
                             Postponed_Resume_Process_Table = {}

\* Without postponed processes nobody is left in State_Timeout when the next
\* cycle begins.
NoPostponedInv ==
    Postponed = {} =>
        /\ outcome # "internal_error"
        /\ pc \in {"cycle", "update", "wake"} =>
              \A p \in Process : State[p] # "Timeout"

TimeoutInv ==
    ClockInv /\ FirstInv /\ (\A p \in Process : WaitInv(p)) /\ NoPostponedInv

\* The bounds of Std_Time as the proofs below need them.
LEMMA TimeBounds ==
    /\ TimeHigh \in Nat
    /\ Last_Time = TimeHigh
    /\ Bad_Time \in Int
    /\ Bad_Time < 0
    /\ NoDeadline \in Int
    /\ NoDeadline < 0
    /\ \A t \in Time : t \in Int /\ t <= TimeHigh
BY TimeAssumption DEF Last_Time, Bad_Time, NoDeadline, Time

\* "wait on s for t" and "wait for t" enter the chain with the same effect
\* when the timeout does not lie past the end of the times.
LEMMA EnterChain ==
    ASSUME TypeOK, TypeOK', QueueInv, TimeoutInv, NEW p \in Process,
           NEW t \in Int, t >= 0, NEW st \in {"Wait", "Delayed"},
           Executing(p), State[p] # "Sensitized", pc \in RunSteps,
           Timeout' = [Timeout EXCEPT ![p] = Current_Time + t],
           deadline' = [deadline EXCEPT ![p] = Current_Time + t],
           State' = [State EXCEPT ![p] = st],
           Update_Process_First_Timeout(p, Current_Time + t),
           \A q \in Process \ {p} : Sensitivity'[q] = Sensitivity[q],
           Sensitivity'[p] # {} => st = "Wait",
           Current_Process' = None,
           UNCHANGED <<Resumed, tableVars, timeVars, pc, outcome>>
    PROVE  TimeoutInv'
<1> USE TimeBounds DEF TypeOK, TimeoutInv, timeVars, tableVars, Executing
<1>1. p \notin Process_Timeout_Chain
  BY DEF WaitInv
<1>2. ClockInv'
  BY DEF ClockInv, Update_Process_First_Timeout, RunSteps
<1>3. FirstInv'
  <2>1. \A q \in Process_Timeout_Chain :
           Waiting(q)' = Waiting(q) /\ Timeout'[q] = Timeout[q]
    BY <1>1 DEF Waiting
  <2>2. Waiting(p)' /\ Timeout'[p] = Current_Time + t
    BY DEF Waiting
  <2>3. Process_Timeout_Chain' = Process_Timeout_Chain \cup {p}
    BY DEF Update_Process_First_Timeout
  <2>4. CASE Current_Time + t < Process_First_Timeout
    BY <2>1, <2>2, <2>3, <2>4 DEF FirstInv, Update_Process_First_Timeout
  <2>5. CASE ~(Current_Time + t < Process_First_Timeout)
    BY <2>1, <2>2, <2>3, <2>5 DEF FirstInv, Update_Process_First_Timeout
  <2> QED
    BY <2>4, <2>5
<1>4. ASSUME NEW q \in Process
      PROVE  WaitInv(q)'
  <2>1. CASE q = p
    <3>1. ~Resumed[p] /\ p \in Process_Timeout_Chain'
      BY DEF QueueInv, Update_Process_First_Timeout
    <3> QED
      BY <2>1, <3>1, ProcessAssumption
      DEF WaitInv, Waiting, ClockInv, RunSteps
  <2>2. CASE q # p
    <3>1. q \in Process_Timeout_Chain' <=> q \in Process_Timeout_Chain
      BY <2>2 DEF Update_Process_First_Timeout
    <3> QED
      BY <2>2, <3>1, ProcessAssumption DEF WaitInv, Waiting
  <2> QED
    BY <2>1, <2>2
<1>5. NoPostponedInv'
  BY DEF NoPostponedInv, RunSteps
<1> QED
  BY <1>2, <1>3, <1>4, <1>5

\* Closing a wait statement: the first timeout is computed again exactly when
\* that is needed, and no live timeout is at time 0 then.
LEMMA CloseTimeout ==
    ASSUME TypeOK, TypeOK', QueueInv, TimeoutInv, NEW p \in Process,
           pc \in RunSteps, Ghdl_Process_Wait_Close(p)
    PROVE  TimeoutInv'
<1> USE TimeBounds
    DEF TypeOK, TimeoutInv, Ghdl_Process_Wait_Close, timeVars, tableVars,
        Remove_Process_From_Timeout_Chain
<1> DEFINE chain == Process_Timeout_Chain \ {p}
<1>1. \A q \in chain : Waiting(q)' = Waiting(q) /\ Timeout'[q] = Timeout[q]
  BY DEF Waiting
<1>2. Process_Timeout_Chain' = chain
  OBVIOUS
<1>3. FirstInv'
  <2>1. CASE Process_First_Timeout = Timeout[p]
    <3>1. Waiting(p) /\ p \in Process_Timeout_Chain
      BY <2>1 DEF WaitInv, FirstInv, ClockInv, Waiting
    <3>2. Timeout[p] > Current_Time /\ Current_Time >= 0
      BY <3>1 DEF WaitInv, ClockInv
    <3>3. \A q \in chain : Waiting(q) => Timeout[q] > 0 /\ Timeout[q] > Current_Time
      BY <2>1, <3>2 DEF FirstInv
    <3>4. Process_First_Timeout' = Earliest_Timeout(chain)
      BY <2>1 DEF First_Timeout_Without
    <3>5. /\ Earliest_Timeout(chain) \in Time
          /\ Earliest_Timeout(chain) <= Last_Time
          /\ \A q \in chain : Waiting(q) /\ Timeout[q] > 0
                                => Earliest_Timeout(chain) <= Timeout[q]
          /\ \/ Earliest_Timeout(chain) = Last_Time
             \/ \E q \in chain : /\ Waiting(q)
                                  /\ Timeout[q] > 0
                                  /\ Earliest_Timeout(chain) = Timeout[q]
      BY EarliestTimeout
    <3>6. Last_Time >= Current_Time
      BY DEF FirstInv
    <3> HIDE DEF chain
    <3>7. \A q \in Process_Timeout_Chain' :
             Waiting(q)' => Process_First_Timeout' <= Timeout'[q]
      BY <1>1, <1>2, <3>3, <3>4, <3>5
    <3>8. \/ Process_First_Timeout' = Last_Time
          \/ \E q \in Process_Timeout_Chain' :
                Waiting(q)' /\ Timeout'[q] = Process_First_Timeout'
      BY <1>1, <1>2, <3>4, <3>5
    <3>9. /\ Process_First_Timeout' >= Current_Time'
          /\ Process_First_Timeout' <= Last_Time
      BY <3>3, <3>4, <3>5, <3>6
    <3> QED
      BY <3>7, <3>8, <3>9 DEF FirstInv, Last_Time
  <2>2. CASE Process_First_Timeout # Timeout[p]
    <3>1. Process_First_Timeout' = Process_First_Timeout
      BY <2>2 DEF First_Timeout_Without
    <3>2. \A q \in Process_Timeout_Chain :
             Waiting(q) /\ Timeout[q] = Process_First_Timeout => q \in chain
      BY <2>2
    <3> HIDE DEF chain
    <3>3. \/ Process_First_Timeout = Last_Time
          \/ \E q \in chain : Waiting(q) /\ Timeout[q] = Process_First_Timeout
      BY <3>2 DEF FirstInv
    <3>4. \A q \in chain : Waiting(q) => Process_First_Timeout <= Timeout[q]
      BY DEF FirstInv, chain
    <3>5. /\ Process_First_Timeout' >= Current_Time'
          /\ Process_First_Timeout' <= Last_Time
      BY <3>1 DEF FirstInv
    <3>6. \A q \in Process_Timeout_Chain' :
             Waiting(q)' => Process_First_Timeout' <= Timeout'[q]
      BY <1>1, <1>2, <3>1, <3>4
    <3>7. \/ Process_First_Timeout' = Last_Time
          \/ \E q \in Process_Timeout_Chain' :
                Waiting(q)' /\ Timeout'[q] = Process_First_Timeout'
      BY <1>1, <1>2, <3>1, <3>3
    <3> QED
      BY <3>5, <3>6, <3>7 DEF FirstInv, Last_Time
  <2> QED
    BY <2>1, <2>2
<1>4. ClockInv'
  BY <1>3 DEF ClockInv, RunSteps
<1>5. ASSUME NEW q \in Process
      PROVE  WaitInv(q)'
  <2>1. CASE q = p
    BY <2>1, <1>2 DEF WaitInv, Waiting, QueueInv
  <2>2. CASE q # p
    BY <2>2, <1>2 DEF WaitInv, Waiting
  <2> QED
    BY <2>1, <2>2
<1>6. NoPostponedInv'
  BY DEF NoPostponedInv
<1> QED
  BY <1>3, <1>4, <1>5, <1>6

\* Every step of the running process keeps the timeouts right, in a design
\* whose timeout clauses end by TIME'HIGH.
LEMMA ExecuteTimeout ==
    ASSUME ~FarTimeouts, TypeOK, TypeOK', QueueInv, TimeoutInv,
           NEW p \in Process, Execute(p)
    PROVE  TimeoutInv'
<1> USE TimeBounds
    DEF TypeOK, procVars, chainVars, tableVars, timeVars, Suspend, Stop,
        Executing
<1>1. Current_Process = p /\ pc \in RunSteps
  BY ProcessAssumption
  DEF QueueInv, Execute, Return, Ghdl_Process_Wait_Exit,
      Ghdl_Process_Wait_Timeout, Wait_Error, Wait_On, Wait_On_For,
      Wait_Again, Ghdl_Process_Wait_Close
<1>2. CASE Return(p) \/ Wait_Again(p) \/ \E t \in Delays : Wait_Error(p, t)
  <2>1. ClockInv' /\ FirstInv' /\ NoPostponedInv'
    BY <1>1, <1>2
    DEF Return, Wait_Again, Wait_Error, TimeoutInv, ClockInv, FirstInv,
        NoPostponedInv, Waiting, RunSteps
  <2>2. ASSUME NEW q \in Process
        PROVE  WaitInv(q)'
    BY <1>1, <1>2, ProcessAssumption
    DEF Return, Wait_Again, Wait_Error, TimeoutInv, WaitInv, Waiting, RunSteps
  <2> QED
    BY <2>1, <2>2 DEF TimeoutInv
<1>3. CASE \/ Ghdl_Process_Wait_Exit(p)
           \/ \E S \in SUBSET Signal, c \in BOOLEAN : Wait_On(p, S, c)
  <2>1. p \notin Process_Timeout_Chain /\ Timeout[p] = Bad_Time
    BY <1>3 DEF Ghdl_Process_Wait_Exit, Wait_On, TimeoutInv, WaitInv, Waiting
  <2>2. ClockInv' /\ FirstInv' /\ NoPostponedInv'
    BY <1>1, <1>3, <2>1
    DEF Ghdl_Process_Wait_Exit, Wait_On, TimeoutInv, ClockInv, FirstInv,
        NoPostponedInv, Waiting, RunSteps
  <2>3. ASSUME NEW q \in Process
        PROVE  WaitInv(q)'
    BY <1>1, <1>3, <2>1, ProcessAssumption
    DEF Ghdl_Process_Wait_Exit, Wait_On, TimeoutInv, WaitInv, Waiting, RunSteps
  <2> QED
    BY <2>2, <2>3 DEF TimeoutInv
<1>4. ASSUME NEW t \in Delays, Ghdl_Process_Wait_Timeout(p, t)
      PROVE  TimeoutInv'
  <2>1. t \in Int
    BY TimeAssumption
  <2>2. CASE t <= Last_Time - Current_Time
    BY <1>1, <1>4, <2>1, <2>2, EnterChain
    DEF Ghdl_Process_Wait_Timeout, Set_Delay, TimeoutInv, WaitInv
  <2>3. CASE ~(t <= Last_Time - Current_Time)
    <3>1. p \notin Process_Timeout_Chain /\ Sensitivity[p] = {}
      BY <1>4 DEF Ghdl_Process_Wait_Timeout, TimeoutInv, WaitInv
    <3>2. ClockInv' /\ FirstInv' /\ NoPostponedInv'
      BY <1>1, <1>4, <2>3, <3>1
      DEF Ghdl_Process_Wait_Timeout, Set_Delay, TimeoutInv, ClockInv, FirstInv,
          NoPostponedInv, Waiting, RunSteps
    <3>3. ASSUME NEW q \in Process
          PROVE  WaitInv(q)'
      BY <1>1, <1>4, <2>3, <3>1, ProcessAssumption
      DEF Ghdl_Process_Wait_Timeout, Set_Delay, TimeoutInv, WaitInv, Waiting,
          RunSteps
    <3> QED
      BY <3>2, <3>3 DEF TimeoutInv
  <2> QED
    BY <2>2, <2>3
<1>5. ASSUME NEW S \in SUBSET Signal, NEW c \in BOOLEAN, NEW t \in Delays,
             Wait_On_For(p, S, c, t)
      PROVE  TimeoutInv'
  <2>1. t \in Int
    BY TimeAssumption
  <2>2. Wrapped_Sum(Current_Time, t) = Current_Time + t
    BY <1>5, <2>1 DEF Wait_On_For, Wrapped_Sum
  <2>3. \A q \in Process \ {p} : Sensitivity'[q] = Sensitivity[q]
    BY <1>5 DEF Wait_On_For
  <2>4. /\ Timeout' = [Timeout EXCEPT ![p] = Current_Time + t]
        /\ Update_Process_First_Timeout(p, Current_Time + t)
        /\ t >= 0
    BY <1>5, <2>2 DEF Wait_On_For
  <2>5. /\ State' = [State EXCEPT ![p] = "Wait"]
        /\ deadline' = [deadline EXCEPT ![p] = Current_Time + t]
        /\ Executing(p) /\ State[p] # "Sensitized"
        /\ Current_Process' = None
        /\ UNCHANGED <<Resumed, tableVars, timeVars, pc, outcome>>
    BY <1>5 DEF Wait_On_For
  <2> QED
    BY <1>1, <2>1, <2>3, <2>4, <2>5, EnterChain
<1>6. CASE Ghdl_Process_Wait_Close(p)
  BY <1>1, <1>6, CloseTimeout
<1> QED
  BY <1>2, <1>3, <1>4, <1>5, <1>6 DEF Execute

\* Tn lies between the current time and the first timeout.
LEMMA NextTimeBounds ==
    ASSUME TypeOK, FirstInv, NEW tn \in Compute_Next_Time
    PROVE  tn >= Current_Time /\ tn <= Process_First_Timeout
<1> DEFINE res == Min({Last_Time, Process_First_Timeout})
<1>1. {Last_Time, Process_First_Timeout} \subseteq Time
  BY TimeAssumption DEF TypeOK, Time, Bad_Time, Last_Time
<1>2. res \in {Last_Time, Process_First_Timeout}
      /\ res <= Process_First_Timeout /\ res <= Last_Time
  BY <1>1, MinTime
<1>3. tn \in {Current_Time, res} \cup (Current_Time .. res)
  BY DEF Compute_Next_Time
<1> HIDE DEF res
<1> QED
  BY <1>2, <1>3, TimeBounds DEF TypeOK, FirstInv

\* Between two cycles nobody is resumed, except the postponed processes that
\* wait for the last delta cycle; so nobody else is in State_Timeout either.
LEMMA NobodyResumed ==
    ASSUME TypeOK, QueueInv, TimeoutInv, table = {}, Current_Process = None,
           Resume_Process_Table = {}, Postponed_Resume_Process_Table = {}
    PROVE  \A p \in Process : ~Resumed[p] /\ State[p] # "Timeout"
<1>1. \A p \in Process : ~Resumed[p]
  BY DEF QueueInv, ResumedIffQueued
<1> QED
  BY <1>1, ProcessAssumption DEF TimeoutInv, WaitInv

\* Closing the cycle at Tn, as a delta cycle or as the last cycle at this
\* time.
LEMMA CloseCycle ==
    ASSUME TypeOK, QueueInv, TimeoutInv, pc \in RunSteps \ {"init_run"},
           table = {}, Current_Process = None,
           Next_Time' \in Compute_Next_Time,
           Next_Time' # Current_Time => Postponed_Resume_Process_Table = {},
           pc' \in {"cycle", "stopped"},
           outcome' = outcome \/ outcome' # "internal_error",
           UNCHANGED <<procVars, chainVars, tableVars, Current_Time,
                       Current_Process>>
    PROVE  TimeoutInv'
<1> USE DEF procVars, chainVars, tableVars, TimeoutInv
<1>1. Next_Time' >= Current_Time /\ Next_Time' <= Process_First_Timeout
  BY NextTimeBounds
<1>2. ClockInv'
  BY <1>1 DEF ClockInv
<1>3. FirstInv'
  BY DEF FirstInv, Waiting, Last_Time
<1>4. ASSUME NEW p \in Process
      PROVE  WaitInv(p)'
  BY DEF WaitInv, Waiting, RunSteps, Bad_Time, NoDeadline
<1>5. NoPostponedInv'
  <2> SUFFICES ASSUME Postponed = {}
               PROVE  /\ outcome' # "internal_error"
                      /\ \A p \in Process : State'[p] # "Timeout"
    BY DEF NoPostponedInv
  <2>1. Resume_Process_Table = {} /\ Postponed_Resume_Process_Table = {}
    BY DEF QueueInv, ResumedIffQueued, RunSteps
  <2> QED
    BY <2>1, NobodyResumed DEF NoPostponedInv
<1> QED
  BY <1>2, <1>3, <1>4, <1>5

\* The scan of the timeout chain.
LEMMA WakeUpTimeout ==
    ASSUME TypeOK, TypeOK', QueueInv, TimeoutInv, Wake_Up
    PROVE  TimeoutInv'
<1> USE TimeBounds DEF TypeOK, TimeoutInv, timeVars
<1>1. /\ \A p \in Process : Resumed'[p] = (Resumed[p] \/ p \in Due)
      /\ \A p \in Process : Timeout'[p] = IF p \in Due THEN Bad_Time
                                                      ELSE Timeout[p]
      /\ \A p \in Process : State'[p] =
            CASE p \in Due /\ State[p] = "Delayed" -> "Ready"
              [] p \in Due /\ State[p] = "Wait" -> "Timeout"
              [] OTHER -> State[p]
      /\ Process_Timeout_Chain' =
            Process_Timeout_Chain \ {p \in Due : State[p] = "Delayed"}
      /\ Process_First_Timeout' =
            Earliest_Timeout(Process_Timeout_Chain \ Due)
      /\ UNCHANGED <<Sensitivity, deadline, Current_Time, Next_Time,
                     Current_Process, outcome>>
      /\ pc = "wake" /\ pc' = "start"
  BY DEF Wake_Up, Resume_Process, Remove_Process_From_Timeout_Chain, Due
<1>2. \A p \in Process :
         p \in Due <=> /\ p \in Process_Timeout_Chain
                       /\ Waiting(p)
                       /\ Timeout[p] = Current_Time
  BY DEF Due
<1>3. \A p \in Process_Timeout_Chain \ Due :
         Waiting(p) => Timeout[p] > Current_Time
  BY <1>2 DEF WaitInv
<1>4. \A p \in Process_Timeout_Chain' :
         Waiting(p)' => /\ p \in Process_Timeout_Chain \ Due
                        /\ Waiting(p)
                        /\ Timeout'[p] = Timeout[p]
  BY <1>1, <1>2 DEF Waiting
<1>5. \A p \in Process_Timeout_Chain \ Due :
         Waiting(p) => /\ p \in Process_Timeout_Chain'
                       /\ Waiting(p)'
                       /\ Timeout'[p] = Timeout[p]
  BY <1>1, <1>2 DEF Waiting
<1>6. FirstInv'
  <2> DEFINE rest == Process_Timeout_Chain \ Due
  <2>1. rest \in SUBSET Process
    OBVIOUS
  <2>2. \A q \in rest : Waiting(q) => Timeout[q] > 0
    BY <1>3 DEF ClockInv
  <2>3. /\ Earliest_Timeout(rest) \in Time
        /\ Earliest_Timeout(rest) <= Last_Time
        /\ \A q \in rest : Waiting(q) /\ Timeout[q] > 0
                             => Earliest_Timeout(rest) <= Timeout[q]
        /\ \/ Earliest_Timeout(rest) = Last_Time
           \/ \E q \in rest : /\ Waiting(q)
                               /\ Timeout[q] > 0
                               /\ Earliest_Timeout(rest) = Timeout[q]
    BY <2>1, EarliestTimeout
  <2> HIDE DEF rest
  <2>4. \A q \in Process_Timeout_Chain' :
           Waiting(q)' => Process_First_Timeout' <= Timeout'[q]
    BY <1>1, <1>4, <2>2, <2>3 DEF rest
  <2>5. \/ Process_First_Timeout' = Last_Time
        \/ \E q \in Process_Timeout_Chain' :
              Waiting(q)' /\ Timeout'[q] = Process_First_Timeout'
    BY <1>1, <1>5, <2>3 DEF rest
  <2>6. Last_Time >= Current_Time
    BY DEF FirstInv
  <2>7. /\ Process_First_Timeout' >= Current_Time'
        /\ Process_First_Timeout' <= Last_Time
    <3>1. \A q \in rest : Waiting(q) => Timeout[q] > Current_Time
      BY <1>3 DEF rest
    <3>2. Earliest_Timeout(rest) >= Current_Time
      BY <2>3, <2>6, <3>1
    <3>3. Process_First_Timeout' = Earliest_Timeout(rest)
      BY <1>1 DEF rest
    <3>4. Current_Time' = Current_Time
      BY <1>1
    <3> QED
      BY <2>3, <3>2, <3>3, <3>4
  <2> QED
    BY <2>4, <2>5, <2>7 DEF FirstInv, Last_Time
<1>7. ClockInv'
  BY <1>1 DEF ClockInv
<1>8. ASSUME NEW p \in Process
      PROVE  WaitInv(p)'
  <2>1. CASE p \in Due
    BY <1>1, <1>2, <2>1 DEF WaitInv, Waiting, Bad_Time, RunSteps
  <2>2. CASE p \notin Due
    BY <1>1, <1>2, <1>3, <2>2 DEF WaitInv, Waiting, Bad_Time, NoDeadline, RunSteps
  <2> QED
    BY <2>1, <2>2
<1>9. NoPostponedInv'
  BY <1>1 DEF NoPostponedInv
<1> QED
  BY <1>6, <1>7, <1>8, <1>9

\* Every step of the kernel keeps the timeouts right.
LEMMA ScheduleTimeout ==
    ASSUME TypeOK, TypeOK', QueueInv, QueueInv', TimeoutInv, Schedule
    PROVE  TimeoutInv'
<1> USE TimeBounds DEF TypeOK, TimeoutInv, procVars, chainVars, tableVars,
        timeVars, Stop
<1>1. CASE Initialization_Phase
  <2>1. ClockInv' /\ FirstInv' /\ NoPostponedInv'
    BY <1>1 DEF Initialization_Phase, ClockInv, FirstInv, NoPostponedInv,
                Waiting
  <2>2. ASSUME NEW p \in Process
        PROVE  WaitInv(p)'
    BY <1>1 DEF Initialization_Phase, ClockInv, WaitInv, Waiting
  <2> QED
    BY <2>1, <2>2
<1>2. CASE Init_Postponed
  <2>1. ClockInv' /\ FirstInv' /\ NoPostponedInv'
    BY <1>2 DEF Init_Postponed, ClockInv, FirstInv, NoPostponedInv, Waiting
  <2>2. ASSUME NEW p \in Process
        PROVE  WaitInv(p)'
    BY <1>2 DEF Init_Postponed, WaitInv, Waiting, RunSteps
  <2> QED
    BY <2>1, <2>2
<1>3. ASSUME NEW tn \in Time, Init_Next_Time(tn)
      PROVE  TimeoutInv'
  <2>1. Postponed_Resume_Process_Table = {}
    BY <1>3 DEF Init_Next_Time, QueueInv
  <2> QED
    BY <1>3, <2>1, CloseCycle DEF Init_Next_Time, RunSteps
<1>4. CASE Begin_Cycle
  <2>1. Next_Time >= Current_Time /\ Next_Time <= Process_First_Timeout
    BY <1>4 DEF Begin_Cycle, ClockInv
  <2>2. ClockInv' /\ FirstInv' /\ NoPostponedInv'
    BY <1>4, <2>1
    DEF Begin_Cycle, ClockInv, FirstInv, NoPostponedInv, Waiting
  <2>3. Next_Time # Current_Time =>
            \A p \in Process : ~Resumed[p] /\ State[p] # "Timeout"
    BY <1>4, NobodyResumed DEF Begin_Cycle, ClockInv, QueueInv, RunSteps
  <2>4. ASSUME NEW p \in Process
        PROVE  WaitInv(p)'
    BY <1>4, <2>1, <2>3 DEF Begin_Cycle, WaitInv, FirstInv, Waiting, RunSteps
  <2> QED
    BY <2>2, <2>4
<1>5. ASSUME NEW E \in SUBSET Signal, Update_Signals(E)
      PROVE  TimeoutInv'
  <2>1. ClockInv' /\ FirstInv' /\ NoPostponedInv'
    BY <1>5 DEF Update_Signals, ClockInv, FirstInv, NoPostponedInv, Waiting
  <2>2. ASSUME NEW p \in Process
        PROVE  WaitInv(p)'
    <3>1. /\ Resumed'[p] = (Resumed[p] \/ p \in Sensitive(E))
          /\ UNCHANGED <<State, Timeout, Sensitivity, deadline, chainVars,
                         Current_Time, Current_Process>>
          /\ pc' = "wake"
      BY <1>5 DEF Update_Signals, Resume_Process
    <3>2. p \in Sensitive(E) => State[p] # "Ready"
      BY DEF Sensitive, WaitInv
    <3> QED
      BY <3>1, <3>2 DEF WaitInv, Waiting, RunSteps
  <2> QED
    BY <2>1, <2>2
<1>6. CASE Wake_Up
  BY <1>6, WakeUpTimeout
<1>7. CASE No_Wake_Up
  <2>1. ClockInv' /\ FirstInv' /\ NoPostponedInv'
    BY <1>7 DEF No_Wake_Up, ClockInv, FirstInv, NoPostponedInv, Waiting
  <2>2. ASSUME NEW p \in Process
        PROVE  WaitInv(p)'
    BY <1>7 DEF No_Wake_Up, WaitInv, FirstInv, Waiting, RunSteps
  <2> QED
    BY <2>1, <2>2
<1>8. CASE Wake_Up_Error
  <2>1. Postponed # {}
    BY <1>8 DEF Wake_Up_Error, NoPostponedInv, WaitInv
  <2>2. ClockInv' /\ FirstInv' /\ NoPostponedInv'
    BY <1>8, <2>1 DEF Wake_Up_Error, ClockInv, FirstInv, NoPostponedInv,
                      Waiting
  <2>3. ASSUME NEW p \in Process
        PROVE  WaitInv(p)'
    BY <1>8 DEF Wake_Up_Error, WaitInv, Waiting, RunSteps
  <2> QED
    BY <2>2, <2>3
<1>9. CASE Start_Processes
  <2>1. ClockInv' /\ FirstInv' /\ NoPostponedInv'
    BY <1>9 DEF Start_Processes, ClockInv, FirstInv, NoPostponedInv, Waiting
  <2>2. ASSUME NEW p \in Process
        PROVE  WaitInv(p)'
    BY <1>9 DEF Start_Processes, WaitInv, Waiting, RunSteps
  <2> QED
    BY <2>1, <2>2
<1>10. ASSUME NEW p \in Process, Dispatch(p)
       PROVE  TimeoutInv'
  <2>1. Resumed[p]
    BY <1>10 DEF Dispatch, QueueInv, ResumedIffQueued
  <2>2. ClockInv' /\ FirstInv' /\ NoPostponedInv'
    BY <1>10, <2>1 DEF Dispatch, ClockInv, FirstInv, NoPostponedInv, Waiting,
                       RunSteps
  <2>3. ASSUME NEW q \in Process
        PROVE  WaitInv(q)'
    BY <1>10, <2>1, ProcessAssumption
    DEF Dispatch, Clear_Resumed, WaitInv, Waiting, RunSteps
  <2> QED
    BY <2>2, <2>3
<1>11. ASSUME NEW tn \in Time, Next_Step(tn)
       PROVE  TimeoutInv'
  BY <1>11, CloseCycle
  DEF Next_Step, End_Of_Time_Step, Next_Cycle, Postponed_Pending, RunSteps
<1>12. ASSUME NEW tn \in Time, Start_Postponed(tn)
       PROVE  TimeoutInv'
  <2>1. ClockInv' /\ FirstInv' /\ NoPostponedInv'
    BY <1>12 DEF Start_Postponed, ClockInv, FirstInv, NoPostponedInv, Waiting
  <2>2. ASSUME NEW p \in Process
        PROVE  WaitInv(p)'
    BY <1>12 DEF Start_Postponed, WaitInv, Waiting, RunSteps
  <2> QED
    BY <2>1, <2>2
<1>13. ASSUME NEW tn \in Time, End_Postponed(tn)
       PROVE  TimeoutInv'
  <2>1. Postponed_Resume_Process_Table = {}
    BY <1>13 DEF End_Postponed, QueueInv
  <2>2. Next_Time' \in Compute_Next_Time
    BY <1>13 DEF End_Postponed, End_Of_Time_Step, ClockInv, Compute_Next_Time
  <2> QED
    BY <1>13, <2>1, <2>2, CloseCycle
    DEF End_Postponed, End_Of_Time_Step, Next_Cycle, RunSteps
<1>14. CASE Delta_Cycle
  <2>1. Next_Time' = Current_Time
    BY <1>14 DEF Delta_Cycle, ClockInv
  <2> QED
    BY <1>14, <2>1, CloseCycle DEF Delta_Cycle, Next_Cycle, RunSteps
<1> QED
  BY <1>1, <1>2, <1>3, <1>4, <1>5, <1>6, <1>7, <1>8, <1>9, <1>10, <1>11,
     <1>12, <1>13, <1>14 DEF Schedule

\* The inductive invariant of the timeout chain (ClockInv, FirstInv, ...) holds
\* when no timeout of a wait statement reaches past the end of the times.
LEMMA TimeoutInvariant ==
    ASSUME ~FarTimeouts
    PROVE  Spec => []TimeoutInv
<1>1. Init => TimeoutInv
  <2> SUFFICES ASSUME Init
               PROVE  TimeoutInv
    OBVIOUS
  <2>1. ClockInv /\ FirstInv /\ NoPostponedInv
    BY TimeBounds
    DEF Init, ClockInv, FirstInv, NoPostponedInv, Waiting
  <2>2. ASSUME NEW p \in Process
        PROVE  WaitInv(p)
    BY TimeBounds DEF Init, WaitInv, Waiting, RunSteps
  <2> QED
    BY <2>1, <2>2 DEF TimeoutInv
<1>2. TypeOK /\ TypeOK' /\ QueueInv /\ QueueInv' /\ TimeoutInv /\ [Next]_vars
         => TimeoutInv'
  <2> SUFFICES ASSUME TypeOK, TypeOK', QueueInv, QueueInv', TimeoutInv,
                      [Next]_vars
               PROVE  TimeoutInv'
    OBVIOUS
  <2>1. CASE Schedule
    BY <2>1, ScheduleTimeout
  <2>2. ASSUME NEW p \in Process, Execute(p)
        PROVE  TimeoutInv'
    BY <2>2, ExecuteTimeout
  <2>3. CASE UNCHANGED vars
    <3> USE DEF vars, procVars, chainVars, tableVars, timeVars
    <3>1. ClockInv' /\ FirstInv' /\ NoPostponedInv'
      BY <2>3 DEF TimeoutInv, ClockInv, FirstInv, NoPostponedInv, Waiting,
                  Last_Time
    <3>2. ASSUME NEW p \in Process
          PROVE  WaitInv(p)'
      BY <2>3 DEF TimeoutInv, WaitInv, Waiting, RunSteps, Bad_Time, NoDeadline
    <3> QED
      BY <3>1, <3>2 DEF TimeoutInv
  <2> QED
    BY <2>1, <2>2, <2>3 DEF Next, Stopped
<1> QED
  BY <1>1, <1>2, TypeCorrect, QueueInvariant, PTL DEF Spec

-----------------------------------------------------------------------------
(***************************************************************************)
(* What follows from the invariants                                        *)
(***************************************************************************)
\* Process_First_Timeout is the minimum over the chain in every state, in
\* every design whose timeout clauses end by TIME'HIGH.
THEOREM FirstTimeoutCorrect ==
    ASSUME ~FarTimeouts
    PROVE  Spec => []FirstTimeoutExact
<1>1. TypeOK /\ FirstInv => FirstTimeoutExact
  <2> SUFFICES ASSUME TypeOK, FirstInv
               PROVE  FirstTimeoutExact
    OBVIOUS
  <2> DEFINE T == {Last_Time} \cup
                  {Timeout[p] : p \in {q \in Process_Timeout_Chain : Waiting(q)}}
  <2>1. T \subseteq Time /\ Process_First_Timeout \in T
    BY TimeAssumption
    DEF TypeOK, FirstInv, Time, Bad_Time, Last_Time
  <2>2. \A t \in T : Process_First_Timeout <= t
    BY DEF FirstInv
  <2> HIDE DEF T
  <2>3. Min(T) \in T /\ \A t \in T : Min(T) <= t
    BY <2>1, MinTime
  <2>4. Min(T) <= Process_First_Timeout /\ Process_First_Timeout <= Min(T)
    BY <2>1, <2>2, <2>3
  <2>5. Min(T) \in Int /\ Process_First_Timeout \in Int
    BY <2>1, <2>3, TimeBounds
  <2>6. Process_First_Timeout = Min(T)
    BY <2>4, <2>5
  <2> QED
    BY <2>6 DEF FirstTimeoutExact, T
<1> QED
  BY <1>1, TypeCorrect, TimeoutInvariant, PTL DEF TimeoutInv

\* No timeout is ever passed over.
THEOREM TimeoutsNotMissed ==
    ASSUME ~FarTimeouts
    PROVE  Spec => []NoMissedTimeout
<1>1. TypeOK /\ TimeoutInv => NoMissedTimeout
  BY TimeBounds
  DEF TypeOK, TimeoutInv, ClockInv, FirstInv, WaitInv, NoMissedTimeout
<1> QED
  BY <1>1, TypeCorrect, TimeoutInvariant, PTL

\* A process woken by its timeout runs at the time it asked for.
THEOREM TimeoutsOnTime ==
    ASSUME ~FarTimeouts
    PROVE  Spec => []TimedOutOnTime
<1>1. TimeoutInv => TimedOutOnTime
  BY DEF TimeoutInv, WaitInv, TimedOutOnTime
<1> QED
  BY <1>1, TimeoutInvariant, PTL

\* Without postponed processes the internal errors of the scheduler are
\* unreachable.
THEOREM InternalErrorsUnreachable ==
    ASSUME ~FarTimeouts, Postponed = {}
    PROVE  Spec => []NoInternalError
<1>1. TimeoutInv => NoInternalError
  BY DEF TimeoutInv, NoPostponedInv, NoInternalError
<1> QED
  BY <1>1, TimeoutInvariant, PTL

\* The two steps that set the current time.
LEMMA ClockSteps ==
    ASSUME [Next]_vars, Current_Time' # Current_Time
    PROVE  Initialization_Phase \/ Begin_Cycle
<1> USE DEF vars, procVars, chainVars, tableVars, timeVars
<1>1. ASSUME NEW p \in Process, Execute(p)
      PROVE  FALSE
  BY <1>1
  DEF Execute, Return, Ghdl_Process_Wait_Exit, Ghdl_Process_Wait_Timeout,
      Wait_Error, Wait_On, Wait_On_For, Wait_Again, Ghdl_Process_Wait_Close
<1>2. CASE Schedule
  BY <1>2
  DEF Schedule, Init_Postponed, Init_Next_Time, Update_Signals, Wake_Up,
      No_Wake_Up, Wake_Up_Error, Start_Processes, Dispatch, Next_Step,
      End_Of_Time_Step, Start_Postponed, End_Postponed, Delta_Cycle
<1> QED
  BY <1>1, <1>2 DEF Next, Stopped

\* Time never goes back.
THEOREM TimeMonotonic ==
    ASSUME ~FarTimeouts
    PROVE  Spec => TimeNeverDecreases
<1>1. TypeOK /\ TimeoutInv /\ [Next]_vars => Current_Time' >= Current_Time
  <2> SUFFICES ASSUME TypeOK, TimeoutInv, [Next]_vars
               PROVE  Current_Time' >= Current_Time
    OBVIOUS
  <2>1. CASE Current_Time' = Current_Time
    BY <2>1, TimeBounds DEF TypeOK
  <2>2. CASE Initialization_Phase
    BY <2>2 DEF Initialization_Phase, TimeoutInv, ClockInv
  <2>3. CASE Begin_Cycle
    BY <2>3 DEF Begin_Cycle, TimeoutInv, ClockInv
  <2> QED
    BY <2>1, <2>2, <2>3, ClockSteps
<1>2. TypeOK /\ TimeoutInv /\ [Next]_vars => [Current_Time' >= Current_Time]_vars
  BY <1>1
<1> QED
  BY <1>2, TypeCorrect, TimeoutInvariant, PTL DEF Spec, TimeNeverDecreases

\* Nobody is left behind when time advances.
THEOREM NobodyIsLeftBehind ==
    ASSUME ~FarTimeouts
    PROVE  Spec => NobodyLeftBehind
<1> DEFINE A == Current_Time' # Current_Time =>
                   \A p \in Process : ~Resumed[p] /\ State[p] # "Timeout"
<1>1. TypeOK /\ QueueInv /\ TimeoutInv /\ [Next]_vars => A
  <2> SUFFICES ASSUME TypeOK, QueueInv, TimeoutInv, [Next]_vars,
                      Current_Time' # Current_Time
               PROVE  \A p \in Process : ~Resumed[p] /\ State[p] # "Timeout"
    OBVIOUS
  <2>1. Begin_Cycle
    BY ClockSteps DEF Initialization_Phase, TimeoutInv, ClockInv
  <2>2. Postponed_Resume_Process_Table = {}
    BY <2>1 DEF Begin_Cycle, TimeoutInv, ClockInv
  <2> QED
    BY <2>1, <2>2, NobodyResumed DEF Begin_Cycle, QueueInv, RunSteps
<1>2. TypeOK /\ QueueInv /\ TimeoutInv /\ [Next]_vars => [A]_vars
  BY <1>1
<1> QED
  BY <1>2, TypeCorrect, QueueInvariant, TimeoutInvariant, PTL
  DEF Spec, NobodyLeftBehind

-----------------------------------------------------------------------------
(* --stop-time.                                                            *)

\* The cycle to come is by --stop-time, at the end of the times, or the first;
\* a process that waits for a time and is not in the chain waits for ever.
StopInv ==
    /\ pc \in {"init", "init_run", "init_postponed"} => Current_Time = 0 /\ first
    /\ pc = "cycle" => first \/ Next_Time <= Stop_Time \/ Next_Time = Last_Time
    /\ outcome = "stop_time" => pc = "stopped" /\ Next_Time > Stop_Time

\* A timeout clause that is not in the chain ends past the end of the times.
OutOfChain(p) ==
    Waiting(p) /\ p \notin Process_Timeout_Chain =>
        deadline[p] = NoDeadline \/ deadline[p] > TimeHigh

ChainInv == \A p \in Process : OutOfChain(p)

\* A step of the loop keeps StopInv.
LEMMA ScheduleStop ==
    ASSUME TypeOK, StopInv, Schedule
    PROVE  StopInv'
<1> USE TimeBounds, TimeAssumption DEF TypeOK, Time, StopInv, timeVars, Stop
<1>1. CASE Initialization_Phase
  BY <1>1 DEF Initialization_Phase
<1>2. CASE Init_Postponed
  BY <1>2 DEF Init_Postponed
<1>3. ASSUME NEW tn \in Time, Init_Next_Time(tn)
      PROVE  StopInv'
  BY <1>3 DEF Init_Next_Time
<1>4. CASE Begin_Cycle
  BY <1>4 DEF Begin_Cycle
<1>5. ASSUME NEW E \in SUBSET Signal, Update_Signals(E)
      PROVE  StopInv'
  BY <1>5 DEF Update_Signals
<1>6. CASE Wake_Up
  BY <1>6 DEF Wake_Up
<1>7. CASE No_Wake_Up \/ Wake_Up_Error
  BY <1>7 DEF No_Wake_Up, Wake_Up_Error
<1>8. CASE Start_Processes
  BY <1>8 DEF Start_Processes
<1>9. ASSUME NEW p \in Process, Dispatch(p)
      PROVE  StopInv'
  BY <1>9 DEF Dispatch, RunSteps
<1>10. ASSUME NEW tn \in Time, Next_Step(tn) \/ Start_Postponed(tn) \/ End_Postponed(tn)
       PROVE  StopInv'
  <2>1. CASE Next_Step(tn)
    BY <1>10, <2>1 DEF Next_Step, End_Of_Time_Step, Next_Cycle
  <2>2. CASE Start_Postponed(tn)
    BY <1>10, <2>2 DEF Start_Postponed
  <2>3. CASE End_Postponed(tn)
    BY <1>10, <2>3 DEF End_Postponed, End_Of_Time_Step, Next_Cycle
  <2> QED
    BY <1>10, <2>1, <2>2, <2>3
<1>11. CASE Delta_Cycle
  BY <1>11 DEF Delta_Cycle, Next_Cycle
<1> QED
  BY <1>1, <1>2, <1>3, <1>4, <1>5, <1>6, <1>7, <1>8, <1>9, <1>10, <1>11 DEF Schedule

\* StopInv is an invariant: a process that runs does not touch the clock.
LEMMA StopInvariant == Spec => []StopInv
<1>1. Init => StopInv
  BY DEF Init, StopInv
<1>2. TypeOK /\ StopInv /\ [Next]_vars => StopInv'
  <2> SUFFICES ASSUME TypeOK, StopInv, [Next]_vars
               PROVE  StopInv'
    OBVIOUS
  <2>1. CASE Schedule
    BY <2>1, ScheduleStop
  <2>2. ASSUME NEW p \in Process, Execute(p)
        PROVE  StopInv'
    BY <2>2
    DEF Execute, Return, Ghdl_Process_Wait_Exit, Ghdl_Process_Wait_Timeout,
        Wait_Error, Wait_On, Wait_On_For, Wait_Again, Ghdl_Process_Wait_Close,
        Suspend, Stop, Executing, StopInv, timeVars
  <2>3. CASE UNCHANGED vars
    BY <2>3 DEF StopInv, vars, timeVars
  <2> QED
    BY <2>1, <2>2, <2>3 DEF Next, Stopped
<1> QED
  BY <1>1, <1>2, TypeCorrect, PTL DEF Spec

\* A process leaves the chain when it waits no more, and enters it unless its
\* delay reaches past the end of the times.
LEMMA ChainInvariant == Spec => []ChainInv
<1>1. Init => ChainInv
  BY DEF Init, ChainInv, OutOfChain, Waiting
<1>2. TypeOK /\ ChainInv /\ [Next]_vars => ChainInv'
  <2> SUFFICES ASSUME TypeOK, \A q \in Process : OutOfChain(q), [Next]_vars, NEW p \in Process
               PROVE  OutOfChain(p)'
    BY DEF ChainInv
  <2> USE TimeBounds DEF TypeOK, OutOfChain, Waiting, NoDeadline
  <2>1. CASE UNCHANGED <<State, deadline, Process_Timeout_Chain>>
    BY <2>1
  <2>2. CASE Wake_Up
    <3>1. deadline' = deadline /\ Process_Timeout_Chain' = Process_Timeout_Chain \ {q \in Due : State[q] = "Delayed"}
      BY <2>2 DEF Wake_Up, Remove_Process_From_Timeout_Chain
    <3>2. State'[p] = CASE p \in Due /\ State[p] = "Delayed" -> "Ready"
                        [] p \in Due /\ State[p] = "Wait" -> "Timeout"
                        [] OTHER -> State[p]
      BY <2>2 DEF Wake_Up
    <3> QED
      BY <3>1, <3>2
  <2>3. ASSUME NEW q \in Process, Execute(q)
        PROVE  OutOfChain(p)'
    <3>1. CASE Return(q) \/ Wait_Again(q) \/ \E t \in Delays : Wait_Error(q, t)
      BY <3>1 DEF Return, Wait_Again, Wait_Error, procVars, chainVars
    <3>2. CASE Ghdl_Process_Wait_Exit(q)
      BY <3>2 DEF Ghdl_Process_Wait_Exit, chainVars
    <3>3. ASSUME NEW t \in Delays, Ghdl_Process_Wait_Timeout(q, t)
          PROVE  OutOfChain(p)'
      <4>1. /\ State' = [State EXCEPT ![q] = "Delayed"]
            /\ deadline' = [deadline EXCEPT ![q] = Current_Time + t]
            /\ Set_Delay(q, t)
        BY <3>3 DEF Ghdl_Process_Wait_Timeout
      <4>2. \/ Process_Timeout_Chain' = Process_Timeout_Chain \cup {q}
            \/ t > Last_Time - Current_Time /\ Process_Timeout_Chain' = Process_Timeout_Chain
        BY <4>1, TimeAssumption DEF Set_Delay, Update_Process_First_Timeout, chainVars, Time
      <4>3. t \in Int /\ Current_Time \in Int
        BY TimeAssumption DEF Time
      <4>4. CASE p = q
        BY <4>1, <4>2, <4>3, <4>4
      <4>5. CASE p # q
        BY <4>1, <4>2, <4>5
      <4> QED
        BY <4>4, <4>5
    <3>4. ASSUME NEW S \in SUBSET Signal, NEW c \in BOOLEAN, Wait_On(q, S, c)
          PROVE  OutOfChain(p)'
      BY <3>4 DEF Wait_On, chainVars
    <3>5. ASSUME NEW S \in SUBSET Signal, NEW c \in BOOLEAN, NEW t \in Delays, Wait_On_For(q, S, c, t)
          PROVE  OutOfChain(p)'
      <4>1. /\ State' = [State EXCEPT ![q] = "Wait"]
            /\ deadline' = [deadline EXCEPT ![q] = Current_Time + t]
            /\ Process_Timeout_Chain' = Process_Timeout_Chain \cup {q}
        BY <3>5 DEF Wait_On_For, Update_Process_First_Timeout
      <4> QED
        BY <4>1
    <3>6. CASE Ghdl_Process_Wait_Close(q)
      <4>1. /\ State' = [State EXCEPT ![q] = "Ready"]
            /\ deadline' = [deadline EXCEPT ![q] = NoDeadline]
            /\ Process_Timeout_Chain' = Process_Timeout_Chain \ {q}
        BY <3>6 DEF Ghdl_Process_Wait_Close, Remove_Process_From_Timeout_Chain
      <4> QED
        BY <4>1
    <3> QED
      BY <2>3, <3>1, <3>2, <3>3, <3>4, <3>5, <3>6 DEF Execute
  <2>4. CASE Schedule /\ ~Wake_Up
    BY <2>1, <2>4
    DEF Schedule, Initialization_Phase, Init_Postponed, Init_Next_Time, Begin_Cycle,
        Update_Signals, No_Wake_Up, Wake_Up_Error, Start_Processes, Dispatch, Next_Step,
        End_Of_Time_Step, Start_Postponed, End_Postponed, Delta_Cycle, procVars, chainVars
  <2>5. CASE UNCHANGED vars
    BY <2>1, <2>5 DEF vars, procVars, chainVars
  <2> QED
    BY <2>2, <2>3, <2>4, <2>5 DEF Next, Stopped
<1> QED
  BY <1>1, <1>2, TypeCorrect, PTL DEF Spec

\* --stop-time is never passed, but in the first cycle and to TIME'HIGH: no
\* assumption on the timeouts is needed, since Has_Simulation_Timeout looks at
\* the time of the cycle to come, wrapped or not.
LEMMA NeverLater == TypeOK /\ StopInv /\ [Next]_vars => NotLater
<1> SUFFICES ASSUME TypeOK, StopInv, [Next]_vars,
                    Current_Time' # Current_Time, Current_Time' > Stop_Time
             PROVE  first \/ Current_Time' = Last_Time
  BY DEF NotLater
<1>1. CASE Initialization_Phase
  BY <1>1 DEF Initialization_Phase, StopInv
<1>2. CASE Begin_Cycle
  BY <1>2, TimeBounds, TimeAssumption DEF Begin_Cycle, StopInv, TypeOK, Time
<1> QED
  BY <1>1, <1>2, ClockSteps

\* When --stop-time has ended the simulation the next cycle is not later than
\* the first timeout.
EndInv ==
    outcome = "stop_time" =>
        /\ pc = "stopped" /\ Current_Process = None
        /\ Next_Time > Stop_Time
        /\ Next_Time <= Process_First_Timeout

\* EndInv is an invariant: Has_Simulation_Timeout is asked of the time that
\* Compute_Next_Time found, and nothing follows it.
LEMMA EndInvariant ==
    ASSUME ~FarTimeouts
    PROVE  Spec => []EndInv
<1>1. Init => EndInv
  BY DEF Init, EndInv
<1>2. TypeOK /\ TypeOK' /\ QueueInv /\ TimeoutInv /\ EndInv /\ [Next]_vars => EndInv'
  <2> SUFFICES ASSUME TypeOK, TypeOK', QueueInv, TimeoutInv, EndInv, [Next]_vars, outcome' = "stop_time"
               PROVE  EndInv'
    BY DEF EndInv
  <2> USE TimeBounds, TimeAssumption DEF TypeOK, Stop
  <2>1. CASE UNCHANGED vars
    BY <2>1 DEF EndInv, vars, tableVars, chainVars, timeVars
  <2>2. CASE outcome = "stop_time" /\ Next
    <3>1. pc = "stopped" /\ Current_Process = None
      BY <2>2 DEF EndInv
    <3>2. ~Schedule
      BY <3>1
      DEF Schedule, Initialization_Phase, Init_Postponed, Init_Next_Time, Begin_Cycle,
          Update_Signals, Wake_Up, No_Wake_Up, Wake_Up_Error, Start_Processes, Dispatch, RunSteps,
          Next_Step, Start_Postponed, End_Postponed, Delta_Cycle
    <3>3. ~\E p \in Process : Execute(p)
      BY <3>1, ProcessAssumption
      DEF Execute, Return, Ghdl_Process_Wait_Exit, Ghdl_Process_Wait_Timeout,
          Wait_Error, Wait_On, Wait_On_For, Wait_Again, Ghdl_Process_Wait_Close, Executing
    <3> QED
      BY <2>1, <2>2, <3>2, <3>3 DEF Next, Stopped
  <2>3. CASE outcome # "stop_time" /\ Next
    <3>1. ASSUME NEW p \in Process, Execute(p)
          PROVE  FALSE
      BY <2>3, <3>1
      DEF Execute, Return, Ghdl_Process_Wait_Exit, Ghdl_Process_Wait_Timeout,
          Wait_Error, Wait_On, Wait_On_For, Wait_Again, Ghdl_Process_Wait_Close, Suspend
    <3>2. CASE Delta_Cycle
      <4>1. /\ Next_Cycle(Next_Time, Next_Delta) /\ Current_Process = None
            /\ UNCHANGED <<chainVars, Next_Time, Current_Process>>
            /\ Next_Time = Current_Time /\ Current_Time <= Process_First_Timeout
        BY <2>3, <3>2 DEF Delta_Cycle, TimeoutInv, ClockInv, FirstInv
      <4> QED
        BY <2>3, <4>1 DEF Next_Cycle, EndInv, chainVars
    <3>3. ASSUME NEW tn \in Time, Next_Step(tn) \/ End_Postponed(tn)
          PROVE  EndInv'
      <4>1. /\ Next_Time' = tn /\ tn <= Process_First_Timeout
            /\ Next_Cycle(tn, 0) /\ Current_Process = None
            /\ UNCHANGED <<chainVars, Current_Process>>
        BY <2>3, <3>3, NextTimeBounds DEF Next_Step, End_Postponed, End_Of_Time_Step, TimeoutInv
      <4> QED
        BY <2>3, <4>1 DEF Next_Cycle, EndInv, chainVars
    <3>4. CASE Schedule /\ ~Delta_Cycle /\ ~\E tn \in Time : Next_Step(tn) \/ End_Postponed(tn)
      BY <2>3, <3>4
      DEF Schedule, Initialization_Phase, Init_Postponed, Init_Next_Time, Begin_Cycle,
          Update_Signals, Wake_Up, No_Wake_Up, Wake_Up_Error, Start_Processes, Dispatch, Start_Postponed
    <3> QED
      BY <2>1, <2>3, <3>1, <3>2, <3>3, <3>4 DEF Next, Stopped, Schedule
  <2> QED
    BY <2>1, <2>2, <2>3
<1> QED
  BY <1>1, <1>2, TypeCorrect, QueueInvariant, TimeoutInvariant, PTL DEF Spec

\* When --stop-time ends the simulation every process that waits for a time
\* waits for a later one.
LEMMA NeverEarly ==
    ASSUME TypeOK, TimeoutInv, ChainInv, EndInv, outcome = "stop_time",
           NEW p \in Process, Waiting(p)
    PROVE  Next_Time > Stop_Time /\ deadline[p] \notin 0 .. Stop_Time
<1>1. /\ Next_Time > Stop_Time /\ Next_Time <= Process_First_Timeout
      /\ Stop_Time \in Int /\ Stop_Time <= TimeHigh
      /\ Next_Time \in Int /\ Process_First_Timeout \in Int /\ deadline[p] \in Int
  BY TimeAssumption, TimeBounds DEF EndInv, TypeOK
<1>2. CASE p \notin Process_Timeout_Chain
  BY <1>1, <1>2, TimeBounds DEF ChainInv, OutOfChain
<1>3. CASE p \in Process_Timeout_Chain
  <2>1. deadline[p] = Timeout[p] /\ Process_First_Timeout <= Timeout[p]
    BY <1>3 DEF TimeoutInv, WaitInv, FirstInv
  <2> QED
    BY <1>1, <2>1
<1> QED
  BY <1>2, <1>3

\* NotEarly, said of one state.
EndsInTime ==
    outcome = "stop_time" =>
        /\ Next_Time > Stop_Time
        /\ \A p \in Process : Waiting(p) => deadline[p] \notin 0 .. Stop_Time

\* --stop-time is honoured by Has_Simulation_Timeout after every cycle: no cycle
\* but the first is later, unless it is at TIME'HIGH, and the simulation is not
\* ended while a timeout by then is waited for.
THEOREM StopTimeHonoured ==
    ASSUME ~FarTimeouts
    PROVE  Spec => StoppedInTime
<1>1. TypeOK /\ TimeoutInv /\ ChainInv /\ EndInv => EndsInTime
  BY NeverEarly DEF EndInv, EndsInTime
<1>2. Spec => []EndsInTime
  BY <1>1, TypeCorrect, TimeoutInvariant, ChainInvariant, EndInvariant, PTL
<1>3. TypeOK /\ StopInv /\ [Next]_vars /\ EndsInTime' => [NotLater /\ NotEarly]_vars
  BY NeverLater DEF EndsInTime, NotEarly, Waiting
<1> QED
  BY <1>2, <1>3, TypeCorrect, StopInvariant, PTL DEF Spec, StoppedInTime
=============================================================================
