---------------------------- MODULE Signals_proofs ----------------------------
(***************************************************************************)
(* Proofs about Signals, for any set of signals, any drivers, any delays   *)
(* and any range of times.                                                 *)
(*                                                                         *)
(* The inductive invariant Inv has two parts.  Frame holds in every run:   *)
(* what the chains and the lists are made of, and that the future list     *)
(* knows what the active chain does not.  OnSchedule says, for each step   *)
(* of the cycle, what the chains have to do with the times of the pending  *)
(* transactions (DeltaKnown while processes run, Covered and Precise       *)
(* between the cycles): it is lost with the first late waveform element.   *)
(***************************************************************************)
EXTENDS Signals, WaveformLemmas

Trans == [time : 0 .. TimeHigh, val : Value]

\* The next transaction of the only driver of s is at t.
Due(s, t) == /\ Len(wave[Drivers[s][1]]) > 1
             /\ wave[Drivers[s][1]][2].time = t

\* The pending transactions are in order.
Sorted == \A d \in Driver : InOrder(wave[d])

\* A direct driver has no list of its own.
DirectBare == \A d \in Direct : Len(wave[d]) = 1

\* The waveform a process is assigning has an element to follow, or its signal
\* is in the future list for an element beyond the end of the times.
OpenFollows ==
    /\ open # None => pc \in {"run", "postponed", "stopped"}
    /\ Running /\ open # None =>
          open \notin Direct /\ (Len(wave[open]) > 1 \/ SigOf(open) \in Future_List)

\* The direct flags belong to signals that are to be updated.
FlagsLinked ==
    \A s \in Signal :
        Is_Direct_Active[s] => s \in Ghdl_Signal_Active_Chain /\ ~Net_One_Driver(s)

\* The future list knows every transaction, but those of the next delta cycle
\* that the active chain knows.
FutureKnown ==
    \A d \in Driver : \A i \in 2 .. Len(wave[d]) :
        \/ SigOf(d) \in Future_List
        \/ /\ wave[d][i].time = Current_Time
           /\ SigOf(d) \in Ghdl_Signal_Active_Chain
           /\ pc = "update" => Next_Time = Current_Time

\* The chains that each step of the cycle finds empty.
ChainsEmpty ==
    /\ pc \in {"run", "postponed", "update"} => Next_Signal_Active_Chain = {}
    /\ pc \in {"last", "end"} => Ghdl_Signal_Active_Chain = {}

\* The signals of C with one driver have a transaction pending.
Loaded(C) == \A s \in C : Net_One_Driver(s) => Len(wave[Drivers[s][1]]) > 1

\* The chains are loaded, until the simulation stops.
ChainsLoaded ==
    pc # "stopped" =>
        Loaded(Ghdl_Signal_Active_Chain) /\ Loaded(Next_Signal_Active_Chain)

Frame ==
    /\ TypeOK
    /\ Sorted
    /\ DirectBare
    /\ OpenFollows
    /\ FlagsLinked
    /\ FutureKnown
    /\ ChainsEmpty
    /\ ChainsLoaded

\* No pending transaction is in the past.
NotPast ==
    \A d \in Driver : \A i \in 2 .. Len(wave[d]) : wave[d][i].time >= Current_Time

\* The active chain is exactly what the next delta cycle has to do.
DeltaKnown ==
    /\ \A d \in Driver : \A i \in 2 .. Len(wave[d]) :
           wave[d][i].time = Current_Time => SigOf(d) \in Ghdl_Signal_Active_Chain
    /\ \A s \in Ghdl_Signal_Active_Chain : Net_One_Driver(s) => Due(s, Current_Time)

\* Nothing is due before the next time, and what is due then belongs to C.
Covered(C) ==
    /\ Next_Time >= Current_Time
    /\ \A d \in Driver : \A i \in 2 .. Len(wave[d]) :
           /\ wave[d][i].time >= Next_Time
           /\ wave[d][i].time = Next_Time => SigOf(d) \in C

\* The signals of C with one driver are due at the next time.
Precise(C) == \A s \in C : Net_One_Driver(s) => Due(s, Next_Time)

\* What each step of the cycle finds in the chains.
OnSchedule ==
    /\ NotPast
    /\ pc \in {"run", "last", "postponed", "end"} => DeltaKnown
    /\ pc \in {"last", "end"} =>
          /\ Covered(Next_Signal_Active_Chain)
          /\ ~Late_Callbacks => Precise(Next_Signal_Active_Chain)
    /\ pc = "update" =>
          /\ Covered(Ghdl_Signal_Active_Chain)
          /\ ~Late_Callbacks => Precise(Ghdl_Signal_Active_Chain)

Inv == Frame /\ (~late => OnSchedule)

-----------------------------------------------------------------------------
\* A driver belongs to one signal.
LEMMA SigOfDriver ==
    ASSUME NEW d \in Driver
    PROVE  /\ SigOf(d) \in Signal
           /\ d \in Range(Drivers[SigOf(d)])
           /\ \A s \in Signal : d \in Range(Drivers[s]) => s = SigOf(d)
<1>1. PICK s \in Signal : d \in Range(Drivers[s])
  BY DEF Driver
<1>2. SigOf(d) \in Signal /\ d \in Range(Drivers[SigOf(d)])
  BY <1>1 DEF SigOf
<1> QED
  BY <1>2, SignalAssumption

\* The only driver of a signal.
LEMMA OnlyDriver ==
    ASSUME NEW s \in Signal, Net_One_Driver(s)
    PROVE  /\ Drivers[s][1] \in Driver \ Direct
           /\ SigOf(Drivers[s][1]) = s
           /\ \A d \in Driver : SigOf(d) = s => d = Drivers[s][1]
<1>1. Drivers[s] \in Seq(Driver) /\ Len(Drivers[s]) = 1
  BY SignalAssumption DEF Net_One_Driver
<1>2. Range(Drivers[s]) = {Drivers[s][1]}
  BY <1>1 DEF Range
<1>3. Drivers[s][1] \in Driver
  BY <1>1
<1>4. Drivers[s][1] \notin Direct
  BY <1>2 DEF Net_One_Driver
<1> QED
  BY <1>2, <1>3, <1>4, SigOfDriver

\* What the type of a list says of it.
LEMMA ListOfType ==
    ASSUME NEW w \in Seq(Trans), w # <<>>
    PROVE  /\ IsList(w, Trans)
           /\ Len(w) \in Nat /\ Len(w) >= 1
           /\ \A i \in 1 .. Len(w) : w[i] \in Trans /\ w[i].time \in 0 .. TimeHigh
<1>1. \A x \in Trans : x.time \in 0 .. TimeHigh
  BY DEF Trans
<1>2. TimeHigh \in Nat
  BY SignalAssumption
<1> QED
  BY <1>1, <1>2 DEF IsList

\* The lists of the drivers.
LEMMA WaveOfDriver ==
    ASSUME TypeOK, NEW d \in Driver
    PROVE  /\ wave[d] \in Seq(Trans)
           /\ IsList(wave[d], Trans)
           /\ Len(wave[d]) \in Nat /\ Len(wave[d]) >= 1
           /\ \A i \in 1 .. Len(wave[d]) :
                 wave[d][i] \in Trans /\ wave[d][i].time \in 0 .. TimeHigh
           /\ wave \in [Driver -> Seq(Trans)]
<1>1. wave \in [Driver -> Seq(Trans)] /\ wave[d] # <<>>
  BY DEF TypeOK, Trans
<1> QED
  BY <1>1, ListOfType

\* The times are naturals.
LEMMA Times ==
    ASSUME TypeOK
    PROVE  /\ TimeHigh \in Nat
           /\ Current_Time \in 0 .. TimeHigh
           /\ Next_Time \in 0 .. TimeHigh
           /\ limit \in 0 .. TimeHigh
BY SignalAssumption DEF TypeOK

-----------------------------------------------------------------------------
\* What an assignment finds while processes run.
LEMMA WhileRunning ==
    ASSUME Inv, Running
    PROVE  /\ TypeOK /\ Sorted /\ DirectBare /\ OpenFollows /\ FlagsLinked /\ FutureKnown
           /\ Loaded(Ghdl_Signal_Active_Chain)
           /\ Next_Signal_Active_Chain = {}
           /\ pc \in {"run", "postponed"}
           /\ ~late => NotPast /\ DeltaKnown
BY DEF Inv, Frame, OnSchedule, ChainsEmpty, ChainsLoaded, Running

\* A step that leaves the lists, the time and the flags alone, and the active
\* chain and the future list too.
LEMMA SameLists ==
    ASSUME Inv,
           UNCHANGED <<wave, Is_Direct_Active, Ghdl_Signal_Active_Chain, Future_List, late,
                       Current_Time>>
    PROVE  /\ Sorted' /\ DirectBare' /\ FlagsLinked'
           /\ NotPast => NotPast'
           /\ DeltaKnown => DeltaKnown'
           /\ Loaded(Ghdl_Signal_Active_Chain) => Loaded(Ghdl_Signal_Active_Chain)'
           /\ (pc' = "update" => (Next_Time' = Current_Time
                                  \/ (pc = "update" /\ Next_Time' = Next_Time)))
                 => FutureKnown'
BY DEF Inv, Frame, Sorted, DirectBare, FlagsLinked, NotPast, DeltaKnown, Due, Loaded, FutureKnown,
       Net_One_Driver

\* A first waveform element.  The list of the driver changes; its signal enters
\* the active chain, stays there or leaves it.
LEMMA StartAssign ==
    ASSUME Inv, NEW d \in Driver, NEW v \in Value, NEW after \in 0 .. TimeHigh,
           NEW reject \in 0 .. TimeHigh,
           Ghdl_Signal_Start_Assign(d, v, after, reject)
    PROVE  Inv'
<1> DEFINE s == SigOf(d)
           t == Current_Time + after
           a == Assigned(wave[d], t, v, reject)
           active == IF after = 0 THEN Insert_Active(s) ELSE Ghdl_Signal_Active_Chain
           w == [wave EXCEPT ![d] = a]
           recheck == reject > 0 /\ s \in active \cup Next_Signal_Active_Chain
<1>1. /\ TypeOK /\ Sorted /\ DirectBare /\ OpenFollows /\ FlagsLinked /\ FutureKnown
      /\ Loaded(Ghdl_Signal_Active_Chain)
      /\ Next_Signal_Active_Chain = {}
      /\ pc \in {"run", "postponed"}
      /\ ~late => NotPast /\ DeltaKnown
  BY WhileRunning DEF Ghdl_Signal_Start_Assign
<1>2. /\ s \in Signal
      /\ t \in 0 .. TimeHigh /\ t >= Current_Time /\ Current_Time \in 0 .. TimeHigh
      /\ TimeHigh \in Nat
      /\ d \notin Direct
      /\ reject <= after
  BY <1>1, Times, SigOfDriver DEF Ghdl_Signal_Start_Assign
<1>3. Transaction(t, v) \in Trans /\ Transaction(t, v).time = t
  BY <1>2 DEF Transaction, Trans
<1>4. /\ IsList(a, Trans)
      /\ Len(a) >= 2
      /\ a[Len(a)] = Transaction(t, v)
      /\ InOrder(a)
      /\ \A i \in 2 .. Len(a) - 1 :
            \E j \in 2 .. Len(wave[d]) : a[i] = wave[d][j] /\ wave[d][j].time < t
      /\ reject = 0 => \A j \in 2 .. Len(wave[d]) :
                          wave[d][j].time < t => \E i \in 2 .. Len(a) : a[i] = wave[d][j]
  <2>1. IsList(wave[d], Trans)
    BY <1>1, WaveOfDriver
  <2>2. InOrder(wave[d])
    BY <1>1 DEF Sorted
  <2>3. t \in Int
    BY <1>2
  <2>4. reject \in Nat
    BY <1>2
  <2>5. Transaction(t, v) \in Trans
    BY <1>3
  <2> HIDE DEF t, s
  <2>6. a = Assigned(wave[d], t, v, reject)
    OBVIOUS
  <2> HIDE DEF a
  <2>7. /\ IsList(a, Trans)
        /\ Len(a) >= 2
        /\ a[Len(a)] = Transaction(t, v)
        /\ InOrder(wave[d]) => /\ InOrder(a)
                               /\ LastIsNew(a, wave[d], t)
                               /\ reject = 0 => KeepsBefore(a, wave[d], t)
    BY <2>1, <2>3, <2>4, <2>5, <2>6, AssignedList
  <2> QED
    BY <2>2, <2>7 DEF LastIsNew, KeepsBefore
<1>5. /\ wave' = w
      /\ Future_List' = Insert_Future(s, after)
      /\ UNCHANGED <<val_ptr, Is_Direct_Active, Next_Signal_Active_Chain, late, timeVars>>
      /\ \/ /\ recheck /\ Null_Transaction(s, w)
            /\ pc' = "stopped" /\ outcome' = "crash"
            /\ UNCHANGED <<Ghdl_Signal_Active_Chain, open>>
         \/ /\ Ghdl_Signal_Active_Chain' =
                  IF recheck /\ ~Has_Transaction_In_Next_Delta(s, w)
                  THEN active \ {s} ELSE active
            /\ open' = d
            /\ UNCHANGED <<pc, outcome>>
  BY DEF Ghdl_Signal_Start_Assign, Stop
<1>6. active = IF after = 0 THEN Ghdl_Signal_Active_Chain \cup {s} ELSE Ghdl_Signal_Active_Chain
  BY <1>1 DEF Insert_Active, Linked
<1> HIDE DEF a, active, s, t
<1>7. /\ w[d] = a
      /\ \A e \in Driver : e # d => w[e] = wave[e]
      /\ w \in [Driver -> Seq(Trans)]
      /\ Len(a) \in Nat
  BY <1>1, <1>4, WaveOfDriver DEF IsList
<1> HIDE DEF w
\* Where a pending transaction of the new list comes from.
<1>8. ASSUME NEW i \in 2 .. Len(a)
      PROVE  \/ a[i].time = t
             \/ \E j \in 2 .. Len(wave[d]) : a[i] = wave[d][j] /\ wave[d][j].time < t
  <2>1. i = Len(a) \/ i \in 2 .. Len(a) - 1
    BY <1>7
  <2> QED
    BY <1>3, <1>4, <2>1
<1>9. TypeOK'
  <2>1. wave' \in [Driver -> Seq([time : 0 .. TimeHigh, val : Value])]
    BY <1>5, <1>7 DEF Trans
  <2>2. \A e \in Driver : wave'[e] # <<>>
    BY <1>1, <1>4, <1>5, <1>7 DEF TypeOK
  <2>3. /\ Future_List' \subseteq Signal
        /\ Ghdl_Signal_Active_Chain' \subseteq Signal
        /\ open' \in Driver \cup {None}
        /\ pc' \in {"run", "postponed", "stopped"}
        /\ outcome' \in {"none", "finished", "error", "internal_error", "crash"}
    BY <1>1, <1>2, <1>5, <1>6 DEF TypeOK, Insert_Future
  <2> QED
    BY <1>1, <1>5, <2>1, <2>2, <2>3 DEF TypeOK, timeVars
<1>10. Sorted'
  BY <1>1, <1>4, <1>5, <1>7 DEF Sorted
<1>11. DirectBare'
  <2>1. \A e \in Direct : e \in Driver /\ e # d
    BY <1>2, SignalAssumption
  <2> QED
    BY <1>1, <1>5, <1>7, <2>1 DEF DirectBare
<1>12. OpenFollows'
  BY <1>1, <1>2, <1>4, <1>5, <1>7 DEF OpenFollows, Running
<1>13. recheck => after > 0
  BY <1>2
<1>14. FutureKnown'
  <2>1. Future_List \subseteq Future_List' /\ (after > 0 => s \in Future_List')
    BY <1>5 DEF Insert_Future
  <2>2. /\ \A x : x # s => (x \in Ghdl_Signal_Active_Chain => x \in Ghdl_Signal_Active_Chain')
        /\ after = 0 => s \in Ghdl_Signal_Active_Chain'
    BY <1>2, <1>5, <1>6, <1>13
  <2>3. Current_Time' = Current_Time /\ pc' # "update" /\ Future_List \subseteq Future_List'
    BY <1>1, <1>5, <2>1 DEF timeVars
  <2>4. ASSUME NEW i \in 2 .. Len(a)
        PROVE  s \in Future_List' \/ (a[i].time = Current_Time /\ s \in Ghdl_Signal_Active_Chain')
    <3>1. CASE after > 0
      BY <2>1, <3>1
    <3>2. CASE after = 0
      <4>1. CASE a[i].time = t
        BY <1>2, <2>2, <3>2, <4>1 DEF t
      <4>2. CASE \E j \in 2 .. Len(wave[d]) : a[i] = wave[d][j] /\ wave[d][j].time < t
        BY <1>1, <2>1, <2>2, <3>2, <4>2 DEF FutureKnown, s
      <4> QED
        BY <1>8, <4>1, <4>2
    <3> QED
      BY <1>2, <3>1, <3>2
  <2>5. ASSUME NEW e \in Driver, e # d, NEW i \in 2 .. Len(wave[e])
        PROVE  \/ SigOf(e) \in Future_List'
               \/ wave[e][i].time = Current_Time /\ SigOf(e) \in Ghdl_Signal_Active_Chain'
    <3>1. \/ SigOf(e) \in Future_List
          \/ wave[e][i].time = Current_Time /\ SigOf(e) \in Ghdl_Signal_Active_Chain
      BY <1>1 DEF FutureKnown
    <3>2. CASE SigOf(e) = s
      BY <1>2, <2>1, <2>2, <3>1, <3>2
    <3>3. CASE SigOf(e) # s
      BY <2>1, <2>2, <3>1, <3>3
    <3> QED
      BY <3>2, <3>3
  <2> QED
    BY <1>5, <1>7, <2>3, <2>4, <2>5 DEF FutureKnown, s
<1>15. ChainsEmpty' /\ ChainsLoaded'
  <2>1. ChainsEmpty'
    BY <1>1, <1>5 DEF ChainsEmpty
  <2>2. ASSUME pc' # "stopped", NEW x \in Ghdl_Signal_Active_Chain', Net_One_Driver(x)
        PROVE  Len(w[Drivers[x][1]]) > 1
    <3>1. x \in Ghdl_Signal_Active_Chain \cup {s} /\ x \in Signal
      BY <1>1, <1>2, <1>5, <1>6, <2>2 DEF TypeOK
    <3>2. Drivers[x][1] \in Driver /\ SigOf(Drivers[x][1]) = x /\ (x = s => Drivers[x][1] = d)
      BY <2>2, <3>1, OnlyDriver DEF s
    <3>3. Drivers[x][1] = d => Len(w[Drivers[x][1]]) > 1
      BY <1>4, <1>7
    <3>4. CASE Drivers[x][1] # d
      <4>1. Len(wave[Drivers[x][1]]) > 1
        BY <1>1, <2>2, <3>1, <3>2, <3>4 DEF Loaded
      <4> QED
        BY <1>7, <3>2, <3>4, <4>1
    <3> QED
      BY <3>3, <3>4
  <2> QED
    BY <1>1, <1>5, <2>1, <2>2 DEF ChainsLoaded, Loaded, Net_One_Driver
<1>16. FlagsLinked'
  <2>1. \A x \in Signal : Is_Direct_Active[x] => x \in Ghdl_Signal_Active_Chain'
    BY <1>1, <1>5, <1>6 DEF FlagsLinked, Has_Transaction_In_Next_Delta
  <2> QED
    BY <1>1, <1>5, <2>1 DEF FlagsLinked, Net_One_Driver
<1>17. Frame'
  BY <1>9, <1>10, <1>11, <1>12, <1>14, <1>15, <1>16 DEF Frame
<1>18. ASSUME ~late PROVE OnSchedule'
  <2>1. NotPast /\ DeltaKnown /\ Current_Time' = Current_Time
    BY <1>1, <1>5, <1>18 DEF timeVars
  <2>2. NotPast'
    <3>1. \A i \in 2 .. Len(a) : a[i].time >= Current_Time
      BY <1>2, <1>8, <2>1 DEF NotPast
    <3> QED
      BY <1>5, <1>7, <2>1, <3>1 DEF NotPast
  <2>3. CASE pc' = "stopped"
    BY <2>2, <2>3 DEF OnSchedule
  <2>4. CASE pc' # "stopped"
    <3>1. /\ Ghdl_Signal_Active_Chain' =
                IF recheck /\ ~Has_Transaction_In_Next_Delta(s, w)
                THEN active \ {s} ELSE active
          /\ pc' = pc
          /\ Current_Time' = Current_Time
      BY <1>5, <2>1, <2>4
    \* The pending transactions at the current time, and s.
    <3>3. \A i \in 2 .. Len(a) : a[i].time = Current_Time => s \in active
      <4>1. ASSUME NEW i \in 2 .. Len(a), a[i].time = Current_Time
            PROVE  s \in active
        <5>1. CASE a[i].time = t
          BY <1>2, <1>6, <4>1, <5>1 DEF t
        <5>2. CASE \E j \in 2 .. Len(wave[d]) : a[i] = wave[d][j] /\ wave[d][j].time < t
          BY <1>6, <2>1, <4>1, <5>2 DEF DeltaKnown, s
        <5> QED
          BY <1>8, <5>1, <5>2
      <4> QED
        BY <4>1
    <3>4. ASSUME NEW e \in Driver, SigOf(e) = s, NEW i \in 2 .. Len(w[e]),
                 w[e][i].time = Current_Time, recheck
          PROVE  Has_Transaction_In_Next_Delta(s, w)
      <4>1. e \in Range(Drivers[s]) /\ e \notin Direct
        BY <1>1, <1>5, <1>7, <3>4, SigOfDriver, WaveOfDriver, <1>11 DEF DirectBare
      <4>2. Sorted' /\ NotPast' /\ Current_Time' = Current_Time /\ wave' = w
        BY <1>5, <1>10, <2>2, <3>1
      <4>3. InOrder(w[e]) /\ \A j \in 2 .. Len(w[e]) : w[e][j].time >= Current_Time
        BY <4>2 DEF Sorted, NotPast
      <4>4. w[e] \in Seq(Trans) /\ Len(w[e]) \in Nat
        BY <1>7
      <4>5. \A j \in 2 .. Len(w[e]) : w[e][j].time \in Nat
        <5>1. \A x \in Trans : x.time \in Nat
          BY <1>2 DEF Trans
        <5>2. \A j \in 2 .. Len(w[e]) : w[e][j] \in Trans
          BY <4>4
        <5> QED
          BY <5>1, <5>2
      <4>6. i = 2
        <5>1. 2 \in 2 .. Len(w[e]) /\ i \in Nat
          BY <4>4
        <5> QED
          BY SMTT(20), <1>2, <3>4, <4>3, <4>5, <5>1 DEF InOrder
      <4> QED
        BY <3>4, <4>1, <4>4, <4>6 DEF Has_Transaction_In_Next_Delta, Next_Delta_Transaction
    <3>5. ASSUME NEW e \in Driver, NEW i \in 2 .. Len(w[e]), w[e][i].time = Current_Time
          PROVE  SigOf(e) \in Ghdl_Signal_Active_Chain'
      <4>1. SigOf(e) \in active
        <5>1. CASE e = d
          BY <1>7, <3>3, <3>5, <5>1 DEF s
        <5>2. CASE e # d
          BY <1>6, <1>7, <2>1, <3>5, <5>2 DEF DeltaKnown
        <5> QED
          BY <5>1, <5>2
      <4> QED
        BY <3>1, <3>4, <3>5, <4>1
    <3>6. ASSUME NEW x \in Ghdl_Signal_Active_Chain', Net_One_Driver(x)
          PROVE  Len(w[Drivers[x][1]]) > 1 /\ w[Drivers[x][1]][2].time = Current_Time
      <4>1. x \in active /\ x \in Signal
        BY <1>1, <1>2, <1>6, <3>1 DEF TypeOK
      <4>2. /\ Drivers[x][1] \in Driver /\ SigOf(Drivers[x][1]) = x
            /\ x = s => Drivers[x][1] = d
        BY <3>6, <4>1, OnlyDriver DEF s
      <4>3. CASE x # s
        <5>1. x \in Ghdl_Signal_Active_Chain /\ Drivers[x][1] # d
          BY <1>6, <4>1, <4>2, <4>3 DEF s
        <5> QED
          BY <1>7, <2>1, <3>6, <4>2, <5>1 DEF DeltaKnown, Due
      <4>4. CASE x = s
        <5>1. w[Drivers[x][1]] = a
          BY <1>7, <4>2, <4>4
        <5>2. \E i \in 2 .. Len(a) : a[i].time = Current_Time
          <6>1. CASE after = 0
            <7>1. a[Len(a)].time = Current_Time
              BY <1>2, <1>3, <1>4, <6>1 DEF t
            <7> QED
              BY <1>4, <1>7, <7>1
          <6>2. CASE after # 0 /\ reject > 0
            <7>1. recheck
              BY <1>6, <4>1, <4>4, <6>2
            <7>2. Has_Transaction_In_Next_Delta(s, w)
              BY <3>1, <4>4, <7>1
            <7>3. ~Is_Direct_Active[s]
              BY <1>1, <1>2, <3>6, <4>4 DEF FlagsLinked
            <7>4. PICK e \in Range(Drivers[s]) : Next_Delta_Transaction(w, e)
              BY <7>2, <7>3 DEF Has_Transaction_In_Next_Delta
            <7>5. e \in Driver
              BY <1>2, <7>4 DEF Driver
            <7>6. e = d
              BY <1>2, <3>6, <4>2, <4>4, <7>4, <7>5, SigOfDriver, OnlyDriver
            <7> QED
              BY <1>4, <1>7, <7>4, <7>6 DEF Next_Delta_Transaction
          <6>3. CASE after # 0 /\ reject = 0
            <7>1. Due(s, Current_Time)
              BY <1>6, <2>1, <3>6, <4>1, <4>4, <6>3 DEF DeltaKnown
            <7>2. Len(wave[d]) > 1 /\ wave[d][2].time = Current_Time
              BY <4>2, <4>4, <7>1 DEF Due
            <7>3. 2 \in 2 .. Len(wave[d]) /\ wave[d][2].time < t
              BY <1>1, <1>2, <6>3, <7>2, WaveOfDriver DEF t
            <7> QED
              BY <1>4, <6>3, <7>2, <7>3
          <6> QED
            BY <1>2, <6>1, <6>2, <6>3
        <5>3. PICK i \in 2 .. Len(a) : a[i].time = Current_Time
          BY <5>2
        <5>4. \A j \in 2 .. Len(a) : a[j].time \in Nat /\ a[j].time >= Current_Time
          <6>1. NotPast' /\ wave' = w /\ Current_Time' = Current_Time
            BY <1>5, <2>2, <3>1
          <6>2. \A y \in Trans : y.time \in Nat
            BY <1>2 DEF Trans
          <6>3. \A j \in 2 .. Len(a) : a[j] \in Trans
            BY <1>4, <1>7 DEF IsList
          <6>4. \A j \in 2 .. Len(a) : a[j].time >= Current_Time
            BY <1>7, <6>1 DEF NotPast
          <6> QED
            BY <6>2, <6>3, <6>4
        <5>5. 2 \in 2 .. Len(a) /\ i \in Nat
          BY <1>4, <1>7
        <5>6. i = 2
          BY <1>2, <1>4, <5>3, <5>4, <5>5 DEF InOrder
        <5> QED
          BY <1>4, <5>1, <5>3, <5>6
      <4> QED
        BY <4>3, <4>4
    <3>7. DeltaKnown'
      BY <1>5, <3>1, <3>5, <3>6 DEF DeltaKnown, Due, Net_One_Driver
    <3> QED
      BY <1>1, <2>2, <3>1, <3>7 DEF OnSchedule
  <2> QED
    BY <2>3, <2>4
<1> QED
  BY <1>5, <1>17, <1>18 DEF Inv

\* The first waveform element is beyond the end of the times.
LEMMA BeyondAssign ==
    ASSUME Inv, NEW d \in Driver, NEW after \in Delays, Start_Assign_Beyond(d, after)
    PROVE  Inv'
<1>1. /\ TypeOK /\ Sorted /\ DirectBare /\ OpenFollows /\ FlagsLinked /\ FutureKnown
      /\ Loaded(Ghdl_Signal_Active_Chain)
      /\ Next_Signal_Active_Chain = {}
      /\ pc \in {"run", "postponed"}
      /\ ~late => NotPast /\ DeltaKnown
  BY WhileRunning DEF Start_Assign_Beyond
<1>2. /\ UNCHANGED <<wave, val_ptr, Is_Direct_Active, Ghdl_Signal_Active_Chain,
                     Next_Signal_Active_Chain, late, Current_Time, Next_Time, limit, pc, outcome>>
      /\ open' = d /\ d \notin Direct
  BY DEF Start_Assign_Beyond, driverVars, timeVars
<1>3. Future_List' = Future_List \cup {SigOf(d)} /\ SigOf(d) \in Signal
  <2>1. after > 0
    BY <1>1, Times, SignalAssumption DEF Start_Assign_Beyond
  <2> QED
    BY <2>1, SigOfDriver DEF Start_Assign_Beyond, Insert_Future
<1>4. TypeOK'
  BY <1>1, <1>2, <1>3 DEF TypeOK
<1>5. Sorted' /\ DirectBare' /\ FlagsLinked'
  BY <1>1, <1>2 DEF Sorted, DirectBare, FlagsLinked, Net_One_Driver
<1>6. OpenFollows' /\ FutureKnown'
  BY <1>1, <1>2, <1>3 DEF OpenFollows, FutureKnown
<1>7. ChainsEmpty' /\ ChainsLoaded'
  BY <1>1, <1>2 DEF ChainsEmpty, ChainsLoaded, Loaded, Net_One_Driver
<1>8. ~late' => OnSchedule'
  BY <1>1, <1>2 DEF OnSchedule, NotPast, DeltaKnown, Due, Net_One_Driver
<1> QED
  BY <1>4, <1>5, <1>6, <1>7, <1>8 DEF Inv, Frame

\* A waveform element that follows: it is later than the last one.  Without a
\* delay it is late, and its signal is in the future list.
LEMMA NextAssign ==
    ASSUME Inv, NEW d \in Driver, NEW v \in Value, NEW after \in Delays,
           Ghdl_Signal_Next_Assign(d, v, after)
    PROVE  Inv'
<1> DEFINE s == SigOf(d)
           t == Current_Time + after
           x == Transaction(t, v)
           n == Len(wave[d])
           w == [wave EXCEPT ![d] = Append(wave[d], x)]
<1>1. /\ TypeOK /\ Sorted /\ DirectBare /\ OpenFollows /\ FlagsLinked /\ FutureKnown
      /\ Loaded(Ghdl_Signal_Active_Chain)
      /\ Next_Signal_Active_Chain = {}
      /\ pc \in {"run", "postponed"} /\ Running
      /\ ~late => NotPast /\ DeltaKnown
  BY WhileRunning DEF Ghdl_Signal_Next_Assign
<1>2. /\ wave' = w
      /\ Future_List' = Insert_Future(s, after)
      /\ UNCHANGED <<val_ptr, Is_Direct_Active, Ghdl_Signal_Active_Chain,
                     Next_Signal_Active_Chain, open, Current_Time, Next_Time, limit, pc, outcome>>
  BY DEF Ghdl_Signal_Next_Assign, timeVars
<1>3. open = d /\ t <= TimeHigh /\ t > wave[d][n].time
  BY DEF Ghdl_Signal_Next_Assign
<1>3a. /\ late => late'
       /\ after <= 0 => late'
       /\ late' \in BOOLEAN
  BY ZenonT(20) DEF Ghdl_Signal_Next_Assign
<1>4. /\ d \notin Direct /\ n \in Nat /\ n >= 1
      /\ n > 1 \/ s \in Future_List
  <2>1. open # None
    BY <1>3, SignalAssumption
  <2> QED
    BY <1>1, <1>3, <2>1, WaveOfDriver DEF OpenFollows
<1>5. /\ s \in Signal /\ TimeHigh \in Nat /\ Current_Time \in 0 .. TimeHigh
      /\ after \in Int
  BY <1>1, Times, SigOfDriver, SignalAssumption
<1>6. wave[d][n].time \in 0 .. TimeHigh
  BY <1>1, <1>4, WaveOfDriver
<1>7. t \in 0 .. TimeHigh /\ (after > 0 => t > Current_Time) /\ (t > Current_Time => after > 0)
  BY <1>3, <1>5, <1>6
<1>8. x \in Trans /\ x.time = t
  BY <1>7 DEF Transaction, Trans
<1> HIDE DEF s, t, x, n
<1>9. /\ w \in [Driver -> Seq(Trans)]
      /\ \A e \in Driver : e # d => w[e] = wave[e]
      /\ w[d] \in Seq(Trans)
      /\ Len(w[d]) = n + 1
      /\ w[d][n + 1] = x
      /\ \A i \in 1 .. n : w[d][i] = wave[d][i]
  <2>1. wave[d] \in Seq(Trans) /\ wave \in [Driver -> Seq(Trans)]
    BY <1>1, WaveOfDriver
  <2>2. w[d] = Append(wave[d], x)
    BY <2>1
  <2> QED
    BY <1>8, <2>1, <2>2 DEF n
<1> HIDE DEF w
<1>10. \A i \in 2 .. Len(w[d]) : i = n + 1 \/ i \in 2 .. n
  BY <1>4, <1>9
<1>11. \A i \in 2 .. n : i \in 1 .. n /\ i \in 2 .. Len(wave[d])
  BY <1>4 DEF n
<1>12. TypeOK'
  <2>1. \A e \in Driver : wave'[e] # <<>>
    BY <1>1, <1>2, <1>4, <1>9 DEF TypeOK
  <2>2. wave' \in [Driver -> Seq([time : 0 .. TimeHigh, val : Value])]
    BY <1>2, <1>9 DEF Trans
  <2> QED
    BY <1>1, <1>2, <1>5, <1>3a, <2>1, <2>2 DEF TypeOK, Insert_Future
<1>13. \A i \in 2 .. n : wave[d][i].time \in Nat /\ wave[d][i].time < t
  <2>1. InOrder(wave[d]) /\ \A i \in 1 .. Len(wave[d]) : wave[d][i].time \in 0 .. TimeHigh
    BY <1>1, WaveOfDriver DEF Sorted
  <2>2. \A i \in 2 .. n : i < n => wave[d][i].time < wave[d][n].time
    <3>1. \A i \in 2 .. n : n \in 2 .. Len(wave[d])
      BY <1>4 DEF n
    <3> QED
      BY <1>11, <2>1, <3>1 DEF InOrder
  <2>3. \A i \in 2 .. n : i = n \/ i < n
    BY <1>4
  <2>4. \A i \in 2 .. n : wave[d][i].time \in 0 .. TimeHigh
    BY <1>11, <2>1 DEF n
  <2>5. wave[d][n].time < t
    BY <1>3, <1>6, <1>7 DEF n, t
  <2> QED
    BY <1>5, <1>6, <1>7, <2>2, <2>3, <2>4, <2>5
<1>14. Sorted'
  <2>1. InOrder(w[d])
    <3>1. \A i, j \in 2 .. Len(w[d]) : i < j => i \in 2 .. n
      BY <1>4, <1>9
    <3>2. \A i, j \in 2 .. n : i < j => wave[d][i].time < wave[d][j].time
      BY <1>1, <1>11 DEF Sorted, InOrder
    <3> QED
      BY <1>8, <1>9, <1>10, <1>11, <1>13, <3>1, <3>2 DEF InOrder
  <2> QED
    BY <1>1, <1>2, <1>9, <2>1 DEF Sorted
<1>15. DirectBare'
  <2>1. \A e \in Direct : e \in Driver /\ e # d
    BY <1>4, SignalAssumption
  <2> QED
    BY <1>1, <1>2, <1>9, <2>1 DEF DirectBare
<1>16. OpenFollows'
  <2>1. Len(w[d]) > 1
    BY <1>4, <1>9
  <2> QED
    BY <1>1, <1>2, <1>3, <1>4, <2>1 DEF OpenFollows
<1>17. FlagsLinked' /\ ChainsEmpty'
  BY <1>1, <1>2 DEF FlagsLinked, ChainsEmpty, Net_One_Driver
<1>18. FutureKnown'
  <2>1. Future_List \subseteq Future_List' /\ (after > 0 => s \in Future_List')
    BY <1>2 DEF Insert_Future
  <2>2. s \in Future_List'
    <3>1. CASE after > 0
      BY <2>1, <3>1
    <3>2. CASE n = 1
      BY <1>4, <2>1, <3>2
    <3>3. CASE after <= 0 /\ n > 1
      <4>1. n \in 2 .. Len(wave[d]) /\ wave[d][n].time < Current_Time
        BY <1>3, <1>4, <1>5, <1>6, <1>7, <3>3 DEF n
      <4>2. wave[d][n].time # Current_Time
        BY <1>5, <1>6, <4>1
      <4> QED
        BY <1>1, <2>1, <4>1, <4>2 DEF FutureKnown, s
    <3> QED
      BY <1>4, <1>5, <3>1, <3>2, <3>3
  <2>3. ASSUME NEW e \in Driver, e # d, NEW i \in 2 .. Len(wave[e])
        PROVE  \/ SigOf(e) \in Future_List'
               \/ wave[e][i].time = Current_Time /\ SigOf(e) \in Ghdl_Signal_Active_Chain
    BY <1>1, <2>1 DEF FutureKnown
  <2>4. pc # "update"
    BY <1>1
  <2> QED
    BY <1>2, <1>9, <2>2, <2>3, <2>4 DEF FutureKnown, s
<1>19. ChainsLoaded'
  <2>1. ASSUME NEW y \in Ghdl_Signal_Active_Chain, Net_One_Driver(y)
        PROVE  Len(w[Drivers[y][1]]) > 1
    <3>1. Drivers[y][1] \in Driver /\ Len(wave[Drivers[y][1]]) > 1
      BY <1>1, <2>1, OnlyDriver DEF Loaded, TypeOK
    <3>2. Len(w[d]) > 1
      BY <1>4, <1>9
    <3> QED
      BY <1>9, <3>1, <3>2
  <2> QED
    BY <1>1, <1>2, <2>1 DEF ChainsLoaded, Loaded, Net_One_Driver
<1>20. Frame'
  BY <1>12, <1>14, <1>15, <1>16, <1>17, <1>18, <1>19 DEF Frame
<1>21. ASSUME ~late' PROVE OnSchedule'
  <2>1. NotPast /\ DeltaKnown /\ t > Current_Time
    <3>1. ~late /\ ~(after <= 0)
      BY <1>3a, <1>21
    <3> QED
      BY <1>1, <1>5, <1>7, <3>1
  <2>2. NotPast'
    <3>1. \A i \in 2 .. Len(w[d]) : w[d][i].time >= Current_Time
      BY <1>5, <1>7, <1>8, <1>9, <1>10, <1>11, <2>1 DEF NotPast
    <3> QED
      BY <1>2, <1>9, <2>1, <3>1 DEF NotPast
  <2>3. ASSUME NEW e \in Driver, NEW i \in 2 .. Len(w[e]), w[e][i].time = Current_Time
        PROVE  SigOf(e) \in Ghdl_Signal_Active_Chain
    BY SMTT(20), <1>5, <1>7, <1>8, <1>9, <1>10, <1>11, <2>1, <2>3 DEF DeltaKnown
  <2>4. ASSUME NEW y \in Ghdl_Signal_Active_Chain, Net_One_Driver(y)
        PROVE  Len(w[Drivers[y][1]]) > 1 /\ w[Drivers[y][1]][2].time = Current_Time
    <3>1. Len(wave[Drivers[y][1]]) > 1 /\ wave[Drivers[y][1]][2].time = Current_Time
      BY <2>1, <2>4 DEF DeltaKnown, Due
    <3>2. Drivers[y][1] \in Driver
      BY <1>1, <2>4, OnlyDriver DEF TypeOK
    <3> DEFINE o == Drivers[y][1]
    <3> HIDE DEF o
    <3>3. CASE o = d
      <4>1. 2 \in 1 .. n /\ n + 1 > 1
        BY <1>4, <3>1, <3>3 DEF n, o
      <4>2. w[d][2] = wave[d][2]
        BY <1>9, <4>1
      <4> QED
        BY <1>9, <3>1, <3>3, <4>1, <4>2 DEF o
    <3>4. CASE o # d
      BY <1>9, <3>1, <3>2, <3>4 DEF o
    <3> QED
      BY <3>3, <3>4
  <2>5. DeltaKnown'
    BY <1>2, <2>3, <2>4 DEF DeltaKnown, Due, Net_One_Driver
  <2> QED
    BY <1>1, <1>2, <2>2, <2>5 DEF OnSchedule
<1> QED
  BY <1>20, <1>21 DEF Inv

\* A direct assignment leaves the lists alone; it may activate its signal, and
\* then a direct flag may be set.
LEMMA DirectChange ==
    ASSUME Inv, NEW d \in Direct, NEW v \in Value, Running,
           val_ptr' = [val_ptr EXCEPT ![d] = v],
           open' = None,
           UNCHANGED <<wave, Next_Signal_Active_Chain, Future_List, late, timeVars, pc, outcome>>,
           \/ /\ Ghdl_Signal_Active_Chain' = Insert_Active(SigOf(d))
              /\ \/ UNCHANGED Is_Direct_Active
                 \/ Is_Direct_Active' = [Is_Direct_Active EXCEPT ![SigOf(d)] = TRUE]
           \/ UNCHANGED <<Ghdl_Signal_Active_Chain, Is_Direct_Active>>
    PROVE  Inv'
<1>1. /\ TypeOK /\ Sorted /\ DirectBare /\ OpenFollows /\ FlagsLinked /\ FutureKnown
      /\ Loaded(Ghdl_Signal_Active_Chain)
      /\ Next_Signal_Active_Chain = {}
      /\ pc \in {"run", "postponed"}
      /\ ~late => NotPast /\ DeltaKnown
  BY WhileRunning
<1>2. d \in Driver /\ SigOf(d) \in Signal /\ ~Net_One_Driver(SigOf(d))
  <2>1. d \in Driver
    BY SignalAssumption
  <2> QED
    BY <2>1, SigOfDriver, OnlyDriver
<1>3. /\ Ghdl_Signal_Active_Chain' \in
            {Ghdl_Signal_Active_Chain, Ghdl_Signal_Active_Chain \cup {SigOf(d)}}
      /\ \A s \in Signal :
            Is_Direct_Active'[s] =>
                \/ Is_Direct_Active[s]
                \/ s = SigOf(d) /\ s \in Ghdl_Signal_Active_Chain'
      /\ Is_Direct_Active' \in [Signal -> BOOLEAN]
  BY <1>1, <1>2 DEF TypeOK, Insert_Active, Linked
<1>4. TypeOK'
  BY <1>1, <1>2, <1>3 DEF TypeOK, timeVars
<1>5. Sorted' /\ DirectBare' /\ (NotPast => NotPast')
  BY <1>1 DEF Sorted, DirectBare, NotPast, timeVars
<1>6. OpenFollows'
  BY DEF OpenFollows
<1>7. FlagsLinked'
  BY <1>1, <1>2, <1>3 DEF FlagsLinked, Net_One_Driver
<1>8. FutureKnown'
  BY <1>1, <1>3 DEF FutureKnown, timeVars
<1>9. ChainsEmpty' /\ ChainsLoaded'
  BY <1>1, <1>2, <1>3 DEF ChainsEmpty, ChainsLoaded, Loaded, Net_One_Driver
<1>10. DeltaKnown => DeltaKnown'
  BY <1>1, <1>2, <1>3 DEF DeltaKnown, Due, Net_One_Driver, timeVars
<1>11. ~late' => OnSchedule'
  BY <1>1, <1>5, <1>10 DEF OnSchedule
<1> QED
  BY <1>4, <1>5, <1>6, <1>7, <1>8, <1>9, <1>11 DEF Inv, Frame

-----------------------------------------------------------------------------
\* What the scan of the future list finds: the earliest transaction, or tn.
LEMMA EarliestTime ==
    ASSUME TypeOK, NEW tn \in Current_Time .. TimeHigh
    PROVE  /\ Earliest(tn) \in 0 .. TimeHigh
           /\ Earliest(tn) <= tn
           /\ Earliest(tn) \in {tn} \cup Candidates
           /\ \A c \in Candidates : Earliest(tn) <= c
<1> DEFINE S == {tn} \cup Candidates
           e == Earliest(tn)
<1>1. TimeHigh \in Nat /\ Current_Time \in 0 .. TimeHigh
  BY Times
<1>2. \A d \in Driver : Len(wave[d]) > 1 => 2 \in 1 .. Len(wave[d])
  BY WaveOfDriver
<1>3. Candidates \subseteq 0 .. TimeHigh
  BY <1>2, WaveOfDriver DEF Candidates
<1>4. e \in S /\ \A c \in S : e <= c
  <2>1. S \in SUBSET Nat /\ S # {}
    BY <1>1, <1>3
  <2> HIDE DEF S
  <2>2. e = Min(S)
    BY DEF e, S, Earliest
  <2> QED
    BY <2>1, <2>2, LeastElement
<1>5. S \subseteq 0 .. TimeHigh /\ tn \in S /\ Candidates \subseteq S
  BY <1>1, <1>3
<1>6. S = {tn} \cup Candidates /\ e = Earliest(tn)
  OBVIOUS
<1> HIDE DEF S, e
<1> QED
  BY <1>4, <1>5, <1>6

\* When nothing is past or due at the current time: no transaction is before
\* the next time, and those at that time are found.
LEMMA EarliestDue ==
    ASSUME TypeOK, Sorted, FutureKnown, NotPast, DeltaKnown, Ghdl_Signal_Active_Chain = {},
           NEW tn \in Current_Time .. TimeHigh, tn # Current_Time
    PROVE  /\ Earliest(tn) > Current_Time
           /\ Current_Time \notin Candidates
           /\ \A d \in Driver : \A i \in 2 .. Len(wave[d]) :
                 /\ wave[d][i].time >= Earliest(tn)
                 /\ wave[d][i].time = Earliest(tn) => SigOf(d) \in At_Time(Earliest(tn))
<1> DEFINE S == {tn} \cup Candidates
           e == Earliest(tn)
<1>1. TimeHigh \in Nat /\ Current_Time \in 0 .. TimeHigh
  BY Times
<1>2. ASSUME NEW d \in Driver, NEW i \in 2 .. Len(wave[d])
      PROVE  /\ wave[d][i].time \in 0 .. TimeHigh
             /\ wave[d][i].time > Current_Time
             /\ 2 \in 2 .. Len(wave[d]) /\ Len(wave[d]) > 1
             /\ SigOf(d) \in Future_List
             /\ i # 2 => wave[d][2].time < wave[d][i].time
  <2>1. 2 \in 2 .. Len(wave[d]) /\ i \in 1 .. Len(wave[d]) /\ Len(wave[d]) > 1
    BY WaveOfDriver
  <2>2. wave[d][i].time \in 0 .. TimeHigh
    BY <2>1, WaveOfDriver
  <2>3. wave[d][i].time >= Current_Time /\ wave[d][i].time # Current_Time
    BY DEF NotPast, DeltaKnown
  <2>4. wave[d][i].time > Current_Time
    BY <1>1, <2>2, <2>3
  <2>5. i # 2 => 2 < i
    OBVIOUS
  <2> QED
    BY <2>1, <2>2, <2>4, <2>5 DEF FutureKnown, Sorted, InOrder
<1>3. \A d \in Driver : Len(wave[d]) > 1 => 2 \in 2 .. Len(wave[d])
  BY WaveOfDriver
<1>4. Candidates \subseteq 0 .. TimeHigh /\ \A t \in Candidates : t > Current_Time
  BY <1>2, <1>3 DEF Candidates
<1>5. e \in S /\ \A c \in Candidates : e <= c
  BY EarliestTime
<1> HIDE DEF e
<1>6. e \in 0 .. TimeHigh /\ e > Current_Time
  BY <1>1, <1>4, <1>5
<1>7. ASSUME NEW d \in Driver, NEW i \in 2 .. Len(wave[d])
      PROVE  /\ wave[d][i].time >= e
             /\ wave[d][i].time = e => SigOf(d) \in At_Time(e)
  <2>1. wave[d][2].time \in Candidates /\ wave[d][2].time \in 0 .. TimeHigh
    BY <1>2, <1>3 DEF Candidates
  <2>2. wave[d][2].time >= e
    BY <1>5, <2>1
  <2>3. wave[d][i].time >= e /\ (wave[d][i].time = e => i = 2)
    BY <1>1, <1>2, <1>6, <2>1, <2>2
  <2>4. d \in Range(Drivers[SigOf(d)])
    BY SigOfDriver
  <2> QED
    BY <1>2, <2>3, <2>4 DEF At_Time
<1>8. Current_Time \notin Candidates
  BY <1>1, <1>4
<1> QED
  BY <1>6, <1>7, <1>8 DEF e

\* A signal with one driver is found for the transaction of that driver.
LEMMA FoundIsDue ==
    ASSUME TypeOK, NEW t, NEW s \in At_Time(t), Net_One_Driver(s)
    PROVE  Due(s, t)
<1>1. s \in Signal
  BY DEF At_Time, TypeOK
<1>2. PICK d \in Range(Drivers[s]) : Len(wave[d]) > 1 /\ wave[d][2].time = t
  BY DEF At_Time
<1>3. d \in Driver
  BY <1>1, <1>2 DEF Driver
<1>4. SigOf(d) = s
  BY <1>1, <1>3, SigOfDriver
<1>5. d = Drivers[s][1]
  BY <1>1, <1>3, <1>4, OnlyDriver
<1> QED
  BY <1>2, <1>5 DEF Due

\* The signals Find_Next_Time puts on the chain are loaded.
LEMMA FoundIsLoaded ==
    ASSUME TypeOK, NEW t
    PROVE  Loaded(At_Time(t))
<1> SUFFICES ASSUME NEW s \in At_Time(t), Net_One_Driver(s)
             PROVE  Len(wave[Drivers[s][1]]) > 1
  BY DEF Loaded
<1>1. PICK d \in Range(Drivers[s]) : Len(wave[d]) > 1
  BY DEF At_Time
<1>2. s \in Signal
  BY DEF At_Time, TypeOK
<1>3. d \in Driver
  BY <1>2 DEF Driver
<1>4. d = Drivers[s][1]
  BY <1>2, <1>3, OnlyDriver, SigOfDriver
<1> QED
  BY <1>1, <1>4

\* A computation of the next time that starts from no chain: a delta cycle
\* updates the active chain, otherwise the next chain is what is due next.
\* Only a late element makes it fail or take the time back.
LEMMA ComputeStep ==
    ASSUME Inv, NEW tn \in Current_Time .. TimeHigh, NEW chain, chain = {},
           NEW then \in {"last", "end"}, pc \in {"run", "last", "postponed"},
           Compute_Next_Time(tn, chain, then)
    PROVE  /\ Inv'
           /\ outcome' = outcome \/ (late /\ outcome' = "internal_error")
           /\ late' = late
<1>1. /\ TypeOK /\ Sorted /\ DirectBare /\ OpenFollows /\ FlagsLinked /\ FutureKnown
      /\ Loaded(Ghdl_Signal_Active_Chain)
      /\ ~late => NotPast /\ DeltaKnown
  BY DEF Inv, Frame, OnSchedule, ChainsLoaded
<1>2. /\ open' = None
      /\ UNCHANGED <<wave, val_ptr, Is_Direct_Active, Ghdl_Signal_Active_Chain, Future_List,
                     late, Current_Time>>
      /\ limit' \in 0 .. TimeHigh
  BY <1>1, Times DEF Compute_Next_Time, Find_Next_Time, driverVars, chainVars, timeVars
<1>3. /\ Sorted' /\ DirectBare' /\ OpenFollows' /\ FlagsLinked'
      /\ ~late' => NotPast' /\ DeltaKnown'
      /\ Loaded(Ghdl_Signal_Active_Chain)'
      /\ (pc' = "update" => Next_Time' = Current_Time) => FutureKnown'
  BY <1>1, <1>2, SameLists DEF OpenFollows
<1>4. CASE Must_Have_Been_Active(tn) /\ Stop("internal_error") /\ UNCHANGED <<timeVars, chainVars>>
  <2>1. /\ UNCHANGED <<Next_Time, limit, Next_Signal_Active_Chain>>
        /\ pc' = "stopped" /\ outcome' = "internal_error"
    BY <1>4 DEF timeVars, chainVars, Stop
  <2>2. late
    BY <1>1, <1>4, EarliestDue DEF Must_Have_Been_Active
  <2>3. TypeOK'
    BY <1>1, <1>2, <2>1 DEF TypeOK
  <2> QED
    BY <1>2, <1>3, <2>1, <2>2, <2>3 DEF Inv, Frame, ChainsEmpty, ChainsLoaded
<1>5. CASE /\ Find_Next_Time(tn, chain)
           /\ pc' = IF Next_Time' = Current_Time THEN "update" ELSE then
           /\ outcome' = outcome
  <2>1. CASE tn = Current_Time \/ Ghdl_Signal_Active_Chain # {}
    <3>1. /\ Next_Time' = Current_Time /\ Next_Signal_Active_Chain' = {} /\ limit' = tn
          /\ pc' = "update"
      BY <1>5, <2>1 DEF Find_Next_Time
    <3>2. TypeOK'
      <4>1. {Current_Time', Next_Time', limit'} \subseteq 0 .. TimeHigh
        BY <1>1, <1>2, <3>1, Times
      <4>2. UNCHANGED <<wave, val_ptr, Is_Direct_Active, Ghdl_Signal_Active_Chain,
                        Future_List, late, outcome>>
        BY <1>2, <1>5
      <4> QED
        BY <1>1, <1>2, <3>1, <4>1, <4>2 DEF TypeOK
    <3>3. Frame'
      BY <1>3, <3>1, <3>2 DEF Frame, ChainsEmpty, ChainsLoaded, Loaded
    <3>4. ASSUME ~late PROVE OnSchedule'
      <4>1. NotPast /\ DeltaKnown
        BY <1>1, <3>4
      <4>2. Covered(Ghdl_Signal_Active_Chain)'
        BY <1>1, <1>2, <3>1, <4>1, Times DEF Covered, NotPast, DeltaKnown
      <4>3. Precise(Ghdl_Signal_Active_Chain)'
        BY <1>2, <3>1, <4>1 DEF Precise, DeltaKnown, Due, Net_One_Driver
      <4> QED
        BY <1>2, <1>3, <3>1, <3>4, <4>2, <4>3 DEF OnSchedule
    <3> QED
      BY <1>2, <1>5, <3>3, <3>4 DEF Inv
  <2>2. CASE tn # Current_Time /\ Ghdl_Signal_Active_Chain = {}
    <3> DEFINE e == Earliest(tn)
    <3>1. e \in 0 .. TimeHigh /\ e <= tn /\ tn \in 0 .. TimeHigh /\ TimeHigh \in Nat
      BY <1>1, Times, EarliestTime
    <3>2. /\ Next_Time' = e /\ limit' = tn /\ e # Current_Time
          /\ Next_Signal_Active_Chain' = IF e < tn THEN At_Time(e) ELSE chain \cup At_Time(tn)
      BY <1>5, <2>2 DEF Find_Next_Time
    <3>3. ~late => /\ e > Current_Time
                   /\ \A d \in Driver : \A i \in 2 .. Len(wave[d]) :
                        /\ wave[d][i].time >= e
                        /\ wave[d][i].time = e => SigOf(d) \in At_Time(e)
      BY <1>1, <2>2, EarliestDue
    <3> HIDE DEF e
    <3>4. Next_Signal_Active_Chain' = At_Time(e)
      BY <3>1, <3>2
    <3>5. pc' = then
      BY <1>5, <3>2
    <3>6. TypeOK'
      <4>1. Next_Signal_Active_Chain' \subseteq Signal
        BY <1>1, <3>4 DEF TypeOK, At_Time
      <4>2. {Current_Time', Next_Time', limit'} \subseteq 0 .. TimeHigh
        BY <1>1, <1>2, <3>1, <3>2, Times
      <4>3. UNCHANGED <<wave, val_ptr, Is_Direct_Active, Ghdl_Signal_Active_Chain,
                        Future_List, late, outcome>>
        BY <1>2, <1>5
      <4> QED
        BY <1>1, <1>2, <3>5, <4>1, <4>2, <4>3 DEF TypeOK
    <3>7. Frame'
      <4>1. Loaded(At_Time(e))
        BY <1>1, FoundIsLoaded
      <4>2. Loaded(Next_Signal_Active_Chain)'
        BY <1>2, <3>4, <4>1 DEF Loaded, Net_One_Driver
      <4> QED
        BY <1>2, <1>3, <2>2, <3>5, <3>6, <4>2 DEF Frame, ChainsEmpty, ChainsLoaded
    <3>8. ASSUME ~late PROVE OnSchedule'
      <4>1. Covered(Next_Signal_Active_Chain)'
        BY <1>1, <1>2, <3>1, <3>2, <3>3, <3>4, <3>8, Times DEF Covered
      <4>2. Precise(Next_Signal_Active_Chain)'
        <5>1. \A s \in At_Time(e) : Net_One_Driver(s) => Due(s, e)
          BY <1>1, FoundIsDue
        <5> QED
          BY <1>2, <3>2, <3>4, <5>1 DEF Precise, Due, Net_One_Driver
      <4> QED
        BY <1>2, <1>3, <3>5, <3>8, <4>1, <4>2 DEF OnSchedule
    <3> QED
      BY <1>2, <1>5, <3>7, <3>8 DEF Inv
  <2> QED
    BY <2>1, <2>2
<1> QED
  BY <1>4, <1>5 DEF Compute_Next_Time

\* An end-of-time-step callback may bring the next time forward.  The chain is
\* not flushed: it then holds signals that are not due, which is why the next
\* chain is precise only when there is no such callback.
LEMMA EndOfStep ==
    ASSUME Inv, NEW tn \in Current_Time .. TimeHigh, End_Of_Time_Step(tn)
    PROVE  Inv'
<1>1. /\ TypeOK /\ Sorted /\ DirectBare /\ OpenFollows /\ FlagsLinked /\ FutureKnown
      /\ Loaded(Ghdl_Signal_Active_Chain) /\ Loaded(Next_Signal_Active_Chain)
      /\ ~late => NotPast /\ DeltaKnown
      /\ Ghdl_Signal_Active_Chain = {}
      /\ pc = "end"
  BY DEF Inv, Frame, OnSchedule, ChainsEmpty, ChainsLoaded, End_Of_Time_Step
<1>2. /\ UNCHANGED <<wave, val_ptr, Is_Direct_Active, Ghdl_Signal_Active_Chain, Future_List,
                     open, late, outcome, Current_Time, pc>>
      /\ Find_Next_Time(tn, Next_Signal_Active_Chain)
      /\ Late_Callbacks
  BY DEF End_Of_Time_Step, driverVars
<1>3. /\ Sorted' /\ DirectBare' /\ OpenFollows' /\ FlagsLinked' /\ FutureKnown'
      /\ ~late => NotPast' /\ DeltaKnown'
      /\ Loaded(Ghdl_Signal_Active_Chain)'
  BY <1>1, <1>2, SameLists DEF OpenFollows, Running
<1>4. /\ TypeOK' /\ Loaded(Next_Signal_Active_Chain)'
      /\ ~late => Covered(Next_Signal_Active_Chain)'
  <2>1. CASE tn = Current_Time
    <3>1. /\ Next_Time' = Current_Time /\ limit' = tn
          /\ Next_Signal_Active_Chain' = Next_Signal_Active_Chain
      BY <1>2, <2>1 DEF Find_Next_Time
    <3>2. TypeOK'
      BY <1>1, <1>2, <2>1, <3>1 DEF TypeOK
    <3>3. Loaded(Next_Signal_Active_Chain)'
      BY <1>1, <1>2, <3>1 DEF Loaded, Net_One_Driver
    <3>4. ~late => Covered(Next_Signal_Active_Chain)'
      BY <1>1, <1>2, <3>1, Times DEF Covered, NotPast, DeltaKnown
    <3> QED
      BY <3>2, <3>3, <3>4
  <2>2. CASE tn # Current_Time
    <3> DEFINE e == Earliest(tn)
    <3>1. e \in 0 .. TimeHigh /\ e <= tn /\ tn \in 0 .. TimeHigh /\ TimeHigh \in Nat
      BY <1>1, Times, EarliestTime
    <3>2. /\ Next_Time' = e /\ limit' = tn
          /\ Next_Signal_Active_Chain' = IF e < tn THEN At_Time(e)
                                         ELSE Next_Signal_Active_Chain \cup At_Time(tn)
      BY <1>1, <1>2, <2>2 DEF Find_Next_Time
    <3>3. ~late => /\ e > Current_Time
                   /\ \A d \in Driver : \A i \in 2 .. Len(wave[d]) :
                        /\ wave[d][i].time >= e
                        /\ wave[d][i].time = e => SigOf(d) \in At_Time(e)
      BY <1>1, <2>2, EarliestDue
    <3> HIDE DEF e
    <3>4. /\ At_Time(e) \subseteq Next_Signal_Active_Chain'
          /\ Next_Signal_Active_Chain' \subseteq Next_Signal_Active_Chain \cup At_Time(e)
      BY <3>1, <3>2
    <3>5. TypeOK'
      <4>1. Next_Signal_Active_Chain' \subseteq Signal
        BY <1>1, <3>4 DEF TypeOK, At_Time
      <4>2. {Current_Time', Next_Time', limit'} \subseteq 0 .. TimeHigh
        BY <1>1, <1>2, <3>1, <3>2, Times
      <4> QED
        BY <1>1, <1>2, <4>1, <4>2 DEF TypeOK
    <3>6. Loaded(Next_Signal_Active_Chain)'
      <4>1. Loaded(At_Time(e))
        BY <1>1, FoundIsLoaded
      <4> QED
        BY <1>1, <1>2, <3>4, <4>1 DEF Loaded, Net_One_Driver
    <3>7. ~late => Covered(Next_Signal_Active_Chain)'
      BY <1>1, <1>2, <3>1, <3>2, <3>3, <3>4, Times DEF Covered
    <3> QED
      BY <3>5, <3>6, <3>7
  <2> QED
    BY <2>1, <2>2
<1>5. Frame'
  BY <1>1, <1>2, <1>3, <1>4 DEF Frame, ChainsEmpty, ChainsLoaded
<1>6. ~late' => OnSchedule'
  BY <1>1, <1>2, <1>3, <1>4 DEF OnSchedule
<1> QED
  BY <1>5, <1>6 DEF Inv

\* The lists after a cycle: what was due is gone, the rest is as before and
\* belongs to signals of the future list.
LEMMA ActivatedList ==
    ASSUME Inv, pc = "update", ~Nothing_Pending, NEW d \in Driver,
           NEW w, w = IF SigOf(d) \in Ghdl_Signal_Active_Chain
                      THEN Activate(d, Next_Time) ELSE wave[d]
    PROVE  /\ w \in Seq(Trans) /\ w # <<>>
           /\ InOrder(w)
           /\ d \in Direct => Len(w) = 1
           /\ \A i \in 2 .. Len(w) : SigOf(d) \in Future_List
           /\ ~late => \A i \in 2 .. Len(w) : w[i].time > Next_Time
<1> DEFINE s == SigOf(d)
           o == wave[d]
<1>1. /\ TypeOK /\ Sorted /\ DirectBare /\ FutureKnown
      /\ ~late => Covered(Ghdl_Signal_Active_Chain)
  BY DEF Inv, Frame, OnSchedule
<1>2. /\ o \in Seq(Trans) /\ Len(o) \in Nat /\ Len(o) >= 1
      /\ \A i \in 1 .. Len(o) : o[i] \in Trans /\ o[i].time \in 0 .. TimeHigh
      /\ InOrder(o)
      /\ ~late => \A i \in 2 .. Len(o) :
                     o[i].time = Next_Time => s \in Ghdl_Signal_Active_Chain
      /\ Next_Time \in 0 .. TimeHigh /\ TimeHigh \in Nat
      /\ d \in Direct => Len(o) = 1
      /\ s \in Signal
  BY <1>1, WaveOfDriver, Times, SigOfDriver DEF Sorted, Covered, DirectBare
<1>3. w = IF s \in Ghdl_Signal_Active_Chain THEN Activate(d, Next_Time) ELSE o
  OBVIOUS
<1>9. ~late => \A i \in 2 .. Len(o) : o[i].time >= Next_Time
  BY <1>1 DEF Covered
<1>10. ASSUME s \notin Future_List, NEW i \in 2 .. Len(o)
       PROVE  i = 2 /\ o[2].time = Next_Time /\ s \in Ghdl_Signal_Active_Chain
  <2>1. \A k \in 2 .. Len(o) : o[k].time = Next_Time /\ s \in Ghdl_Signal_Active_Chain
    BY <1>1, <1>10 DEF FutureKnown
  <2>2. 2 \in 2 .. Len(o) /\ (i # 2 => 2 < i)
    BY <1>2
  <2>3. i # 2 => o[2].time < o[i].time
    BY <1>2, <2>2 DEF InOrder
  <2> QED
    BY <1>2, <2>1, <2>2, <2>3
<1>4. CASE d \in Direct /\ s \in Ghdl_Signal_Active_Chain
  <2>1. w = <<[o[1] EXCEPT !.val = val_ptr[d]]>>
    BY <1>3, <1>4 DEF Activate
  <2>2. [o[1] EXCEPT !.val = val_ptr[d]] \in Trans
    <3>1. o[1] \in Trans /\ val_ptr[d] \in Value
      BY <1>1, <1>2, <1>4 DEF TypeOK
    <3> QED
      BY <3>1 DEF Trans
  <2> DEFINE y == [o[1] EXCEPT !.val = val_ptr[d]]
  <2>3. w = <<y>> /\ y \in Trans
    BY <2>1, <2>2
  <2> HIDE DEF y, o, s
  <2>4. Len(w) = 1 /\ w \in Seq(Trans) /\ w # <<>>
    BY ONLY <2>3
  <2>5. \A i \in 2 .. Len(w) : FALSE
    BY ONLY <2>4
  <2> QED
    BY <2>4, <2>5, Zenon DEF InOrder
<1> HIDE DEF o, s
<1>5. CASE w = Tail(o) /\ Len(o) > 1 /\ d \notin Direct
  <2>1. /\ w \in Seq(Trans) /\ Len(w) = Len(o) - 1 /\ w # <<>>
        /\ \A i \in 1 .. Len(w) : w[i] = o[i + 1]
    <3>1. o \in Seq(Trans) /\ o # <<>> /\ Len(o) > 1 /\ Len(o) \in Nat
      BY <1>2, <1>5
    <3> QED
      BY ONLY <1>5, <3>1
  <2>2. \A i \in 2 .. Len(w) : /\ i + 1 \in 2 .. Len(o) /\ i + 1 \in 1 .. Len(o)
                              /\ w[i] = o[i + 1] /\ 2 < i + 1
    BY <1>2, <2>1
  <2>3. 2 \in 2 .. Len(o)
    BY <1>2, <1>5
  <2>4. ASSUME ~late, NEW i \in 2 .. Len(w) PROVE w[i].time > Next_Time
    <3>1. o[2].time < o[i + 1].time
      BY <1>2, <2>2, <2>3 DEF InOrder
    <3>2. o[2].time >= Next_Time /\ o[2].time \in 0 .. TimeHigh /\ o[i + 1].time \in 0 .. TimeHigh
      <4>1. \A k \in 2 .. Len(o) : k \in 1 .. Len(o) /\ o[k].time >= Next_Time
        BY <1>2, <1>9, <2>4
      <4> QED
        BY <1>2, <2>2, <2>3, <4>1
    <3> QED
      BY SMTT(20), <1>2, <2>2, <3>1, <3>2
  <2>5. InOrder(w)
    <3> SUFFICES ASSUME NEW i \in 2 .. Len(w), NEW j \in 2 .. Len(w), i < j
                 PROVE  w[i].time < w[j].time
      BY DEF InOrder
    <3>1. i + 1 < j + 1
      OBVIOUS
    <3>2. i + 1 \in 2 .. Len(o) /\ j + 1 \in 2 .. Len(o)
      BY <2>2
    <3>3. o[i + 1].time < o[j + 1].time
      BY ONLY <1>2, <3>1, <3>2 DEF InOrder
    <3>4. w[i] = o[i + 1] /\ w[j] = o[j + 1]
      BY <2>2
    <3> QED
      BY ONLY <3>3, <3>4
  <2>6. ASSUME NEW i \in 2 .. Len(w) PROVE s \in Future_List
    <3>1. i + 1 \in 2 .. Len(o) /\ i + 1 # 2
      BY <2>2
    <3> QED
      BY <1>10, <3>1
  <2> QED
    BY <1>5, <2>1, <2>4, <2>5, <2>6 DEF s
<1>6. CASE w = o /\ (s \notin Ghdl_Signal_Active_Chain \/ ~(Len(o) > 1 /\ o[2].time = Next_Time))
  <2>1. ASSUME ~late, NEW i \in 2 .. Len(o) PROVE o[i].time > Next_Time
    <3>1. /\ i \in 1 .. Len(o) /\ 2 \in 2 .. Len(o) /\ 2 \in 1 .. Len(o) /\ Len(o) > 1
          /\ i # 2 => 2 < i
      BY <1>2
    <3>2. o[i].time \in 0 .. TimeHigh /\ o[2].time \in 0 .. TimeHigh
      BY <1>2, <3>1
    <3>3. o[2].time >= Next_Time /\ o[i].time >= Next_Time
      <4>1. \A k \in 2 .. Len(o) : o[k].time >= Next_Time
        BY <1>9, <2>1
      <4> QED
        BY <3>1, <4>1
    <3>4. i # 2 => o[2].time < o[i].time
      BY <1>2, <3>1 DEF InOrder
    <3>5. CASE s \notin Ghdl_Signal_Active_Chain
      BY <1>2, <2>1, <3>2, <3>3, <3>5
    <3>6. CASE o[2].time # Next_Time
      BY <1>2, <3>2, <3>3, <3>4, <3>6
    <3> QED
      BY <1>6, <3>1, <3>5, <3>6
  <2>2. ASSUME NEW i \in 2 .. Len(w) PROVE s \in Future_List
    <3>1. i \in 2 .. Len(o) /\ Len(o) > 1
      BY <1>2, <1>6
    <3> QED
      BY <1>6, <1>10, <3>1
  <2>3. w # <<>>
    BY <1>2, <1>6
  <2> QED
    BY <1>2, <1>6, <2>1, <2>2, <2>3 DEF s
<1>7. CASE d \notin Direct /\ s \in Ghdl_Signal_Active_Chain
  <2>1. w = IF Net_One_Driver(s) \/ (Len(o) > 1 /\ o[2].time = Next_Time) THEN Tail(o) ELSE o
    BY <1>3, <1>7 DEF Activate, o, s
  <2>2. Net_One_Driver(s) => Len(o) > 1
    <3> SUFFICES ASSUME Net_One_Driver(s) PROVE Len(o) > 1
      OBVIOUS
    <3>1. Drivers[s][1] = d
      BY <1>2, OnlyDriver DEF s
    <3>2. Pending(d) # {}
      BY <1>7, <3>1 DEF Nothing_Pending
    <3>3. PICK i \in 2 .. Len(o) : TRUE
      BY <3>2 DEF Pending, o
    <3> QED
      BY <1>2, <3>3
  <2> QED
    BY <1>5, <1>6, <1>7, <2>1, <2>2
<1>8. CASE s \notin Ghdl_Signal_Active_Chain
  BY <1>3, <1>6, <1>8
<1> QED
  BY <1>4, <1>7, <1>8 DEF s

\* The beginning of a cycle.
LEMMA UpdateStep ==
    ASSUME Inv, Update_Signals
    PROVE  Inv' /\ outcome' = outcome
<1>1. /\ TypeOK /\ Sorted /\ DirectBare /\ OpenFollows /\ FlagsLinked /\ FutureKnown
      /\ ~late => NotPast /\ Covered(Ghdl_Signal_Active_Chain)
      /\ Loaded(Ghdl_Signal_Active_Chain)
      /\ Next_Signal_Active_Chain = {}
      /\ pc = "update"
  BY DEF Inv, Frame, OnSchedule, ChainsEmpty, ChainsLoaded, Update_Signals
<1>2. /\ Current_Time' = Next_Time
      /\ UNCHANGED <<open, late, Next_Time, limit>>
      /\ open = None
      /\ Next_Time \in 0 .. TimeHigh /\ TimeHigh \in Nat
  BY <1>1, Times DEF Update_Signals, OpenFollows
<1>3. ~Nothing_Pending
  <2> SUFFICES ASSUME NEW s \in Ghdl_Signal_Active_Chain, Net_One_Driver(s)
               PROVE  Pending(Drivers[s][1]) # {}
    BY DEF Nothing_Pending
  <2>1. Len(wave[Drivers[s][1]]) > 1
    BY <1>1 DEF Loaded
  <2>2. Drivers[s][1] \in Driver
    BY <1>1, OnlyDriver DEF TypeOK
  <2>3. 2 \in 2 .. Len(wave[Drivers[s][1]])
    BY <1>1, <2>1, <2>2, WaveOfDriver
  <2> QED
    BY <2>3 DEF Pending
<1>4. /\ wave' = [d \in Driver |-> IF SigOf(d) \in Ghdl_Signal_Active_Chain
                                   THEN Activate(d, Next_Time) ELSE wave[d]]
      /\ Clear_Direct_Active
      /\ Ghdl_Signal_Active_Chain' = {}
      /\ pc' = "run"
      /\ UNCHANGED <<val_ptr, Next_Signal_Active_Chain, Future_List, outcome>>
  BY <1>3 DEF Update_Signals
<1>5. ASSUME NEW d \in Driver
      PROVE  /\ wave'[d] \in Seq(Trans) /\ wave'[d] # <<>>
             /\ InOrder(wave'[d])
             /\ d \in Direct => Len(wave'[d]) = 1
             /\ \A i \in 2 .. Len(wave'[d]) : SigOf(d) \in Future_List
             /\ ~late => \A i \in 2 .. Len(wave'[d]) : wave'[d][i].time > Next_Time
  <2>1. wave'[d] = IF SigOf(d) \in Ghdl_Signal_Active_Chain
                   THEN Activate(d, Next_Time) ELSE wave[d]
    BY <1>4
  <2> QED
    BY <1>1, <1>3, <2>1, ActivatedList
<1>6. TypeOK'
  <2>1. wave' \in [Driver -> Seq([time : 0 .. TimeHigh, val : Value])]
    BY <1>4, <1>5 DEF Trans
  <2>2. Is_Direct_Active' \in [Signal -> BOOLEAN]
    BY <1>1, <1>4 DEF Clear_Direct_Active, TypeOK
  <2> QED
    BY <1>1, <1>2, <1>4, <1>5, <2>1, <2>2 DEF TypeOK
<1>7. Sorted' /\ DirectBare' /\ FutureKnown'
  <2>1. Direct \subseteq Driver
    BY SignalAssumption
  <2> QED
    BY <1>4, <1>5, <2>1 DEF Sorted, DirectBare, FutureKnown
<1>8. OpenFollows' /\ FlagsLinked'
  BY <1>1, <1>2, <1>4 DEF OpenFollows, FlagsLinked, Clear_Direct_Active
<1>9. ChainsEmpty' /\ ChainsLoaded'
  BY <1>1, <1>4 DEF ChainsEmpty, ChainsLoaded, Loaded
<1>10. ASSUME ~late PROVE OnSchedule'
  <2>1. ASSUME NEW d \in Driver, NEW i \in 2 .. Len(wave'[d])
        PROVE  wave'[d][i].time >= Next_Time /\ wave'[d][i].time # Next_Time
    <3>1. wave'[d] \in Seq(Trans) /\ i \in 1 .. Len(wave'[d])
      BY <1>5
    <3>2. wave'[d][i] \in Trans
      BY <3>1
    <3>3. wave'[d][i].time \in 0 .. TimeHigh
      BY <3>2 DEF Trans
    <3>4. wave'[d][i].time > Next_Time
      BY <1>5, <1>10
    <3> QED
      BY <1>2, <3>3, <3>4
  <2> QED
    BY <1>2, <1>4, <2>1 DEF OnSchedule, NotPast, DeltaKnown
<1> QED
  BY <1>2, <1>4, <1>6, <1>7, <1>8, <1>9, <1>10 DEF Inv, Frame

-----------------------------------------------------------------------------
\* The other steps of the cycle move from one step to the next, or stop.
LEMMA MoveStep ==
    ASSUME Inv,
           \/ Start_Postponed \/ No_Postponed \/ Update_Active_Chain \/ Finish
           \/ UNCHANGED vars
           \/ \E tn \in Current_Time .. TimeHigh :
                 End_Postponed(tn) /\ (tn = Current_Time \/ Ghdl_Signal_Active_Chain # {})
    PROVE  Inv'
<1>1. /\ TypeOK /\ Sorted /\ DirectBare /\ OpenFollows /\ FlagsLinked /\ FutureKnown
      /\ ChainsEmpty /\ ChainsLoaded
      /\ ~late => OnSchedule
  BY DEF Inv, Frame
<1>2. ASSUME UNCHANGED <<driverVars, Future_List, open, late, timeVars>>,
             \/ open = None
             \/ pc' = pc
             \/ pc' = "stopped"
      PROVE  /\ Sorted' /\ DirectBare' /\ OpenFollows'
             /\ NotPast => NotPast'
  BY <1>1, <1>2
     DEF driverVars, timeVars, Sorted, DirectBare, NotPast, OpenFollows, Running
<1>3. CASE Start_Postponed
  <2>1. /\ pc = "last" /\ open = None
        /\ pc' = "postponed" /\ Next_Signal_Active_Chain' = {}
        /\ UNCHANGED <<driverVars, Ghdl_Signal_Active_Chain, Future_List, open, late, timeVars,
                       outcome>>
    BY <1>1, <1>3 DEF Start_Postponed, Flush_Active_Chain, OpenFollows
  <2>2. TypeOK' /\ FlagsLinked' /\ FutureKnown' /\ (DeltaKnown => DeltaKnown')
    BY <1>1, <2>1
       DEF TypeOK, FlagsLinked, FutureKnown, DeltaKnown, Due, Net_One_Driver, driverVars, timeVars
  <2>3. ChainsEmpty' /\ ChainsLoaded'
    BY <1>1, <2>1 DEF ChainsEmpty, ChainsLoaded, Loaded, Net_One_Driver, driverVars
  <2>4. Frame'
    BY <1>2, <2>1, <2>2, <2>3 DEF Frame
  <2>5. ~late' => OnSchedule'
    BY <1>1, <1>2, <2>1, <2>2 DEF OnSchedule
  <2> QED
    BY <2>4, <2>5 DEF Inv
<1>4. CASE No_Postponed
  <2>1. /\ pc = "last" /\ open = None /\ pc' = "end"
        /\ UNCHANGED <<driverVars, chainVars, open, late, timeVars, outcome>>
        /\ UNCHANGED Next_Signal_Active_Chain
    BY <1>1, <1>4 DEF No_Postponed, OpenFollows, chainVars
  <2>2. TypeOK' /\ FlagsLinked' /\ FutureKnown' /\ (DeltaKnown => DeltaKnown')
    BY <1>1, <2>1
       DEF TypeOK, FlagsLinked, FutureKnown, DeltaKnown, Due, Net_One_Driver, driverVars,
           chainVars, timeVars
  <2>3. ChainsEmpty' /\ ChainsLoaded'
    BY <1>1, <2>1 DEF ChainsEmpty, ChainsLoaded, Loaded, Net_One_Driver, driverVars, chainVars
  <2>4. /\ Covered(Next_Signal_Active_Chain) => Covered(Next_Signal_Active_Chain)'
        /\ Precise(Next_Signal_Active_Chain) => Precise(Next_Signal_Active_Chain)'
    BY <2>1 DEF Covered, Precise, Due, Net_One_Driver, driverVars, chainVars, timeVars
  <2>5. Frame'
    BY <1>2, <2>1, <2>2, <2>3 DEF Frame, chainVars
  <2>6. ~late' => OnSchedule'
    BY <1>1, <1>2, <2>1, <2>2, <2>4 DEF OnSchedule, chainVars
  <2> QED
    BY <2>5, <2>6 DEF Inv
<1>5. CASE Update_Active_Chain
  <2>1. /\ pc = "end" /\ open = None /\ pc' = "update"
        /\ Ghdl_Signal_Active_Chain = {}
        /\ Ghdl_Signal_Active_Chain' = Next_Signal_Active_Chain
        /\ Next_Signal_Active_Chain' = {}
        /\ UNCHANGED <<driverVars, Future_List, open, late, timeVars, outcome>>
    BY <1>1, <1>5 DEF Update_Active_Chain, OpenFollows, ChainsEmpty
  <2>2. TypeOK'
    BY <1>1, <2>1 DEF TypeOK, driverVars, timeVars
  <2>3. FlagsLinked' /\ FutureKnown'
    BY <1>1, <2>1 DEF FlagsLinked, FutureKnown, driverVars
  <2>4. ChainsEmpty' /\ ChainsLoaded'
    BY <1>1, <2>1 DEF ChainsEmpty, ChainsLoaded, Loaded, Net_One_Driver, driverVars
  <2>5. /\ Covered(Next_Signal_Active_Chain) => Covered(Ghdl_Signal_Active_Chain)'
        /\ Precise(Next_Signal_Active_Chain) => Precise(Ghdl_Signal_Active_Chain)'
    BY <2>1 DEF Covered, Precise, Due, Net_One_Driver, driverVars, timeVars
  <2>6. Frame'
    BY <1>2, <2>1, <2>2, <2>3, <2>4 DEF Frame
  <2>7. ~late' => OnSchedule'
    BY <1>1, <1>2, <2>1, <2>5 DEF OnSchedule
  <2> QED
    BY <2>6, <2>7 DEF Inv
<1>6. ASSUME pc' = "stopped", outcome' \in {"error", "finished"},
             UNCHANGED <<driverVars, chainVars, open, late, timeVars>>
      PROVE  Inv'
  <2>1. TypeOK' /\ FlagsLinked' /\ FutureKnown'
    BY <1>1, <1>6
       DEF TypeOK, FlagsLinked, FutureKnown, Net_One_Driver, driverVars, chainVars, timeVars
  <2>2. ChainsEmpty' /\ ChainsLoaded'
    BY <1>6 DEF ChainsEmpty, ChainsLoaded
  <2>3. Frame'
    BY <1>2, <1>6, <2>1, <2>2 DEF Frame, chainVars
  <2>4. ~late' => OnSchedule'
    BY <1>1, <1>2, <1>6 DEF OnSchedule, chainVars
  <2> QED
    BY <2>3, <2>4 DEF Inv
<1>7. CASE Finish
  BY <1>6, <1>7 DEF Finish, Stop
<1>8. CASE \E tn \in Current_Time .. TimeHigh :
              End_Postponed(tn) /\ (tn = Current_Time \/ Ghdl_Signal_Active_Chain # {})
  BY <1>6, <1>8 DEF End_Postponed, Stop
<1>9. CASE UNCHANGED vars
  <2>1. UNCHANGED <<wave, val_ptr, Is_Direct_Active, Ghdl_Signal_Active_Chain,
                    Next_Signal_Active_Chain, Future_List, open, late, Current_Time, Next_Time,
                    limit, pc, outcome>>
    BY <1>9 DEF vars, driverVars, chainVars, timeVars
  <2>2. TypeOK' /\ Sorted' /\ DirectBare' /\ OpenFollows' /\ FlagsLinked' /\ FutureKnown'
    BY <1>1, <2>1
       DEF TypeOK, Sorted, DirectBare, OpenFollows, FlagsLinked, FutureKnown, Running, Net_One_Driver
  <2>3. ChainsEmpty' /\ ChainsLoaded'
    BY <1>1, <2>1 DEF ChainsEmpty, ChainsLoaded, Loaded, Net_One_Driver
  <2>4. OnSchedule => OnSchedule'
    BY <2>1 DEF OnSchedule, NotPast, DeltaKnown, Covered, Precise, Due, Net_One_Driver
  <2> QED
    BY <1>1, <2>1, <2>2, <2>3, <2>4 DEF Inv, Frame
<1> QED
  BY <1>3, <1>4, <1>5, <1>7, <1>8, <1>9

\* Every assignment.
LEMMA AssignStep ==
    ASSUME Inv, NEW d \in Driver, NEW v \in Value, Assign(d, v)
    PROVE  Inv'
<1>1. /\ TimeHigh \in Nat /\ Rejects \subseteq 0 .. TimeHigh
      /\ \A after \in Delays : after >= 0 => after \in 0 .. TimeHigh
  BY SignalAssumption
<1>2. CASE \E after \in Delays, reject \in Rejects : Ghdl_Signal_Start_Assign(d, v, after, reject)
  BY <1>1, <1>2, StartAssign DEF Ghdl_Signal_Start_Assign
<1>3. CASE \E after \in Delays : Start_Assign_Beyond(d, after) \/ Ghdl_Signal_Next_Assign(d, v, after)
  BY <1>3, BeyondAssign, NextAssign
<1>4. CASE Start_Assign_To_Direct(d, v)
  BY <1>4, DirectChange DEF Start_Assign_To_Direct
<1>5. CASE Ghdl_Signal_Simple_Assign(d, v)
  <2>1. Ghdl_Signal_Start_Assign(d, v, 0, 0) /\ 0 \in 0 .. TimeHigh
    BY <1>1, <1>5 DEF Ghdl_Signal_Simple_Assign
  <2> QED
    BY <2>1, StartAssign
<1>6. CASE Ghdl_Signal_Direct_Assign(d, v)
  BY <1>6, DirectChange DEF Ghdl_Signal_Direct_Assign
<1> QED
  BY <1>2, <1>3, <1>4, <1>5, <1>6 DEF Assign

\* The computations of the next time.
LEMMA TimeStep ==
    ASSUME Inv, NEW tn \in Current_Time .. TimeHigh,
           \/ Processes_Done(tn)
           \/ Last_Known_Delta(tn)
           \/ End_Postponed(tn) /\ ~(tn = Current_Time \/ Ghdl_Signal_Active_Chain # {})
    PROVE  /\ Inv'
           /\ outcome' = outcome \/ (late /\ outcome' = "internal_error")
           /\ late' = late
<1>1. CASE Processes_Done(tn)
  <2>1. Next_Signal_Active_Chain = {} /\ pc = "run"
    BY <1>1 DEF Processes_Done, Inv, Frame, ChainsEmpty
  <2>2. Compute_Next_Time(tn, Next_Signal_Active_Chain, "last")
    BY <1>1 DEF Processes_Done
  <2> QED
    BY <2>1, <2>2, ComputeStep
<1>2. CASE Last_Known_Delta(tn)
  <2>1. Compute_Next_Time(tn, {}, "last") /\ pc = "last"
    BY <1>2 DEF Last_Known_Delta
  <2> QED
    BY <2>1, ComputeStep
<1>3. CASE End_Postponed(tn) /\ ~(tn = Current_Time \/ Ghdl_Signal_Active_Chain # {})
  <2>1. Next_Signal_Active_Chain = {} /\ pc = "postponed"
    BY <1>3 DEF End_Postponed, Inv, Frame, ChainsEmpty
  <2>2. Compute_Next_Time(tn, Next_Signal_Active_Chain, "end")
    BY <1>3 DEF End_Postponed
  <2> QED
    BY <2>1, <2>2, ComputeStep
<1> QED
  BY <1>1, <1>2, <1>3

\* The invariant holds at the beginning.
LEMMA InitInv == Init => Inv
<1> SUFFICES ASSUME Init PROVE Inv
  OBVIOUS
<1>1. PICK init \in [Signal -> Value] :
         /\ wave = [d \in Driver |-> <<Transaction(0, init[SigOf(d)])>>]
         /\ val_ptr = [d \in Direct |-> init[SigOf(d)]]
  BY DEF Init
<1>2. ASSUME NEW d \in Driver
      PROVE  /\ Transaction(0, init[SigOf(d)]) \in Trans
             /\ wave[d] = <<Transaction(0, init[SigOf(d)])>>
  <2>1. init[SigOf(d)] \in Value /\ 0 \in 0 .. TimeHigh
    BY SigOfDriver, SignalAssumption
  <2> QED
    BY <1>1, <2>1 DEF Trans, Transaction
<1>3. \A d \in Driver : wave[d] \in Seq(Trans) /\ wave[d] # <<>> /\ Len(wave[d]) = 1
  <2> SUFFICES ASSUME NEW d \in Driver
               PROVE  wave[d] \in Seq(Trans) /\ wave[d] # <<>> /\ Len(wave[d]) = 1
    OBVIOUS
  <2> DEFINE x == Transaction(0, init[SigOf(d)])
  <2>1. x \in Trans /\ wave[d] = <<x>>
    BY <1>2
  <2> HIDE DEF x
  <2> QED
    BY <2>1
<1>4. Direct \subseteq Driver
  BY SignalAssumption
<1>5. TypeOK
  <2>1. wave \in [Driver -> Seq([time : 0 .. TimeHigh, val : Value])]
    BY <1>1, <1>3 DEF Trans
  <2>2. val_ptr \in [Direct -> Value]
    BY <1>1, <1>4, SigOfDriver
  <2>3. Is_Direct_Active \in [Signal -> BOOLEAN] /\ late \in BOOLEAN
    BY DEF Init
  <2>4. /\ Ghdl_Signal_Active_Chain \subseteq Signal
        /\ Next_Signal_Active_Chain \subseteq Signal
        /\ Future_List \subseteq Signal
        /\ open \in Driver \cup {None}
        /\ pc = "run" /\ outcome = "none"
    BY DEF Init
  <2>5. {Current_Time, Next_Time, limit} \subseteq 0 .. TimeHigh
    BY SignalAssumption DEF Init
  <2> QED
    BY <1>3, <2>1, <2>2, <2>3, <2>4, <2>5 DEF TypeOK
<1>6. Sorted /\ FutureKnown /\ NotPast /\ DeltaKnown
  <2>1. ASSUME NEW d \in Driver, NEW i \in 2 .. Len(wave[d]) PROVE FALSE
    <3>1. Len(wave[d]) = 1
      BY <1>3
    <3> QED
      BY <3>1
  <2> QED
    BY <2>1 DEF Init, Sorted, InOrder, FutureKnown, NotPast, DeltaKnown
<1>7. DirectBare
  BY <1>3, <1>4 DEF DirectBare
<1>8. OpenFollows /\ FlagsLinked /\ ChainsEmpty /\ ChainsLoaded
  BY DEF Init, OpenFollows, FlagsLinked, ChainsEmpty, ChainsLoaded, Loaded
<1> QED
  BY <1>5, <1>6, <1>7, <1>8 DEF Init, Inv, Frame, OnSchedule

\* Every step keeps the invariant.
LEMMA NextInv == Inv /\ [Next]_vars => Inv'
<1> SUFFICES ASSUME Inv, [Next]_vars PROVE Inv'
  OBVIOUS
<1>1. ASSUME NEW d \in Driver, NEW v \in Value, Assign(d, v) PROVE Inv'
  BY <1>1, AssignStep
<1>2. ASSUME NEW tn \in Current_Time .. TimeHigh,
             \/ Processes_Done(tn)
             \/ Last_Known_Delta(tn)
             \/ End_Postponed(tn)
             \/ End_Of_Time_Step(tn)
      PROVE  Inv'
  BY <1>2, TimeStep, MoveStep, EndOfStep
<1>3. CASE \/ Start_Postponed \/ No_Postponed \/ Update_Active_Chain \/ Finish
           \/ UNCHANGED vars
  BY <1>3, MoveStep
<1>4. CASE Update_Signals
  BY <1>4, UpdateStep
<1> QED
  BY <1>1, <1>2, <1>3, <1>4 DEF Next, Cycle, Stopped

\* The inductive invariant.
LEMMA Invariance == Spec => []Inv
<1> QED
  BY InitInv, NextInv, PTL DEF Spec

\* The variables of Signals always have their types.
THEOREM TypeCorrect == Spec => []TypeOK
<1>1. Inv => TypeOK
  BY DEF Inv, Frame
<1> QED
  BY <1>1, Invariance, PTL

\* Find_Next_Time sees every transaction of the real future, late waveform
\* elements or not.
THEOREM FutureAlwaysCovered == Spec => []FutureCovers
<1>1. ASSUME Inv, NEW d \in Driver, NEW x \in Pending(d), x.time > Current_Time
      PROVE  SigOf(d) \in Future_List
  <2>1. PICK i \in 2 .. Len(wave[d]) : x = wave[d][i]
    BY <1>1 DEF Pending
  <2>2. wave[d][i].time \in 0 .. TimeHigh /\ i \in 1 .. Len(wave[d])
    BY <1>1, WaveOfDriver DEF Inv, Frame
  <2>3. wave[d][i].time # Current_Time
    BY <1>1, <2>1, <2>2, Times DEF Inv, Frame
  <2> QED
    BY <1>1, <2>3 DEF Inv, Frame, FutureKnown
<1>2. Inv => FutureCovers
  BY <1>1 DEF FutureCovers
<1> QED
  BY <1>2, Invariance, PTL

\* The active chain is exactly what the next delta cycle has to do, whatever
\* the designs, the rejection limits and the callbacks, until there is a late
\* waveform element; a direct flag always belongs to a signal to update.
THEOREM ActiveAlwaysExact == Spec => []ActiveExact
<1>1. ASSUME Inv PROVE ActiveExact
  <2>1. /\ TypeOK /\ FlagsLinked
        /\ Running => Next_Signal_Active_Chain = {}
        /\ Running /\ ~late => DeltaKnown
    BY <1>1, WhileRunning DEF Inv, Frame
  <2>2. ASSUME Running, ~late, NEW s \in Ghdl_Signal_Active_Chain, Net_One_Driver(s)
        PROVE  \E x \in Pending(Drivers[s][1]) : x.time = Current_Time
    <3>1. Due(s, Current_Time)
      BY <2>1, <2>2 DEF DeltaKnown
    <3>2. Drivers[s][1] \in Driver
      BY <2>1, <2>2, OnlyDriver DEF TypeOK
    <3>3. 2 \in 2 .. Len(wave[Drivers[s][1]])
      BY <2>1, <3>1, <3>2, WaveOfDriver DEF Due
    <3> QED
      BY <3>1, <3>3 DEF Due, Pending
  <2>3. ASSUME Running, ~late, NEW d \in Driver, NEW x \in Pending(d), x.time = Current_Time
        PROVE  SigOf(d) \in Ghdl_Signal_Active_Chain
    BY <2>1, <2>3 DEF Pending, DeltaKnown
  <2> QED
    BY <2>1, <2>2, <2>3 DEF ActiveExact, FlagsLinked
<1>2. Inv => ActiveExact
  BY <1>1
<1> QED
  BY <1>2, Invariance, PTL

-----------------------------------------------------------------------------
\* When no end-of-time-step callback asks for another one, every transaction
\* takes effect in the cycle of its time, and no other does, until there is a
\* late waveform element.
THEOREM AlwaysOnTime == ~Late_Callbacks => (Spec => OnTime)
<1>1. ASSUME ~Late_Callbacks, Inv, Next, ~late, pc = "update", pc' = "run"
      PROVE  TakesWhatIsDue
  <2>1. Update_Signals
    <3>1. ~Running
      BY <1>1 DEF Running
    <3>2. ASSUME NEW d \in Driver, NEW v \in Value, Assign(d, v) PROVE FALSE
      <4>1. \A after, reject : ~Ghdl_Signal_Start_Assign(d, v, after, reject)
        BY <3>1 DEF Ghdl_Signal_Start_Assign
      <4>2. \A after : ~Ghdl_Signal_Next_Assign(d, v, after)
        BY <3>1 DEF Ghdl_Signal_Next_Assign
      <4>3. /\ ~Start_Assign_To_Direct(d, v) /\ ~Ghdl_Signal_Direct_Assign(d, v)
            /\ \A after : ~Start_Assign_Beyond(d, after)
        BY <3>1 DEF Start_Assign_To_Direct, Ghdl_Signal_Direct_Assign, Start_Assign_Beyond
      <4> QED
        BY <3>2, <4>1, <4>2, <4>3 DEF Assign, Ghdl_Signal_Simple_Assign
    <3> QED
      BY <1>1, <3>2 DEF Next, Cycle, Processes_Done, Last_Known_Delta, End_Postponed,
                        End_Of_Time_Step, Start_Postponed, No_Postponed, Update_Active_Chain,
                        Finish, Stopped
  <2>2. /\ TypeOK /\ Covered(Ghdl_Signal_Active_Chain) /\ Precise(Ghdl_Signal_Active_Chain)
    BY <1>1 DEF Inv, Frame, OnSchedule
  <2>3. /\ Current_Time' = Next_Time
        /\ wave' = [d \in Driver |-> IF SigOf(d) \in Ghdl_Signal_Active_Chain
                                     THEN Activate(d, Next_Time) ELSE wave[d]]
    BY <1>1, <2>1 DEF Update_Signals, Stop
  <2>4. ASSUME NEW d \in Driver \ Direct, Len(wave[d]) > 1
        PROVE  /\ wave[d][2].time >= Next_Time
               /\ wave'[d] = Tail(wave[d]) <=> wave[d][2].time = Next_Time
    <3> DEFINE o == wave[d]
               s == SigOf(d)
    <3>1. o \in Seq(Trans) /\ Len(o) \in Nat /\ 2 \in 2 .. Len(o)
      BY <2>2, <2>4, WaveOfDriver
    <3>2. /\ o[2].time >= Next_Time
          /\ o[2].time = Next_Time => s \in Ghdl_Signal_Active_Chain
      BY <2>2, <3>1 DEF Covered
    <3>3. s \in Signal /\ (Net_One_Driver(s) => Drivers[s][1] = d)
      BY SigOfDriver, OnlyDriver
    <3>4. Net_One_Driver(s) /\ s \in Ghdl_Signal_Active_Chain => o[2].time = Next_Time
      BY <2>2, <3>3 DEF Precise, Due
    <3>5. wave'[d] = IF s \in Ghdl_Signal_Active_Chain /\ (Net_One_Driver(s) \/ o[2].time = Next_Time)
                     THEN Tail(o) ELSE o
      BY <2>3, <2>4 DEF Activate
    <3> HIDE DEF o, s
    <3>6. Tail(o) # o
      <4>1. o # <<>> /\ Len(o) > 1
        BY <2>4 DEF o
      <4>2. Len(Tail(o)) = Len(o) - 1
        BY <3>1, <4>1
      <4> QED
        BY <3>1, <4>2
    <3> QED
      BY <3>2, <3>4, <3>5, <3>6 DEF o
  <2> QED
    BY <2>3, <2>4 DEF TakesWhatIsDue
<1>2. ASSUME ~Late_Callbacks, Inv, [Next]_vars PROVE [~late => TakesWhatIsDue]_vars
  BY <1>1, <1>2 DEF TakesWhatIsDue
<1>3. ASSUME ~Late_Callbacks PROVE Inv /\ [Next]_vars => [~late => TakesWhatIsDue]_vars
  BY <1>2, <1>3
<1>4. ASSUME ~Late_Callbacks PROVE Spec => OnTime
  <2>1. Inv /\ [Next]_vars => [~late => TakesWhatIsDue]_vars
    BY <1>3, <1>4
  <2> QED
    BY <2>1, Invariance, PTL DEF Spec, OnTime
<1> QED
  BY <1>4

\* A transaction is never removed from the next delta cycle: there is no pulse
\* rejection, or no signal has several drivers.
NoRemoval == Rejects \subseteq {0} \/ \A s \in Signal : Len(Drivers[s]) = 1

\* Without removals, no scan of the drivers meets a null pointer.
LEMMA StartIsSafe ==
    ASSUME Inv, NoRemoval, NEW d \in Driver, NEW v \in Value, NEW after \in 0 .. TimeHigh,
           NEW reject \in Rejects \cup {0},
           Ghdl_Signal_Start_Assign(d, v, after, reject)
    PROVE  outcome' = outcome /\ late' = late
<1> DEFINE s == SigOf(d)
           t == Current_Time + after
           a == Assigned(wave[d], t, v, reject)
           w == [wave EXCEPT ![d] = a]
<1>1. TypeOK /\ d \notin Direct /\ t <= TimeHigh /\ reject \in Nat /\ t \in 0 .. TimeHigh
  BY Times, SignalAssumption DEF Inv, Frame, Ghdl_Signal_Start_Assign
<1>2. reject > 0 => ~Null_Transaction(s, w)
  <2> SUFFICES ASSUME reject > 0 PROVE ~Null_Transaction(s, w)
    OBVIOUS
  <2>1. s \in Signal /\ Len(Drivers[s]) = 1 /\ Drivers[s] \in Seq(Driver) /\ d \in Range(Drivers[s])
    BY <1>1, SigOfDriver, SignalAssumption DEF NoRemoval
  <2>2. \A i \in DOMAIN Drivers[s] : Drivers[s][i] = d
    BY <2>1 DEF Range
  <2>3. IsList(wave[d], Trans) /\ t \in Int /\ Transaction(t, v) \in Trans /\ reject \in Nat
    <3>1. IsList(wave[d], Trans)
      BY <1>1, WaveOfDriver
    <3>2. Transaction(t, v) \in Trans
      BY <1>1 DEF Transaction, Trans
    <3> QED
      BY <1>1, <3>1, <3>2
  <2>4. w[d] = a
    BY <1>1, WaveOfDriver
  <2>5. a = Assigned(wave[d], t, v, reject)
    OBVIOUS
  <2> HIDE DEF s, t, a, w
  <2>6. Len(a) # 1
    <3>1. IsList(wave[d], Trans)
      BY <2>3
    <3>2. t \in Int
      BY <2>3
    <3>3. Transaction(t, v) \in Trans
      BY <2>3
    <3>4. reject \in Nat
      BY <2>3
    <3>5. IsList(a, Trans)
      BY <2>5, <3>1, <3>2, <3>3, <3>4, AssignedList
    <3>6. Len(a) >= 2
      BY <2>5, <3>1, <3>2, <3>3, <3>4, AssignedList
    <3>7. Len(a) \in Nat
      BY <3>5 DEF IsList
    <3>8. ~(1 >= 2)
      OBVIOUS
    <3> SUFFICES ASSUME Len(a) = 1 PROVE 1 >= 2
      BY <3>8
    <3> QED
      BY <3>6
  <2>7. ASSUME NEW i \in DOMAIN Drivers[s] PROVE Len(w[Drivers[s][i]]) # 1
    <3>1. w[Drivers[s][i]] = a
      BY <2>2, <2>4
    <3> QED
      BY <2>6, <3>1
  <2> QED
    BY <2>7 DEF Null_Transaction
<1> QED
  BY <1>2 DEF Ghdl_Signal_Start_Assign

\* No null pointer is followed, if nothing is removed from the next delta cycle
\* (Ghdl_Signal_Start_Assign, Update_Signals), and the only internal error is
\* the one of Find_Next_Time after a late waveform element.
THEOREM NeverFails == NoRemoval => (Spec => []NoFailure)
<1>1. ASSUME NoRemoval, Inv, NoFailure, [Next]_vars
      PROVE  NoFailure'
  <2> SUFFICES /\ late => late'
               /\ \/ outcome' \in {outcome, "error", "finished"}
                  \/ (late /\ outcome' = "internal_error")
    BY <1>1 DEF NoFailure, NoCrash
  <2>1. ASSUME NEW d \in Driver, NEW v \in Value, Assign(d, v)
        PROVE  outcome' = outcome /\ (late => late')
    <3>1. ASSUME NEW after \in Delays, NEW reject \in Rejects,
                 Ghdl_Signal_Start_Assign(d, v, after, reject)
          PROVE  outcome' = outcome /\ (late => late')
      <4>1. after \in 0 .. TimeHigh
        BY <3>1, SignalAssumption DEF Ghdl_Signal_Start_Assign
      <4> QED
        BY <1>1, <3>1, <4>1, StartIsSafe
    <3>2. CASE Ghdl_Signal_Simple_Assign(d, v)
      <4>1. 0 \in 0 .. TimeHigh /\ Ghdl_Signal_Start_Assign(d, v, 0, 0)
        BY <3>2, SignalAssumption DEF Ghdl_Signal_Simple_Assign
      <4> QED
        BY <1>1, <4>1, StartIsSafe
    <3>3. ASSUME NEW after \in Delays,
                 Start_Assign_Beyond(d, after) \/ Ghdl_Signal_Next_Assign(d, v, after)
          PROVE  outcome' = outcome /\ (late => late')
      <4>1. CASE Start_Assign_Beyond(d, after)
        BY <4>1, Zenon DEF Start_Assign_Beyond
      <4>2. CASE Ghdl_Signal_Next_Assign(d, v, after)
        <5>1. late' = (late \/ after <= 0) /\ UNCHANGED outcome
          BY <4>2, Zenon DEF Ghdl_Signal_Next_Assign
        <5> QED
          BY <5>1, Zenon
      <4> QED
        BY <3>3, <4>1, <4>2
    <3>4. CASE Start_Assign_To_Direct(d, v) \/ Ghdl_Signal_Direct_Assign(d, v)
      BY <3>4 DEF Start_Assign_To_Direct, Ghdl_Signal_Direct_Assign
    <3> QED
      BY <2>1, <3>1, <3>2, <3>3, <3>4 DEF Assign
  <2>2. ASSUME NEW tn \in Current_Time .. TimeHigh,
               \/ Processes_Done(tn)
               \/ Last_Known_Delta(tn)
               \/ End_Postponed(tn)
               \/ End_Of_Time_Step(tn)
        PROVE  /\ late => late'
               /\ outcome' \in {outcome, "error"} \/ (late /\ outcome' = "internal_error")
    <3>1. CASE End_Of_Time_Step(tn)
      BY <3>1 DEF End_Of_Time_Step
    <3>2. CASE End_Postponed(tn) /\ (tn = Current_Time \/ Ghdl_Signal_Active_Chain # {})
      BY <3>2 DEF End_Postponed, Stop
    <3> QED
      BY <1>1, <2>2, <3>1, <3>2, TimeStep
  <2>3. CASE Update_Signals
    BY <1>1, <2>3, UpdateStep DEF Update_Signals
  <2>4. CASE \/ Start_Postponed \/ No_Postponed \/ Update_Active_Chain \/ Finish
             \/ UNCHANGED vars
    BY <2>4 DEF Start_Postponed, No_Postponed, Update_Active_Chain, Finish, Stop, vars
  <2> QED
    BY <1>1, <2>1, <2>2, <2>3, <2>4 DEF Next, Cycle, Stopped
<1>2. Init => NoFailure
  BY DEF Init, NoFailure, NoCrash
<1>3. ASSUME NoRemoval PROVE Spec => []NoFailure
  <2>1. Inv /\ NoFailure /\ [Next]_vars => NoFailure'
    BY <1>1, <1>3
  <2> QED
    BY <1>2, <2>1, Invariance, PTL DEF Spec
<1> QED
  BY <1>3

\* What a driver contributes to the value of its signal once it is settled.
Settled(d) == IF d \in Direct THEN val_ptr[d] ELSE wave[d][1].val

\* The values of the drivers, the current ones and the settled ones.
LEMMA ValuesOfSignal ==
    ASSUME TypeOK, NEW s \in Signal
    PROVE  /\ {wave[d][1].val : d \in Range(Drivers[s])} \subseteq Value
           /\ {Settled(d) : d \in Range(Drivers[s])} \subseteq Value
           /\ Range(Drivers[s]) # {}
           /\ Range(Drivers[s]) \subseteq Driver
<1>1. Range(Drivers[s]) # {} /\ Range(Drivers[s]) \subseteq Driver
  <2>1. Drivers[s] \in Seq(Driver) /\ Len(Drivers[s]) > 0
    BY SignalAssumption
  <2>2. 1 \in DOMAIN Drivers[s]
    BY <2>1
  <2> QED
    BY <2>2 DEF Range, Driver
<1>2. ASSUME NEW d \in Driver PROVE wave[d][1].val \in Value /\ Settled(d) \in Value
  <2>1. wave[d][1] \in Trans
    BY WaveOfDriver
  <2>2. wave[d][1].val \in Value
    BY <2>1 DEF Trans
  <2> QED
    BY <2>2 DEF Settled, TypeOK
<1> QED
  BY <1>1, <1>2

\* A step that changes neither the current values nor the variables, and takes
\* no signal with a direct driver off the active chain.
LEMMA SettledSame ==
    ASSUME TypeOK, DirectDriversSettled,
           \A d \in Driver : wave'[d][1] = wave[d][1],
           UNCHANGED val_ptr,
           \A s \in Ghdl_Signal_Active_Chain \ Ghdl_Signal_Active_Chain' :
              Range(Drivers[s]) \cap Direct = {}
    PROVE  DirectDriversSettled'
<1> SUFFICES ASSUME NEW s \in Signal \ Ghdl_Signal_Active_Chain'
             PROVE  Driving_Value(s)' = Resolve({Settled(d)' : d \in Range(Drivers[s])})
  BY DEF DirectDriversSettled, Settled
<1>1. Range(Drivers[s]) \subseteq Driver
  BY ValuesOfSignal
<1>2. CASE s \notin Ghdl_Signal_Active_Chain
  <2>1. Driving_Value(s) = Resolve({Settled(d) : d \in Range(Drivers[s])})
    BY <1>2 DEF DirectDriversSettled, Settled
  <2>2. \A d \in Range(Drivers[s]) : wave'[d][1].val = wave[d][1].val /\ Settled(d)' = Settled(d)
    BY <1>1 DEF Settled
  <2>3. Driving_Value(s)' = Driving_Value(s)
    BY <2>2 DEF Driving_Value
  <2>4. {Settled(d)' : d \in Range(Drivers[s])} = {Settled(d) : d \in Range(Drivers[s])}
    BY <2>2
  <2> QED
    BY <2>1, <2>3, <2>4
<1>3. CASE s \in Ghdl_Signal_Active_Chain
  <2>1. \A d \in Range(Drivers[s]) : Settled(d)' = wave'[d][1].val
    BY <1>3 DEF Settled
  <2>2. {Settled(d)' : d \in Range(Drivers[s])} = {wave'[d][1].val : d \in Range(Drivers[s])}
    BY <2>1
  <2> QED
    BY <2>2 DEF Driving_Value
<1> QED
  BY <1>2, <1>3

\* An ordinary assignment does not change the current value of its driver.
LEMMA FirstKept ==
    ASSUME Inv, NEW d \in Driver, NEW v \in Value, NEW after \in 0 .. TimeHigh,
           NEW reject \in Rejects \cup {0},
           Ghdl_Signal_Start_Assign(d, v, after, reject)
    PROVE  \A e \in Driver : wave'[e][1] = wave[e][1]
<1> DEFINE t == Current_Time + after
           a == Assigned(wave[d], t, v, reject)
<1>1. TypeOK /\ t \in 0 .. TimeHigh /\ reject \in Nat
  BY Times, SignalAssumption DEF Inv, Frame, Ghdl_Signal_Start_Assign
<1>2. wave' = [wave EXCEPT ![d] = a]
  BY DEF Ghdl_Signal_Start_Assign
<1>3. IsList(wave[d], Trans) /\ wave \in [Driver -> Seq(Trans)]
  BY <1>1, WaveOfDriver
<1>4. t \in Int /\ Transaction(t, v) \in Trans
  BY <1>1, Times DEF Transaction, Trans
<1>5. IsList(wave[d], Trans)
  BY <1>3
<1>6. reject \in Nat
  BY <1>1
<1> HIDE DEF t
<1>7. a = Assigned(wave[d], t, v, reject)
  OBVIOUS
<1> HIDE DEF a
<1>8. a[1] = wave[d][1]
  BY <1>4, <1>5, <1>6, <1>7, AssignedList
<1> QED
  BY <1>2, <1>3, <1>8

\* A dropped assignment: its driver takes the value the signal has, which the
\* resolution function gives again.
LEMMA ElisionSettles ==
    ASSUME TypeOK, DirectDriversSettled, NEW d \in Direct, NEW v \in Value,
           v = Driving_Value(SigOf(d)),
           val_ptr' = [val_ptr EXCEPT ![d] = v],
           UNCHANGED wave,
           UNCHANGED Ghdl_Signal_Active_Chain
    PROVE  DirectDriversSettled'
<1>0. \A s \in Signal : Driving_Value(s)' = Driving_Value(s)
  BY DEF Driving_Value
<1> SUFFICES ASSUME NEW s \in Signal \ Ghdl_Signal_Active_Chain'
             PROVE  Driving_Value(s) = Resolve({Settled(e)' : e \in Range(Drivers[s])})
  BY <1>0 DEF DirectDriversSettled, Settled
<1>1. Driving_Value(s) = Resolve({Settled(e) : e \in Range(Drivers[s])})
  BY DEF DirectDriversSettled, Settled
<1>2. d \in Driver /\ val_ptr \in [Direct -> Value]
  BY SignalAssumption DEF TypeOK
<1>3. /\ Settled(d)' = v
      /\ \A e : e # d => Settled(e)' = Settled(e)
  BY <1>2 DEF Settled
<1>4. CASE s # SigOf(d)
  <2>1. \A e \in Range(Drivers[s]) : e # d
    BY <1>2, <1>4, SigOfDriver
  <2>2. {Settled(e)' : e \in Range(Drivers[s])} = {Settled(e) : e \in Range(Drivers[s])}
    BY <1>3, <2>1
  <2> QED
    BY <1>1, <2>2
<1>5. CASE s = SigOf(d)
  <2> DEFINE S == {Settled(e) : e \in Range(Drivers[s])}
             R == {Settled(e) : e \in Range(Drivers[s]) \ {d}}
  <2>1. S \in (SUBSET Value) \ {{}} /\ R \in SUBSET S
    <3>1. S \subseteq Value /\ Range(Drivers[s]) # {}
      BY ValuesOfSignal
    <3> QED
      BY <3>1
  <2>2. Resolve(R \cup {Resolve(S)}) = Resolve(S)
    BY <2>1, ResolutionAssumption
  <2>3. v = Resolve(S)
    BY <1>1, <1>5
  <2>4. {Settled(e)' : e \in Range(Drivers[s])} = R \cup {v}
    <3>1. d \in Range(Drivers[s])
      BY <1>2, <1>5, SigOfDriver
    <3> QED
      BY <1>3, <3>1
  <2> QED
    BY <1>1, <2>2, <2>3, <2>4
<1> QED
  BY <1>4, <1>5

\* Another change of the variable of a direct driver puts its signal on the
\* active chain.
LEMMA ActivityUnsettles ==
    ASSUME TypeOK, DirectDriversSettled, NEW d \in Direct, NEW v \in Value,
           val_ptr' = [val_ptr EXCEPT ![d] = v],
           UNCHANGED wave,
           Ghdl_Signal_Active_Chain \cup {SigOf(d)} \subseteq Ghdl_Signal_Active_Chain'
    PROVE  DirectDriversSettled'
<1> SUFFICES ASSUME NEW s \in Signal \ Ghdl_Signal_Active_Chain'
             PROVE  Driving_Value(s) = Resolve({Settled(e)' : e \in Range(Drivers[s])})
  BY DEF DirectDriversSettled, Settled, Driving_Value
<1>1. Driving_Value(s) = Resolve({Settled(e) : e \in Range(Drivers[s])})
  BY DEF DirectDriversSettled, Settled
<1>2. d \in Driver /\ val_ptr \in [Direct -> Value]
  BY SignalAssumption DEF TypeOK
<1>3. \A e \in Range(Drivers[s]) : Settled(e)' = Settled(e)
  BY <1>2, SigOfDriver DEF Settled
<1>4. {Settled(e)' : e \in Range(Drivers[s])} = {Settled(e) : e \in Range(Drivers[s])}
  BY <1>3
<1> QED
  BY <1>1, <1>4

\* A signal of the active chain is settled by its update: each of its direct
\* drivers takes the value of its variable.
LEMMA UpdateSettles ==
    ASSUME Inv, DirectDriversSettled, Update_Signals
    PROVE  DirectDriversSettled'
<1>1. TypeOK
  BY DEF Inv, Frame
<1>2. CASE Nothing_Pending
  BY <1>1, <1>2, SettledSame DEF Update_Signals, driverVars, chainVars
<1>3. CASE ~Nothing_Pending
  <2>1. /\ wave' = [d \in Driver |-> IF SigOf(d) \in Ghdl_Signal_Active_Chain
                                     THEN Activate(d, Next_Time) ELSE wave[d]]
        /\ UNCHANGED val_ptr
    BY <1>3 DEF Update_Signals
  <2> SUFFICES ASSUME NEW s \in Signal
               PROVE  Driving_Value(s)' = Resolve({Settled(d)' : d \in Range(Drivers[s])})
    BY DEF DirectDriversSettled, Settled
  <2>2. Range(Drivers[s]) \subseteq Driver /\ \A d \in Range(Drivers[s]) : SigOf(d) = s
    BY <1>1, ValuesOfSignal, SigOfDriver
  <2>3. CASE s \in Ghdl_Signal_Active_Chain
    <3>1. ASSUME NEW d \in Range(Drivers[s]) PROVE wave'[d][1].val = Settled(d)'
      <4>1. CASE d \in Direct
        <5>1. wave'[d] = <<[wave[d][1] EXCEPT !.val = val_ptr[d]]>>
          BY <2>1, <2>2, <2>3, <4>1 DEF Activate
        <5>2. wave[d][1] \in Trans
          BY <1>1, <2>2, WaveOfDriver
        <5>3. [wave[d][1] EXCEPT !.val = val_ptr[d]].val = val_ptr[d]
          BY <5>2 DEF Trans
        <5> DEFINE y == [wave[d][1] EXCEPT !.val = val_ptr[d]]
        <5>4. wave'[d] = <<y>> /\ y.val = val_ptr[d]
          BY <5>1, <5>3
        <5> HIDE DEF y
        <5>5. wave'[d][1] = y
          BY <5>4
        <5> QED
          BY <2>1, <4>1, <5>4, <5>5 DEF Settled
      <4>2. CASE d \notin Direct
        BY <4>2 DEF Settled
      <4> QED
        BY <4>1, <4>2
    <3>2. {wave'[d][1].val : d \in Range(Drivers[s])} = {Settled(d)' : d \in Range(Drivers[s])}
      BY <3>1
    <3> QED
      BY <3>2 DEF Driving_Value
  <2>4. CASE s \notin Ghdl_Signal_Active_Chain
    <3>1. \A d \in Range(Drivers[s]) : wave'[d] = wave[d] /\ Settled(d)' = Settled(d)
      BY <2>1, <2>2, <2>4 DEF Settled
    <3>2. {wave'[d][1].val : d \in Range(Drivers[s])} = {wave[d][1].val : d \in Range(Drivers[s])}
      BY <3>1
    <3>3. {Settled(d)' : d \in Range(Drivers[s])} = {Settled(d) : d \in Range(Drivers[s])}
      BY <3>1
    <3>4. Driving_Value(s) = Resolve({Settled(d) : d \in Range(Drivers[s])})
      BY <2>4 DEF DirectDriversSettled, Settled
    <3> QED
      BY <3>2, <3>3, <3>4 DEF Driving_Value
  <2> QED
    BY <2>3, <2>4
<1> QED
  BY <1>2, <1>3


\* No signal has both kinds of drivers, or there is no pulse rejection.
Unmixed ==
    \/ Rejects \subseteq {0}
    \/ \A s \in Signal : \/ Range(Drivers[s]) \subseteq Direct
                         \/ Range(Drivers[s]) \cap Direct = {}

\* The assignments of drivers that are not direct keep the signals settled.
LEMMA StartSettles ==
    ASSUME Inv, Unmixed, DirectDriversSettled,
           NEW d \in Driver, NEW v \in Value, NEW after \in 0 .. TimeHigh,
           NEW reject \in Rejects \cup {0},
           Ghdl_Signal_Start_Assign(d, v, after, reject)
    PROVE  DirectDriversSettled'
<1>1. TypeOK
  BY DEF Inv, Frame
<1>2. \A e \in Driver : wave'[e][1] = wave[e][1]
  BY FirstKept
<1>3. UNCHANGED val_ptr /\ d \notin Direct
  BY DEF Ghdl_Signal_Start_Assign
<1>4. \A s \in Ghdl_Signal_Active_Chain \ Ghdl_Signal_Active_Chain' :
         s = SigOf(d) /\ reject > 0
  BY DEF Ghdl_Signal_Start_Assign, Insert_Active
<1>5. SigOf(d) \in Signal /\ d \in Range(Drivers[SigOf(d)])
  BY SigOfDriver
<1>6. \A s \in Ghdl_Signal_Active_Chain \ Ghdl_Signal_Active_Chain' :
         Range(Drivers[s]) \cap Direct = {}
  BY <1>3, <1>4, <1>5 DEF Unmixed
<1> QED
  BY <1>1, <1>2, <1>3, <1>6, SettledSame

\* A further waveform element comes after the current value.
LEMMA NextKeepsFirst ==
    ASSUME Inv, NEW d \in Driver, NEW v \in Value, NEW after \in Delays,
           Ghdl_Signal_Next_Assign(d, v, after)
    PROVE  \A e \in Driver : wave'[e][1] = wave[e][1]
<1> DEFINE x == Transaction(Current_Time + after, v)
<1>1. wave' = [wave EXCEPT ![d] = Append(wave[d], x)]
  BY DEF Ghdl_Signal_Next_Assign
<1>2. Current_Time + after \in 0 .. TimeHigh
  <2>1. Len(wave[d]) \in 1 .. Len(wave[d]) /\ wave[d][Len(wave[d])].time \in 0 .. TimeHigh
    BY WaveOfDriver DEF Inv, Frame
  <2>2. /\ Current_Time + after <= TimeHigh
        /\ Current_Time + after > wave[d][Len(wave[d])].time
    BY DEF Ghdl_Signal_Next_Assign
  <2> QED
    BY <2>1, <2>2, Times, SignalAssumption DEF Inv, Frame
<1>3. x \in Trans
  BY <1>2 DEF Transaction, Trans
<1>4. wave[d] \in Seq(Trans) /\ Len(wave[d]) >= 1 /\ wave \in [Driver -> Seq(Trans)]
  BY WaveOfDriver DEF Inv, Frame
<1> HIDE DEF x
<1>5. Append(wave[d], x)[1] = wave[d][1]
  BY <1>3, <1>4
<1> QED
  BY <1>1, <1>4, <1>5

\* The code generated for a direct driver.
LEMMA DirectSettles ==
    ASSUME Inv, DirectDriversSettled, NEW d \in Driver, NEW v \in Value,
           Start_Assign_To_Direct(d, v) \/ Ghdl_Signal_Direct_Assign(d, v)
    PROVE  DirectDriversSettled'
<1>1. /\ TypeOK /\ d \in Direct
      /\ val_ptr' = [val_ptr EXCEPT ![d] = v]
      /\ UNCHANGED wave
  BY DEF Inv, Frame, Start_Assign_To_Direct, Ghdl_Signal_Direct_Assign
<1>2. Next_Signal_Active_Chain = {}
  BY WhileRunning DEF Start_Assign_To_Direct, Ghdl_Signal_Direct_Assign
<1>3. Insert_Active(SigOf(d)) = Ghdl_Signal_Active_Chain \cup {SigOf(d)}
  BY <1>2 DEF Insert_Active, Linked
<1>4. CASE Ghdl_Signal_Active_Chain' = Insert_Active(SigOf(d))
  BY <1>1, <1>3, <1>4, ActivityUnsettles
<1>5. CASE Ghdl_Signal_Active_Chain' # Insert_Active(SigOf(d))
  <2>1. v = Driving_Value(SigOf(d)) /\ UNCHANGED Ghdl_Signal_Active_Chain
    BY <1>5 DEF Start_Assign_To_Direct, Ghdl_Signal_Direct_Assign, Direct_Activity
  <2> QED
    BY <1>1, <2>1, ElisionSettles
<1> QED
  BY <1>4, <1>5

\* Every direct driver is settled, if no signal mixes the two kinds of drivers
\* or nothing is rejected: an assignment that is dropped because it does not
\* change the value of the signal changes nothing that matters.
THEOREM AlwaysSettled == Unmixed => (Spec => []DirectDriversSettled)
<1>1. ASSUME Unmixed, Inv, DirectDriversSettled, [Next]_vars
      PROVE  DirectDriversSettled'
  <2>1. TypeOK
    BY <1>1 DEF Inv, Frame
  <2>2. ASSUME NEW d \in Driver, NEW v \in Value, Assign(d, v)
        PROVE  DirectDriversSettled'
    <3>1. ASSUME NEW after \in Delays, NEW reject \in Rejects,
                 Ghdl_Signal_Start_Assign(d, v, after, reject)
          PROVE  DirectDriversSettled'
      <4>1. after \in 0 .. TimeHigh
        BY <3>1, SignalAssumption DEF Ghdl_Signal_Start_Assign
      <4> QED
        BY <1>1, <3>1, <4>1, StartSettles
    <3>2. CASE Ghdl_Signal_Simple_Assign(d, v)
      <4>1. 0 \in 0 .. TimeHigh /\ Ghdl_Signal_Start_Assign(d, v, 0, 0)
        BY <3>2, SignalAssumption DEF Ghdl_Signal_Simple_Assign
      <4> QED
        BY <1>1, <4>1, StartSettles
    <3>3. ASSUME NEW after \in Delays, Ghdl_Signal_Next_Assign(d, v, after)
          PROVE  DirectDriversSettled'
      <4>1. \A e \in Driver : wave'[e][1] = wave[e][1]
        BY <1>1, <3>3, NextKeepsFirst
      <4>2. UNCHANGED val_ptr /\ Ghdl_Signal_Active_Chain' = Ghdl_Signal_Active_Chain
        BY <3>3 DEF Ghdl_Signal_Next_Assign
      <4> QED
        BY <1>1, <2>1, <4>1, <4>2, SettledSame
    <3>4. ASSUME NEW after \in Delays, Start_Assign_Beyond(d, after)
          PROVE  DirectDriversSettled'
      <4>1. UNCHANGED <<wave, val_ptr, Ghdl_Signal_Active_Chain>>
        BY <3>4 DEF Start_Assign_Beyond, driverVars
      <4> QED
        BY <1>1, <2>1, <4>1, SettledSame
    <3> QED
      BY <1>1, <2>2, <3>1, <3>2, <3>3, <3>4, DirectSettles DEF Assign
  <2>3. CASE Update_Signals
    BY <1>1, <2>3, UpdateSettles
  <2>4. CASE Update_Active_Chain
    <3>1. Ghdl_Signal_Active_Chain = {}
      BY <1>1, <2>4 DEF Inv, Frame, ChainsEmpty, Update_Active_Chain
    <3>2. UNCHANGED <<wave, val_ptr>>
      BY <2>4 DEF Update_Active_Chain, driverVars
    <3> QED
      BY <1>1, <2>1, <3>1, <3>2, SettledSame
  <2>5. CASE UNCHANGED <<wave, val_ptr, Ghdl_Signal_Active_Chain>>
    BY <1>1, <2>1, <2>5, SettledSame
  <2>6. CASE \/ Start_Postponed \/ No_Postponed \/ Finish \/ UNCHANGED vars
    BY <2>5, <2>6 DEF Start_Postponed, No_Postponed, Finish, vars, driverVars, chainVars
  <2>7. ASSUME NEW tn \in Current_Time .. TimeHigh,
               \/ Processes_Done(tn)
               \/ Last_Known_Delta(tn)
               \/ End_Postponed(tn)
               \/ End_Of_Time_Step(tn)
        PROVE  DirectDriversSettled'
    BY <2>5, <2>7 DEF Processes_Done, Last_Known_Delta, End_Postponed, End_Of_Time_Step,
                      Compute_Next_Time, driverVars, chainVars
  <2> QED
    BY <1>1, <2>2, <2>3, <2>4, <2>6, <2>7 DEF Next, Cycle, Stopped
<1>2. Init => DirectDriversSettled
  <2> SUFFICES ASSUME Init PROVE DirectDriversSettled
    OBVIOUS
  <2>1. PICK init \in [Signal -> Value] :
           /\ wave = [d \in Driver |-> <<Transaction(0, init[SigOf(d)])>>]
           /\ val_ptr = [d \in Direct |-> init[SigOf(d)]]
    BY DEF Init
  <2>2. TypeOK
    BY InitInv DEF Inv, Frame
  <2>3. \A d \in Driver : wave[d][1].val = init[SigOf(d)]
    BY <2>1 DEF Transaction
  <2>4. \A d \in Driver : Settled(d) = wave[d][1].val
    BY <2>1, <2>3, SignalAssumption DEF Settled
  <2>5. ASSUME NEW s \in Signal
        PROVE  Driving_Value(s) = Resolve({Settled(d) : d \in Range(Drivers[s])})
    <3>1. \A d \in Range(Drivers[s]) : Settled(d) = wave[d][1].val
      BY <2>2, <2>4, ValuesOfSignal
    <3>2. {Settled(d) : d \in Range(Drivers[s])} = {wave[d][1].val : d \in Range(Drivers[s])}
      BY <3>1
    <3> QED
      BY <3>2 DEF Driving_Value
  <2> QED
    BY <2>5 DEF DirectDriversSettled, Settled
<1>3. ASSUME Unmixed PROVE Spec => []DirectDriversSettled
  <2>1. Inv /\ DirectDriversSettled /\ [Next]_vars => DirectDriversSettled'
    BY <1>1, <1>3
  <2> QED
    BY <1>2, <2>1, Invariance, PTL DEF Spec
<1> QED
  BY <1>3

=============================================================================
