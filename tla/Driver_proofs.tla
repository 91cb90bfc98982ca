---------------------------- MODULE Driver_proofs ----------------------------
(***************************************************************************)
(* Proofs about Driver, for any set of values, any delays and any range of *)
(* times: the list of transactions is well-formed and stays in order, no   *)
(* wrapped time gets into it, and it is the projected output waveform of   *)
(* LRM93 8.4.1.                                                            *)
(***************************************************************************)
EXTENDS Driver, WaveformLemmas

Trans == [time : 0 .. TimeHigh, val : Value]

Requests == {<<>>} \cup {"start"} \X Value \X Delays \X Delays
                   \cup {"next"} \X Value \X Delays

\* What the type invariant says of the list.
LEMMA ListOfType ==
    ASSUME TypeOK
    PROVE  IsList(wave, Trans) /\ Len(wave) \in Nat /\ TimeHigh \in Nat
<1>1. \A x \in Trans : x.time \in Int
  BY DriverAssumption DEF Trans
<1> QED
  BY <1>1, DriverAssumption DEF TypeOK, IsList, Trans

\* A first element: the list stays in order, the new transaction being the last.
LEMMA StartInOrder ==
    ASSUME TypeOK, Ascending, NEW v \in Value, NEW after \in Delays, NEW reject \in Delays,
           Ghdl_Signal_Start_Assign(v, after, reject)
    PROVE  TypeOK' /\ Ascending'
<1> DEFINE t == Wrapped_Sum(Current_Time, after)
           x == Transaction(t, v)
<1>1. after \in Int /\ after >= 0 /\ after <= TimeHigh /\ reject \in Int
  BY DriverAssumption DEF Ghdl_Signal_Start_Assign
<1>2. request' \in Requests
  BY DEF Ghdl_Signal_Start_Assign, Requests
<1>3. CASE UNCHANGED wave
  BY <1>2, <1>3 DEF Ghdl_Signal_Start_Assign, TypeOK, Ascending, Requests
<1>4. CASE ~Beyond(t) /\ reject \in 0 .. after /\ wave' = Assigned(wave, t, v, reject)
  <2>1. t = Current_Time + after /\ t \in 0 .. TimeHigh /\ t >= Current_Time
    BY SMTT(20), <1>1, <1>4, DriverAssumption DEF TypeOK, Beyond, Wrapped_Sum
  <2>2. x \in Trans /\ x.time = t
    BY <2>1 DEF Trans, Transaction
  <2> HIDE DEF t
  <2>3. InOrder(wave)
    BY DEF Ascending, InOrder
  <2>4. /\ IsList(wave', Trans)
        /\ wave'[1] = wave[1]
        /\ wave'[Len(wave')] = x
        /\ InOrder(wave')
        /\ \A i \in 2 .. Len(wave') - 1 : \E j \in 2 .. Len(wave) : wave'[i] = wave[j]
    <3>1. reject \in Nat /\ t \in Int /\ IsList(wave, Trans) /\ Transaction(t, v) \in Trans
      BY <1>1, <1>4, <2>1, <2>2, ListOfType
    <3>2. /\ IsList(wave', Trans)
          /\ wave'[1] = wave[1]
          /\ wave'[Len(wave')] = Transaction(t, v)
          /\ InOrder(wave) =>
                /\ InOrder(wave')
                /\ \A i \in 2 .. Len(wave') - 1 :
                      \E j \in 2 .. Len(wave) : wave'[i] = wave[j] /\ wave[j].time < t
      BY <1>4, <3>1, AssignedList DEF LastIsNew
    <3> QED
      BY <2>3, <3>2
  <2>5. TypeOK'
    BY <1>2, <2>4 DEF IsList, Ghdl_Signal_Start_Assign, TypeOK, Requests, Trans
  <2>6. Current_Time' = Current_Time /\ late' = late
    BY DEF Ghdl_Signal_Start_Assign
  <2>7. \A i \in 2 .. Len(wave') : wave'[i].time >= Current_Time \/ late
    <3>1. \A i \in 2 .. Len(wave') : i = Len(wave') \/ i \in 2 .. Len(wave') - 1
      BY <2>4 DEF IsList
    <3>2. \A j \in 2 .. Len(wave) : wave[j].time >= Current_Time \/ late
      BY DEF Ascending
    <3> QED
      BY <2>1, <2>2, <2>4, <3>1, <3>2
  <2> QED
    BY <2>4, <2>5, <2>6, <2>7 DEF Ascending, InOrder
<1> QED
  BY <1>3, <1>4 DEF Ghdl_Signal_Start_Assign

\* An element that is accepted is later than the last one, and not late if a
\* transaction is pending.
LEMMA AcceptedElement ==
    ASSUME TypeOK, Ascending, NEW after \in Delays,
           In_Order(Wrapped_Sum(Current_Time, after))
    PROVE  /\ Wrapped_Sum(Current_Time, after) = Current_Time + after
           /\ Current_Time + after \in 0 .. TimeHigh
           /\ wave[Len(wave)].time < Current_Time + after
           /\ after <= 0 => late \/ Len(wave) = 1
<1> DEFINE last == wave[Len(wave)].time
<1>1. /\ after \in Int /\ after >= -TimeHigh /\ after <= TimeHigh
      /\ TimeHigh \in Nat /\ Current_Time \in 0 .. TimeHigh
  BY DriverAssumption DEF TypeOK
<1>2. last \in 0 .. TimeHigh /\ Len(wave) \in Nat /\ Len(wave) >= 1
  <2>1. wave[Len(wave)] \in Trans
    BY ListOfType DEF IsList
  <2> QED
    BY <2>1, ListOfType DEF Trans, TypeOK
<1>3. last < Wrapped_Sum(Current_Time, after)
  BY DEF In_Order, Last_Trans
<1>4. last >= Current_Time \/ late \/ Len(wave) = 1
  BY <1>2 DEF Ascending
<1> HIDE DEF last
<1>5. Wrapped_Sum(Current_Time, after) = Current_Time + after /\ Current_Time + after \in 0 .. TimeHigh
  BY <1>1, <1>2, <1>3 DEF Wrapped_Sum
<1>6. after <= 0 => late \/ Len(wave) = 1
  BY <1>1, <1>2, <1>3, <1>4, <1>5
<1> QED
  BY <1>3, <1>5, <1>6 DEF last

\* An element that follows is later than the last one.
LEMMA NextInOrder ==
    ASSUME TypeOK, Ascending, NEW v \in Value, NEW after \in Delays,
           Ghdl_Signal_Next_Assign(v, after)
    PROVE  TypeOK' /\ Ascending'
<1> DEFINE t == Wrapped_Sum(Current_Time, after)
<1>1. request' \in Requests
  BY DEF Ghdl_Signal_Next_Assign, Requests
<1>2. CASE ~In_Order(t)
  BY <1>1, <1>2 DEF Ghdl_Signal_Next_Assign, Fail, TypeOK, Ascending, Requests
<1>3. CASE In_Order(t)
  <2>1. /\ wave' = Append(wave, Transaction(t, v)) /\ UNCHANGED <<Current_Time, open, failed>>
        /\ late' = (late \/ after <= 0)
    BY <1>3 DEF Ghdl_Signal_Next_Assign
  <2>2. Len(wave) \in Nat /\ Len(wave) >= 1 /\ wave[Len(wave)] \in Trans
    BY ListOfType DEF IsList
  <2>3. wave[Len(wave)].time < t /\ wave[Len(wave)].time \in 0 .. TimeHigh
    BY <1>3, <2>2 DEF In_Order, Last_Trans, Trans
  <2>4. t \in 0 .. TimeHigh /\ (t >= Current_Time \/ late')
    <3>1. t = Current_Time + after /\ t \in 0 .. TimeHigh
      BY <1>3, AcceptedElement
    <3>2. t >= Current_Time \/ after <= 0
      BY <3>1, DriverAssumption DEF TypeOK
    <3>3. after <= 0 => late'
      BY <2>1
    <3> QED
      BY <3>1, <3>2, <3>3, Zenon
  <2>5. Transaction(t, v) \in Trans /\ Transaction(t, v).time = t
    BY <2>4 DEF Trans, Transaction
  <2> HIDE DEF t
  <2>6. /\ wave' \in Seq(Trans)
        /\ Len(wave') = Len(wave) + 1
        /\ wave'[Len(wave) + 1].time = t
        /\ \A i \in 1 .. Len(wave) : wave'[i] = wave[i]
    BY <2>1, <2>2, <2>5, ListOfType DEF IsList
  <2>7. TypeOK'
    BY <1>1, <2>1, <2>2, <2>6 DEF TypeOK, Requests, Trans
  <2>8. \A i \in 2 .. Len(wave) : wave[i].time < t
    <3>1. \A i \in 2 .. Len(wave) : i < Len(wave) => wave[i].time < wave[Len(wave)].time
      <4>1. \A i \in 2 .. Len(wave) : Len(wave) \in 2 .. Len(wave)
        BY <2>2
      <4> QED
        BY <4>1 DEF Ascending
    <3>2. \A i \in 2 .. Len(wave) : wave[i].time \in Int
      BY ListOfType DEF IsList
    <3>3. \A i \in 2 .. Len(wave) : i = Len(wave) \/ i < Len(wave)
      BY <2>2
    <3> QED
      BY <2>3, <2>4, <3>1, <3>2, <3>3
  <2>9. \A i \in 2 .. Len(wave') : i = Len(wave) + 1 \/ i \in 2 .. Len(wave)
    BY <2>2, <2>6
  <2>10. \A i, j \in 2 .. Len(wave') : i < j => i \in 2 .. Len(wave)
    BY <2>2, <2>6
  <2>11. \A i \in 2 .. Len(wave) : i \in 1 .. Len(wave)
    BY <2>2
  <2>12. wave'[1].time <= Current_Time
    BY <2>2, <2>6 DEF Ascending
  <2>13. \A i \in 2 .. Len(wave') : wave'[i].time >= Current_Time \/ late'
    <3>1. late => late'
      BY <2>1
    <3> QED
      BY <2>4, <2>6, <2>9, <2>11, <3>1 DEF Ascending
  <2>14. \A i, j \in 2 .. Len(wave') : i < j => wave'[i].time < wave'[j].time
    BY <2>6, <2>8, <2>9, <2>10, <2>11 DEF Ascending
  <2> QED
    BY <2>1, <2>7, <2>12, <2>13, <2>14 DEF Ascending
<1> QED
  BY <1>2, <1>3

\* The next transaction takes effect at its time, which the others are after.
LEMMA UpdateInOrder ==
    ASSUME TypeOK, Ascending, Update_Signals
    PROVE  TypeOK' /\ Ascending'
<1>1. /\ wave \in Seq(Trans) /\ Len(wave) \in Nat /\ Len(wave) > 1
      /\ wave' = Tail(wave) /\ Current_Time' = wave[2].time
      /\ UNCHANGED <<failed, request, late>> /\ open' = FALSE
  BY ListOfType DEF Update_Signals, IsList
<1>2. /\ wave' \in Seq(Trans)
      /\ Len(wave') = Len(wave) - 1
      /\ \A i \in 1 .. Len(wave) - 1 : wave'[i] = wave[i + 1]
  BY <1>1
<1>3. TypeOK'
  <2>1. wave[2] \in Trans
    BY <1>1
  <2>2. Current_Time' \in 0 .. TimeHigh
    BY <1>1, <2>1 DEF Trans
  <2>3. Len(wave') >= 1
    BY <1>1, <1>2
  <2> QED
    BY <1>1, <1>2, <2>2, <2>3 DEF TypeOK, Trans
<1>4. \A i \in 2 .. Len(wave') : i \in 1 .. Len(wave) - 1 /\ i + 1 \in 2 .. Len(wave) /\ 2 < i + 1
  BY <1>1, <1>2
<1>5. wave'[1] = wave[2] /\ wave[2].time \in Int
  <2>1. 1 \in 1 .. Len(wave) - 1 /\ 2 \in 1 .. Len(wave)
    BY <1>1
  <2>2. wave[2] \in Trans /\ \A y \in Trans : y.time \in Int
    BY <1>1, <2>1, ListOfType DEF IsList
  <2> QED
    BY <1>1, <1>2, <2>1, <2>2
<1>6. \A i \in 2 .. Len(wave) : wave[i].time \in Int
  BY ListOfType DEF IsList
<1>7. \A i \in 2 .. Len(wave') : wave'[i].time >= wave[2].time
  <2>1. 2 \in 2 .. Len(wave)
    BY <1>1
  <2>2. \A i \in 2 .. Len(wave') : wave[2].time < wave[i + 1].time
    BY <1>4, <2>1 DEF Ascending
  <2> QED
    BY <1>2, <1>4, <1>5, <1>6, <2>2
<1>8. \A i, j \in 2 .. Len(wave') : i < j => wave'[i].time < wave'[j].time
  <2> SUFFICES ASSUME NEW i \in 2 .. Len(wave'), NEW j \in 2 .. Len(wave'), i < j
               PROVE  wave'[i].time < wave'[j].time
    OBVIOUS
  <2>1. wave[i + 1].time < wave[j + 1].time
    <3>1. i + 1 < j + 1
      OBVIOUS
    <3> QED
      BY <1>4, <3>1 DEF Ascending
  <2> QED
    BY <1>2, <1>4, <2>1
<1>9. wave'[1].time <= Current_Time'
  BY <1>1, <1>5
<1> QED
  BY <1>1, <1>3, <1>7, <1>8, <1>9 DEF Ascending

\* The type invariant and the order, together, are kept by every step.
LEMMA DriverInvariant == Spec => [](TypeOK /\ Ascending)
<1>1. Init => TypeOK /\ Ascending
  <2> SUFFICES ASSUME Init PROVE TypeOK /\ Ascending
    OBVIOUS
  <2>1. PICK v \in Value : wave = <<Transaction(0, v)>>
    BY DEF Init
  <2>2. Transaction(0, v) \in Trans /\ Transaction(0, v).time = 0 /\ 0 \in 0 .. TimeHigh
    BY DriverAssumption DEF Transaction, Trans
  <2>3. wave \in Seq(Trans) /\ Len(wave) = 1 /\ wave[1].time = 0
    BY <2>1, <2>2
  <2>4. TypeOK
    <3>1. wave \in Seq([time : 0 .. TimeHigh, val : Value]) /\ Len(wave) >= 1
      BY <2>3 DEF Trans
    <3> QED
      BY <2>2, <3>1 DEF Init, TypeOK
  <2>5. Ascending
    BY <2>3 DEF Init, Ascending
  <2> QED
    BY <2>4, <2>5
<1>2. TypeOK /\ Ascending /\ [Next]_vars => TypeOK' /\ Ascending'
  <2> SUFFICES ASSUME TypeOK, Ascending, [Next]_vars PROVE TypeOK' /\ Ascending'
    OBVIOUS
  <2>1. ASSUME NEW v \in Value, NEW after \in Delays, NEW reject \in Delays,
               Ghdl_Signal_Start_Assign(v, after, reject)
        PROVE  TypeOK' /\ Ascending'
    BY <2>1, StartInOrder
  <2>2. ASSUME NEW v \in Value, NEW after \in Delays, NEW reject \in Delays,
               Start_Assign_Error(v, after, reject)
        PROVE  TypeOK' /\ Ascending'
    BY <2>2 DEF Start_Assign_Error, Fail, TypeOK, Ascending
  <2>3. ASSUME NEW v \in Value, NEW after \in Delays, Ghdl_Signal_Next_Assign(v, after)
        PROVE  TypeOK' /\ Ascending'
    BY <2>3, NextInOrder
  <2>4. CASE Update_Signals
    BY <2>4, UpdateInOrder
  <2>5. ASSUME NEW t \in 0 .. TimeHigh, Other_Cycle(t)
        PROVE  TypeOK' /\ Ascending'
    <3>1. TypeOK'
      BY <2>5 DEF Other_Cycle, TypeOK
    <3>2. UNCHANGED wave /\ Current_Time' = t /\ t > Current_Time /\ (Len(wave) > 1 => t < wave[2].time)
      BY <2>5 DEF Other_Cycle
    <3>3. Len(wave) \in Nat /\ Len(wave) >= 1 /\ \A i \in 1 .. Len(wave) : wave[i].time \in Int
      BY ListOfType DEF IsList
    <3>4. \A i \in 2 .. Len(wave) : wave[i].time >= t
      <4>1. \A i \in 2 .. Len(wave) : Len(wave) > 1 /\ 2 \in 2 .. Len(wave) /\ (i = 2 \/ 2 < i)
        BY <3>3
      <4>2. \A i \in 2 .. Len(wave) : 2 < i => wave[2].time < wave[i].time
        BY <4>1 DEF Ascending
      <4>3. \A i \in 2 .. Len(wave) : wave[i].time \in Int /\ wave[2].time \in Int
        BY <3>3
      <4> QED
        BY <3>2, <4>1, <4>2, <4>3
    <3>5. wave[1].time <= t
      <4>1. 1 \in 1 .. Len(wave)
        BY <3>3
      <4> QED
        BY <3>2, <3>3, <4>1 DEF Ascending, TypeOK
    <3> QED
      BY <3>1, <3>2, <3>4, <3>5 DEF Ascending
  <2>6. CASE UNCHANGED vars
    BY <2>6 DEF vars, TypeOK, Ascending
  <2> QED
    BY <2>1, <2>2, <2>3, <2>4, <2>5, <2>6 DEF Next, Over
<1> QED
  BY <1>1, <1>2, PTL DEF Spec


(***************************************************************************)
(* Whatever is assigned, the list is well-formed (Ghdl_Signal_Start_Assign,*)
(* Ghdl_Signal_Next_Assign, Update_Signals) and what                       *)
(* Ghdl_Signal_Internal_Checks asserts is true: the pending transactions   *)
(* are in strictly ascending order.  None of them is in the past, as long  *)
(* as no element without a positive delay follows a first element past     *)
(* TIME'HIGH, which the code does not refuse when nothing is pending.      *)
(***************************************************************************)
THEOREM AlwaysAscending == Spec => []Ascending
BY DriverInvariant, PTL

-----------------------------------------------------------------------------
\* Rule 1 of LRM93 8.4.1 deletes what Delete_From deletes.
LEMMA KeptBefore ==
    ASSUME NEW T, NEW w, IsList(w, T), InOrder(w), NEW t \in Int
    PROVE  At(w, {1} \cup {i \in 2 .. Len(w) : w[i].time < t}) = Delete_From(w, t)
<1> DEFINE I == {1} \cup {i \in 2 .. Len(w) : w[i].time < t}
<1>1. w \in Seq(T) /\ Len(w) \in Nat /\ Len(w) >= 1 /\ \A i \in 2 .. Len(w) : w[i].time \in Int
  BY DEF IsList
<1>2. PICK n \in 1 .. Len(w) :
         /\ Delete_From(w, t) = SubSeq(w, 1, n)
         /\ InOrder(w) => \A j \in 2 .. n : w[j].time < t
         /\ \A k \in 1 .. Len(w) : (\A j \in 2 .. k : w[j].time < t) => k <= n
  BY DeleteFrom
<1>3. ASSUME NEW k \in 2 .. Len(w), w[k].time < t PROVE k <= n
  <2>1. \A j \in 2 .. k : w[j].time < t
    <3> SUFFICES ASSUME NEW j \in 2 .. k PROVE w[j].time < t
      OBVIOUS
    <3>1. j \in 2 .. Len(w) /\ (j = k \/ j < k)
      BY <1>1
    <3>2. j < k => w[j].time < w[k].time
      BY <3>1 DEF InOrder
    <3> QED
      BY <1>1, <1>3, <3>1, <3>2
  <2>2. k \in 1 .. Len(w)
    OBVIOUS
  <2> QED
    BY <1>2, <2>1, <2>2
<1>4. I = 1 .. n
  <2>1. \A i \in 2 .. n : i \in 2 .. Len(w) /\ w[i].time < t
    BY <1>1, <1>2
  <2>2. \A i \in I : i \in 1 .. n
    BY <1>3
  <2>3. \A i \in 1 .. n : i \in I
    BY <2>1
  <2> HIDE DEF I
  <2> QED
    BY <2>2, <2>3
<1>5. At(w, 1 .. n) = SubSeq(w, 1, n)
  BY <1>1, AtPrefix
<1> QED
  BY <1>2, <1>4, <1>5

\* Rules 2 to 5 of the inertial delay keep what Reject_Pulses keeps.
LEMMA KeptMarked ==
    ASSUME NEW T, NEW w, IsList(w, T), InOrder(w), NEW r \in Nat, r > 0
    PROVE  At(w, LRM!Marked(w, r)) = Reject_Pulses(w, r)
<1> DEFINE n == Len(w)
           prev == Last_Before(w, w[n].time - r)
           differ == {i \in prev + 1 .. n - 1 : w[i].val # w[n].val}
           m == IF differ = {} THEN prev + 1 ELSE Max(differ) + 1
           K == (1 .. prev) \cup (m .. n)
<1>1. /\ w \in Seq(T) /\ n \in Nat /\ n >= 1 /\ w[n].time \in Int
      /\ \A i \in 1 .. n : w[i] \in T /\ w[i].time \in Int
  BY DEF IsList
<1>2. /\ prev \in 1 .. n
      /\ \A j \in 2 .. prev : w[j].time < w[n].time - r
      /\ \A k \in 1 .. n : (\A j \in 2 .. k : w[j].time < w[n].time - r) => k <= prev
  <2>1. w[n].time - r \in Int
    BY <1>1
  <2> QED
    BY <2>1, LastBefore
<1>3. \A k \in 2 .. n : w[k].time < w[n].time - r => k <= prev
  <2> SUFFICES ASSUME NEW k \in 2 .. n, w[k].time < w[n].time - r PROVE k <= prev
    OBVIOUS
  <2>1. \A j \in 2 .. k : w[j].time < w[n].time - r
    <3> SUFFICES ASSUME NEW j \in 2 .. k PROVE w[j].time < w[n].time - r
      OBVIOUS
    <3>1. j \in 2 .. n /\ (j = k \/ j < k)
      BY <1>1
    <3>2. j < k => w[j].time < w[k].time
      BY <3>1 DEF InOrder
    <3>3. j \in 1 .. n /\ k \in 1 .. n
      BY <1>1
    <3> HIDE DEF prev, m, differ
    <3> QED
      BY <1>1, <3>1, <3>2, <3>3
  <2>2. k \in 1 .. n
    OBVIOUS
  <2> QED
    BY <1>2, <2>1, <2>2
<1>4. n > 1 => prev < n
  <2> SUFFICES ASSUME n > 1, prev = n PROVE FALSE
    BY <1>1, <1>2
  <2>1. w[n].time < w[n].time - r
    <3>1. n \in 2 .. prev
      BY <1>1
    <3> QED
      BY <1>2, <3>1
  <2> QED
    BY <1>1, <2>1
<1>5. differ # {} => Max(differ) \in differ /\ \A i \in differ : i <= Max(differ)
  <2>1. n - 1 \in Nat /\ differ \in SUBSET (0 .. n - 1)
    BY <1>1, <1>2
  <2> HIDE DEF differ
  <2> QED
    BY <2>1, GreatestElement
<1>6. /\ m \in prev + 1 .. n + 1
      /\ m = n + 1 => n = 1 /\ prev = 1
      /\ \A i \in m .. n : w[i].val = w[n].val
      /\ m > prev + 1 => w[m - 1].val # w[n].val
  <2>1. CASE differ = {}
    <3>1. m = prev + 1
      BY <2>1
    <3>2. \A i \in prev + 1 .. n - 1 : w[i].val = w[n].val
      BY <2>1
    <3>3. \A i \in prev + 1 .. n : i = n \/ i \in prev + 1 .. n - 1
      BY <1>1, <1>2
    <3> HIDE DEF prev, m, differ
    <3>4. m \in prev + 1 .. n + 1 /\ ~(m > prev + 1)
      BY <1>1, <1>2, <3>1
    <3>5. m = n + 1 => n = 1 /\ prev = 1
      <4> SUFFICES ASSUME m = n + 1 PROVE n = 1 /\ prev = 1
        OBVIOUS
      <4>1. prev = n
        BY <1>1, <1>2, <3>1
      <4>2. ~(n > 1)
        BY <1>1, <1>4, <4>1
      <4> QED
        BY <1>1, <4>1, <4>2
    <3>6. \A i \in m .. n : w[i].val = w[n].val
      BY <3>1, <3>2, <3>3
    <3> QED
      BY <3>4, <3>5, <3>6
  <2>2. CASE differ # {}
    <3>1. m = Max(differ) + 1 /\ Max(differ) \in prev + 1 .. n - 1 /\ w[Max(differ)].val # w[n].val
      BY <1>5, <2>2
    <3>2. \A i \in m .. n : i = n \/ (i \in prev + 1 .. n - 1 /\ ~(i <= Max(differ)))
      <4> HIDE DEF prev, differ
      <4> QED
        BY <1>1, <1>2, <3>1
    <3>3. \A i \in prev + 1 .. n - 1 : ~(i <= Max(differ)) => w[i].val = w[n].val
      BY <1>5, <2>2
    <3>4. \A i \in m .. n : w[i].val = w[n].val
      BY <3>2, <3>3
    <3> HIDE DEF prev, differ, m
    <3>5. m \in prev + 1 .. n + 1 /\ m # n + 1 /\ m - 1 = Max(differ)
      BY <1>1, <1>2, <3>1
    <3>6. w[m - 1].val # w[n].val
      BY <3>1, <3>5
    <3> QED
      BY <3>4, <3>5, <3>6
  <2> QED
    BY <2>1, <2>2
<1>7. Reject_Pulses(w, r) = SubSeq(w, 1, prev) \o SubSeq(w, m, n)
  <2>1. CASE differ = {}
    <3>1. Reject_Pulses(w, r) = w /\ m = prev + 1
      BY <2>1 DEF Reject_Pulses
    <3> HIDE DEF prev, differ, m
    <3>2. prev \in Nat /\ prev <= n
      BY <1>1, <1>2
    <3>3. w = SubSeq(w, 1, prev) \o SubSeq(w, prev + 1, n)
      BY <1>1, <3>2, CutList
    <3> QED
      BY <3>1, <3>3
  <2>2. CASE differ # {}
    BY <2>2 DEF Reject_Pulses
  <2> QED
    BY <2>1, <2>2
<1> HIDE DEF prev, differ, m
<1>8. K \in SUBSET (1 .. n) /\ LRM!Obey(K, w, r)
  <2>1. K \in SUBSET (1 .. n) /\ 1 \in K /\ n \in K
    BY <1>1, <1>2, <1>6
  <2>2. \A i \in 1 .. n : w[i].time < w[n].time - r => i \in K
    <3>1. \A i \in 1 .. n : i = 1 \/ i \in 2 .. n
      BY <1>1
    <3>2. \A i \in 2 .. n : i <= prev => i \in K
      BY <1>2
    <3> HIDE DEF K
    <3> QED
      BY <1>3, <2>1, <3>1, <3>2
  <2>3. ASSUME NEW i \in 1 .. n - 1, i + 1 \in K, w[i].val = w[i + 1].val PROVE i \in K
    <3>1. CASE i + 1 \in 1 .. prev
      BY <1>2, <3>1
    <3>2. CASE i + 1 \in m .. n /\ i + 1 # m
      BY <1>2, <1>6, <3>2
    <3>3. CASE i + 1 = m /\ m = prev + 1
      BY <1>2, <3>3
    <3>4. CASE i + 1 = m /\ m # prev + 1
      <4>1. m \in m .. n /\ m > prev + 1 /\ m - 1 = i
        BY <1>1, <1>2, <1>6, <3>4
      <4>2. w[m].val = w[n].val /\ w[i].val # w[n].val
        BY <1>6, <4>1
      <4> QED
        BY <2>3, <3>4, <4>2
    <3> QED
      BY <2>3, <3>1, <3>2, <3>3, <3>4
  <2> HIDE DEF K
  <2> QED
    BY <2>1, <2>2, <2>3 DEF LRM!Obey
<1>9. ASSUME NEW M \in SUBSET (1 .. n), LRM!Obey(M, w, r), NEW i \in K
      PROVE  i \in M
  <2>1. CASE i \in 1 .. prev
    <3>1. i = 1 \/ i \in 2 .. prev
      BY <1>2, <2>1
    <3>2. i \in 1 .. n
      BY <1>1, <1>2, <2>1
    <3> QED
      BY <1>2, <1>9, <3>1, <3>2 DEF LRM!Obey
  <2>2. CASE i \in m .. n
    <3> DEFINE left == {j \in m .. n : j \notin M}
    <3>1. SUFFICES left = {}
      BY <2>2
    <3>2. SUFFICES ASSUME left # {} PROVE FALSE
      OBVIOUS
    <3>3. left \in SUBSET (0 .. n)
      BY <1>2, <1>6
    <3>4. Max(left) \in left /\ \A j \in left : j <= Max(left)
      <4> HIDE DEF left
      <4> QED
        BY <1>1, <3>2, <3>3, GreatestElement
    <3> DEFINE x == Max(left)
    <3>5. x \in m .. n /\ x \notin M
      BY <3>4
    <3>6. \A j \in m .. n : ~(j <= x) => j \in M
      BY <3>4
    <3> HIDE DEF x, left
    <3>7. x # n
      BY <1>9, <3>5 DEF LRM!Obey
    <3>8. x \in 1 .. n - 1 /\ x + 1 \in m .. n /\ ~(x + 1 <= x)
      BY <1>1, <1>2, <1>6, <3>5, <3>7
    <3>9. x + 1 \in M /\ w[x].val = w[x + 1].val
      BY <1>6, <3>5, <3>6, <3>8
    <3> QED
      BY <1>9, <3>5, <3>8, <3>9 DEF LRM!Obey
  <2> QED
    BY <1>9, <2>1, <2>2
<1>10. LRM!Marked(w, r) = K
  <2>1. \A i \in LRM!Marked(w, r) : i \in K
    BY <1>8 DEF LRM!Marked
  <2>2. \A i \in K : i \in LRM!Marked(w, r)
    BY <1>8, <1>9 DEF LRM!Marked
  <2> HIDE DEF K
  <2> QED
    BY <2>1, <2>2
<1> DEFINE N == prev + (n + 1 - m)
           f == [k \in 1 .. N |-> IF k <= prev THEN k ELSE k - prev + m - 1]
<1>11. N \in Nat /\ K \in SUBSET Int /\ Enumerates(f, N, K)
  <2>1. N \in Nat /\ K \in SUBSET Int
    BY <1>1, <1>2, <1>6
  <2>2. f \in [1 .. N -> K]
    BY <1>1, <1>2, <1>6
  <2>3. \A i \in K : \E k \in 1 .. N : f[k] = i
    <3> SUFFICES ASSUME NEW i \in K PROVE \E k \in 1 .. N : f[k] = i
      OBVIOUS
    <3>1. CASE i \in 1 .. prev
      <4>1. i \in 1 .. N /\ f[i] = i
        BY <1>1, <1>2, <1>6, <3>1
      <4> QED
        BY <4>1
    <3>2. CASE i \in m .. n
      <4>1. i - m + 1 + prev \in 1 .. N /\ f[i - m + 1 + prev] = i
        BY <1>1, <1>2, <1>6, <3>2
      <4> QED
        BY <4>1
    <3> QED
      BY <3>1, <3>2
  <2>4. \A j, k \in 1 .. N : j < k => f[j] < f[k]
    BY <1>1, <1>2, <1>6
  <2> HIDE DEF f, N, K
  <2> QED
    BY <2>1, <2>2, <2>3, <2>4 DEF Enumerates
<1>12. At(w, K) = [k \in 1 .. N |-> w[f[k]]]
  <2> HIDE DEF f, N, K
  <2>1. Cardinality(K) = N
    BY ONLY <1>11, AtEnumerated
  <2>2. \A k \in 1 .. N : Nth(K, k) = f[k]
    BY ONLY <1>11, AtEnumerated
  <2> QED
    BY ONLY <2>1, <2>2 DEF At
<1> DEFINE c == SubSeq(w, 1, prev) \o SubSeq(w, m, n)
<1>13. c \in Seq(T) /\ Len(c) = N /\ \A k \in 1 .. N : c[k] = w[f[k]]
  <2>1. w \in Seq(T)
    BY <1>1
  <2>2. prev \in Nat
    BY <1>1, <1>2
  <2>3. m \in Nat
    BY <1>1, <1>2, <1>6
  <2>4. prev < m
    BY <1>1, <1>2, <1>6
  <2>5. m <= Len(w) + 1
    BY <1>1, <1>2, <1>6
  <2>6. c = SubSeq(w, 1, prev) \o SubSeq(w, m, Len(w))
    OBVIOUS
  <2> HIDE DEF c
  <2>7. c \in Seq(T) /\ LeavesOut(c, w, prev, m)
    BY ONLY <2>1, <2>2, <2>3, <2>4, <2>5, <2>6, JoinedParts
  <2>8. Len(c) = N
    BY <2>7 DEF LeavesOut
  <2>9. /\ \A k \in 1 .. N : k \in 1 .. prev \/ k \in prev + 1 .. N
        /\ \A k \in 1 .. N : k \in 1 .. prev => f[k] = k
        /\ \A k \in 1 .. N : k \in prev + 1 .. N => f[k] = k - prev + m - 1
    BY <2>2
  <2> HIDE DEF f, N
  <2> QED
    BY <2>7, <2>8, <2>9 DEF LeavesOut
<1>14. At(w, K) = c
  <2> HIDE DEF f, N, K, c
  <2>1. c \in [1 .. N -> T]
    BY <1>13, LenProperties
  <2> QED
    BY <1>12, <1>13, <2>1
<1> QED
  BY <1>7, <1>10, <1>14

\* The subsequences of the reference are those of the lemmas.
LEMMA SameAt ==
    ASSUME NEW s, NEW I
    PROVE  LRM!At(s, I) = At(s, I)
<1>1. \A S : LRM!Cardinality(S) = Cardinality(S)
  BY DEF LRM!Cardinality, Cardinality
<1>2. \A i : LRM!Rank(I, i) = Rank(I, i)
  BY <1>1 DEF LRM!Rank, Rank
<1>3. \A k : LRM!Nth(I, k) = Nth(I, k)
  BY <1>2 DEF LRM!Nth, Nth
<1> QED
  BY <1>1, <1>3 DEF LRM!At, At

\* A first element: Assigned computes what the rules of LRM93 8.4.1 ask for.
LEMMA AssignedIsProjected ==
    ASSUME NEW T, NEW w, IsList(w, T), InOrder(w), NEW t \in Int, NEW v,
           Transaction(t, v) \in T, NEW r \in Nat
    PROVE  LRM!Projected(w, t, v, r) = Assigned(w, t, v, r)
<1> DEFINE old == LRM!At(w, {1} \cup {i \in 2 .. Len(w) : w[i].time < t})
           new == Append(Delete_From(w, t), Transaction(t, v))
<1>1. old = Delete_From(w, t)
  BY SameAt, KeptBefore
<1>2. Append(old, [time |-> t, val |-> v]) = new
  BY <1>1 DEF Transaction
<1>3. LRM!Projected(w, t, v, r) = IF r > 0 THEN LRM!At(new, LRM!Marked(new, r)) ELSE new
  BY <1>2 DEF LRM!Projected
<1>4. Assigned(w, t, v, r) = IF r > 0 THEN Reject_Pulses(new, r) ELSE new
  BY DEF Assigned
<1>5. IsList(new, T) /\ InOrder(new)
  <2>1. new = Assigned(w, t, v, 0) /\ 0 \in Nat
    BY DEF Assigned
  <2> HIDE DEF new
  <2> QED
    BY <2>1, AssignedList
<1> HIDE DEF new
<1>6. r > 0 => LRM!At(new, LRM!Marked(new, r)) = Reject_Pulses(new, r)
  BY <1>5, SameAt, KeptMarked
<1> QED
  BY <1>3, <1>4, <1>6

\* Ghdl_Signal_Start_Assign is an assignment of the reference.
LEMMA StartIsAssign ==
    ASSUME TypeOK, Ascending, NEW v \in Value, NEW after \in Delays, NEW reject \in Delays,
           Ghdl_Signal_Start_Assign(v, after, reject), ~late
    PROVE  LRM!Assign(v, after, reject)
<1> DEFINE t == Wrapped_Sum(Current_Time, after)
<1>1. /\ after \in Int /\ after >= 0 /\ after <= TimeHigh /\ reject \in Int
      /\ TimeHigh \in Nat /\ Current_Time \in 0 .. TimeHigh
  BY DriverAssumption DEF Ghdl_Signal_Start_Assign, TypeOK
<1>2. Beyond(t) <=> LRM!Beyond(after)
  BY <1>1 DEF Beyond, LRM!Beyond, Wrapped_Sum
<1>3. CASE Beyond(t) /\ UNCHANGED wave
  BY <1>2, <1>3 DEF Ghdl_Signal_Start_Assign, LRM!Assign
<1>4. CASE ~Beyond(t) /\ reject \in 0 .. after /\ wave' = Assigned(wave, t, v, reject)
  <2>1. t = Current_Time + after /\ t \in 0 .. TimeHigh
    BY <1>1, <1>4 DEF Beyond, Wrapped_Sum
  <2>2. Transaction(t, v) \in Trans /\ t \in Int
    BY <2>1 DEF Trans, Transaction
  <2>3. InOrder(wave) /\ IsList(wave, Trans)
    BY ListOfType DEF Ascending, InOrder
  <2>4. reject \in Nat /\ reject >= 0 /\ reject <= after
    BY <1>1, <1>4
  <2> HIDE DEF t
  <2>5. wave' = LRM!Projected(wave, t, v, reject)
    BY <1>4, <2>2, <2>3, <2>4, AssignedIsProjected
  <2> QED
    BY <1>1, <1>2, <1>4, <2>1, <2>4, <2>5 DEF Ghdl_Signal_Start_Assign, LRM!Assign
<1> QED
  BY <1>3, <1>4 DEF Ghdl_Signal_Start_Assign

\* Its errors are errors of the reference.
LEMMA StartErrorIsError ==
    ASSUME TypeOK, NEW v \in Value, NEW after \in Delays, NEW reject \in Delays,
           Start_Assign_Error(v, after, reject), ~late
    PROVE  LRM!Assign_Error(v, after, reject)
<1>1. /\ after \in Int /\ after <= TimeHigh /\ reject \in Int
      /\ TimeHigh \in Nat /\ Current_Time \in 0 .. TimeHigh
  BY DriverAssumption DEF TypeOK
<1>2. after >= 0 => (Beyond(Wrapped_Sum(Current_Time, after)) <=> LRM!Beyond(after))
  BY <1>1 DEF Beyond, LRM!Beyond, Wrapped_Sum
<1>3. after < 0 \/ (~LRM!Beyond(after) /\ (reject < 0 \/ reject > after))
  BY <1>1, <1>2 DEF Start_Assign_Error
<1> QED
  BY <1>3 DEF Start_Assign_Error, Fail, LRM!Assign_Error

\* Ghdl_Signal_Next_Assign appends an element that is in order and not past
\* TIME'HIGH, and refuses any other; one it should refuse gets into the list
\* only when nothing is pending.
LEMMA NextIsContinue ==
    ASSUME TypeOK, Ascending, NEW v \in Value, NEW after \in Delays,
           Ghdl_Signal_Next_Assign(v, after), ~late
    PROVE  LRM!Continue(v, after) \/ LRM!Continue_Error(v, after)
<1> DEFINE t == Wrapped_Sum(Current_Time, after)
           last == wave[Len(wave)].time
<1>1. /\ after \in Int /\ after >= -TimeHigh /\ after <= TimeHigh
      /\ TimeHigh \in Nat /\ Current_Time \in 0 .. TimeHigh
  BY DriverAssumption DEF TypeOK
<1>2. last \in 0 .. TimeHigh /\ LRM!Last(wave).time = last
  <2>1. wave[Len(wave)] \in Trans
    BY ListOfType DEF IsList
  <2> QED
    BY <2>1 DEF Trans, LRM!Last
<1>3. CASE In_Order(t)
  <2>1. /\ open /\ ~failed
        /\ request' = <<"next", v, after>>
        /\ wave' = Append(wave, Transaction(t, v))
        /\ late' = (late \/ after <= 0)
        /\ UNCHANGED <<Current_Time, open, failed>>
    BY <1>3 DEF Ghdl_Signal_Next_Assign
  <2>2. /\ t = Current_Time + after /\ t \in 0 .. TimeHigh
        /\ last < t
        /\ after <= 0 => Len(wave) = 1
    BY <1>3, AcceptedElement
  <2>3. Transaction(t, v) = [time |-> Current_Time + after, val |-> v]
    BY <2>2 DEF Transaction
  <2>4. ~LRM!Beyond(after)
    BY <1>1, <2>2 DEF LRM!Beyond
  <2>5. ~(failed \/ late)
    BY <2>1
  <2> HIDE DEF t, last
  <2>6. CASE after > 0
    <3>1. UNCHANGED (failed \/ late)
      <4>1. ~(after <= 0)
        BY <1>1, <2>6
      <4> QED
        BY <2>1, <4>1, Zenon
    <3> QED
      BY <1>2, <2>1, <2>2, <2>3, <2>4, <2>5, <2>6, <3>1 DEF LRM!Continue
  <2>7. CASE after <= 0
    <3>1. (failed \/ late)' = TRUE
      BY <2>1, <2>7
    <3> QED
      BY <2>1, <2>2, <2>5, <2>7, <3>1 DEF LRM!Continue_Error
  <2> QED
    BY <1>1, <2>6, <2>7
<1>4. CASE ~In_Order(t)
  <2>1. ~failed /\ open /\ request' = <<"next", v, after>> /\ Fail
    BY <1>4 DEF Ghdl_Signal_Next_Assign
  <2>2. after <= 0 \/ Current_Time + after <= last \/ LRM!Beyond(after)
    BY <1>1, <1>2, <1>4 DEF In_Order, Last_Trans, Wrapped_Sum, LRM!Beyond
  <2>3. ~(failed \/ late) /\ (failed \/ late)' = TRUE
    BY <2>1 DEF Fail
  <2> HIDE DEF t, last
  <2> QED
    BY <1>2, <2>1, <2>2, <2>3 DEF Fail, LRM!Continue_Error
<1> QED
  BY <1>3, <1>4

(***************************************************************************)
(* The driver implements LRM93 8.4.1: whatever is assigned, with whatever  *)
(* delay and rejection limit, the list that Ghdl_Signal_Start_Assign and   *)
(* Ghdl_Signal_Next_Assign leave is the projected output waveform that the *)
(* rules of the manual mark, and the errors are those of the manual.  The  *)
(* one departure is the waveform that begins past TIME'HIGH: it leaves the *)
(* list alone, and an element without a positive delay that follows it is  *)
(* caught only if a transaction is pending; if it is not, nothing is said  *)
(* of what the driver does afterwards.                                     *)
(***************************************************************************)
THEOREM DriverImplementsLRM == Spec => ImplementsLRM
<1>1. Init => LRM!Init
  BY DEF Init, LRM!Init, Transaction
<1>2. TypeOK /\ Ascending /\ [Next]_vars => [LRM!Next]_(LRM!vars)
  <2> SUFFICES ASSUME TypeOK, Ascending, [Next]_vars PROVE [LRM!Next]_(LRM!vars)
    OBVIOUS
  <2>1. CASE late
    <3>1. late' = late
      <4>1. ASSUME NEW v \in Value, NEW after \in Delays, NEW reject \in Delays,
                   \/ Ghdl_Signal_Start_Assign(v, after, reject)
                   \/ Start_Assign_Error(v, after, reject)
            PROVE  late' = late
        BY <4>1 DEF Ghdl_Signal_Start_Assign, Start_Assign_Error, Fail
      <4>2. ASSUME NEW v \in Value, NEW after \in Delays, Ghdl_Signal_Next_Assign(v, after)
            PROVE  late' = late
        BY <2>1, <4>2, Zenon DEF Ghdl_Signal_Next_Assign, Fail, TypeOK
      <4>3. CASE Update_Signals \/ \E t \in 0 .. TimeHigh : Other_Cycle(t)
        BY <4>3 DEF Update_Signals, Other_Cycle
      <4>4. CASE UNCHANGED vars
        BY <4>4 DEF vars
      <4> QED
        BY <4>1, <4>2, <4>3, <4>4 DEF Next, Over
    <3>2. LRM!Undefined
      BY <2>1, <3>1 DEF LRM!Undefined
    <3> QED
      BY <3>2 DEF LRM!Next
  <2> SUFFICES ASSUME ~late PROVE [LRM!Next]_(LRM!vars)
    BY <2>1
  <2>2. ASSUME NEW v \in Value, NEW after \in Delays, NEW reject \in Delays,
               Ghdl_Signal_Start_Assign(v, after, reject)
        PROVE  LRM!Next
    BY <2>2, StartIsAssign DEF LRM!Next
  <2>3. ASSUME NEW v \in Value, NEW after \in Delays, NEW reject \in Delays,
               Start_Assign_Error(v, after, reject)
        PROVE  LRM!Next
    BY <2>3, StartErrorIsError DEF LRM!Next
  <2>4. ASSUME NEW v \in Value, NEW after \in Delays, Ghdl_Signal_Next_Assign(v, after)
        PROVE  LRM!Next
    BY <2>4, NextIsContinue DEF LRM!Next
  <2>5. CASE Update_Signals
    BY <2>5 DEF Update_Signals, LRM!Next, LRM!Activate
  <2>6. ASSUME NEW t \in 0 .. TimeHigh, Other_Cycle(t)
        PROVE  LRM!Next
    <3>1. LRM!Tick(t)
      BY <2>6 DEF Other_Cycle, LRM!Tick
    <3> QED
      BY <3>1 DEF LRM!Next
  <2>7. CASE UNCHANGED vars
    BY <2>7 DEF vars, LRM!vars
  <2> QED
    BY <2>2, <2>3, <2>4, <2>5, <2>6, <2>7 DEF Next, Over
<1>3. Spec => [](TypeOK /\ Ascending)
  BY DriverInvariant
<1> QED
  BY <1>1, <1>2, <1>3, PTL DEF Spec, ImplementsLRM, LRM!Spec
=============================================================================
