--------------------------- MODULE WaveformLemmas ---------------------------
(***************************************************************************)
(* What the operators of Waveforms return, for every list of transactions. *)
(* A list is in order when the transactions after the first one are in     *)
(* strictly ascending order of their times.                                *)
(***************************************************************************)
EXTENDS Waveforms, SubsequenceLemmas

\* A list whose transactions have a time and belong to T.
IsList(w, T) ==
    /\ w \in Seq(T)
    /\ Len(w) >= 1
    /\ \A x \in T : x.time \in Int

InOrder(w) == \A i, j \in 2 .. Len(w) : i < j => w[i].time < w[j].time

\* The pending transactions of a come from w, where they are before t, but for
\* the last one.
LastIsNew(a, w, t) ==
    \A i \in 2 .. Len(a) - 1 :
        \E j \in 2 .. Len(w) : a[i] = w[j] /\ w[j].time < t

\* The pending transactions of w before t are in a.
KeepsBefore(a, w, t) ==
    \A j \in 2 .. Len(w) : w[j].time < t => \E i \in 2 .. Len(a) : a[i] = w[j]

\* Last_Before is an index of the list, and the transactions up to there, the
\* first one apart, are before t.
LEMMA LastBefore ==
    ASSUME NEW T, NEW w, IsList(w, T), NEW t \in Int
    PROVE  /\ Last_Before(w, t) \in 1 .. Len(w)
           /\ \A j \in 2 .. Last_Before(w, t) : w[j].time < t
           /\ \A k \in 1 .. Len(w) :
                 (\A j \in 2 .. k : w[j].time < t) => k <= Last_Before(w, t)
<1> DEFINE S == {i \in 1 .. Len(w) : \A j \in 2 .. i : w[j].time < t}
<1>1. Len(w) \in Nat /\ S \in SUBSET (0 .. Len(w)) /\ 1 \in S
  BY DEF IsList
<1>2. Max(S) \in S /\ \A i \in S : i <= Max(S)
  <2> HIDE DEF S
  <2> QED
    BY <1>1, GreatestElement
<1> QED
  BY <1>2 DEF Last_Before

\* Rule 1 keeps the list up to some index, at least all that is before t.
LEMMA DeleteFrom ==
    ASSUME NEW T, NEW w, IsList(w, T), NEW t \in Int
    PROVE  \E n \in 1 .. Len(w) :
              /\ Delete_From(w, t) = SubSeq(w, 1, n)
              /\ InOrder(w) => \A j \in 2 .. n : w[j].time < t
              /\ \A k \in 1 .. Len(w) :
                    (\A j \in 2 .. k : w[j].time < t) => k <= n
<1>1. CASE w[Len(w)].time >= t
  <2>1. Delete_From(w, t) = SubSeq(w, 1, Last_Before(w, t))
    BY <1>1 DEF Delete_From
  <2> Last_Before(w, t) \in 1 .. Len(w)
    BY LastBefore
  <2> WITNESS Last_Before(w, t) \in 1 .. Len(w)
  <2> QED
    BY <2>1, LastBefore
<1>2. CASE ~(w[Len(w)].time >= t)
  <2>1. Delete_From(w, t) = SubSeq(w, 1, Len(w)) /\ Len(w) \in 1 .. Len(w)
    BY <1>2 DEF Delete_From, IsList
  <2>2. w[Len(w)] \in T /\ \A j \in 2 .. Len(w) : w[j] \in T
    BY DEF IsList
  <2>3. w[Len(w)].time < t /\ \A j \in 2 .. Len(w) : w[j].time \in Int
    BY <2>2, <1>2 DEF IsList
  <2>4. ASSUME InOrder(w), NEW j \in 2 .. Len(w) PROVE w[j].time < t
    <3>1. CASE j = Len(w)
      BY <3>1, <2>3
    <3>2. CASE j < Len(w)
      <4>1. Len(w) \in 2 .. Len(w)
        BY <3>2 DEF IsList
      <4>2. w[j].time < w[Len(w)].time
        BY <2>4, <3>2, <4>1 DEF InOrder
      <4> QED
        BY <4>1, <4>2, <2>3
    <3> QED
      BY <3>1, <3>2 DEF IsList
  <2>5. \A k \in 1 .. Len(w) : k <= Len(w)
    BY DEF IsList
  <2> Len(w) \in 1 .. Len(w)
    BY DEF IsList
  <2> WITNESS Len(w) \in 1 .. Len(w)
  <2> QED
    BY <2>1, <2>4, <2>5
<1> QED
  BY <1>1, <1>2

\* The list a is w without the transactions p + 1 to p + g.
Without(a, w, p, g) ==
    /\ Len(a) = Len(w) - g
    /\ \A i \in 1 .. Len(a) : a[i] = w[IF i <= p THEN i ELSE i + g]

\* The rejection removes one run of transactions, neither the first one nor the
\* last one.
LEMMA RejectPulses ==
    ASSUME NEW T, NEW w, IsList(w, T), NEW r \in Nat
    PROVE  /\ Reject_Pulses(w, r) \in Seq(T)
           /\ \E p \in 1 .. Len(w) : \E g \in 0 .. Len(w) - 1 :
                 /\ g > 0 => p + g < Len(w)
                 /\ Without(Reject_Pulses(w, r), w, p, g)
<1> DEFINE n == Len(w)
           prev == Last_Before(w, w[n].time - r)
           differ == {i \in prev + 1 .. n - 1 : w[i].val # w[n].val}
<1>1. n \in Nat /\ n >= 1 /\ w[n].time \in Int
  BY DEF IsList
<1>2. prev \in 1 .. n
  <2>1. w[n].time - r \in Int
    BY <1>1
  <2> QED
    BY <2>1, LastBefore
<1>3. CASE differ = {}
  <2>1. Reject_Pulses(w, r) = w
    BY <1>3 DEF Reject_Pulses
  <2>2. w \in Seq(T) /\ Without(w, w, n, 0)
    BY DEF Without, IsList
  <2> QED
    BY <1>1, <2>1, <2>2
<1>4. CASE differ # {}
  <2> DEFINE m == Max(differ)
  <2>1. m \in prev + 1 .. n - 1
    <3>1. differ \in SUBSET (0 .. n)
      BY <1>1, <1>2
    <3>2. m \in differ
      <4> HIDE DEF differ
      <4> QED
        BY <1>1, <1>4, <3>1, GreatestElement
    <3> QED
      BY <3>2
  <2>2. Reject_Pulses(w, r) = SubSeq(w, 1, prev) \o SubSeq(w, m + 1, n)
    BY <1>4 DEF Reject_Pulses
  <2> HIDE DEF n, prev, differ, m
  <2>3. /\ SubSeq(w, 1, prev) \in Seq(T)
        /\ SubSeq(w, m + 1, n) \in Seq(T)
        /\ Len(SubSeq(w, 1, prev)) = prev
        /\ Len(SubSeq(w, m + 1, n)) = n - m
        /\ \A i \in 1 .. prev : SubSeq(w, 1, prev)[i] = w[i]
        /\ \A i \in 1 .. n - m : SubSeq(w, m + 1, n)[i] = w[m + i]
    BY <1>1, <1>2, <2>1 DEF IsList, n
  <2>4. /\ Reject_Pulses(w, r) \in Seq(T)
        /\ Len(Reject_Pulses(w, r)) = prev + (n - m)
        /\ \A i \in 1 .. prev : Reject_Pulses(w, r)[i] = w[i]
        /\ \A i \in 1 .. n - m : Reject_Pulses(w, r)[prev + i] = w[m + i]
    BY <1>1, <1>2, <2>1, <2>2, <2>3
  <2>5. Without(Reject_Pulses(w, r), w, prev, m - prev)
    <3>1. Len(Reject_Pulses(w, r)) = Len(w) - (m - prev)
      BY <1>1, <1>2, <2>1, <2>4 DEF n
    <3>2. ASSUME NEW i \in 1 .. Len(Reject_Pulses(w, r)), ~(i <= prev)
          PROVE  Reject_Pulses(w, r)[i] = w[i + (m - prev)]
      <4>1. i - prev \in 1 .. n - m
        BY <1>1, <1>2, <2>1, <2>4, <3>2
      <4>2. Reject_Pulses(w, r)[prev + (i - prev)] = w[m + (i - prev)]
        BY <4>1, <2>4
      <4>3. prev + (i - prev) = i /\ m + (i - prev) = i + (m - prev)
        BY <1>1, <1>2, <2>1
      <4> QED
        BY <4>2, <4>3
    <3>3. \A i \in 1 .. Len(Reject_Pulses(w, r)) : i <= prev => i \in 1 .. prev
      BY <1>1, <1>2, <2>1, <2>4
    <3> QED
      BY <2>4, <3>1, <3>2, <3>3 DEF Without
  <2>6. m - prev \in 0 .. Len(w) - 1 /\ prev \in 1 .. Len(w) /\ prev + (m - prev) < Len(w)
    BY <1>1, <1>2, <2>1 DEF n
  <2> QED
    BY <2>4, <2>5, <2>6
<1> QED
  BY <1>3, <1>4

\* What Assigned makes of a list: the new transaction is the last one, each of
\* the others is an old one, before it when the list was in order, the first one
\* is kept, the order too; and without a rejection limit all that was before the
\* new one is kept.
LEMMA AssignedList ==
    ASSUME NEW T, NEW w, IsList(w, T), NEW t \in Int, NEW v, Transaction(t, v) \in T,
           NEW r \in Nat,
           NEW a, a = Assigned(w, t, v, r)
    PROVE  /\ IsList(a, T)
           /\ Len(a) >= 2
           /\ a[1] = w[1]
           /\ a[Len(a)] = Transaction(t, v)
           /\ InOrder(w) =>
                 /\ InOrder(a)
                 /\ LastIsNew(a, w, t)
                 /\ r = 0 => KeepsBefore(a, w, t)
<1>1. PICK n \in 1 .. Len(w) :
         /\ Delete_From(w, t) = SubSeq(w, 1, n)
         /\ InOrder(w) => \A j \in 2 .. n : w[j].time < t
         /\ \A k \in 1 .. Len(w) : (\A j \in 2 .. k : w[j].time < t) => k <= n
  BY DeleteFrom
<1> DEFINE x == Transaction(t, v)
           b == Append(SubSeq(w, 1, n), x)
<1>2. /\ b \in Seq(T) /\ Len(b) = n + 1 /\ b[n + 1] = x
      /\ \A i \in 1 .. n : b[i] = w[i]
  BY DEF IsList
<1>3. IsList(b, T)
  BY <1>2 DEF IsList
<1>4. x.time = t
  BY DEF Transaction
<1>5. PICK p \in 1 .. Len(b) : \E g \in 0 .. Len(b) - 1 :
         /\ g > 0 => p + g < Len(b)
         /\ Without(a, b, p, g)
         /\ r = 0 => g = 0
         /\ a \in Seq(T)
  <2>1. CASE r > 0
    <3>1. a = Reject_Pulses(b, r)
      BY <1>1, <2>1 DEF Assigned
    <3> HIDE DEF b
    <3>2. /\ a \in Seq(T)
          /\ \E p \in 1 .. Len(b) : \E g \in 0 .. Len(b) - 1 :
                /\ g > 0 => p + g < Len(b)
                /\ Without(a, b, p, g)
      BY <1>3, <3>1, RejectPulses
    <3> QED
      BY <2>1, <3>2
  <2>2. CASE ~(r > 0)
    <3>1. a = b
      BY <1>1, <2>2 DEF Assigned
    <3> HIDE DEF b
    <3>2. Without(a, b, n, 0)
      BY <3>1, <1>2 DEF Without
    <3>3. n \in 1 .. Len(b) /\ 0 \in 0 .. Len(b) - 1 /\ ~(0 > 0)
      BY <1>2
    <3> QED
      BY <3>1, <3>2, <3>3, <1>2
  <2> QED
    BY <2>1, <2>2
<1>6. PICK g \in 0 .. Len(b) - 1 :
         /\ g > 0 => p + g < Len(b)
         /\ Without(a, b, p, g)
         /\ r = 0 => g = 0
         /\ a \in Seq(T)
  BY <1>5
<1> HIDE DEF b, x
<1>7. /\ Len(a) = n + 1 - g
      /\ \A i \in 1 .. Len(a) : a[i] = b[IF i <= p THEN i ELSE i + g]
      /\ p \in 1 .. n + 1 /\ g \in 0 .. n
      /\ g > 0 => p + g < n + 1
      /\ n \in Nat /\ n >= 1 /\ Len(a) \in Nat /\ Len(a) >= 2
  BY <1>2, <1>6 DEF Without, IsList
<1>8. IsList(a, T)
  BY <1>6, <1>7 DEF IsList
<1>9. a[1] = w[1]
  BY <1>2, <1>7
<1>10. a[Len(a)] = x
  <2>1. a[Len(a)] = b[IF Len(a) <= p THEN Len(a) ELSE Len(a) + g]
    BY <1>7
  <2>2. (IF Len(a) <= p THEN Len(a) ELSE Len(a) + g) = n + 1
    BY <1>7
  <2> QED
    BY <1>2, <2>1, <2>2
<1>11. ASSUME InOrder(w) PROVE InOrder(b) /\ \A i \in 2 .. n : b[i].time < t
  <2>1. \A i \in 2 .. n : b[i] = w[i] /\ w[i].time < t
    BY <1>1, <1>2, <1>11
  <2>2. \A i \in 2 .. n : i \in 2 .. Len(w)
    BY DEF IsList
  <2>3. \A i, j \in 2 .. n : i < j => b[i].time < b[j].time
    BY <2>1, <2>2, <1>11 DEF InOrder
  <2>4. \A i \in 2 .. n + 1 : i = n + 1 \/ i \in 2 .. n
    BY <1>7
  <2>5. \A i, j \in 2 .. n + 1 : i < j => i \in 2 .. n
    BY <1>7
  <2> QED
    BY <1>2, <1>4, <2>1, <2>3, <2>4, <2>5 DEF InOrder
<1>12. ASSUME InOrder(w) PROVE InOrder(a)
  <2> SUFFICES ASSUME NEW i \in 2 .. Len(a), NEW j \in 2 .. Len(a), i < j
               PROVE  a[i].time < a[j].time
    BY DEF InOrder
  <2> DEFINE f(k) == IF k <= p THEN k ELSE k + g
  <2>1. a[i] = b[f(i)] /\ a[j] = b[f(j)]
    BY <1>7
  <2>2. f(i) \in 2 .. Len(b) /\ f(j) \in 2 .. Len(b) /\ f(i) < f(j)
    BY <1>2, <1>7
  <2> HIDE DEF f
  <2> QED
    BY <2>1, <2>2, <1>11, <1>12 DEF InOrder
<1>13. ASSUME InOrder(w), NEW i \in 2 .. Len(a) - 1
       PROVE  \E j \in 2 .. Len(w) : a[i] = w[j] /\ w[j].time < t
  <2> DEFINE j == IF i <= p THEN i ELSE i + g
  <2>1. a[i] = b[j]
    BY SMTT(20), <1>7
  <2>2. j \in 2 .. n /\ j \in 2 .. Len(w) /\ j \in 1 .. n
    BY <1>7 DEF IsList
  <2> HIDE DEF j
  <2>3. a[i] = w[j] /\ w[j].time < t
    BY <1>1, <1>2, <2>1, <2>2, <1>13
  <2> QED
    BY <2>2, <2>3
<1>14. ASSUME InOrder(w), r = 0, NEW j \in 2 .. Len(w), w[j].time < t
       PROVE  \E i \in 2 .. Len(a) : a[i] = w[j]
  <2>1. \A k \in 2 .. j : w[k].time < t
    <3> SUFFICES ASSUME NEW k \in 2 .. j PROVE w[k].time < t
      OBVIOUS
    <3>1. k \in 2 .. Len(w) /\ w[k] \in T /\ w[j] \in T
      BY DEF IsList
    <3>2. w[k].time \in Int /\ w[j].time \in Int
      BY <3>1 DEF IsList
    <3>3. k < j => w[k].time < w[j].time
      BY <3>1, <1>14 DEF InOrder
    <3>4. k = j \/ k < j
      OBVIOUS
    <3> QED
      BY <3>2, <3>3, <3>4, <1>14
  <2>2. j <= n /\ j \in 1 .. n
    BY <1>1, <2>1
  <2>3. a[j] = w[j] /\ j \in 2 .. Len(a)
    BY <1>2, <1>6, <1>7, <1>14, <2>2
  <2> QED
    BY <2>3
<1> QED
  BY <1>7, <1>8, <1>9, <1>10, <1>12, <1>13, <1>14 DEF x, LastIsNew, KeepsBefore
=============================================================================
