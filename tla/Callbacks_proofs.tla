-------------------------- MODULE Callbacks_proofs --------------------------
(***************************************************************************)
(* Proofs about Callbacks, for any finite set of cells, any registrations  *)
(* and any times: no cell is lost or shared, the first timeout is exact,   *)
(* and the cells implement CallbackQueue.  The invariant speaks of three   *)
(* sequences of cells, which are what the links make of First, Time_First  *)
(* and Recycled_Handles.                                                   *)
(***************************************************************************)
EXTENDS Callbacks, SubsequenceLemmas

(***************************************************************************)
(* Lists of linked cells, for any finite set of cells: what Chain returns, *)
(* and what the updates of the links in grt-callbacks.adb do to a list.    *)
(***************************************************************************)

Cells(s) == {s[i] : i \in 1 .. Len(s)}

Distinct(s) == \A i, j \in 1 .. Len(s) : s[i] = s[j] => i = j

\* The cell number i of a list, or Null.
Get(s, i) == IF i \in 1 .. Len(s) THEN s[i] ELSE Null

Linked(links, s) == \A i \in 1 .. Len(s) : links[s[i]] = Get(s, i + 1)

\* The cells of s are what one meets from c on.
IsPath(links, s, c) ==
    /\ s \in Seq(Cell)
    /\ Distinct(s)
    /\ Linked(links, s)
    /\ c = Get(s, 1)

Links == [Cell -> Cell \cup {Null}]

\* A list has no more cells than there are.
LEMMA ListIsShort ==
    ASSUME NEW s \in Seq(Cell), Distinct(s)
    PROVE  /\ Len(s) \in Nat /\ Cardinality(Cell) \in Nat /\ Len(s) <= Cardinality(Cell)
           /\ IsFiniteSet(Cells(s)) /\ Cardinality(Cells(s)) = Len(s)
           /\ Cells(s) \subseteq Cell
<1>1. Len(s) \in Nat /\ s \in [1 .. Len(s) -> Cell]
  BY LenProperties
<1>2. IsFiniteSet(1 .. Len(s)) /\ Cardinality(1 .. Len(s)) = Len(s)
  BY <1>1, FS_Interval
<1>3. s \in Bijection(1 .. Len(s), Cells(s))
  BY <1>1 DEF Bijection, Injection, Surjection, IsInjective, Distinct, Cells
<1>4. IsFiniteSet(Cells(s)) /\ Cardinality(Cells(s)) = Len(s)
  BY <1>2, <1>3, FS_Bijection DEF ExistsBijection
<1>5. Cells(s) \subseteq Cell /\ IsFiniteSet(Cell)
  BY <1>1, CallbackAssumption DEF Cells
<1>6. Cardinality(Cell) \in Nat /\ Cardinality(Cells(s)) <= Cardinality(Cell)
  BY <1>5, FS_Subset, FS_CardinalityType
<1> QED
  BY <1>1, <1>4, <1>5, <1>6

\* Chain finds the list.
LEMMA ChainIsPath ==
    ASSUME NEW links \in Links, NEW s, NEW c, IsPath(links, s, c)
    PROVE  Chain(links, c) = s
<1> DEFINE N == Cardinality(Cell)
           Step(f) == [i \in 0 .. N |-> IF i = 0 THEN c
                                        ELSE IF f[i - 1] = Null THEN Null
                                        ELSE links[f[i - 1]]]
           g == [i \in 0 .. N |-> Get(s, i + 1)]
           r == Reached(links, c)
<1>1. /\ s \in Seq(Cell) /\ Len(s) \in Nat /\ N \in Nat /\ Len(s) <= N
      /\ \A i \in 1 .. Len(s) : s[i] \in Cell /\ s[i] # Null
  BY ListIsShort, CallbackAssumption DEF IsPath
<1>2. g = Step(g)
  <2> SUFFICES ASSUME NEW i \in 0 .. N
               PROVE  g[i] = IF i = 0 THEN c ELSE IF g[i - 1] = Null THEN Null ELSE links[g[i - 1]]
    OBVIOUS
  <2>1. CASE i = 0
    BY <1>1, <2>1 DEF IsPath
  <2>2. CASE i # 0 /\ i \in 1 .. Len(s)
    <3>1. g[i - 1] = s[i] /\ s[i] # Null
      BY <1>1, <2>2 DEF Get
    <3>2. links[s[i]] = Get(s, i + 1)
      BY <2>2 DEF IsPath, Linked
    <3> QED
      BY <2>2, <3>1, <3>2
  <2>3. CASE i # 0 /\ i \notin 1 .. Len(s)
    <3>1. g[i - 1] = Null /\ g[i] = Null
      BY <1>1, <2>3 DEF Get
    <3> QED
      BY <2>3, <3>1
  <2> QED
    BY <2>1, <2>2, <2>3
<1>3. r = Step(r)
  <2>1. r = CHOOSE f : f = Step(f)
    BY DEF Reached
  <2> HIDE DEF Step, g
  <2> QED
    BY <1>2, <2>1
<1>4. r = g
  <2> DEFINE bad == {i \in 0 .. N : r[i] # g[i]}
  <2> SUFFICES ASSUME bad # {} PROVE FALSE
    <3>1. bad = {} => \A i \in 0 .. N : r[i] = g[i]
      OBVIOUS
    <3>2. r = [i \in 0 .. N |-> r[i]]
      <4> HIDE DEF r
      <4>1. DOMAIN Step(r) = 0 .. N
        OBVIOUS
      <4> QED
        BY <1>3, <4>1
    <3> HIDE DEF r, bad
    <3> QED
      BY <3>1, <3>2
  <2>1. Min(bad) \in bad /\ \A i \in bad : Min(bad) <= i
    <3>1. bad \in SUBSET Nat
      BY <1>1
    <3> HIDE DEF bad
    <3> QED
      BY <3>1, LeastElement
  <2> DEFINE m == Min(bad)
  <2>2. m \in 0 .. N /\ r[m] # g[m] /\ \A i \in 0 .. N : r[i] # g[i] => m <= i
    BY <2>1
  <2> HIDE DEF m, bad, r, g
  <2>3. r[m] = IF m = 0 THEN c ELSE IF r[m - 1] = Null THEN Null ELSE links[r[m - 1]]
    BY <1>3, <2>2
  <2>4. g[m] = IF m = 0 THEN c ELSE IF g[m - 1] = Null THEN Null ELSE links[g[m - 1]]
    BY <1>2, <2>2
  <2>5. m # 0 => r[m - 1] = g[m - 1]
    <3>1. m # 0 => m - 1 \in 0 .. N /\ ~(m <= m - 1)
      BY <1>1, <2>2
    <3> QED
      BY <2>2, <3>1
  <2> QED
    BY <2>2, <2>3, <2>4, <2>5
<1>5. {i \in 0 .. N : g[i] # Null} = 0 .. Len(s) - 1
  BY <1>1 DEF Get
<1>6. Cardinality(0 .. Len(s) - 1) = Len(s)
  <2>1. 0 \in Int /\ Len(s) - 1 \in Int
    BY <1>1
  <2>2. Cardinality(0 .. Len(s) - 1) = IF 0 > Len(s) - 1 THEN 0 ELSE Len(s) - 1 - 0 + 1
    BY <2>1, FS_Interval
  <2> QED
    BY <1>1, <2>2
<1>7. Chain(links, c) = [i \in 1 .. Len(s) |-> g[i - 1]]
  <2>1. DOMAIN g = 0 .. N
    OBVIOUS
  <2> HIDE DEF g, N
  <2> QED
    BY <1>4, <1>5, <1>6, <2>1 DEF Chain
<1>8. \A i \in 1 .. Len(s) : g[i - 1] = s[i]
  BY <1>1 DEF Get
<1>9. s = [i \in 1 .. Len(s) |-> s[i]]
  BY <1>1
<1> QED
  BY <1>7, <1>8, <1>9

\* Links elsewhere do not matter to a list.
LEMMA SamePath ==
    ASSUME NEW links, NEW links2, NEW s, NEW c, IsPath(links, s, c),
           \A d \in Cells(s) : links2[d] = links[d]
    PROVE  IsPath(links2, s, c)
<1>1. \A i \in 1 .. Len(s) : links2[s[i]] = links[s[i]]
  BY DEF Cells
<1> QED
  BY <1>1 DEF IsPath, Linked

\* The cell h, which was not in the list, goes after the first n cells.
LEMMA InsertPath ==
    ASSUME NEW links, NEW links2, NEW s, NEW c, IsPath(links, s, c),
           NEW n \in 0 .. Len(s), NEW h \in Cell, h \notin Cells(s),
           links2[h] = Get(s, n + 1),
           n > 0 => links2[s[n]] = h,
           \A i \in 1 .. Len(s) : i # n => links2[s[i]] = links[s[i]]
    PROVE  /\ IsPath(links2, Inserted(s, n, h), IF n = 0 THEN h ELSE c)
           /\ Cells(Inserted(s, n, h)) = Cells(s) \cup {h}
<1> DEFINE x == Inserted(s, n, h)
<1>1. s \in Seq(Cell) /\ Len(s) \in Nat /\ n \in Nat /\ n <= Len(s)
  BY DEF IsPath
<1>2. /\ x \in Seq(Cell)
      /\ Len(x) = Len(s) + 1
      /\ \A i \in 1 .. n : x[i] = s[i]
      /\ x[n + 1] = h
      /\ \A i \in n + 1 .. Len(s) : x[i + 1] = s[i]
  <2>1. x \in Seq(Cell) /\ PutsIn(x, s, n, h)
    BY <1>1, InsertedElements
  <2> QED
    BY <2>1 DEF PutsIn
<1> HIDE DEF x
<1>3. \A k \in 1 .. Len(x) : k \in 1 .. n \/ k = n + 1 \/ \E i \in n + 1 .. Len(s) : k = i + 1
  <2> SUFFICES ASSUME NEW k \in 1 .. Len(x), k \notin 1 .. n, k # n + 1
               PROVE  \E i \in n + 1 .. Len(s) : k = i + 1
    OBVIOUS
  <2>1. k - 1 \in n + 1 .. Len(s) /\ k = (k - 1) + 1
    BY <1>1, <1>2
  <2> QED
    BY <2>1
<1> DEFINE from(k) == IF k <= n THEN k ELSE k - 1
<1>4. \A k \in 1 .. Len(x) : k # n + 1 => from(k) \in 1 .. Len(s) /\ x[k] = s[from(k)]
  <2> SUFFICES ASSUME NEW k \in 1 .. Len(x), k # n + 1
               PROVE  from(k) \in 1 .. Len(s) /\ x[k] = s[from(k)]
    OBVIOUS
  <2>1. CASE k \in 1 .. n
    BY <1>1, <1>2, <2>1
  <2>2. CASE k \notin 1 .. n
    <3>1. PICK i \in n + 1 .. Len(s) : k = i + 1
      BY <1>3, <2>2
    <3>2. from(k) = i /\ i \in 1 .. Len(s)
      BY <1>1, <3>1
    <3> HIDE DEF from
    <3> QED
      BY <1>2, <3>1, <3>2
  <2> QED
    BY <2>1, <2>2
<1>5. Cells(x) = Cells(s) \cup {h}
  <2>1. \A k \in 1 .. Len(x) : x[k] \in Cells(s) \cup {h}
    <3> HIDE DEF from
    <3> QED
      BY <1>2, <1>4 DEF Cells
  <2>2. \A i \in 1 .. Len(s) : s[i] \in Cells(x)
    <3> SUFFICES ASSUME NEW i \in 1 .. Len(s) PROVE \E k \in 1 .. Len(x) : x[k] = s[i]
      BY DEF Cells
    <3>1. CASE i \in 1 .. n
      <4>1. i \in 1 .. Len(x)
        BY <1>1, <1>2
      <4> QED
        BY <1>2, <3>1, <4>1
    <3>2. CASE i \in n + 1 .. Len(s)
      <4>1. i + 1 \in 1 .. Len(x)
        BY <1>1, <1>2, <3>2
      <4> QED
        BY <1>2, <3>2, <4>1
    <3> QED
      BY <1>1, <3>1, <3>2
  <2>3. h \in Cells(x)
    <3>1. n + 1 \in 1 .. Len(x)
      BY <1>1, <1>2
    <3> QED
      BY <1>2, <3>1 DEF Cells
  <2> QED
    BY <2>1, <2>2, <2>3 DEF Cells
<1>6. Distinct(x)
  <2> SUFFICES ASSUME NEW j \in 1 .. Len(x), NEW k \in 1 .. Len(x), x[j] = x[k]
               PROVE  j = k
    BY DEF Distinct
  <2>1. \A i \in 1 .. Len(x) : i # n + 1 => x[i] # h
    <3> HIDE DEF from
    <3>1. \A i \in 1 .. Len(s) : s[i] # h
      BY DEF Cells
    <3> QED
      BY <1>4, <3>1
  <2>2. CASE j = n + 1 \/ k = n + 1
    BY <1>2, <2>1, <2>2
  <2>3. CASE j # n + 1 /\ k # n + 1
    <3>1. from(j) = from(k)
      <4> HIDE DEF from
      <4>1. from(j) \in 1 .. Len(s) /\ from(k) \in 1 .. Len(s) /\ s[from(j)] = s[from(k)]
        BY <1>4, <2>3
      <4> QED
        BY <4>1 DEF IsPath, Distinct
    <3> QED
      BY <1>1, <1>2, <2>3, <3>1
  <2> QED
    BY <2>2, <2>3
<1>7. Linked(links2, x)
  <2> SUFFICES ASSUME NEW k \in 1 .. Len(x) PROVE links2[x[k]] = Get(x, k + 1)
    BY DEF Linked
  <2>0. \A i \in 1 .. Len(s) : links[s[i]] = Get(s, i + 1)
    BY DEF IsPath, Linked
  <2>1. CASE k \in 1 .. n - 1
    <3>1. k \in 1 .. Len(s) /\ k # n /\ k \in 1 .. n /\ k + 1 \in 1 .. n /\ k + 1 \in 1 .. Len(s)
          /\ k + 1 \in 1 .. Len(x)
      BY <1>1, <1>2, <2>1
    <3>2. links2[s[k]] = Get(s, k + 1)
      BY <2>0, <3>1
    <3>3. x[k] = s[k] /\ x[k + 1] = s[k + 1]
      BY <1>2, <3>1
    <3> QED
      BY <3>1, <3>2, <3>3 DEF Get
  <2>2. CASE k = n /\ n > 0
    <3>1. k \in 1 .. n /\ n + 1 \in 1 .. Len(x)
      BY <1>1, <1>2, <2>2
    <3> QED
      BY <1>2, <2>2, <3>1 DEF Get
  <2>3. CASE k = n + 1
    <3>1. Get(x, n + 2) = Get(s, n + 1)
      <4>1. CASE n + 1 \in 1 .. Len(s)
        <5>1. n + 2 \in 1 .. Len(x) /\ n + 1 \in n + 1 .. Len(s) /\ n + 2 = (n + 1) + 1
          BY <1>1, <1>2, <4>1
        <5>2. x[n + 2] = s[n + 1]
          BY <1>2, <5>1
        <5> QED
          BY <4>1, <5>1, <5>2 DEF Get
      <4>2. CASE n + 1 \notin 1 .. Len(s)
        <5>1. n + 2 \notin 1 .. Len(x)
          BY <1>1, <1>2, <4>2
        <5> QED
          BY <4>2, <5>1 DEF Get
      <4> QED
        BY <4>1, <4>2
    <3>2. k + 1 = n + 2
      BY <1>1, <2>3
    <3> QED
      BY <1>2, <2>3, <3>1, <3>2
  <2>4. CASE k \notin 1 .. n /\ k # n + 1
    <3>1. PICK i \in n + 1 .. Len(s) : k = i + 1
      BY <1>3, <2>4
    <3>2. i \in 1 .. Len(s) /\ i # n /\ x[k] = s[i]
      BY <1>1, <1>2, <3>1
    <3>3. links2[x[k]] = Get(s, i + 1)
      BY <2>0, <3>2
    <3>4. Get(s, i + 1) = Get(x, k + 1)
      <4>1. CASE i + 1 \in 1 .. Len(s)
        <5>1. i + 1 \in n + 1 .. Len(s) /\ k + 1 \in 1 .. Len(x) /\ k + 1 = (i + 1) + 1
          BY <1>1, <1>2, <3>1, <4>1
        <5>2. x[k + 1] = s[i + 1]
          BY <1>2, <5>1
        <5> QED
          BY <4>1, <5>1, <5>2 DEF Get
      <4>2. CASE i + 1 \notin 1 .. Len(s)
        <5>1. k + 1 \notin 1 .. Len(x)
          BY <1>1, <1>2, <3>1, <4>2
        <5> QED
          BY <4>2, <5>1 DEF Get
      <4> QED
        BY <4>1, <4>2
    <3> QED
      BY <3>3, <3>4
  <2>5. k \in 1 .. n - 1 \/ (k = n /\ n > 0) \/ k = n + 1 \/ (k \notin 1 .. n /\ k # n + 1)
    BY <1>1
  <2> QED
    BY <2>1, <2>2, <2>3, <2>4, <2>5
<1>8. Get(x, 1) = IF n = 0 THEN h ELSE c
  <2>1. 1 \in 1 .. Len(x) /\ (n # 0 => 1 \in 1 .. n /\ 1 \in 1 .. Len(s)) /\ (n = 0 => n + 1 = 1)
    BY <1>1, <1>2
  <2> QED
    BY <1>2, <2>1 DEF Get, IsPath
<1> QED
  BY <1>2, <1>5, <1>6, <1>7, <1>8 DEF IsPath, x

\* The cell number p leaves the list.
LEMMA DropPath ==
    ASSUME NEW links, NEW links2, NEW s, NEW c, IsPath(links, s, c),
           NEW p \in 1 .. Len(s),
           p > 1 => links2[s[p - 1]] = links[s[p]],
           \A i \in 1 .. Len(s) : i # p /\ i # p - 1 => links2[s[i]] = links[s[i]]
    PROVE  /\ IsPath(links2, Dropped(s, p), IF p = 1 THEN links[c] ELSE c)
           /\ Cells(Dropped(s, p)) = Cells(s) \ {s[p]}
<1> DEFINE x == Dropped(s, p)
           from(k) == IF k < p THEN k ELSE k + 1
<1>1. s \in Seq(Cell) /\ Len(s) \in Nat /\ p \in Nat /\ 1 <= p /\ p <= Len(s)
  BY DEF IsPath
<1>2. /\ x \in Seq(Cell)
      /\ Len(x) = Len(s) - 1
      /\ \A i \in 1 .. p - 1 : x[i] = s[i]
      /\ \A i \in p + 1 .. Len(s) : x[i - 1] = s[i]
  <2>1. x \in Seq(Cell) /\ TakesOut(x, s, p)
    BY <1>1, DroppedElements
  <2> QED
    BY <2>1 DEF TakesOut
<1> HIDE DEF x
<1>3. \A k \in 1 .. Len(x) : from(k) \in 1 .. Len(s) /\ from(k) # p /\ x[k] = s[from(k)]
  <2> SUFFICES ASSUME NEW k \in 1 .. Len(x)
               PROVE  from(k) \in 1 .. Len(s) /\ from(k) # p /\ x[k] = s[from(k)]
    OBVIOUS
  <2>1. CASE k < p
    <3>1. from(k) = k /\ k \in 1 .. p - 1 /\ k \in 1 .. Len(s) /\ k # p
      BY <1>1, <1>2, <2>1
    <3> HIDE DEF from
    <3> QED
      BY <1>2, <3>1
  <2>2. CASE ~(k < p)
    <3>1. from(k) = k + 1 /\ k + 1 \in p + 1 .. Len(s) /\ k + 1 \in 1 .. Len(s) /\ k + 1 # p
          /\ (k + 1) - 1 = k
      BY <1>1, <1>2, <2>2
    <3>2. x[(k + 1) - 1] = s[k + 1]
      BY <1>2, <3>1
    <3> HIDE DEF from
    <3> QED
      BY <3>1, <3>2
  <2> QED
    BY <2>1, <2>2
<1>4. \A i, j \in 1 .. Len(s) : s[i] = s[j] => i = j
  BY DEF IsPath, Distinct
<1>5. \A i \in 1 .. Len(s) : i # p => \E k \in 1 .. Len(x) : x[k] = s[i]
  <2> SUFFICES ASSUME NEW i \in 1 .. Len(s), i # p PROVE \E k \in 1 .. Len(x) : x[k] = s[i]
    OBVIOUS
  <2>1. CASE i < p
    <3>1. i \in 1 .. Len(x) /\ i \in 1 .. p - 1
      BY <1>1, <1>2, <2>1
    <3> QED
      BY <1>2, <3>1
  <2>2. CASE ~(i < p)
    <3>1. i - 1 \in 1 .. Len(x) /\ i \in p + 1 .. Len(s)
      BY <1>1, <1>2, <2>2
    <3> QED
      BY <1>2, <3>1
  <2> QED
    BY <2>1, <2>2
<1>6. Cells(x) = Cells(s) \ {s[p]}
  <2>1. \A k \in 1 .. Len(x) : x[k] \in Cells(s) \ {s[p]}
    <3> HIDE DEF from
    <3> QED
      BY <1>3, <1>4 DEF Cells
  <2>2. \A i \in 1 .. Len(s) : s[i] # s[p] => s[i] \in Cells(x)
    BY <1>5 DEF Cells
  <2> QED
    BY <2>1, <2>2 DEF Cells
<1>7. Distinct(x)
  <2> SUFFICES ASSUME NEW j \in 1 .. Len(x), NEW k \in 1 .. Len(x), x[j] = x[k]
               PROVE  j = k
    BY DEF Distinct
  <2>1. from(j) = from(k)
    <3> HIDE DEF from
    <3> QED
      BY <1>3, <1>4
  <2> QED
    BY <1>1, <1>2, <2>1
<1>8. Linked(links2, x)
  <2> SUFFICES ASSUME NEW k \in 1 .. Len(x) PROVE links2[x[k]] = Get(x, k + 1)
    BY DEF Linked
  <2>0. \A i \in 1 .. Len(s) : links[s[i]] = Get(s, i + 1)
    BY DEF IsPath, Linked
  <2>1. CASE k < p - 1
    <3>1. /\ k \in 1 .. p - 1 /\ k + 1 \in 1 .. p - 1 /\ k \in 1 .. Len(s) /\ k + 1 \in 1 .. Len(s)
          /\ k + 1 \in 1 .. Len(x) /\ k # p /\ k # p - 1
      BY <1>1, <1>2, <2>1
    <3>2. x[k] = s[k] /\ x[k + 1] = s[k + 1]
      BY <1>2, <3>1
    <3>3. links2[s[k]] = Get(s, k + 1)
      BY <2>0, <3>1
    <3> QED
      BY <3>1, <3>2, <3>3 DEF Get
  <2>2. \A i \in p .. Len(s) : Get(s, i + 1) = Get(x, i)
    <3> SUFFICES ASSUME NEW i \in p .. Len(s) PROVE Get(s, i + 1) = Get(x, i)
      OBVIOUS
    <3>1. CASE i = Len(s)
      <4>1. i + 1 \notin 1 .. Len(s) /\ i \notin 1 .. Len(x)
        BY <1>1, <1>2, <3>1
      <4> QED
        BY <4>1 DEF Get
    <3>2. CASE i # Len(s)
      <4>1. i + 1 \in p + 1 .. Len(s) /\ i + 1 \in 1 .. Len(s) /\ i \in 1 .. Len(x) /\ (i + 1) - 1 = i
        BY <1>1, <1>2, <3>2
      <4>2. x[(i + 1) - 1] = s[i + 1]
        BY <1>2, <4>1
      <4> QED
        BY <4>1, <4>2 DEF Get
    <3> QED
      BY <3>1, <3>2
  <2>3. CASE k = p - 1
    <3>1. k \in 1 .. p - 1 /\ p > 1 /\ p \in p .. Len(s) /\ k + 1 = p
      BY <1>1, <2>3
    <3>2. x[k] = s[p - 1]
      BY <1>2, <2>3, <3>1
    <3>3. links2[x[k]] = Get(s, p + 1)
      BY <2>0, <3>1, <3>2
    <3> QED
      BY <2>2, <3>1, <3>3
  <2>4. CASE ~(k < p) \/ k >= p
    <3>1. /\ k + 1 \in p + 1 .. Len(s) /\ k + 1 \in p .. Len(s) /\ k + 1 \in 1 .. Len(s)
          /\ k + 1 # p /\ k + 1 # p - 1 /\ (k + 1) - 1 = k
      BY <1>1, <1>2, <2>4
    <3>2. x[(k + 1) - 1] = s[k + 1]
      BY <1>2, <3>1
    <3>3. links2[s[k + 1]] = Get(s, (k + 1) + 1)
      BY <2>0, <3>1
    <3>4. Get(s, (k + 1) + 1) = Get(x, k + 1)
      BY <2>2, <3>1
    <3> QED
      BY <3>1, <3>2, <3>3, <3>4
  <2> QED
    BY <1>1, <2>1, <2>3, <2>4
<1>9. Get(x, 1) = IF p = 1 THEN links[c] ELSE c
  <2>1. CASE p = 1
    <3>1. c = s[1] /\ links[s[1]] = Get(s, 2)
      BY <1>1, <2>1 DEF IsPath, Linked, Get
    <3>2. Get(s, 2) = Get(x, 1)
      <4>1. CASE Len(s) = 1
        <5>1. 2 \notin 1 .. Len(s) /\ 1 \notin 1 .. Len(x)
          BY <1>2, <4>1
        <5> QED
          BY <5>1 DEF Get
      <4>2. CASE Len(s) # 1
        <5>1. 2 \in p + 1 .. Len(s) /\ 2 \in 1 .. Len(s) /\ 1 \in 1 .. Len(x) /\ 2 - 1 = 1
          BY <1>1, <1>2, <2>1, <4>2
        <5>2. x[2 - 1] = s[2]
          BY <1>2, <5>1
        <5> QED
          BY <5>1, <5>2 DEF Get
      <4> QED
        BY <4>1, <4>2
    <3> QED
      BY <2>1, <3>1, <3>2
  <2>2. CASE p # 1
    <3>1. 1 \in 1 .. p - 1 /\ 1 \in 1 .. Len(x) /\ 1 \in 1 .. Len(s)
      BY <1>1, <1>2, <2>2
    <3> QED
      BY <1>2, <2>2, <3>1 DEF Get, IsPath
  <2> QED
    BY <2>1, <2>2
<1> QED
  BY <1>2, <1>6, <1>7, <1>8, <1>9 DEF IsPath, x

(***************************************************************************)
(* The invariant and the steps.                                            *)
(***************************************************************************)

\* Every allocated cell is in one of the three lists.
Places(list, timeouts, free) ==
    /\ IsPath(Next_Of, list, First)
    /\ IsPath(Next_Of, timeouts, Time_First)
    /\ IsPath(Next_Of, free, Recycled_Handles)
    /\ Cells(list) \cup Cells(timeouts) \cup Cells(free) = Allocated
    /\ Cells(list) \cap Cells(timeouts) = {}
    /\ Cells(list) \cap Cells(free) = {}
    /\ Cells(timeouts) \cap Cells(free) = {}
    /\ Last = Get(list, Len(list))

\* The lists hold cells of their mode.
Modes(list, timeouts) ==
    /\ \A c \in Cells(list) : Mode[c] # "Timed"
    /\ \A c \in Cells(timeouts) : Mode[c] = "Timed"

\* The timeouts are in ascending order and not past.
Ordered(timeouts) ==
    /\ \A i, j \in 1 .. Len(timeouts) : i < j => T[timeouts[i]] <= T[timeouts[j]]
    /\ \A c \in Cells(timeouts) : T[c] >= Current_Time

\* Call_Callbacks is at the cell number p and stops after the number q.
WalkAt(list, p, q) ==
    /\ p <= q
    /\ walk.cell = list[p]
    /\ walk.prev = Get(list, p - 1)
    /\ walk.last = list[q]

Walking(list) ==
    step \in {"call", "in"} => \E p, q \in 1 .. Len(list) : WalkAt(list, p, q)

Calling == step \notin {"in", "time_in"} => current = None

\* A handle is the cell of its callback, and a callback that may be called has
\* its handle.
Handles(used, free) ==
    /\ \A id \in Id : Cb_Handle[id] \in Cell =>
          Proc[Cb_Handle[id]] = id /\ Cb_Handle[id] \notin free
    /\ \A c \in used : Proc[c] # None => Cb_Handle[Proc[c]] = c

FirstTime(timeouts) == IF Len(timeouts) = 0 THEN TimeHigh ELSE T[timeouts[1]]

Cached(timeouts) ==
    step \notin {"time", "time_in"} => First_Timeout = FirstTime(timeouts)

Shape(list, timeouts, free) ==
    /\ Places(list, timeouts, free)
    /\ Modes(list, timeouts)
    /\ Ordered(timeouts)
    /\ Walking(list)
    /\ Calling
    /\ Handles(Cells(list) \cup Cells(timeouts), Cells(free))
    /\ Cached(timeouts)

\* The inductive invariant.
IInv == TypeOK /\ \E list, timeouts, free \in Seq(Cell) : Shape(list, timeouts, free)

-----------------------------------------------------------------------------
\* What the shape says of the ends of a list.
LEMMA PathEnds ==
    ASSUME NEW links, NEW s, NEW c, IsPath(links, s, c)
    PROVE  /\ s \in Seq(Cell) /\ Len(s) \in Nat
           /\ Cells(s) \subseteq Cell
           /\ \A i \in 1 .. Len(s) : s[i] \in Cells(s) /\ s[i] # Null
           /\ \A i \in Int : Get(s, i) \in Cells(s) \cup {Null}
           /\ c = Null <=> Len(s) = 0
           /\ Len(s) > 0 => c = s[1] /\ c \in Cells(s)
           /\ \A i \in 1 .. Len(s) : links[s[i]] = Get(s, i + 1)
<1>1. s \in Seq(Cell) /\ Len(s) \in Nat /\ \A i \in 1 .. Len(s) : s[i] \in Cell /\ s[i] # Null
  BY CallbackAssumption DEF IsPath
<1>2. \A i \in 1 .. Len(s) : s[i] \in Cells(s)
  BY DEF Cells
<1>3. Cells(s) \subseteq Cell
  BY <1>1 DEF Cells
<1>4. \A i \in Int : Get(s, i) \in Cells(s) \cup {Null}
  BY <1>2 DEF Get
<1>5. c = Null <=> Len(s) = 0
  <2>1. Len(s) = 0 => 1 \notin 1 .. Len(s)
    OBVIOUS
  <2>2. Len(s) # 0 => 1 \in 1 .. Len(s)
    BY <1>1
  <2> QED
    BY <1>1, <2>1, <2>2 DEF IsPath, Get
<1>6. Len(s) > 0 => c = s[1] /\ c \in Cells(s)
  <2>1. Len(s) > 0 => 1 \in 1 .. Len(s)
    BY <1>1
  <2> QED
    BY <1>2, <2>1 DEF IsPath, Get
<1> QED
  BY <1>1, <1>2, <1>3, <1>4, <1>5, <1>6 DEF IsPath, Linked

\* Allocate_Handle returns a cell that is in no list and that no handle names.
LEMMA AllocatedCell ==
    ASSUME TypeOK, NEW list, NEW timeouts, NEW free, Shape(list, timeouts, free), Allocates
    PROVE  LET h == Allocate_Handle
           IN  /\ h \in Cell /\ h # Null
               /\ h \notin Cells(list) /\ h \notin Cells(timeouts)
               /\ \A id \in Id : Cb_Handle[id] # h
               /\ Allocated' = Allocated \cup {h}
               /\ Allocated' \subseteq Cell
               /\ \E free2 \in Seq(Cell) :
                     /\ IsPath(Next_Of, free2, Recycled_Handles')
                     /\ Cells(free2) = Cells(free) \ {h}
<1> DEFINE h == Allocate_Handle
<1>0. IsPath(Next_Of, free, Recycled_Handles)
  BY DEF Shape, Places
<1>1. /\ free \in Seq(Cell) /\ Len(free) \in Nat
      /\ Cells(free) \subseteq Cell
      /\ Recycled_Handles = Null <=> Len(free) = 0
      /\ Len(free) > 0 => Recycled_Handles = free[1] /\ Recycled_Handles \in Cells(free)
  BY <1>0, PathEnds
<1>2. CASE Recycled_Handles = Null
  <2>1. h \in Cell /\ h \notin Allocated
    BY <1>2 DEF Allocate_Handle, Allocates
  <2>2. \A id \in Id : Cb_Handle[id] # h
    BY <2>1, CallbackAssumption DEF TypeOK
  <2>3. Recycled_Handles' = Recycled_Handles /\ Allocated' = Allocated \cup {h}
    BY <1>2 DEF Allocates
  <2>4. h \notin Cells(list) /\ h \notin Cells(timeouts) /\ h \notin Cells(free)
    BY <2>1 DEF Shape, Places
  <2> HIDE DEF h
  <2>5. /\ IsPath(Next_Of, free, Recycled_Handles')
        /\ Cells(free) = Cells(free) \ {h}
    BY <1>0, <2>3, <2>4
  <2>6. h # Null /\ Allocated' \subseteq Cell
    BY <2>1, <2>3, CallbackAssumption DEF TypeOK
  <2> QED
    BY <1>1, <2>1, <2>2, <2>3, <2>4, <2>5, <2>6 DEF h
<1>3. CASE Recycled_Handles # Null
  <2>1. h = Recycled_Handles /\ h = free[1] /\ h \in Cells(free) /\ 1 \in 1 .. Len(free)
    BY <1>1, <1>3 DEF Allocate_Handle
  <2>2. h \in Cell
    BY <1>1, <2>1
  <2>3. \A id \in Id : Cb_Handle[id] # h
    BY <2>1, <2>2 DEF Shape, Handles
  <2>4. Recycled_Handles' = Next_Of[Recycled_Handles] /\ Allocated' = Allocated \cup {h}
    BY <1>3 DEF Allocates
  <2>5. h \notin Cells(list) /\ h \notin Cells(timeouts)
    BY <2>1 DEF Shape, Places
  <2>6. /\ IsPath(Next_Of, Dropped(free, 1), Recycled_Handles')
        /\ Cells(Dropped(free, 1)) = Cells(free) \ {h}
    <3>1. /\ IsPath(Next_Of, Dropped(free, 1), IF 1 = 1 THEN Next_Of[Recycled_Handles] ELSE Recycled_Handles)
          /\ Cells(Dropped(free, 1)) = Cells(free) \ {free[1]}
      BY <1>0, <2>1, DropPath
    <3> QED
      BY <2>1, <2>4, <3>1
  <2>7. Dropped(free, 1) \in Seq(Cell)
    BY <2>6 DEF IsPath
  <2> HIDE DEF h
  <2>8. h # Null /\ Allocated' \subseteq Cell
    BY <2>2, <2>4, CallbackAssumption DEF TypeOK
  <2> QED
    BY <2>2, <2>3, <2>4, <2>5, <2>6, <2>7, <2>8 DEF h
<1> QED
  BY <1>2, <1>3

-----------------------------------------------------------------------------
\* The walk is where it was when cells are only appended.
LEMMA WalkAtAfterAppend ==
    ASSUME NEW list, NEW list2, Len(list) \in Nat, Len(list2) \in Nat,
           Len(list) <= Len(list2),
           \A i \in 1 .. Len(list) : list2[i] = list[i],
           UNCHANGED walkVars,
           NEW p \in 1 .. Len(list), NEW q \in 1 .. Len(list), WalkAt(list, p, q)
    PROVE  WalkAt(list2, p, q)' /\ p \in 1 .. Len(list2) /\ q \in 1 .. Len(list2)
<1>1. p \in 1 .. Len(list2) /\ q \in 1 .. Len(list2)
  OBVIOUS
<1>2. p - 1 \in 1 .. Len(list2) <=> p - 1 \in 1 .. Len(list)
  OBVIOUS
<1>3. Get(list2, p - 1) = Get(list, p - 1)
  BY <1>2 DEF Get
<1>4. WalkAt(list2, p, q)'
  BY <1>3 DEF WalkAt, walkVars
<1> QED
  BY <1>1, <1>4

\* So Walking still holds.
LEMMA WalkAfterAppend ==
    ASSUME NEW list, NEW list2, Walking(list), Len(list) \in Nat, Len(list2) \in Nat,
           Len(list) <= Len(list2),
           \A i \in 1 .. Len(list) : list2[i] = list[i],
           UNCHANGED walkVars
    PROVE  Walking(list2)'
<1> SUFFICES ASSUME step \in {"call", "in"}
             PROVE  \E p, q \in 1 .. Len(list2) : WalkAt(list2, p, q)'
  BY DEF Walking, walkVars
<1>1. PICK p \in 1 .. Len(list), q \in 1 .. Len(list) : WalkAt(list, p, q)
  BY DEF Walking
<1>2. WalkAt(list2, p, q)' /\ p \in 1 .. Len(list2) /\ q \in 1 .. Len(list2)
  BY <1>1, WalkAtAfterAppend
<1> QED
  BY <1>2

\* The new cell h has the handle of id, and no other has.
LEMMA RegisterHandles ==
    ASSUME NEW used \in SUBSET Cell, NEW free, Handles(used, free),
           NEW h \in Cell, NEW id \in Id,
           Proc \in [Cell -> Id \cup {None}],
           Cb_Handle \in [Id -> Allocated \cup {Null, None}],
           Cb_Handle[id] = Null,
           \A x \in Id : Cb_Handle[x] # h,
           Proc' = [Proc EXCEPT ![h] = id],
           Cb_Handle' = [Cb_Handle EXCEPT ![id] = h]
    PROVE  Handles(used \cup {h}, free \ {h})'
<1>1. \A x \in Id : Cb_Handle'[x] = IF x = id THEN h ELSE Cb_Handle[x]
  OBVIOUS
<1>2. \A c \in Cell : Proc'[c] = IF c = h THEN id ELSE Proc[c]
  OBVIOUS
<1>3. ASSUME NEW x \in Id, Cb_Handle'[x] \in Cell
      PROVE  Proc'[Cb_Handle'[x]] = x /\ Cb_Handle'[x] \notin free \ {h}
  <2>1. CASE x = id
    BY <1>1, <1>2, <2>1
  <2>2. CASE x # id
    BY <1>1, <1>2, <1>3, <2>2 DEF Handles
  <2> QED
    BY <2>1, <2>2
<1>4. ASSUME NEW c \in used \cup {h}, Proc'[c] # None
      PROVE  Cb_Handle'[Proc'[c]] = c
  <2>1. CASE c = h
    BY <1>1, <1>2, <2>1
  <2>2. CASE c # h
    <3>1. c \in used /\ c \in Cell
      BY <1>4, <2>2
    <3>2. Proc'[c] = Proc[c] /\ Proc[c] \in Id /\ Cb_Handle[Proc[c]] = c
      BY <1>2, <1>4, <2>2, <3>1 DEF Handles
    <3>3. Proc[c] # id
      BY <3>1, <3>2, CallbackAssumption
    <3> QED
      BY <1>1, <3>2, <3>3
  <2> QED
    BY <2>1, <2>2
<1> QED
  BY <1>3, <1>4 DEF Handles

\* Register_Callback appends the cell h.
LEMMA RegisterKeeps ==
    ASSUME TypeOK, NEW list, NEW timeouts, NEW free, Shape(list, timeouts, free),
           NEW id \in Id, NEW m \in {"Repeat", "Oneshot"}, Register_Callback(id, m),
           NEW h, h = Allocate_Handle
    PROVE  /\ TypeOK'
           /\ \E free2 \in Seq(Cell) : Shape(Inserted(list, Len(list), h), timeouts, free2)'
<1> DEFINE n == Len(list)
           list2 == Inserted(list, n, h)
<1>1. Allocates
  BY DEF Register_Callback
<1>2. /\ h \in Cell /\ h # Null
      /\ h \notin Cells(list) /\ h \notin Cells(timeouts)
      /\ \A x \in Id : Cb_Handle[x] # h
      /\ Allocated' = Allocated \cup {h}
      /\ Allocated' \subseteq Cell
      /\ \E free2 \in Seq(Cell) :
            /\ IsPath(Next_Of, free2, Recycled_Handles')
            /\ Cells(free2) = Cells(free) \ {h}
  BY <1>1, AllocatedCell
<1>3. PICK free2 \in Seq(Cell) : /\ IsPath(Next_Of, free2, Recycled_Handles')
                                 /\ Cells(free2) = Cells(free) \ {h}
  BY <1>2
<1>4. /\ IsPath(Next_Of, list, First)
      /\ IsPath(Next_Of, timeouts, Time_First)
      /\ Cells(list) \cup Cells(timeouts) \cup Cells(free) = Allocated
      /\ Cells(list) \cap Cells(timeouts) = {}
      /\ Cells(list) \cap Cells(free) = {}
      /\ Cells(timeouts) \cap Cells(free) = {}
      /\ Last = Get(list, n)
  BY DEF Shape, Places
<1>5. /\ list \in Seq(Cell) /\ n \in Nat
      /\ Cells(list) \subseteq Cell
      /\ \A i \in 1 .. n : list[i] \in Cells(list) /\ list[i] # Null
      /\ First = Null <=> n = 0
      /\ \A i, j \in 1 .. n : list[i] = list[j] => i = j
  BY <1>4, PathEnds DEF IsPath, Distinct
<1>6. n > 0 => n \in 1 .. n /\ Last = list[n] /\ Last \in Cells(list) /\ First # Null
  BY <1>4, <1>5 DEF Get
<1>7. Next_Of \in [Cell -> Cell \cup {Null}] /\ Last \in Cell \cup {Null}
  BY DEF TypeOK
<1>8. Next_Of' = IF First = Null THEN [Next_Of EXCEPT ![h] = Null]
                 ELSE [[Next_Of EXCEPT ![h] = Null] EXCEPT ![Last] = h]
  BY DEF Register_Callback
<1>9. /\ Next_Of' \in [Cell -> Cell \cup {Null}]
      /\ Next_Of'[h] = Null
      /\ n > 0 => Next_Of'[Last] = h
      /\ \A c \in Cell : c # h /\ (n > 0 => c # Last) => Next_Of'[c] = Next_Of[c]
  <2>1. n = 0 => Next_Of' = [Next_Of EXCEPT ![h] = Null]
    BY <1>5, <1>8
  <2>2. n > 0 => Next_Of' = [[Next_Of EXCEPT ![h] = Null] EXCEPT ![Last] = h] /\ Last # h
                 /\ Last \in Cell
    BY <1>2, <1>5, <1>6, <1>8
  <2>3. n = 0 \/ n > 0
    BY <1>5
  <2> HIDE DEF n
  <2> QED
    BY <1>2, <1>7, <2>1, <2>2, <2>3
<1>10. /\ IsPath(Next_Of', list2, First')
       /\ Cells(list2) = Cells(list) \cup {h}
  <2>1. Next_Of'[h] = Get(list, n + 1)
    <3>1. n + 1 \notin 1 .. Len(list)
      BY <1>5
    <3> QED
      BY <1>9, <3>1 DEF Get
  <2>2. n > 0 => Next_Of'[list[n]] = h
    BY <1>6, <1>9
  <2>3. \A i \in 1 .. Len(list) : i # n => Next_Of'[list[i]] = Next_Of[list[i]]
    <3> SUFFICES ASSUME NEW i \in 1 .. Len(list), i # n PROVE Next_Of'[list[i]] = Next_Of[list[i]]
      OBVIOUS
    <3>1. n > 0 /\ list[i] # list[n] /\ list[i] # h /\ list[i] \in Cell
      BY <1>2, <1>5, <1>6
    <3> QED
      BY <1>6, <1>9, <3>1
  <2>4. n \in 0 .. Len(list)
    BY <1>5
  <2>5. IsPath(Next_Of, list, First) /\ h \in Cell /\ h \notin Cells(list)
    BY <1>2, <1>4
  <2>6. /\ IsPath(Next_Of', Inserted(list, n, h), IF n = 0 THEN h ELSE First)
        /\ Cells(Inserted(list, n, h)) = Cells(list) \cup {h}
    <3> HIDE DEF n
    <3> QED
      BY ONLY <2>1, <2>2, <2>3, <2>4, <2>5, InsertPath
  <2>7. First' = IF n = 0 THEN h ELSE First
    BY <1>5 DEF Register_Callback
  <2> QED
    BY <2>6, <2>7
<1>11. /\ list2 \in Seq(Cell) /\ Len(list2) = n + 1
       /\ \A i \in 1 .. n : list2[i] = list[i]
       /\ list2[n + 1] = h
  <2>1. n \in 0 .. Len(list)
    BY <1>5
  <2>2. list2 \in Seq(Cell) /\ PutsIn(list2, list, n, h)
    BY <1>2, <1>5, <2>1, InsertedElements
  <2> QED
    BY <2>2 DEF PutsIn
<1>12. \A c \in Cells(timeouts) \cup Cells(free2) : Next_Of'[c] = Next_Of[c]
  <2>1. Cells(timeouts) \subseteq Cell /\ Cells(free2) \subseteq Cell
    BY <1>3, <1>4, PathEnds
  <2>2. n > 0 => Last \notin Cells(timeouts) /\ Last \notin Cells(free2)
    BY <1>3, <1>4, <1>6
  <2> QED
    BY <1>2, <1>3, <1>9, <2>1, <2>2
<1>13. /\ IsPath(Next_Of', timeouts, Time_First')
       /\ IsPath(Next_Of', free2, Recycled_Handles')
  <2>1. Time_First' = Time_First
    BY DEF Register_Callback, timeListVars
  <2> QED
    BY <1>3, <1>4, <1>12, <2>1, SamePath
<1>14. Places(list2, timeouts, free2)'
  <2>1. Last' = Get(list2, Len(list2))
    <3>1. n + 1 \in 1 .. n + 1
      BY <1>5
    <3> QED
      BY <1>11, <3>1 DEF Get, Register_Callback
  <2>2. /\ Cells(list2) \cup Cells(timeouts) \cup Cells(free2) = Allocated'
        /\ Cells(list2) \cap Cells(timeouts) = {}
        /\ Cells(list2) \cap Cells(free2) = {}
        /\ Cells(timeouts) \cap Cells(free2) = {}
    BY <1>2, <1>3, <1>4, <1>10
  <2> HIDE DEF list2
  <2> QED
    BY <1>10, <1>13, <2>1, <2>2 DEF Places
<1>15. /\ Mode' = [Mode EXCEPT ![h] = m]
       /\ T' = [T EXCEPT ![h] = 0]
       /\ Proc' = [Proc EXCEPT ![h] = id]
       /\ Cb_Handle' = [Cb_Handle EXCEPT ![id] = h]
       /\ UNCHANGED <<timeListVars, walkVars, Current_Time>>
  BY DEF Register_Callback
<1>16. /\ Mode \in [Cell -> {"Timed", "Repeat", "Oneshot"}]
       /\ T \in [Cell -> 0 .. TimeHigh]
       /\ Proc \in [Cell -> Id \cup {None}]
       /\ Cb_Handle \in [Id -> Allocated \cup {Null, None}]
  BY DEF TypeOK, Nop_Callback
<1>17. Cells(list) \subseteq Cell /\ Cells(timeouts) \subseteq Cell
  BY <1>4, PathEnds
<1>18. Modes(list2, timeouts)'
  <2>1. \A c \in Cells(list2) : Mode'[c] # "Timed"
    BY <1>2, <1>10, <1>15, <1>16, <1>17 DEF Shape, Modes
  <2>2. \A c \in Cells(timeouts) : Mode'[c] = "Timed"
    BY <1>2, <1>15, <1>16, <1>17 DEF Shape, Modes
  <2> HIDE DEF list2
  <2> QED
    BY <2>1, <2>2 DEF Modes
<1>19. Ordered(timeouts)'
  <2>1. \A c \in Cells(timeouts) : T'[c] = T[c]
    BY <1>2, <1>15, <1>16, <1>17
  <2>2. \A i \in 1 .. Len(timeouts) : timeouts[i] \in Cells(timeouts)
    BY DEF Cells
  <2> QED
    BY <1>15, <2>1, <2>2 DEF Shape, Ordered
<1>20. Walking(list2)'
  <2>1. Len(list2) \in Nat /\ Len(list) <= Len(list2) /\ Walking(list)
    BY <1>5, <1>11 DEF Shape
  <2> HIDE DEF list2
  <2> QED
    BY <1>5, <1>11, <1>15, <2>1, WalkAfterAppend
<1>21. Calling'
  BY <1>15 DEF Shape, Calling, walkVars
<1>22. Handles(Cells(list2) \cup Cells(timeouts), Cells(free2))'
  <2> DEFINE used == Cells(list) \cup Cells(timeouts)
  <2>1. Cells(list2) \cup Cells(timeouts) = used \cup {h}
    BY <1>10
  <2>2. Handles(used, Cells(free)) /\ Cb_Handle[id] = Null /\ id \in Id /\ used \in SUBSET Cell
    BY <1>17 DEF Shape, Register_Callback
  <2>3. Handles(used \cup {h}, Cells(free) \ {h})'
    <3> HIDE DEF used
    <3> QED
      BY <1>2, <1>15, <1>16, <2>2, RegisterHandles
  <2> HIDE DEF list2, used
  <2> QED
    BY <1>3, <2>1, <2>3
<1>23. Cached(timeouts)'
  <2>1. Len(timeouts) # 0 => T'[timeouts[1]] = T[timeouts[1]]
    <3>1. Len(timeouts) # 0 => timeouts[1] \in Cells(timeouts)
      BY <1>4, PathEnds
    <3> QED
      BY <1>2, <1>15, <1>16, <1>17, <3>1
  <2> QED
    BY <1>15, <2>1 DEF Shape, Cached, FirstTime, walkVars, timeListVars
<1>24. TypeOK'
  <2>1. /\ {Recycled_Handles', First', Last', Time_First'} \subseteq Allocated' \cup {Null}
    <3>1. Recycled_Handles' \in Cells(free2) \cup {Null}
      BY <1>3, PathEnds
    <3> QED
      BY <1>2, <1>3, <1>4, <3>1 DEF TypeOK, Register_Callback, timeListVars
  <2>2. Cb_Handle' \in [Id -> Allocated' \cup {Null, None}]
    BY <1>2, <1>15, <1>16
  <2>3. Proc' \in [Cell -> Id \cup {None}] /\ Mode' \in [Cell -> {"Timed", "Repeat", "Oneshot"}]
        /\ T' \in [Cell -> 0 .. TimeHigh]
    <3>1. m \in {"Timed", "Repeat", "Oneshot"} /\ 0 \in 0 .. TimeHigh
      BY CallbackAssumption
    <3>2. T' \in [Cell -> 0 .. TimeHigh]
      BY <1>15, <1>16, <3>1
    <3>3. Mode' \in [Cell -> {"Timed", "Repeat", "Oneshot"}]
      BY <1>15, <1>16, <3>1
    <3>4. Proc' \in [Cell -> Id \cup {None}]
      BY <1>15, <1>16
    <3> QED
      BY <3>2, <3>3, <3>4
  <2>4. walk' \in [cell : Allocated' \cup {Null}, prev : Allocated' \cup {Null},
                   last : Allocated' \cup {Null}]
    BY <1>2, <1>15 DEF TypeOK, walkVars
  <2>5. First_Timeout' \in 0 .. TimeHigh /\ step' \in {"idle", "call", "in", "end", "time", "time_in"}
        /\ current' \in Id \cup {None} /\ Current_Time' \in 0 .. TimeHigh
    BY <1>15 DEF TypeOK, walkVars, timeListVars
  <2> QED
    BY <1>2, <1>9, <2>1, <2>2, <2>3, <2>4, <2>5 DEF TypeOK, Nop_Callback
<1>25. Shape(list2, timeouts, free2)'
  <2> HIDE DEF list2
  <2> QED
    BY <1>14, <1>18, <1>19, <1>20, <1>21, <1>22, <1>23 DEF Shape
<1> QED
  BY <1>24, <1>25

\* The place of a new timeout: after those at the same time.
LEMMA TimeoutPosition ==
    ASSUME TypeOK, NEW list, NEW timeouts, NEW free, Shape(list, timeouts, free),
           NEW t \in 0 .. TimeHigh,
           NEW n, n = Before(timeouts, t)
    PROVE  /\ Chain(Next_Of, Time_First) = timeouts
           /\ n \in 0 .. Len(timeouts)
           /\ \A j \in 1 .. n : T[timeouts[j]] <= t
           /\ \A j \in n + 1 .. Len(timeouts) : T[timeouts[j]] > t
<1> DEFINE S == {i \in 0 .. Len(timeouts) : \A j \in 1 .. i : Passes(timeouts[j], t)}
<1>1. IsPath(Next_Of, timeouts, Time_First)
  BY DEF Shape, Places
<1>2. Chain(Next_Of, Time_First) = timeouts
  <2>1. Next_Of \in Links
    BY DEF TypeOK, Links
  <2> QED
    BY <1>1, <2>1, ChainIsPath
<1>3. /\ Len(timeouts) \in Nat
      /\ \A i \in 1 .. Len(timeouts) : timeouts[i] \in Cell
  BY <1>1 DEF IsPath
<1>4. \A i \in 1 .. Len(timeouts) : T[timeouts[i]] \in Nat
  BY <1>3, CallbackAssumption DEF TypeOK
<1>5. S \in SUBSET (0 .. Len(timeouts)) /\ S # {}
  <2>1. 0 \in S
    BY <1>3
  <2> QED
    BY <2>1
<1>6. Max(S) \in S /\ \A i \in S : i <= Max(S)
  <2> HIDE DEF S
  <2> QED
    BY <1>3, <1>5, GreatestElement
<1>7. n \in 0 .. Len(timeouts) /\ \A j \in 1 .. n : Passes(timeouts[j], t)
  BY <1>6 DEF Before
<1>8. \A i \in 0 .. Len(timeouts) : (\A j \in 1 .. i : Passes(timeouts[j], t)) => i <= n
  BY <1>6 DEF Before
<1> HIDE DEF S
<1>9. ASSUME NEW j \in n + 1 .. Len(timeouts) PROVE T[timeouts[j]] > t
  <2>1. n + 1 \in 0 .. Len(timeouts) /\ n + 1 \in 1 .. Len(timeouts) /\ ~(n + 1 <= n)
        /\ j \in 1 .. Len(timeouts) /\ (n + 1 = j \/ n + 1 < j)
    BY <1>3, <1>7
  <2>2. \A k \in 1 .. n + 1 : k \in 1 .. n \/ k = n + 1
    BY <1>7
  <2>3. ~Passes(timeouts[n + 1], t)
    BY <1>7, <1>8, <2>1, <2>2
  <2>4. ~(T[timeouts[n + 1]] <= t)
    BY <2>3 DEF Passes
  <2>5. n + 1 = j \/ T[timeouts[n + 1]] <= T[timeouts[j]]
    BY <2>1 DEF Shape, Ordered
  <2> QED
    BY <1>4, <2>1, <2>4, <2>5
<1> QED
  BY <1>2, <1>7, <1>9 DEF Passes

\* Register_Callback_At puts the cell h after the n timeouts that pass.
LEMMA RegisterAtKeeps ==
    ASSUME TypeOK, NEW list, NEW timeouts, NEW free, Shape(list, timeouts, free),
           NEW id \in Id, NEW t \in 0 .. TimeHigh, Register_Callback_At(id, t),
           NEW h, h = Allocate_Handle,
           NEW n, n = Before(timeouts, t)
    PROVE  /\ TypeOK'
           /\ \E free2 \in Seq(Cell) : Shape(list, Inserted(timeouts, n, h), free2)'
<1> DEFINE timeouts2 == Inserted(timeouts, n, h)
<1>1. Allocates
  BY DEF Register_Callback_At
<1>2. /\ h \in Cell /\ h # Null
      /\ h \notin Cells(list) /\ h \notin Cells(timeouts)
      /\ \A x \in Id : Cb_Handle[x] # h
      /\ Allocated' = Allocated \cup {h}
      /\ Allocated' \subseteq Cell
      /\ \E free2 \in Seq(Cell) :
            /\ IsPath(Next_Of, free2, Recycled_Handles')
            /\ Cells(free2) = Cells(free) \ {h}
  BY <1>1, AllocatedCell
<1>3. PICK free2 \in Seq(Cell) : /\ IsPath(Next_Of, free2, Recycled_Handles')
                                 /\ Cells(free2) = Cells(free) \ {h}
  BY <1>2
<1>4. /\ IsPath(Next_Of, list, First)
      /\ IsPath(Next_Of, timeouts, Time_First)
      /\ Cells(list) \cup Cells(timeouts) \cup Cells(free) = Allocated
      /\ Cells(list) \cap Cells(timeouts) = {}
      /\ Cells(list) \cap Cells(free) = {}
      /\ Cells(timeouts) \cap Cells(free) = {}
      /\ Last = Get(list, Len(list))
  BY DEF Shape, Places
<1>5. /\ timeouts \in Seq(Cell) /\ Len(timeouts) \in Nat
      /\ Cells(timeouts) \subseteq Cell
      /\ \A i \in 1 .. Len(timeouts) : timeouts[i] \in Cells(timeouts) /\ timeouts[i] # Null
      /\ \A i, j \in 1 .. Len(timeouts) : timeouts[i] = timeouts[j] => i = j
  BY <1>4, PathEnds DEF IsPath, Distinct
<1>6. /\ Chain(Next_Of, Time_First) = timeouts
      /\ n \in 0 .. Len(timeouts)
      /\ \A j \in 1 .. n : T[timeouts[j]] <= t
      /\ \A j \in n + 1 .. Len(timeouts) : T[timeouts[j]] > t
  BY TimeoutPosition
<1>7. /\ Next_Of' = IF n = 0 THEN [Next_Of EXCEPT ![h] = Get(timeouts, n + 1)]
                    ELSE [[Next_Of EXCEPT ![h] = Get(timeouts, n + 1)] EXCEPT ![timeouts[n]] = h]
      /\ Time_First' = IF n = 0 THEN h ELSE Time_First
      /\ First_Timeout' = IF n = 0 THEN t ELSE First_Timeout
      /\ Mode' = [Mode EXCEPT ![h] = "Timed"]
      /\ T' = [T EXCEPT ![h] = t]
      /\ Proc' = [Proc EXCEPT ![h] = id]
      /\ Cb_Handle' = [Cb_Handle EXCEPT ![id] = h]
      /\ Cb_Handle[id] = Null
      /\ t >= Current_Time
      /\ UNCHANGED <<listVars, walkVars, Current_Time>>
  <2>1. (IF n < Len(timeouts) THEN timeouts[n + 1] ELSE Null) = Get(timeouts, n + 1)
    <3>1. n < Len(timeouts) <=> n + 1 \in 1 .. Len(timeouts)
      BY <1>5, <1>6
    <3> QED
      BY <3>1 DEF Get
  <2>2. /\ Next_Of' = IF n = 0 THEN [Next_Of EXCEPT ![h] = Get(timeouts, n + 1)]
                    ELSE [[Next_Of EXCEPT ![h] = Get(timeouts, n + 1)] EXCEPT ![timeouts[n]] = h]
        /\ Time_First' = IF n = 0 THEN h ELSE Time_First
        /\ First_Timeout' = IF n = 0 THEN t ELSE First_Timeout
    BY <1>6, <2>1 DEF Register_Callback_At, timeListVars
  <2>3. t >= Current_Time
    BY CallbackAssumption DEF Register_Callback_At, TypeOK
  <2> QED
    BY <2>2, <2>3 DEF Register_Callback_At
<1>8. /\ Mode \in [Cell -> {"Timed", "Repeat", "Oneshot"}]
      /\ T \in [Cell -> 0 .. TimeHigh]
      /\ Proc \in [Cell -> Id \cup {None}]
      /\ Cb_Handle \in [Id -> Allocated \cup {Null, None}]
      /\ Next_Of \in [Cell -> Cell \cup {Null}]
      /\ Current_Time \in 0 .. TimeHigh
  BY DEF TypeOK, Nop_Callback
<1>9. /\ Next_Of' \in [Cell -> Cell \cup {Null}]
      /\ Next_Of'[h] = Get(timeouts, n + 1)
      /\ n > 0 => Next_Of'[timeouts[n]] = h
      /\ \A c \in Cell : c # h /\ (n > 0 => c # timeouts[n]) => Next_Of'[c] = Next_Of[c]
  <2>1. Get(timeouts, n + 1) \in Cell \cup {Null}
    BY <1>5 DEF Get
  <2>2. n > 0 => timeouts[n] \in Cell /\ timeouts[n] # h
    <3>1. n > 0 => n \in 1 .. Len(timeouts)
      BY <1>6
    <3> QED
      BY <1>2, <1>5, <3>1
  <2>3. n = 0 \/ (n > 0 /\ n # 0)
    BY <1>6
  <2> DEFINE g == Get(timeouts, n + 1)
             p == timeouts[n]
  <2>4. g \in Cell \cup {Null} /\ (n > 0 => p \in Cell /\ p # h)
        /\ Next_Of' = IF n = 0 THEN [Next_Of EXCEPT ![h] = g]
                      ELSE [[Next_Of EXCEPT ![h] = g] EXCEPT ![p] = h]
    BY <1>7, <2>1, <2>2
  <2> HIDE DEF g, p
  <2>5. /\ Next_Of' \in [Cell -> Cell \cup {Null}]
        /\ Next_Of'[h] = g
        /\ n > 0 => Next_Of'[p] = h
        /\ \A c \in Cell : c # h /\ (n > 0 => c # p) => Next_Of'[c] = Next_Of[c]
    <3>1. CASE n = 0
      <4>1. Next_Of' = [Next_Of EXCEPT ![h] = g]
        BY <2>4, <3>1
      <4> QED
        BY ONLY <1>2, <1>8, <2>4, <3>1, <4>1
    <3>2. CASE n > 0 /\ n # 0
      <4>1. Next_Of' = [[Next_Of EXCEPT ![h] = g] EXCEPT ![p] = h]
        BY <2>4, <3>2
      <4>2. p \in Cell /\ p # h /\ h \in Cell /\ g \in Cell \cup {Null}
        BY <1>2, <2>4, <3>2
      <4>3. Next_Of \in [Cell -> Cell \cup {Null}]
        BY <1>8
      <4> QED
        BY ONLY <3>2, <4>1, <4>2, <4>3
    <3> QED
      BY <2>3, <3>1, <3>2
  <2> QED
    BY <2>5 DEF g, p
<1>10. /\ IsPath(Next_Of', timeouts2, Time_First')
       /\ Cells(timeouts2) = Cells(timeouts) \cup {h}
  <2>1. \A i \in 1 .. Len(timeouts) : i # n => Next_Of'[timeouts[i]] = Next_Of[timeouts[i]]
    <3> SUFFICES ASSUME NEW i \in 1 .. Len(timeouts), i # n
                 PROVE  Next_Of'[timeouts[i]] = Next_Of[timeouts[i]]
      OBVIOUS
    <3>1. timeouts[i] # h /\ timeouts[i] \in Cell
      BY <1>2, <1>5
    <3>2. n > 0 => timeouts[i] # timeouts[n]
      BY <1>5, <1>6
    <3> QED
      BY <1>9, <3>1, <3>2
  <2>2. IsPath(Next_Of, timeouts, Time_First) /\ h \in Cell /\ h \notin Cells(timeouts)
    BY <1>2, <1>4
  <2>3. /\ IsPath(Next_Of', Inserted(timeouts, n, h), IF n = 0 THEN h ELSE Time_First)
        /\ Cells(Inserted(timeouts, n, h)) = Cells(timeouts) \cup {h}
    BY ONLY SMTT(20), <1>6, <1>9, <2>1, <2>2, InsertPath
  <2> QED
    BY <1>7, <2>3
<1>11. /\ timeouts2 \in Seq(Cell) /\ Len(timeouts2) = Len(timeouts) + 1
       /\ \A i \in 1 .. n : timeouts2[i] = timeouts[i]
       /\ timeouts2[n + 1] = h
       /\ \A i \in n + 1 .. Len(timeouts) : timeouts2[i + 1] = timeouts[i]
  <2>1. timeouts2 \in Seq(Cell) /\ PutsIn(timeouts2, timeouts, n, h)
    BY <1>2, <1>5, <1>6, InsertedElements
  <2> QED
    BY <2>1 DEF PutsIn
<1> HIDE DEF timeouts2
<1>12. Cells(list) \subseteq Cell /\ Cells(free2) \subseteq Cell
       /\ \A i \in 1 .. Len(list) : list[i] \in Cells(list)
  BY <1>3, <1>4, PathEnds
<1>13. \A c \in Cells(list) \cup Cells(free2) : Next_Of'[c] = Next_Of[c]
  <2>1. n > 0 => timeouts[n] \notin Cells(list) /\ timeouts[n] \notin Cells(free2)
    <3>1. n > 0 => n \in 1 .. Len(timeouts)
      BY <1>6
    <3>2. n > 0 => timeouts[n] \in Cells(timeouts)
      BY <1>5, <3>1
    <3> QED
      BY <1>3, <1>4, <3>2
  <2> QED
    BY <1>2, <1>3, <1>9, <1>12, <2>1
<1>14. /\ IsPath(Next_Of', list, First')
       /\ IsPath(Next_Of', free2, Recycled_Handles')
  <2>1. First' = First
    BY <1>7 DEF listVars
  <2> QED
    BY <1>3, <1>4, <1>13, <2>1, SamePath
<1>15. Places(list, timeouts2, free2)'
  <2>1. /\ Cells(list) \cup Cells(timeouts2) \cup Cells(free2) = Allocated'
        /\ Cells(list) \cap Cells(timeouts2) = {}
        /\ Cells(list) \cap Cells(free2) = {}
        /\ Cells(timeouts2) \cap Cells(free2) = {}
    BY <1>2, <1>3, <1>4, <1>10
  <2>2. Last' = Get(list, Len(list))
    BY <1>4, <1>7 DEF listVars
  <2> QED
    BY <1>10, <1>14, <2>1, <2>2 DEF Places
<1>16. Modes(list, timeouts2)'
  <2>1. \A c \in Cells(list) : Mode'[c] # "Timed"
    BY <1>2, <1>7, <1>8, <1>12 DEF Shape, Modes
  <2>2. \A c \in Cells(timeouts2) : Mode'[c] = "Timed"
    BY <1>2, <1>5, <1>7, <1>8, <1>10 DEF Shape, Modes
  <2> QED
    BY <2>1, <2>2 DEF Modes
<1>17. /\ T'[h] = t
       /\ \A c \in Cells(timeouts) : T'[c] = T[c]
  BY <1>2, <1>5, <1>7, <1>8
<1>18. Ordered(timeouts2)'
  <2> DEFINE from(k) == IF k <= n THEN k ELSE k - 1
  <2>1. ASSUME NEW k \in 1 .. Len(timeouts2), k # n + 1
        PROVE  from(k) \in 1 .. Len(timeouts) /\ timeouts2[k] = timeouts[from(k)]
    <3>1. CASE k <= n
      <4>1. k \in 1 .. n /\ from(k) = k /\ k \in 1 .. Len(timeouts)
        BY <1>6, <3>1
      <4> QED
        BY <1>11, <4>1
    <3>2. CASE ~(k <= n)
      <4>1. k - 1 \in n + 1 .. Len(timeouts) /\ from(k) = k - 1 /\ k - 1 \in 1 .. Len(timeouts)
            /\ (k - 1) + 1 = k
        BY <1>5, <1>6, <1>11, <2>1, <3>2
      <4> QED
        BY <1>11, <4>1
    <3> QED
      BY <3>1, <3>2
  <2>2. ASSUME NEW i \in 1 .. Len(timeouts2), NEW j \in 1 .. Len(timeouts2), i < j
        PROVE  T'[timeouts2[i]] <= T'[timeouts2[j]]
    <3>1. CASE i = n + 1
      <4>1. j # n + 1 /\ from(j) \in n + 1 .. Len(timeouts)
        BY <1>5, <1>6, <1>11, <2>2, <3>1
      <4>2. timeouts2[j] = timeouts[from(j)] /\ from(j) \in 1 .. Len(timeouts)
        BY <2>1, <4>1
      <4> HIDE DEF from
      <4>3. T'[timeouts2[j]] = T[timeouts[from(j)]]
        BY <1>5, <1>17, <4>2
      <4>4. T[timeouts[from(j)]] > t
        BY <1>6, <4>1
      <4>5. T[timeouts[from(j)]] \in Nat /\ t \in Nat
        BY <1>5, <1>8, <4>2, CallbackAssumption
      <4> QED
        BY <1>11, <1>17, <3>1, <4>3, <4>4, <4>5
    <3>2. CASE j = n + 1
      <4>1. i # n + 1 /\ from(i) \in 1 .. n
        BY <1>5, <1>6, <1>11, <2>2, <3>2
      <4>2. timeouts2[i] = timeouts[from(i)] /\ from(i) \in 1 .. Len(timeouts)
        BY <2>1, <4>1
      <4>3. T'[timeouts2[i]] = T[timeouts[from(i)]] /\ T[timeouts[from(i)]] <= t
        BY <1>5, <1>6, <1>17, <4>1, <4>2
      <4> QED
        BY <1>11, <1>17, <3>2, <4>3
    <3>3. CASE i # n + 1 /\ j # n + 1
      <4>1. /\ timeouts2[i] = timeouts[from(i)] /\ from(i) \in 1 .. Len(timeouts)
            /\ timeouts2[j] = timeouts[from(j)] /\ from(j) \in 1 .. Len(timeouts)
        BY <2>1, <3>3
      <4>2. from(i) < from(j)
        BY <1>6, <1>11, <2>2, <3>3
      <4> HIDE DEF from
      <4>3. T[timeouts[from(i)]] <= T[timeouts[from(j)]]
        BY <4>1, <4>2 DEF Shape, Ordered
      <4> QED
        BY <1>5, <1>17, <4>1, <4>3
    <3> QED
      BY <3>1, <3>2, <3>3
  <2>3. \A c \in Cells(timeouts2) : T'[c] >= Current_Time'
    BY <1>7, <1>10, <1>17 DEF Shape, Ordered
  <2> HIDE DEF from
  <2> QED
    BY <2>2, <2>3 DEF Ordered
<1>19. Walking(list)'
  <2>1. Len(list) \in Nat /\ Len(list) <= Len(list) /\ Walking(list)
        /\ \A i \in 1 .. Len(list) : list[i] = list[i]
    BY <1>4 DEF Shape, IsPath
  <2>2. UNCHANGED walkVars
    BY <1>7
  <2> QED
    BY ONLY <2>1, <2>2, WalkAfterAppend
<1>20. Calling'
  BY <1>7 DEF Shape, Calling, walkVars
<1>21. Handles(Cells(list) \cup Cells(timeouts2), Cells(free2))'
  <2> DEFINE used == Cells(list) \cup Cells(timeouts)
  <2>1. Cells(list) \cup Cells(timeouts2) = used \cup {h}
    BY <1>10
  <2>2. Handles(used, Cells(free)) /\ Cb_Handle[id] = Null /\ id \in Id /\ used \in SUBSET Cell
    BY <1>5, <1>7, <1>12 DEF Shape
  <2>3. Handles(used \cup {h}, Cells(free) \ {h})'
    <3> HIDE DEF used
    <3> QED
      BY <1>2, <1>7, <1>8, <2>2, RegisterHandles
  <2> HIDE DEF used
  <2> QED
    BY <1>3, <2>1, <2>3
<1>22. Cached(timeouts2)'
  <2> SUFFICES ASSUME step \notin {"time", "time_in"}
               PROVE  First_Timeout' = FirstTime(timeouts2)'
    BY <1>7 DEF Cached, walkVars
  <2>1. First_Timeout = FirstTime(timeouts)
    BY DEF Shape, Cached
  <2>2. FirstTime(timeouts2)' = T'[timeouts2[1]]
    BY <1>5, <1>11 DEF FirstTime
  <2>3. CASE n = 0
    BY <1>7, <1>11, <1>17, <2>2, <2>3
  <2>4. CASE n # 0
    <3>1. 1 \in 1 .. n /\ 1 \in 1 .. Len(timeouts) /\ Len(timeouts) # 0
      BY <1>5, <1>6, <2>4
    <3>2. timeouts2[1] = timeouts[1] /\ timeouts[1] \in Cells(timeouts)
      BY <1>5, <1>11, <3>1
    <3> QED
      BY <1>7, <1>17, <2>1, <2>2, <2>4, <3>1, <3>2 DEF FirstTime
  <2> QED
    BY <2>3, <2>4
<1>23. TypeOK'
  <2>1. {Recycled_Handles', First', Last', Time_First'} \subseteq Allocated' \cup {Null}
    <3>1. Recycled_Handles' \in Cells(free2) \cup {Null}
      BY <1>3, PathEnds
    <3> QED
      BY <1>2, <1>3, <1>4, <1>7, <3>1 DEF TypeOK, listVars
  <2>2. Cb_Handle' \in [Id -> Allocated' \cup {Null, None}]
    BY <1>2, <1>7, <1>8
  <2>3. T' \in [Cell -> 0 .. TimeHigh]
    BY <1>7, <1>8
  <2>4. Proc' \in [Cell -> Id \cup {None}]
    BY <1>7, <1>8
  <2>5. Mode' \in [Cell -> {"Timed", "Repeat", "Oneshot"}]
    BY <1>7, <1>8
  <2>6. walk' \in [cell : Allocated' \cup {Null}, prev : Allocated' \cup {Null},
                   last : Allocated' \cup {Null}]
    BY <1>2, <1>7 DEF TypeOK, walkVars
  <2>7. First_Timeout' \in 0 .. TimeHigh /\ step' \in {"idle", "call", "in", "end", "time", "time_in"}
        /\ current' \in Id \cup {None} /\ Current_Time' \in 0 .. TimeHigh
    BY <1>7 DEF TypeOK, walkVars
  <2> QED
    BY <1>2, <1>9, <2>1, <2>2, <2>3, <2>4, <2>5, <2>6, <2>7 DEF TypeOK, Nop_Callback
<1>24. Shape(list, timeouts2, free2)'
  BY <1>15, <1>16, <1>18, <1>19, <1>20, <1>21, <1>22 DEF Shape
<1> QED
  BY <1>23, <1>24 DEF timeouts2

\* The lists are what they were when no link changes.
LEMMA PlacesKept ==
    ASSUME NEW list, NEW timeouts, NEW free, Shape(list, timeouts, free),
           UNCHANGED <<Next_Of, Allocated, Recycled_Handles, First, Last, Time_First>>
    PROVE  Places(list, timeouts, free)'
BY DEF Shape, Places

\* Delete_Callback leaves the cell where it is.
LEMMA DeleteKeeps ==
    ASSUME TypeOK, NEW list, NEW timeouts, NEW free, Shape(list, timeouts, free),
           NEW id \in Id, Delete_Callback(id)
    PROVE  TypeOK' /\ Shape(list, timeouts, free)'
<1> DEFINE h == Cb_Handle[id]
<1>1. h \in Cell
  BY DEF Delete_Callback
<1>2. /\ Proc' = [Proc EXCEPT ![h] = None]
      /\ Mode' = [Mode EXCEPT ![h] = Deleted_Mode(h)]
      /\ Cb_Handle' = [x \in Id |-> IF Cb_Handle[x] = h THEN None ELSE Cb_Handle[x]]
      /\ UNCHANGED <<Next_Of, T, Allocated, Recycled_Handles, listVars,
                     timeListVars, walkVars, Current_Time>>
  BY DEF Delete_Callback, Forget, Nop_Callback
<1>3. /\ Mode \in [Cell -> {"Timed", "Repeat", "Oneshot"}]
      /\ Proc \in [Cell -> Id \cup {None}]
      /\ Cb_Handle \in [Id -> Allocated \cup {Null, None}]
  BY DEF TypeOK, Nop_Callback
<1>4. Cells(list) \subseteq Cell /\ Cells(timeouts) \subseteq Cell
  BY PathEnds DEF Shape, Places
<1> HIDE DEF h
<1>5. /\ \A c \in Cell : Proc'[c] = IF c = h THEN None ELSE Proc[c]
      /\ \A c \in Cell : Mode'[c] = IF c = h THEN Deleted_Mode(h) ELSE Mode[c]
      /\ \A x \in Id : Cb_Handle'[x] = IF Cb_Handle[x] = h THEN None ELSE Cb_Handle[x]
  BY <1>1, <1>2, <1>3
<1>6. Deleted_Mode(h) \in {"Timed", "Repeat", "Oneshot"} /\ (Deleted_Mode(h) = "Timed" <=> Mode[h] = "Timed")
  BY <1>1, <1>3 DEF Deleted_Mode
<1>7. Places(list, timeouts, free)'
  BY <1>2, PlacesKept DEF listVars, timeListVars
<1>8. Modes(list, timeouts)'
  BY <1>4, <1>5, <1>6 DEF Shape, Modes
<1>9. Ordered(timeouts)'
  BY <1>2 DEF Shape, Ordered
<1>10. Walking(list)'
  BY <1>2 DEF Shape, Walking, WalkAt, walkVars
<1>11. Calling'
  BY <1>2 DEF Shape, Calling, walkVars
<1>12. Handles(Cells(list) \cup Cells(timeouts), Cells(free))'
  <2> DEFINE used == Cells(list) \cup Cells(timeouts)
  <2>1. Handles(used, Cells(free)) /\ used \in SUBSET Cell
    BY <1>4 DEF Shape
  <2> HIDE DEF used
  <2>2. ASSUME NEW x \in Id, Cb_Handle'[x] \in Cell
        PROVE  Proc'[Cb_Handle'[x]] = x /\ Cb_Handle'[x] \notin Cells(free)
    <3>1. Cb_Handle'[x] = Cb_Handle[x] /\ Cb_Handle[x] # h
      BY <1>5, <2>2, CallbackAssumption
    <3> QED
      BY <1>5, <2>1, <2>2, <3>1 DEF Handles
  <2>3. ASSUME NEW c \in used, Proc'[c] # None
        PROVE  Cb_Handle'[Proc'[c]] = c
    <3>1. c \in Cell /\ c # h /\ Proc'[c] = Proc[c] /\ Proc[c] \in Id
      BY <1>3, <1>5, <2>1, <2>3
    <3>2. Cb_Handle[Proc[c]] = c
      BY <2>1, <2>3, <3>1 DEF Handles
    <3> QED
      BY <1>5, <3>1, <3>2
  <2>4. Handles(used, Cells(free))'
    BY <2>2, <2>3 DEF Handles
  <2> QED
    BY <2>4 DEF used
<1>13. Cached(timeouts)'
  BY <1>2 DEF Shape, Cached, FirstTime, walkVars, timeListVars
<1>14. TypeOK'
  <2>1. Proc' \in [Cell -> Id \cup {None}] /\ Mode' \in [Cell -> {"Timed", "Repeat", "Oneshot"}]
        /\ Cb_Handle' \in [Id -> Allocated \cup {Null, None}]
    BY <1>2, <1>3, <1>6
  <2> QED
    BY <1>2, <2>1 DEF TypeOK, Nop_Callback, listVars, timeListVars, walkVars
<1> QED
  BY <1>7, <1>8, <1>9, <1>10, <1>11, <1>12, <1>13, <1>14 DEF Shape

\* The steps of the two walks and of the time that leave the cells alone.
LEMMA WalkKeeps ==
    ASSUME TypeOK, NEW list, NEW timeouts, NEW free, Shape(list, timeouts, free),
           \/ Call_Callbacks \/ Call_Cell \/ End_Calls
           \/ Call_Time_Callbacks \/ Return_Timed \/ End_Timed
           \/ \E t \in 0 .. TimeHigh : Advance(t)
    PROVE  TypeOK' /\ Shape(list, timeouts, free)'
<1>1. /\ UNCHANGED cellVars
      /\ UNCHANGED <<Allocated, Recycled_Handles, First, Last, Time_First, Cb_Handle>>
  BY DEF Call_Callbacks, Call_Cell, End_Calls, Call_Time_Callbacks, Return_Timed, End_Timed,
         Advance, cellVars, listVars, timeListVars
<1>2. /\ IsPath(Next_Of, list, First) /\ IsPath(Next_Of, timeouts, Time_First)
      /\ Last = Get(list, Len(list))
  BY DEF Shape, Places
<1>3. /\ Len(list) \in Nat /\ Cells(list) \subseteq Cell
      /\ First = Null <=> Len(list) = 0
      /\ Len(list) > 0 => First = list[1]
  BY <1>2, PathEnds
<1>4. /\ Len(timeouts) \in Nat /\ Cells(timeouts) \subseteq Cell
      /\ \A i \in 1 .. Len(timeouts) : timeouts[i] \in Cells(timeouts)
      /\ Time_First = Null <=> Len(timeouts) = 0
      /\ Len(timeouts) > 0 => Time_First = timeouts[1]
  BY <1>2, PathEnds
<1>5. Places(list, timeouts, free)'
  BY <1>1, PlacesKept DEF cellVars
<1>6. Modes(list, timeouts)'
  BY <1>1 DEF Shape, Modes, cellVars
<1>7. Handles(Cells(list) \cup Cells(timeouts), Cells(free))'
  BY <1>1 DEF Shape, Handles, cellVars
<1>8. \A c \in Cell : T[c] \in 0 .. TimeHigh /\ T[c] \in Nat
  BY CallbackAssumption DEF TypeOK
<1>9. Current_Time \in Nat /\ First_Timeout \in Nat /\ TimeHigh \in Nat
  BY CallbackAssumption DEF TypeOK
<1>10. CASE Call_Callbacks
  <2>1. /\ step' = "call" /\ walk' = [cell |-> First, prev |-> Null, last |-> Last]
        /\ Len(list) > 0 /\ step = "idle"
        /\ UNCHANGED <<timeListVars, current, Current_Time>>
    BY <1>3, <1>10 DEF Call_Callbacks
  <2>2. Walking(list)'
    <3>1. 1 \in 1 .. Len(list) /\ Len(list) \in 1 .. Len(list) /\ 1 <= Len(list) /\ 1 - 1 \notin 1 .. Len(list)
      BY <1>3, <2>1
    <3>2. WalkAt(list, 1, Len(list))'
      BY <1>1, <1>2, <1>3, <2>1, <3>1 DEF WalkAt, Get
    <3> QED
      BY <3>1, <3>2 DEF Walking
  <2>3. Ordered(timeouts)' /\ Calling' /\ Cached(timeouts)'
    BY <1>1, <2>1 DEF Shape, Ordered, Calling, Cached, FirstTime, cellVars, timeListVars
  <2>4. TypeOK'
    BY <1>1, <2>1 DEF TypeOK, cellVars, timeListVars
  <2> QED
    BY <1>5, <1>6, <1>7, <2>2, <2>3, <2>4 DEF Shape
<1>11. CASE Call_Cell
  <2>1. /\ step' = "in" /\ current' = Proc[walk.cell] /\ step = "call"
        /\ UNCHANGED <<timeListVars, walk, Current_Time>>
    BY <1>11 DEF Call_Cell
  <2>2. PICK p \in 1 .. Len(list), q \in 1 .. Len(list) : WalkAt(list, p, q)
    BY <2>1 DEF Shape, Walking
  <2>3. Walking(list)'
    <3>1. WalkAt(list, p, q)'
      BY <2>1, <2>2 DEF WalkAt
    <3> QED
      BY <3>1 DEF Walking
  <2>4. Ordered(timeouts)' /\ Calling' /\ Cached(timeouts)'
    BY <1>1, <2>1 DEF Shape, Ordered, Calling, Cached, FirstTime, cellVars, timeListVars
  <2>5. walk.cell \in Cell
    BY <1>3, <2>2 DEF WalkAt, Cells
  <2>6. TypeOK'
    BY SMTT(20), <1>1, <2>1, <2>5 DEF TypeOK, cellVars, timeListVars, Nop_Callback
  <2> QED
    BY <1>5, <1>6, <1>7, <2>3, <2>4, <2>6 DEF Shape
<1>12. CASE End_Calls \/ Call_Time_Callbacks
  <2>1. /\ step' \in {"idle", "time"} /\ step \in {"end", "idle"}
        /\ UNCHANGED <<timeListVars, walk, current, Current_Time>>
    BY <1>12 DEF End_Calls, Call_Time_Callbacks
  <2>2. Ordered(timeouts)' /\ Calling' /\ Cached(timeouts)' /\ Walking(list)'
    BY <1>1, <2>1 DEF Shape, Ordered, Calling, Cached, FirstTime, cellVars, timeListVars, Walking
  <2>3. TypeOK'
    BY <1>1, <2>1 DEF TypeOK, cellVars, timeListVars
  <2> QED
    BY <1>5, <1>6, <1>7, <2>2, <2>3 DEF Shape
<1>13. CASE Return_Timed
  <2>1. /\ step' = "time" /\ current' = None
        /\ UNCHANGED <<timeListVars, walk, Current_Time>>
    BY <1>13 DEF Return_Timed
  <2>2. Ordered(timeouts)' /\ Calling' /\ Cached(timeouts)' /\ Walking(list)'
    BY <1>1, <2>1 DEF Shape, Ordered, Calling, Cached, cellVars, timeListVars, Walking
  <2>3. TypeOK'
    BY <1>1, <2>1 DEF TypeOK, cellVars, timeListVars
  <2> QED
    BY <1>5, <1>6, <1>7, <2>2, <2>3 DEF Shape
<1>14. CASE End_Timed
  <2>1. /\ step' = "idle" /\ step = "time" /\ First_Timeout' = New_First_Timeout
        /\ UNCHANGED <<walk, current, Current_Time>>
    BY <1>14 DEF End_Timed
  <2>2. New_First_Timeout = FirstTime(timeouts)
    BY <1>4 DEF New_First_Timeout, FirstTime
  <2>3. FirstTime(timeouts)' = FirstTime(timeouts)
    BY <1>1 DEF FirstTime, cellVars
  <2>4. Cached(timeouts)'
    BY <2>1, <2>2, <2>3 DEF Cached
  <2>5. Ordered(timeouts)' /\ Calling' /\ Walking(list)'
    BY <1>1, <2>1 DEF Shape, Ordered, Calling, cellVars, Walking
  <2>6. FirstTime(timeouts) \in 0 .. TimeHigh
    <3>1. Len(timeouts) # 0 => timeouts[1] \in Cell
      BY <1>4
    <3> QED
      BY <1>8, <1>9, <3>1 DEF FirstTime
  <2>7. TypeOK'
    BY <1>1, <2>1, <2>2, <2>6 DEF TypeOK, cellVars
  <2> QED
    BY <1>5, <1>6, <1>7, <2>4, <2>5, <2>7 DEF Shape
<1>15. ASSUME NEW t \in 0 .. TimeHigh, Advance(t)
       PROVE  TypeOK' /\ Shape(list, timeouts, free)'
  <2>1. /\ step = "idle" /\ t > Current_Time /\ t <= First_Timeout /\ Current_Time' = t
        /\ UNCHANGED <<timeListVars, walkVars>>
    BY <1>15 DEF Advance, In_Reach
  <2>2. Calling' /\ Walking(list)' /\ Cached(timeouts)'
    BY <1>1, <2>1 DEF Shape, Calling, Walking, Cached, FirstTime, walkVars, timeListVars, cellVars
  <2>3. Ordered(timeouts)'
    <3>1. First_Timeout = FirstTime(timeouts)
      BY <2>1 DEF Shape, Cached
    <3>2. ASSUME NEW c \in Cells(timeouts) PROVE T[c] >= t
      <4>1. PICK i \in 1 .. Len(timeouts) : c = timeouts[i]
        BY DEF Cells
      <4>2. 1 \in 1 .. Len(timeouts) /\ Len(timeouts) # 0 /\ (1 = i \/ 1 < i)
        BY <1>4
      <4>3. T[timeouts[1]] <= T[timeouts[i]] \/ 1 = i
        BY <4>2 DEF Shape, Ordered
      <4>4. T[timeouts[1]] \in Nat /\ T[timeouts[i]] \in Nat /\ t <= T[timeouts[1]] /\ t \in Nat
        BY <1>4, <1>8, <1>9, <2>1, <3>1, <4>2 DEF FirstTime
      <4> QED
        BY <4>1, <4>3, <4>4
    <3>3. T' = T
      BY <1>1 DEF cellVars
    <3> QED
      BY <2>1, <3>2, <3>3 DEF Shape, Ordered
  <2>4. TypeOK'
    BY <1>1, <2>1 DEF TypeOK, cellVars, timeListVars, walkVars
  <2> QED
    BY <1>5, <1>6, <1>7, <2>2, <2>3, <2>4 DEF Shape
<1> QED
  BY <1>10, <1>11, <1>12, <1>13, <1>14, <1>15

\* A freed cell is the first of the recycled cells.
LEMMA FreedPath ==
    ASSUME NEW links, NEW links2, NEW free, NEW r, IsPath(links, free, r),
           NEW c \in Cell, c \notin Cells(free), links2[c] = r,
           \A d \in Cells(free) : links2[d] = links[d]
    PROVE  /\ IsPath(links2, Inserted(free, 0, c), c)
           /\ Cells(Inserted(free, 0, c)) = Cells(free) \cup {c}
           /\ Inserted(free, 0, c) \in Seq(Cell)
<1>1. links2[c] = Get(free, 0 + 1)
  BY DEF IsPath
<1>2. \A i \in 1 .. Len(free) : i # 0 => links2[free[i]] = links[free[i]]
  BY DEF Cells
<1>3. 0 > 0 => links2[free[0]] = c
  OBVIOUS
<1>4. 0 \in 0 .. Len(free)
  BY DEF IsPath
<1>5. /\ IsPath(links2, Inserted(free, 0, c), IF 0 = 0 THEN c ELSE r)
      /\ Cells(Inserted(free, 0, c)) = Cells(free) \cup {c}
  BY <1>1, <1>2, <1>3, <1>4, InsertPath
<1> QED
  BY <1>5 DEF IsPath

\* The handle of a freed cell is forgotten.
LEMMA ForgetHandles ==
    ASSUME NEW used \in SUBSET Cell, NEW free, Handles(used, free), NEW c \in used,
           Proc \in [Cell -> Id \cup {None}],
           Proc' = Proc, Forget(c)
    PROVE  Handles(used \ {c}, free \cup {c})'
<1>1. \A x \in Id : Cb_Handle'[x] = IF Cb_Handle[x] = c THEN None ELSE Cb_Handle[x]
  BY DEF Forget
<1>2. ASSUME NEW x \in Id, Cb_Handle'[x] \in Cell
      PROVE  Proc'[Cb_Handle'[x]] = x /\ Cb_Handle'[x] \notin free \cup {c}
  <2>1. Cb_Handle'[x] = Cb_Handle[x] /\ Cb_Handle[x] # c
    BY <1>1, <1>2, CallbackAssumption
  <2> QED
    BY <1>2, <2>1 DEF Handles
<1>3. ASSUME NEW d \in used \ {c}, Proc'[d] # None
      PROVE  Cb_Handle'[Proc'[d]] = d
  <2>1. Proc'[d] = Proc[d] /\ Proc[d] \in Id /\ Cb_Handle[Proc[d]] = d
    BY <1>3 DEF Handles
  <2> QED
    BY <1>1, <2>1
<1> QED
  BY <1>2, <1>3 DEF Handles

\* Call_Callbacks goes on after a callback that is repeated.
LEMMA ReturnRepeated ==
    ASSUME TypeOK, NEW list, NEW timeouts, NEW free, Shape(list, timeouts, free), Return_Cell,
           Mode[walk.cell] # "Oneshot",
           NEW p \in 1 .. Len(list), NEW q \in 1 .. Len(list), WalkAt(list, p, q)
    PROVE  /\ TypeOK' /\ Shape(list, timeouts, free)'
           /\ p # q => step' = "call" /\ WalkAt(list, p + 1, q)'
           /\ p = q => step' = "end"
<1>1. /\ step = "in" /\ current' = None
      /\ UNCHANGED cellVars
      /\ UNCHANGED <<Allocated, Recycled_Handles, First, Last, Time_First, First_Timeout,
                     Cb_Handle, Current_Time>>
      /\ walk.cell = walk.last => walk' = Idle /\ step' = "end"
      /\ walk.cell # walk.last => /\ walk' = [walk EXCEPT !.cell = Next_Of[walk.cell],
                                                          !.prev = walk.cell]
                                  /\ step' = "call"
  BY DEF Return_Cell, cellVars, listVars, timeListVars
<1>2. IsPath(Next_Of, list, First)
  BY DEF Shape, Places
<1>3. /\ Len(list) \in Nat /\ Cells(list) \subseteq Allocated
      /\ \A i \in 1 .. Len(list) : Next_Of[list[i]] = Get(list, i + 1)
      /\ \A i \in 1 .. Len(list) : list[i] \in Cells(list)
  BY <1>2, PathEnds DEF Shape, Places
<1>4. Next_Of[walk.cell] \in Allocated \cup {Null} /\ walk.cell \in Allocated
  <2>1. p + 1 \in 1 .. Len(list) => list[p + 1] \in Cells(list)
    BY <1>3
  <2>2. Get(list, p + 1) \in Allocated \cup {Null}
    BY <1>3, <2>1 DEF Get
  <2> QED
    BY <1>3, <2>2 DEF WalkAt
<1>5. walk \in [cell : Allocated \cup {Null}, prev : Allocated \cup {Null}, last : Allocated \cup {Null}]
  BY DEF TypeOK
<1>6. p # q => step' = "call" /\ WalkAt(list, p + 1, q)' /\ p + 1 \in 1 .. Len(list)
  <2> SUFFICES ASSUME p # q PROVE step' = "call" /\ WalkAt(list, p + 1, q)' /\ p + 1 \in 1 .. Len(list)
    OBVIOUS
  <2>1. walk.cell # walk.last /\ p <= q
    <3>1. list[p] # list[q]
      BY <1>2 DEF IsPath, Distinct
    <3> QED
      BY <3>1 DEF WalkAt
  <2>2. p + 1 \in 1 .. Len(list) /\ p + 1 <= q /\ (p + 1) - 1 = p
    BY <1>3, <2>1
  <2>3. /\ walk'.cell = list[p + 1] /\ walk'.prev = list[p] /\ walk'.last = list[q]
    BY <1>1, <1>3, <1>5, <2>1, <2>2 DEF WalkAt, Get
  <2>4. WalkAt(list, p + 1, q)'
    BY <2>2, <2>3 DEF WalkAt, Get
  <2> QED
    BY <1>1, <2>1, <2>2, <2>4
<1>11. p = q => step' = "end"
  BY <1>1 DEF WalkAt
<1>12. Walking(list)'
  BY <1>6, <1>11 DEF Walking
<1>7. Places(list, timeouts, free)'
  BY <1>1, PlacesKept DEF cellVars
<1>8. Modes(list, timeouts)' /\ Ordered(timeouts)' /\ Handles(Cells(list) \cup Cells(timeouts), Cells(free))'
  BY <1>1 DEF Shape, Modes, Ordered, Handles, cellVars
<1>9. Calling' /\ Cached(timeouts)'
  BY <1>1 DEF Shape, Calling, Cached, FirstTime, cellVars
<1>10. TypeOK'
  <2>1. walk' \in [cell : Allocated \cup {Null}, prev : Allocated \cup {Null}, last : Allocated \cup {Null}]
    <3>1. CASE walk.cell = walk.last
      BY <1>1, <3>1 DEF Idle
    <3>2. CASE walk.cell # walk.last
      BY <1>1, <1>4, <1>5, <3>2
    <3> QED
      BY <3>1, <3>2
  <2>2. step' \in {"idle", "call", "in", "end", "time", "time_in"} /\ current' \in Id \cup {None}
    BY <1>1
  <2> QED
    BY <1>1, <2>1, <2>2 DEF TypeOK, cellVars
<1> QED
  BY <1>6, <1>7, <1>8, <1>9, <1>10, <1>11, <1>12 DEF Shape

\* Call_Callbacks removes the cell of a callback that is not repeated.
LEMMA ReturnOneshot ==
    ASSUME TypeOK, NEW list, NEW timeouts, NEW free, Shape(list, timeouts, free), Return_Cell,
           Mode[walk.cell] = "Oneshot",
           NEW p \in 1 .. Len(list), NEW q \in 1 .. Len(list), WalkAt(list, p, q)
    PROVE  /\ TypeOK'
           /\ p # q => step' = "call" /\ WalkAt(Dropped(list, p), p, q - 1)'
           /\ p = q => step' = "end"
           /\ \E free2 \in Seq(Cell) : Shape(Dropped(list, p), timeouts, free2)'
<1> DEFINE c == list[p]
           next == Get(list, p + 1)
           prev == Get(list, p - 1)
           list2 == Dropped(list, p)
           free2 == Inserted(free, 0, c)
<1>1. /\ IsPath(Next_Of, list, First)
      /\ IsPath(Next_Of, timeouts, Time_First)
      /\ IsPath(Next_Of, free, Recycled_Handles)
      /\ Cells(list) \cup Cells(timeouts) \cup Cells(free) = Allocated
      /\ Cells(list) \cap Cells(timeouts) = {}
      /\ Cells(list) \cap Cells(free) = {}
      /\ Cells(timeouts) \cap Cells(free) = {}
      /\ Last = Get(list, Len(list))
  BY DEF Shape, Places
<1>2. /\ list \in Seq(Cell) /\ Len(list) \in Nat /\ Cells(list) \subseteq Cell
      /\ \A i \in 1 .. Len(list) : list[i] \in Cells(list) /\ list[i] # Null
      /\ \A i \in 1 .. Len(list) : Next_Of[list[i]] = Get(list, i + 1)
      /\ Len(list) > 0 => First = list[1]
      /\ \A i \in Int : Get(list, i) \in Cells(list) \cup {Null}
  BY <1>1, PathEnds
<1>3. \A i, j \in 1 .. Len(list) : list[i] = list[j] => i = j
  BY <1>1 DEF IsPath, Distinct
<1>4. /\ walk.cell = c /\ walk.prev = prev /\ walk.last = list[q] /\ p <= q
      /\ Next_Of[c] = next /\ c \in Cells(list) /\ c \in Cell /\ c # Null
      /\ next \in Cells(list) \cup {Null} /\ prev \in Cells(list) \cup {Null}
  BY <1>2 DEF WalkAt
<1>5. prev = Null <=> p = 1
  <2>1. p - 1 \in 1 .. Len(list) <=> p # 1
    BY <1>2
  <2> QED
    BY <1>2, <2>1 DEF Get
<1>6. prev # c /\ (p # 1 => prev = list[p - 1] /\ p - 1 \in 1 .. Len(list))
  <2>1. p # 1 => p - 1 \in 1 .. Len(list) /\ p - 1 # p
    BY <1>2
  <2>2. p = 1 => p - 1 \notin 1 .. Len(list)
    OBVIOUS
  <2> QED
    BY <1>3, <1>4, <2>1, <2>2 DEF Get
<1>7. next = Null <=> p = Len(list)
  <2>1. p + 1 \in 1 .. Len(list) <=> p # Len(list)
    BY <1>2
  <2> QED
    BY <1>2, <2>1 DEF Get
<1> HIDE DEF c, next, prev
<1>8. /\ step = "in" /\ current' = None
      /\ First' = IF prev = Null THEN next ELSE First
      /\ Next_Of' = IF prev = Null THEN [Next_Of EXCEPT ![c] = Recycled_Handles]
                    ELSE [[Next_Of EXCEPT ![prev] = next] EXCEPT ![c] = Recycled_Handles]
      /\ Last' = IF next = Null THEN prev ELSE Last
      /\ Recycled_Handles' = c
      /\ Forget(c)
      /\ c = list[q] => walk' = Idle /\ step' = "end"
      /\ c # list[q] => walk' = [walk EXCEPT !.cell = next, !.prev = prev] /\ step' = "call"
      /\ UNCHANGED <<Mode, T, Proc, Allocated, Time_First, First_Timeout, Current_Time>>
  BY <1>4 DEF Return_Cell, Freed, New_Last, timeListVars
<1>9. /\ Next_Of \in [Cell -> Cell \cup {Null}]
      /\ Recycled_Handles \in Cell \cup {Null}
      /\ Proc \in [Cell -> Id \cup {None}]
      /\ Cb_Handle \in [Id -> Allocated \cup {Null, None}]
      /\ walk \in [cell : Allocated \cup {Null}, prev : Allocated \cup {Null}, last : Allocated \cup {Null}]
  BY DEF TypeOK, Nop_Callback
<1>10. /\ Next_Of' \in [Cell -> Cell \cup {Null}]
       /\ Next_Of'[c] = Recycled_Handles
       /\ prev # Null => Next_Of'[prev] = next
       /\ \A d \in Cell : d # c /\ d # prev => Next_Of'[d] = Next_Of[d]
  <2>1. c \in Cell /\ next \in Cell \cup {Null} /\ prev \in Cell \cup {Null} /\ Null \notin Cell
    BY <1>2, <1>4, CallbackAssumption
  <2>2. CASE prev = Null
    <3>1. Next_Of' = [Next_Of EXCEPT ![c] = Recycled_Handles]
      BY <1>8, <2>2
    <3> QED
      BY ONLY <1>9, <2>1, <2>2, <3>1
  <2>3. CASE prev # Null
    <3>1. Next_Of' = [[Next_Of EXCEPT ![prev] = next] EXCEPT ![c] = Recycled_Handles]
      BY <1>8, <2>3
    <3>2. prev \in Cell /\ prev # c /\ Next_Of \in [Cell -> Cell \cup {Null}]
          /\ Recycled_Handles \in Cell \cup {Null}
      BY <1>6, <1>9, <2>1, <2>3
    <3> QED
      BY ONLY <2>1, <2>3, <3>1, <3>2
  <2> QED
    BY <2>2, <2>3
<1>11. /\ IsPath(Next_Of', list2, First')
       /\ Cells(list2) = Cells(list) \ {c}
  <2>1. p > 1 => Next_Of'[list[p - 1]] = Next_Of[list[p]]
    <3>1. p > 1 => p # 1 /\ Next_Of[list[p]] = next
      BY <1>4 DEF c
    <3> QED
      BY <1>5, <1>6, <1>10, <3>1
  <2>2. \A i \in 1 .. Len(list) : i # p /\ i # p - 1 => Next_Of'[list[i]] = Next_Of[list[i]]
    <3> SUFFICES ASSUME NEW i \in 1 .. Len(list), i # p, i # p - 1
                 PROVE  Next_Of'[list[i]] = Next_Of[list[i]]
      OBVIOUS
    <3>1. list[i] \in Cell /\ list[i] # c /\ list[i] # Null
      BY <1>2, <1>3 DEF c
    <3>2. list[i] # prev
      BY <1>3, <1>5, <1>6, <3>1
    <3> QED
      BY <1>10, <3>1, <3>2
  <2>3. /\ IsPath(Next_Of', Dropped(list, p), IF p = 1 THEN Next_Of[First] ELSE First)
        /\ Cells(Dropped(list, p)) = Cells(list) \ {list[p]}
    <3>1. IsPath(Next_Of, list, First) /\ p \in 1 .. Len(list)
      BY <1>1
    <3> QED
      BY ONLY <2>1, <2>2, <3>1, DropPath
  <2>4. First' = IF p = 1 THEN Next_Of[First] ELSE First
    <3>1. p = 1 => First = c
      BY <1>2 DEF c
    <3> QED
      BY <1>4, <1>5, <1>8, <3>1
  <2> QED
    BY <2>3, <2>4 DEF c
<1>12. /\ list2 \in Seq(Cell) /\ Len(list2) = Len(list) - 1
       /\ \A i \in 1 .. p - 1 : list2[i] = list[i]
       /\ \A i \in p + 1 .. Len(list) : list2[i - 1] = list[i]
  <2>1. list2 \in Seq(Cell) /\ TakesOut(list2, list, p)
    BY <1>2, DroppedElements
  <2> QED
    BY <2>1 DEF TakesOut
<1>13. /\ Cells(timeouts) \subseteq Cell /\ Cells(free) \subseteq Cell
       /\ \A i \in 1 .. Len(timeouts) : timeouts[i] \in Cells(timeouts)
       /\ \A i \in 1 .. Len(timeouts) : timeouts[i] \in Cell
  BY <1>1, PathEnds
<1>14. \A d \in Cells(timeouts) \cup Cells(free) : Next_Of'[d] = Next_Of[d] /\ d # c
  <2>1. \A d \in Cells(timeouts) \cup Cells(free) : d \in Cell /\ d \notin Cells(list) /\ d # Null
    BY <1>1, <1>13, CallbackAssumption
  <2> QED
    BY <1>4, <1>10, <2>1
<1>15. IsPath(Next_Of', timeouts, Time_First')
  <2>1. Time_First' = Time_First
    BY <1>8
  <2> QED
    BY <1>1, <1>14, <2>1, SamePath
<1>16. /\ IsPath(Next_Of', free2, Recycled_Handles')
       /\ Cells(free2) = Cells(free) \cup {c}
       /\ free2 \in Seq(Cell)
  <2>1. c \in Cell /\ c \notin Cells(free) /\ Next_Of'[c] = Recycled_Handles
        /\ IsPath(Next_Of, free, Recycled_Handles)
        /\ \A d \in Cells(free) : Next_Of'[d] = Next_Of[d]
    BY <1>1, <1>4, <1>10, <1>14
  <2>2. /\ IsPath(Next_Of', Inserted(free, 0, c), c)
        /\ Cells(Inserted(free, 0, c)) = Cells(free) \cup {c}
        /\ Inserted(free, 0, c) \in Seq(Cell)
    BY ONLY <2>1, FreedPath
  <2> QED
    BY <1>8, <2>2
<1> HIDE DEF list2, free2
<1>17. Places(list2, timeouts, free2)'
  <2>1. /\ Cells(list2) \cup Cells(timeouts) \cup Cells(free2) = Allocated'
        /\ Cells(list2) \cap Cells(timeouts) = {}
        /\ Cells(list2) \cap Cells(free2) = {}
        /\ Cells(timeouts) \cap Cells(free2) = {}
    BY <1>1, <1>4, <1>8, <1>11, <1>16
  <2>2. Last' = Get(list2, Len(list2))
    <3>1. CASE p = Len(list)
      <4>1. Last' = prev /\ Len(list2) = p - 1
        BY <1>7, <1>8, <1>12, <3>1
      <4>2. CASE p = 1
        <5>1. Len(list2) = 0 /\ Len(list2) \notin 1 .. Len(list2)
          BY <4>1, <4>2
        <5> QED
          BY <1>5, <4>1, <4>2, <5>1 DEF Get
      <4>3. CASE p # 1
        <5>1. Len(list2) \in 1 .. Len(list2) /\ Len(list2) \in 1 .. p - 1
          BY <1>2, <4>1, <4>3
        <5>2. list2[Len(list2)] = list[p - 1]
          BY <1>12, <4>1, <5>1
        <5> QED
          BY <1>6, <4>1, <4>3, <5>1, <5>2 DEF Get
      <4> QED
        BY <4>2, <4>3
    <3>2. CASE p # Len(list)
      <4>1. /\ Len(list) \in p + 1 .. Len(list) /\ Len(list2) \in 1 .. Len(list2)
            /\ Len(list) - 1 = Len(list2) /\ Len(list) \in 1 .. Len(list)
        BY <1>2, <1>12, <3>2
      <4>2. list2[Len(list) - 1] = list[Len(list)]
        BY <1>12, <4>1
      <4>3. Last' = Last
        BY <1>7, <1>8, <3>2
      <4> QED
        BY <1>1, <4>1, <4>2, <4>3 DEF Get
    <3> QED
      BY <3>1, <3>2
  <2> QED
    BY <1>11, <1>15, <1>16, <2>1, <2>2 DEF Places
<1>18. Modes(list2, timeouts)' /\ Ordered(timeouts)'
  BY <1>8, <1>11 DEF Shape, Modes, Ordered
<1>19. p # q => /\ step' = "call" /\ WalkAt(list2, p, q - 1)'
                /\ p \in 1 .. Len(list2) /\ q - 1 \in 1 .. Len(list2)
  <2> SUFFICES ASSUME p # q
               PROVE  /\ step' = "call" /\ WalkAt(list2, p, q - 1)'
                      /\ p \in 1 .. Len(list2) /\ q - 1 \in 1 .. Len(list2)
    OBVIOUS
  <2>0. c # list[q] /\ p + 1 <= q
    BY <1>2, <1>3, <1>4 DEF c
  <2>2. /\ p \in 1 .. Len(list2) /\ q - 1 \in 1 .. Len(list2) /\ p <= q - 1
        /\ q \in p + 1 .. Len(list) /\ p + 1 \in p + 1 .. Len(list) /\ (p + 1) - 1 = p
        /\ p + 1 \in 1 .. Len(list)
    BY <1>2, <1>12, <2>0
  <2>3. /\ list2[q - 1] = list[q] /\ list2[(p + 1) - 1] = list[p + 1]
    BY <1>12, <2>2
  <2>4. next = list[p + 1]
    BY <2>2 DEF next, Get
  <2>5. Get(list2, p - 1) = prev
    <3>1. CASE p = 1
      <4>1. p - 1 \notin 1 .. Len(list2)
        BY <3>1
      <4> QED
        BY <1>5, <3>1, <4>1 DEF Get
    <3>2. CASE p # 1
      <4>1. p - 1 \in 1 .. Len(list2) /\ p - 1 \in 1 .. p - 1
        BY <2>2, <3>2
      <4> QED
        BY <1>6, <1>12, <3>2, <4>1 DEF Get
    <3> QED
      BY <3>1, <3>2
  <2>6. walk'.cell = next /\ walk'.prev = prev /\ walk'.last = list[q]
    BY <1>4, <1>8, <1>9, <2>0
  <2>7. WalkAt(list2, p, q - 1)'
    BY <2>2, <2>3, <2>4, <2>5, <2>6 DEF WalkAt
  <2> QED
    BY <1>8, <2>0, <2>2, <2>7
<1>24. p = q => step' = "end"
  BY <1>8 DEF c
<1>25. Walking(list2)'
  BY <1>19, <1>24 DEF Walking
<1>20. Calling' /\ Cached(timeouts)'
  BY <1>8 DEF Shape, Calling, Cached, FirstTime
<1>21. Handles(Cells(list2) \cup Cells(timeouts), Cells(free2))'
  <2> DEFINE used == Cells(list) \cup Cells(timeouts)
  <2>1. /\ used \in SUBSET Cell /\ c \in used /\ Handles(used, Cells(free))
        /\ Proc' = Proc /\ Forget(c)
    BY <1>2, <1>4, <1>8, <1>13 DEF Shape
  <2>2. Cells(list2) \cup Cells(timeouts) = used \ {c}
    BY <1>11, <1>14
  <2> HIDE DEF used
  <2>3. Handles(used \ {c}, Cells(free) \cup {c})'
    BY <1>9, <2>1, ForgetHandles
  <2> QED
    BY <1>16, <2>2, <2>3
<1>22. TypeOK'
  <2>1. {Recycled_Handles', First', Last', Time_First'} \subseteq Allocated' \cup {Null}
    <3>1. {c, next, prev} \subseteq Allocated \cup {Null}
      BY <1>1, <1>4
    <3>2. {First, Last, Time_First} \subseteq Allocated \cup {Null}
      BY DEF TypeOK
    <3> QED
      BY <1>8, <3>1, <3>2
  <2>2. Cb_Handle' \in [Id -> Allocated' \cup {Null, None}]
    BY <1>8, <1>9 DEF Forget
  <2>3. walk' \in [cell : Allocated' \cup {Null}, prev : Allocated' \cup {Null},
                   last : Allocated' \cup {Null}]
    <3>1. next \in Allocated \cup {Null} /\ prev \in Allocated \cup {Null}
      BY <1>1, <1>4
    <3>2. CASE c = list[q]
      BY <1>8, <3>2 DEF Idle
    <3>3. CASE c # list[q]
      <4>1. walk' = [walk EXCEPT !.cell = next, !.prev = prev] /\ Allocated' = Allocated
        BY <1>8, <3>3
      <4> QED
        BY <1>9, <3>1, <4>1
    <3> QED
      BY <3>2, <3>3
  <2>4. step' \in {"idle", "call", "in", "end", "time", "time_in"} /\ current' \in Id \cup {None}
    BY <1>8
  <2> QED
    BY <1>8, <1>10, <2>1, <2>2, <2>3, <2>4 DEF TypeOK, Nop_Callback
<1>23. Shape(list2, timeouts, free2)'
  BY <1>17, <1>18, <1>20, <1>21, <1>25 DEF Shape
<1> QED
  BY <1>16, <1>19, <1>22, <1>23, <1>24 DEF list2

\* Call_Time_Callbacks frees the first timeout.
LEMMA CallTimedKeeps ==
    ASSUME TypeOK, NEW list, NEW timeouts, NEW free, Shape(list, timeouts, free),
           Call_Timed_Cell
    PROVE  /\ TypeOK' /\ Len(timeouts) > 0 /\ Time_First = timeouts[1]
           /\ \E free2 \in Seq(Cell) : Shape(list, Dropped(timeouts, 1), free2)'
<1>0. PICK c : c = Time_First
  OBVIOUS
<1> DEFINE timeouts2 == Dropped(timeouts, 1)
           free2 == Inserted(free, 0, c)
<1>1. /\ IsPath(Next_Of, list, First)
      /\ IsPath(Next_Of, timeouts, Time_First)
      /\ IsPath(Next_Of, free, Recycled_Handles)
      /\ Cells(list) \cup Cells(timeouts) \cup Cells(free) = Allocated
      /\ Cells(list) \cap Cells(timeouts) = {}
      /\ Cells(list) \cap Cells(free) = {}
      /\ Cells(timeouts) \cap Cells(free) = {}
      /\ Last = Get(list, Len(list))
  BY DEF Shape, Places
<1>2. /\ timeouts \in Seq(Cell) /\ Len(timeouts) \in Nat /\ Cells(timeouts) \subseteq Cell
      /\ \A i \in 1 .. Len(timeouts) : timeouts[i] \in Cells(timeouts)
      /\ c = Null <=> Len(timeouts) = 0
      /\ Len(timeouts) > 0 => c = timeouts[1] /\ c \in Cells(timeouts)
      /\ \A i \in 1 .. Len(timeouts) : Next_Of[timeouts[i]] = Get(timeouts, i + 1)
      /\ \A i \in Int : Get(timeouts, i) \in Cells(timeouts) \cup {Null}
  BY <1>0, <1>1, PathEnds
<1>3. \A i, j \in 1 .. Len(timeouts) : timeouts[i] = timeouts[j] => i = j
  BY <1>1 DEF IsPath, Distinct
<1>4. /\ step = "time" /\ c # Null /\ step' = "time_in"
      /\ Time_First' = Next_Of[c]
      /\ current' = Proc[c]
      /\ Next_Of' = [Next_Of EXCEPT ![c] = Recycled_Handles]
      /\ Recycled_Handles' = c
      /\ Forget(c)
      /\ UNCHANGED <<Mode, T, Proc, Allocated, First, Last, First_Timeout, walk, Current_Time>>
  BY <1>0 DEF Call_Timed_Cell, Freed, listVars
<1>5. Len(timeouts) > 0 /\ c = timeouts[1] /\ c \in Cells(timeouts) /\ c \in Cell
      /\ 1 \in 1 .. Len(timeouts)
  BY <1>2, <1>4
<1>6. /\ Next_Of \in [Cell -> Cell \cup {Null}]
      /\ Recycled_Handles \in Cell \cup {Null}
      /\ Proc \in [Cell -> Id \cup {None}]
      /\ Cb_Handle \in [Id -> Allocated \cup {Null, None}]
  BY DEF TypeOK, Nop_Callback
<1>7. /\ Next_Of' \in [Cell -> Cell \cup {Null}]
      /\ Next_Of'[c] = Recycled_Handles
      /\ \A d \in Cell : d # c => Next_Of'[d] = Next_Of[d]
  BY <1>4, <1>5, <1>6
<1>8. /\ IsPath(Next_Of', timeouts2, Time_First')
      /\ Cells(timeouts2) = Cells(timeouts) \ {c}
  <2>1. 1 > 1 => Next_Of'[timeouts[1 - 1]] = Next_Of[timeouts[1]]
    OBVIOUS
  <2>2. \A i \in 1 .. Len(timeouts) : i # 1 /\ i # 1 - 1 => Next_Of'[timeouts[i]] = Next_Of[timeouts[i]]
    BY <1>2, <1>3, <1>5, <1>7
  <2>3. /\ IsPath(Next_Of', Dropped(timeouts, 1), IF 1 = 1 THEN Next_Of[Time_First] ELSE Time_First)
        /\ Cells(Dropped(timeouts, 1)) = Cells(timeouts) \ {timeouts[1]}
    BY ONLY <1>1, <1>5, <2>1, <2>2, DropPath
  <2> QED
    BY <1>0, <1>4, <1>5, <2>3
<1>9. /\ timeouts2 \in Seq(Cell) /\ Len(timeouts2) = Len(timeouts) - 1
      /\ \A i \in 2 .. Len(timeouts) : timeouts2[i - 1] = timeouts[i]
  <2>1. timeouts2 \in Seq(Cell) /\ TakesOut(timeouts2, timeouts, 1)
    BY <1>2, <1>5, DroppedElements
  <2>2. 1 + 1 = 2
    OBVIOUS
  <2> QED
    BY <2>1, <2>2 DEF TakesOut
<1>10. /\ Cells(list) \subseteq Cell /\ Cells(free) \subseteq Cell
  BY <1>1, PathEnds
<1>11. \A d \in Cells(list) \cup Cells(free) : Next_Of'[d] = Next_Of[d] /\ d # c
  <2>1. \A d \in Cells(list) \cup Cells(free) : d \in Cell /\ d \notin Cells(timeouts)
    BY <1>1, <1>10
  <2> QED
    BY <1>5, <1>7, <2>1
<1>12. IsPath(Next_Of', list, First')
  <2>1. First' = First
    BY <1>4
  <2> QED
    BY <1>1, <1>11, <2>1, SamePath
<1>13. /\ IsPath(Next_Of', free2, Recycled_Handles')
       /\ Cells(free2) = Cells(free) \cup {c}
       /\ free2 \in Seq(Cell)
  <2>1. c \in Cell /\ c \notin Cells(free) /\ Next_Of'[c] = Recycled_Handles
        /\ IsPath(Next_Of, free, Recycled_Handles)
        /\ \A d \in Cells(free) : Next_Of'[d] = Next_Of[d]
    BY <1>1, <1>5, <1>7, <1>11
  <2>2. /\ IsPath(Next_Of', Inserted(free, 0, c), c)
        /\ Cells(Inserted(free, 0, c)) = Cells(free) \cup {c}
        /\ Inserted(free, 0, c) \in Seq(Cell)
    BY ONLY <2>1, FreedPath
  <2> QED
    BY <1>4, <2>2
<1> HIDE DEF timeouts2, free2
<1>14. Places(list, timeouts2, free2)'
  <2>1. /\ Cells(list) \cup Cells(timeouts2) \cup Cells(free2) = Allocated'
        /\ Cells(list) \cap Cells(timeouts2) = {}
        /\ Cells(list) \cap Cells(free2) = {}
        /\ Cells(timeouts2) \cap Cells(free2) = {}
    BY <1>1, <1>4, <1>5, <1>8, <1>13
  <2>2. Last' = Get(list, Len(list))
    BY <1>1, <1>4
  <2> QED
    BY <1>8, <1>12, <1>13, <2>1, <2>2 DEF Places
<1>15. Modes(list, timeouts2)'
  BY <1>4, <1>8 DEF Shape, Modes
<1>16. Ordered(timeouts2)'
  <2>1. ASSUME NEW i \in 1 .. Len(timeouts2), NEW j \in 1 .. Len(timeouts2), i < j
        PROVE  T[timeouts2[i]] <= T[timeouts2[j]]
    <3>1. /\ i + 1 \in 2 .. Len(timeouts) /\ j + 1 \in 2 .. Len(timeouts) /\ i + 1 < j + 1
          /\ i + 1 \in 1 .. Len(timeouts) /\ j + 1 \in 1 .. Len(timeouts)
          /\ (i + 1) - 1 = i /\ (j + 1) - 1 = j
      BY <1>2, <1>9, <2>1
    <3>2. timeouts2[i] = timeouts[i + 1] /\ timeouts2[j] = timeouts[j + 1]
      BY <1>9, <3>1
    <3>3. T[timeouts[i + 1]] <= T[timeouts[j + 1]]
      BY <3>1 DEF Shape, Ordered
    <3> QED
      BY <3>2, <3>3
  <2> QED
    BY <1>4, <1>8, <2>1 DEF Shape, Ordered
<1>17. Walking(list)' /\ Calling' /\ Cached(timeouts2)'
  BY <1>4 DEF Walking, Calling, Cached
<1>18. Handles(Cells(list) \cup Cells(timeouts2), Cells(free2))'
  <2> DEFINE used == Cells(list) \cup Cells(timeouts)
  <2>1. /\ used \in SUBSET Cell /\ c \in used /\ Handles(used, Cells(free))
        /\ Proc' = Proc /\ Forget(c)
    BY <1>2, <1>4, <1>5, <1>10 DEF Shape
  <2>2. Cells(list) \cup Cells(timeouts2) = used \ {c}
    BY <1>8, <1>11
  <2> HIDE DEF used
  <2>3. Handles(used \ {c}, Cells(free) \cup {c})'
    BY <1>6, <2>1, ForgetHandles
  <2> QED
    BY <1>13, <2>2, <2>3
<1>19. TypeOK'
  <2>1. {Recycled_Handles', First', Last', Time_First'} \subseteq Allocated' \cup {Null}
    <3>1. Next_Of[c] \in Allocated \cup {Null} /\ c \in Allocated
      BY <1>1, <1>2, <1>5
    <3>2. {First, Last} \subseteq Allocated \cup {Null}
      BY DEF TypeOK
    <3> QED
      BY <1>4, <3>1, <3>2
  <2>2. Cb_Handle' \in [Id -> Allocated' \cup {Null, None}]
    BY <1>4, <1>6 DEF Forget
  <2>3. current' \in Id \cup {None} /\ step' \in {"idle", "call", "in", "end", "time", "time_in"}
    BY <1>4, <1>5, <1>6
  <2> QED
    BY <1>4, <1>7, <2>1, <2>2, <2>3 DEF TypeOK, Nop_Callback
<1>20. Shape(list, timeouts2, free2)'
  BY <1>14, <1>15, <1>16, <1>17, <1>18 DEF Shape
<1> QED
  BY <1>0, <1>5, <1>13, <1>19, <1>20 DEF timeouts2

-----------------------------------------------------------------------------
\* The empty lists.
LEMMA InitShape == Init => TypeOK /\ Shape(<<>>, <<>>, <<>>)
<1> SUFFICES ASSUME Init PROVE TypeOK /\ Shape(<<>>, <<>>, <<>>)
  OBVIOUS
<1>1. TypeOK
  <2>1. 0 \in 0 .. TimeHigh /\ TimeHigh \in 0 .. TimeHigh
    BY CallbackAssumption
  <2> QED
    BY <2>1 DEF Init, TypeOK, Idle, Nop_Callback
<1>2. Cells(<<>>) = {} /\ Len(<<>>) = 0 /\ <<>> \in Seq(Cell)
  BY DEF Cells
<1>3. \A i : Get(<<>>, i) = Null
  BY <1>2 DEF Get
<1>4. IsPath(Next_Of, <<>>, Null)
  BY <1>2, <1>3 DEF IsPath, Distinct, Linked
<1>5. Places(<<>>, <<>>, <<>>)
  BY <1>2, <1>3, <1>4 DEF Init, Places
<1>6. Modes(<<>>, <<>>) /\ Ordered(<<>>) /\ Walking(<<>>) /\ Calling /\ Cached(<<>>)
  BY <1>2 DEF Init, Modes, Ordered, Walking, Calling, Cached, FirstTime
<1>7. Handles({}, {})
  BY CallbackAssumption DEF Init, Handles
<1>8. Handles(Cells(<<>>) \cup Cells(<<>>), Cells(<<>>))
  BY <1>2, <1>7
<1> QED
  BY <1>1, <1>5, <1>6, <1>8 DEF Shape

\* Each step of Next keeps the invariant.
LEMMA StepKeeps == IInv /\ [Next]_vars => IInv'
<1> SUFFICES ASSUME IInv, [Next]_vars PROVE IInv'
  OBVIOUS
<1>1. TypeOK
  BY DEF IInv
<1>2. PICK list \in Seq(Cell), timeouts \in Seq(Cell), free \in Seq(Cell) : Shape(list, timeouts, free)
  BY DEF IInv
<1> DEFINE Held == TypeOK' /\ \E l, t, f \in Seq(Cell) : Shape(l, t, f)'
<1>3. \A l, t, f : Shape(l, t, f)' => l \in Seq(Cell) /\ t \in Seq(Cell) /\ f \in Seq(Cell)
  BY DEF Shape, Places, IsPath
<1>4. ASSUME NEW id \in Id, NEW m \in {"Repeat", "Oneshot"}, Register_Callback(id, m)
      PROVE  Held
  <2> DEFINE h == Allocate_Handle
  <2>1. PICK h0 : h0 = h
    OBVIOUS
  <2>2. TypeOK' /\ \E free2 \in Seq(Cell) : Shape(Inserted(list, Len(list), h0), timeouts, free2)'
    BY <1>1, <1>2, <1>4, <2>1, RegisterKeeps
  <2> QED
    BY <1>3, <2>2
<1>5. ASSUME NEW id \in Id, NEW t \in 0 .. TimeHigh, Register_Callback_At(id, t)
      PROVE  Held
  <2>1. PICK h : h = Allocate_Handle
    OBVIOUS
  <2>2. PICK n : n = Before(timeouts, t)
    OBVIOUS
  <2>3. TypeOK' /\ \E free2 \in Seq(Cell) : Shape(list, Inserted(timeouts, n, h), free2)'
    BY <1>1, <1>2, <1>5, <2>1, <2>2, RegisterAtKeeps
  <2> QED
    BY <1>3, <2>3
<1>6. ASSUME NEW id \in Id, Delete_Callback(id)
      PROVE  Held
  BY <1>1, <1>2, <1>6, DeleteKeeps
<1>7. CASE \/ Call_Callbacks \/ Call_Cell \/ End_Calls
           \/ Call_Time_Callbacks \/ Return_Timed \/ End_Timed
           \/ \E t \in 0 .. TimeHigh : Advance(t)
  <2>1. TypeOK' /\ Shape(list, timeouts, free)'
    BY <1>1, <1>2, <1>7, WalkKeeps
  <2> QED
    BY <1>2, <2>1 DEF IInv
<1>8. CASE Return_Cell
  <2>1. PICK p \in 1 .. Len(list), q \in 1 .. Len(list) : WalkAt(list, p, q)
    BY <1>2, <1>8 DEF Shape, Walking, Return_Cell
  <2>2. CASE Mode[walk.cell] = "Oneshot"
    <3>1. TypeOK' /\ \E free2 \in Seq(Cell) : Shape(Dropped(list, p), timeouts, free2)'
      BY <1>1, <1>2, <1>8, <2>1, <2>2, ReturnOneshot
    <3> QED
      BY <1>3, <3>1 DEF IInv
  <2>3. CASE Mode[walk.cell] # "Oneshot"
    <3>1. TypeOK' /\ Shape(list, timeouts, free)'
      BY <1>1, <1>2, <1>8, <2>1, <2>3, ReturnRepeated
    <3> QED
      BY <1>3, <3>1 DEF IInv
  <2> QED
    BY <2>2, <2>3
<1>9. CASE Call_Timed_Cell
  <2>1. TypeOK' /\ \E free2 \in Seq(Cell) : Shape(list, Dropped(timeouts, 1), free2)'
    BY <1>1, <1>2, <1>9, CallTimedKeeps
  <2> QED
    BY <1>3, <2>1 DEF IInv
<1>10. CASE UNCHANGED vars
  <2>1. TypeOK'
    BY <1>1, <1>10 DEF TypeOK, vars, cellVars, listVars, timeListVars, walkVars
  <2>2. Places(list, timeouts, free)'
    BY <1>2, <1>10, PlacesKept DEF vars, cellVars, listVars, timeListVars
  <2>3. Modes(list, timeouts)' /\ Ordered(timeouts)' /\ Walking(list)' /\ Calling' /\ Cached(timeouts)'
    BY <1>2, <1>10 DEF Shape, Modes, Ordered, Walking, WalkAt, Calling, Cached, FirstTime,
                       vars, cellVars, listVars, timeListVars, walkVars
  <2>4. Handles(Cells(list) \cup Cells(timeouts), Cells(free))'
    BY <1>2, <1>10 DEF Shape, Handles, vars, cellVars
  <2> QED
    BY <1>2, <2>1, <2>2, <2>3, <2>4 DEF IInv, Shape
<1>11. Held => IInv'
  BY DEF IInv
<1> HIDE DEF Held
<1> QED
  BY <1>4, <1>5, <1>6, <1>7, <1>8, <1>9, <1>10, <1>11 DEF Next

\* The invariant holds in every state.
LEMMA CallbacksInvariant == Spec => []IInv
<1>1. Init => IInv
  <2>1. <<>> \in Seq(Cell)
    OBVIOUS
  <2> QED
    BY <2>1, InitShape DEF IInv
<1> QED
  BY <1>1, StepKeeps, PTL DEF Spec

\* The fields of the cells and the variables of the walks have their types.
THEOREM CallbacksTyped == Spec => []TypeOK
<1>1. IInv => TypeOK
  BY DEF IInv
<1> QED
  BY <1>1, CallbacksInvariant, PTL

-----------------------------------------------------------------------------
\* The elements of a concatenation.
LEMMA ConcatCells ==
    ASSUME NEW a \in Seq(Cell), NEW b \in Seq(Cell)
    PROVE  /\ a \o b \in Seq(Cell)
           /\ Len(a \o b) = Len(a) + Len(b)
           /\ Cells(a \o b) = Cells(a) \cup Cells(b)
<1> DEFINE c == a \o b
<1>1. /\ c \in Seq(Cell) /\ Len(c) = Len(a) + Len(b)
      /\ \A k \in 1 .. Len(a) + Len(b) : c[k] = IF k <= Len(a) THEN a[k] ELSE b[k - Len(a)]
  BY ConcatProperties
<1>2. Len(a) \in Nat /\ Len(b) \in Nat
  OBVIOUS
<1> HIDE DEF c
<1>3. ASSUME NEW i \in 1 .. Len(c) PROVE c[i] \in Cells(a) \cup Cells(b)
  <2>1. i <= Len(a) => i \in 1 .. Len(a) /\ c[i] = a[i]
    BY <1>1, <1>2
  <2>2. ~(i <= Len(a)) => i - Len(a) \in 1 .. Len(b) /\ c[i] = b[i - Len(a)]
    BY <1>1, <1>2
  <2> QED
    BY <2>1, <2>2 DEF Cells
<1>4. ASSUME NEW i \in 1 .. Len(a) PROVE a[i] \in Cells(c)
  <2>1. i \in 1 .. Len(c) /\ c[i] = a[i]
    BY <1>1, <1>2
  <2> QED
    BY <2>1 DEF Cells
<1>5. ASSUME NEW i \in 1 .. Len(b) PROVE b[i] \in Cells(c)
  <2>1. Len(a) + i \in 1 .. Len(a) + Len(b) /\ ~(Len(a) + i <= Len(a)) /\ (Len(a) + i) - Len(a) = i
    BY <1>2
  <2>2. Len(a) + i \in 1 .. Len(c) /\ c[Len(a) + i] = b[i]
    BY <1>1, <2>1
  <2> QED
    BY <2>2 DEF Cells
<1>6. Cells(c) = Cells(a) \cup Cells(b)
  BY <1>3, <1>4, <1>5 DEF Cells
<1> QED
  BY <1>1, <1>6 DEF c

\* What Chain finds in a state of the invariant.
LEMMA ChainsFound ==
    ASSUME TypeOK, NEW list, NEW timeouts, NEW free, Shape(list, timeouts, free)
    PROVE  /\ Chain(Next_Of, First) = list
           /\ Chain(Next_Of, Time_First) = timeouts
           /\ Chain(Next_Of, Recycled_Handles) = free
<1>1. Next_Of \in Links
  BY DEF TypeOK, Links
<1>2. /\ IsPath(Next_Of, list, First)
      /\ IsPath(Next_Of, timeouts, Time_First)
      /\ IsPath(Next_Of, free, Recycled_Handles)
  BY DEF Shape, Places
<1> QED
  BY <1>1, <1>2, ChainIsPath

\* No cell is lost or shared, Last is the last cell of the list, and a handle
\* is the cell of its own callback, for any number of cells and callbacks.
THEOREM CellsAlwaysPartitioned == Spec => []CellsPartitioned
<1>1. ASSUME IInv PROVE CellsPartitioned
  <2>1. PICK list \in Seq(Cell), timeouts \in Seq(Cell), free \in Seq(Cell) : Shape(list, timeouts, free)
    BY <1>1 DEF IInv
  <2>2. /\ Chain(Next_Of, First) = list
        /\ Chain(Next_Of, Time_First) = timeouts
        /\ Chain(Next_Of, Recycled_Handles) = free
    BY <1>1, <2>1, ChainsFound DEF IInv
  <2> DEFINE some == list \o timeouts
             all == some \o free
  <2>3. /\ some \in Seq(Cell) /\ Len(some) = Len(list) + Len(timeouts)
        /\ Cells(some) = Cells(list) \cup Cells(timeouts)
    BY ConcatCells
  <2>4. /\ all \in Seq(Cell) /\ Len(all) = Len(some) + Len(free)
        /\ Cells(all) = Cells(some) \cup Cells(free)
    <3> HIDE DEF some
    <3> QED
      BY <2>3, ConcatCells
  <2> HIDE DEF some, all
  <2>5. /\ IsPath(Next_Of, list, First)
        /\ IsPath(Next_Of, timeouts, Time_First)
        /\ IsPath(Next_Of, free, Recycled_Handles)
        /\ Cells(list) \cup Cells(timeouts) \cup Cells(free) = Allocated
        /\ Cells(list) \cap Cells(timeouts) = {}
        /\ Cells(list) \cap Cells(free) = {}
        /\ Cells(timeouts) \cap Cells(free) = {}
        /\ Last = Get(list, Len(list))
    BY <2>1 DEF Shape, Places
  <2>6. Last = IF list = <<>> THEN Null ELSE list[Len(list)]
    <3>1. list = <<>> <=> Len(list) = 0
      BY EmptySeq
    <3>2. Len(list) \in Nat
      OBVIOUS
    <3>3. Len(list) # 0 <=> Len(list) \in 1 .. Len(list)
      BY <3>2
    <3> QED
      BY <2>5, <3>1, <3>3 DEF Get
  <2>7. /\ \A i \in DOMAIN list : Mode[list[i]] # "Timed"
        /\ \A i \in DOMAIN timeouts : Mode[timeouts[i]] = "Timed"
    <3>1. /\ \A i \in DOMAIN list : list[i] \in Cells(list)
          /\ \A i \in DOMAIN timeouts : timeouts[i] \in Cells(timeouts)
      BY LenProperties DEF Cells
    <3> QED
      BY <2>1, <3>1 DEF Shape, Modes
  <2>8. Len(all) = Cardinality(Allocated)
    <3>1. /\ IsFiniteSet(Cells(list)) /\ Cardinality(Cells(list)) = Len(list)
          /\ IsFiniteSet(Cells(timeouts)) /\ Cardinality(Cells(timeouts)) = Len(timeouts)
          /\ IsFiniteSet(Cells(free)) /\ Cardinality(Cells(free)) = Len(free)
      BY <2>5, ListIsShort DEF IsPath
    <3>2. /\ IsFiniteSet(Cells(some))
          /\ Cardinality(Cells(some)) = Len(list) + Len(timeouts) - Cardinality({})
      <4>1. Cells(list) \cap Cells(timeouts) = {}
        BY <2>5
      <4>2. /\ IsFiniteSet(Cells(list) \cup Cells(timeouts))
            /\ Cardinality(Cells(list) \cup Cells(timeouts))
                 = Cardinality(Cells(list)) + Cardinality(Cells(timeouts))
                   - Cardinality(Cells(list) \cap Cells(timeouts))
        BY <3>1, FS_Union
      <4> QED
        BY <2>3, <3>1, <4>1, <4>2
    <3>3. Cardinality(Cells(all)) = Cardinality(Cells(some)) + Len(free) - Cardinality({})
      <4>1. Cells(some) \cap Cells(free) = {}
        BY <2>3, <2>5
      <4>2. Cardinality(Cells(some) \cup Cells(free))
              = Cardinality(Cells(some)) + Cardinality(Cells(free))
                - Cardinality(Cells(some) \cap Cells(free))
        BY <3>1, <3>2, FS_Union
      <4> QED
        BY <2>4, <3>1, <4>1, <4>2
    <3>4. Cardinality({}) = 0
      BY FS_EmptySet
    <3>5. Len(list) \in Nat /\ Len(timeouts) \in Nat /\ Len(free) \in Nat
      OBVIOUS
    <3>6. Cells(all) = Allocated
      BY <2>3, <2>4, <2>5
    <3>7. Cardinality(Cells(some)) = Len(list) + Len(timeouts)
      BY ONLY <3>2, <3>4, <3>5
    <3>8. Cardinality(Cells(all)) = Len(list) + Len(timeouts) + Len(free)
      BY ONLY <3>3, <3>4, <3>5, <3>7
    <3>9. Len(all) = Len(list) + Len(timeouts) + Len(free)
      BY <2>3, <2>4
    <3> QED
      BY ONLY <3>6, <3>8, <3>9
  <2>9. {all[i] : i \in DOMAIN all} = Allocated
    <3>1. DOMAIN all = 1 .. Len(all)
      BY <2>4, LenProperties
    <3> QED
      BY <2>3, <2>4, <2>5, <3>1 DEF Cells
  <2>10. ASSUME NEW id \in Id, Cb_Handle[id] \in Cell
         PROVE  /\ Proc[Cb_Handle[id]] = id
                /\ \A i \in DOMAIN free : free[i] # Cb_Handle[id]
    <3>1. \A i \in DOMAIN free : free[i] \in Cells(free)
      BY LenProperties DEF Cells
    <3> QED
      BY <2>1, <2>10, <3>1 DEF Shape, Handles
  <2>11. all = list \o timeouts \o free
    BY DEF all, some
  <2> QED
    BY <2>2, <2>6, <2>7, <2>8, <2>9, <2>10, <2>11 DEF CellsPartitioned
<1> QED
  BY <1>1, CallbacksInvariant, PTL

\* First_Timeout, which Compute_Next_Time takes into account, is the time of the
\* earliest timeout out of Call_Time_Callbacks, and is not past.
THEOREM FirstTimeoutAlwaysExact == Spec => []FirstTimeoutExact
<1>1. ASSUME IInv PROVE FirstTimeoutExact
  <2> SUFFICES ASSUME step \notin {"time", "time_in"}
               PROVE  /\ First_Timeout =
                            Min({TimeHigh} \cup {T[Chain(Next_Of, Time_First)[i]] :
                                                    i \in DOMAIN Chain(Next_Of, Time_First)})
                      /\ First_Timeout >= Current_Time
    BY DEF FirstTimeoutExact
  <2>1. PICK list \in Seq(Cell), timeouts \in Seq(Cell), free \in Seq(Cell) : Shape(list, timeouts, free)
    BY <1>1 DEF IInv
  <2>2. Chain(Next_Of, Time_First) = timeouts
    BY <1>1, <2>1, ChainsFound DEF IInv
  <2>3. First_Timeout = FirstTime(timeouts)
    BY <2>1 DEF Shape, Cached
  <2>4. /\ Len(timeouts) \in Nat /\ DOMAIN timeouts = 1 .. Len(timeouts)
        /\ \A i \in 1 .. Len(timeouts) : timeouts[i] \in Cells(timeouts) /\ timeouts[i] \in Cell
    BY LenProperties DEF Cells
  <2>5. /\ \A c \in Cell : T[c] \in Nat /\ T[c] <= TimeHigh
        /\ TimeHigh \in Nat /\ Current_Time \in Nat /\ Current_Time <= TimeHigh
    BY <1>1, CallbackAssumption DEF IInv, TypeOK
  <2> DEFINE S == {TimeHigh} \cup {T[timeouts[i]] : i \in DOMAIN timeouts}
             f == FirstTime(timeouts)
  <2>6. f \in S /\ f >= Current_Time
    <3>1. CASE Len(timeouts) = 0
      BY <2>5, <3>1 DEF FirstTime
    <3>2. CASE Len(timeouts) # 0
      <4>1. 1 \in 1 .. Len(timeouts)
        BY <2>4, <3>2
      <4>2. T[timeouts[1]] >= Current_Time
        BY <2>1, <2>4, <4>1 DEF Shape, Ordered
      <4> QED
        BY <2>4, <3>2, <4>1, <4>2 DEF FirstTime
    <3> QED
      BY <3>1, <3>2
  <2>7. ASSUME NEW x \in S PROVE f <= x
    <3>1. CASE x = TimeHigh
      <4>1. Len(timeouts) # 0 => 1 \in 1 .. Len(timeouts)
        BY <2>4
      <4> QED
        BY <2>4, <2>5, <3>1, <4>1 DEF FirstTime
    <3>2. CASE \E i \in DOMAIN timeouts : x = T[timeouts[i]]
      <4>1. PICK i \in 1 .. Len(timeouts) : x = T[timeouts[i]]
        BY <2>4, <3>2
      <4>2. 1 \in 1 .. Len(timeouts) /\ Len(timeouts) # 0 /\ (1 = i \/ 1 < i)
        BY <2>4
      <4>3. 1 = i \/ T[timeouts[1]] <= T[timeouts[i]]
        BY <2>1, <4>2 DEF Shape, Ordered
      <4> QED
        BY <2>4, <2>5, <4>1, <4>2, <4>3 DEF FirstTime
    <3> QED
      BY <3>1, <3>2
  <2>8. \A x \in S : x \in Nat
    BY <2>4, <2>5
  <2>9. Min(S) = f
    <3> HIDE DEF S, f
    <3>1. \A x \in S : (\A y \in S : x <= y) => x = f
      BY <2>6, <2>7, <2>8
    <3> QED
      BY <2>6, <2>7, <3>1 DEF Min
  <2> QED
    BY <2>2, <2>3, <2>6, <2>9
<1> QED
  BY <1>1, CallbacksInvariant, PTL

-----------------------------------------------------------------------------
(* The cells implement CallbackQueue: each step of the cells is a step of  *)
(* the queue or changes nothing of it.                                     *)

\* What the queue shows of a cell, in the list and among the timeouts.
Entry(proc, mode) == [c \in Cell |-> [id |-> proc[c], mode |-> mode[c]]]

Due(proc, t) == [c \in Cell |-> [id |-> proc[c], t |-> t[c]]]

\* The cells of the list that the queue shows, and those of the round.
Shown == Live \ Removing

Rounds(list, p, q) == SubSeq(list, IF step = "call" THEN p ELSE p + 1, q)

\* The sequence operators of the instance are those used here.
LEMMA SameTaken ==
    ASSUME NEW s, NEW I
    PROVE  Abstract!At(s, I) = At(s, I)
<1>1. \A S : Abstract!Cardinality(S) = Cardinality(S)
  BY DEF Abstract!Cardinality, Cardinality
<1>2. \A i : Abstract!Rank(I, i) = Rank(I, i)
  BY <1>1 DEF Abstract!Rank, Rank
<1>3. \A k : Abstract!Nth(I, k) = Nth(I, k)
  BY <1>2 DEF Abstract!Nth, Nth
<1> QED
  BY <1>1, <1>3 DEF Abstract!At, At

\* The queue and the timeouts, in terms of the lists.
LEMMA Mapped ==
    ASSUME TypeOK, NEW list, NEW timeouts, NEW free, Shape(list, timeouts, free)
    PROVE  /\ AbstractQueue = Each(Entry(Proc, Mode), Only(list, Shown))
           /\ AbstractTimeouts = Each(Due(Proc, T), Only(timeouts, Live))
BY ChainsFound DEF AbstractQueue, AbstractTimeouts, Shown, Entry, Due

\* And in the next state.
LEMMA MappedNext ==
    ASSUME TypeOK', NEW list, NEW timeouts, NEW free, Shape(list, timeouts, free)'
    PROVE  /\ AbstractQueue' = Each(Entry(Proc', Mode'), Only(list, Shown'))
           /\ AbstractTimeouts' = Each(Due(Proc', T'), Only(timeouts, Live'))
<1>1. Next_Of' \in Links
  BY DEF TypeOK, Links
<1>2. /\ IsPath(Next_Of', list, First')
      /\ IsPath(Next_Of', timeouts, Time_First')
  BY DEF Shape, Places
<1>3. Chain(Next_Of', First') = list /\ Chain(Next_Of', Time_First') = timeouts
  BY <1>1, <1>2, ChainIsPath
<1> QED
  BY <1>3 DEF AbstractQueue, AbstractTimeouts, Shown, Entry, Due

\* A list from one of its cells on.
LEMMA SuffixPath ==
    ASSUME NEW links, NEW s, NEW c, IsPath(links, s, c), NEW p \in 1 .. Len(s)
    PROVE  /\ IsPath(links, SubSeq(s, p, Len(s)), s[p])
           /\ Len(SubSeq(s, p, Len(s))) = Len(s) - p + 1
           /\ \A i \in 1 .. Len(s) - p + 1 : SubSeq(s, p, Len(s))[i] = s[p + i - 1]
<1> DEFINE n == Len(s)
           x == SubSeq(s, p, n)
<1>1. s \in Seq(Cell) /\ n \in Nat /\ p \in Int /\ p >= 1 /\ p <= n
      /\ \A i \in 1 .. n : s[i] \in Cell
  BY DEF IsPath
<1>2. x \in Seq(Cell) /\ Len(x) = n - p + 1 /\ \A i \in 1 .. n - p + 1 : x[i] = s[p + i - 1]
  <2>1. \A i \in p .. n : s[i] \in Cell
    BY <1>1
  <2>2. n \in Int
    BY <1>1
  <2> HIDE DEF n
  <2> QED
    BY <1>1, <2>1, <2>2, SubSeqProperties
<1> HIDE DEF x
<1>3. \A i \in 1 .. n - p + 1 : p + i - 1 \in 1 .. n
  BY <1>1
<1>4. Distinct(x)
  <2> SUFFICES ASSUME NEW i \in 1 .. Len(x), NEW j \in 1 .. Len(x), x[i] = x[j] PROVE i = j
    BY DEF Distinct
  <2>1. i \in 1 .. n - p + 1 /\ j \in 1 .. n - p + 1
    BY <1>2
  <2>2. s[p + i - 1] = s[p + j - 1]
    BY <1>2, <2>1
  <2>3. p + i - 1 = p + j - 1
    BY <1>3, <2>1, <2>2 DEF IsPath, Distinct
  <2> QED
    BY <1>1, <2>1, <2>3
<1>5. Linked(links, x)
  <2> SUFFICES ASSUME NEW i \in 1 .. Len(x) PROVE links[x[i]] = Get(x, i + 1)
    BY DEF Linked
  <2>1. i \in 1 .. n - p + 1 /\ x[i] = s[p + i - 1] /\ p + i - 1 \in 1 .. n
    BY <1>2, <1>3
  <2>2. links[x[i]] = Get(s, (p + i - 1) + 1)
    BY <2>1 DEF IsPath, Linked
  <2>3. Get(s, (p + i - 1) + 1) = Get(x, i + 1)
    <3>1. CASE i + 1 \in 1 .. Len(x)
      <4>1. i + 1 \in 1 .. n - p + 1 /\ p + (i + 1) - 1 = (p + i - 1) + 1
        BY <1>1, <1>2, <2>1, <3>1
      <4>2. x[i + 1] = s[(p + i - 1) + 1] /\ (p + i - 1) + 1 \in 1 .. n
        BY SMTT(20), <1>2, <1>3, <4>1
      <4> QED
        BY <3>1, <4>2 DEF Get
    <3>2. CASE i + 1 \notin 1 .. Len(x)
      <4>1. (p + i - 1) + 1 \notin 1 .. Len(s)
        BY <1>1, <1>2, <2>1, <3>2
      <4> QED
        BY <3>2, <4>1 DEF Get
    <3> QED
      BY <3>1, <3>2
  <2> QED
    BY <2>2, <2>3
<1>6. s[p] = Get(x, 1)
  <2>1. 1 \in 1 .. n - p + 1 /\ p + 1 - 1 = p
    BY <1>1
  <2> QED
    BY <1>2, <2>1 DEF Get
<1> QED
  BY <1>2, <1>4, <1>5, <1>6 DEF IsPath, x

\* What remains of a walk from the cell p to the cell q.
RestFrom(links, cell, last, first) ==
    LET c == Chain(links, cell)
        n == CHOOSE i \in DOMAIN c : c[i] = last
    IN  SubSeq(c, first, n)

\* It is the part of the list between them.
LEMMA RestIsPart ==
    ASSUME NEW links \in Links, NEW s, NEW c, IsPath(links, s, c),
           NEW p \in 1 .. Len(s), NEW q \in 1 .. Len(s), p <= q,
           NEW first \in {1, 2}
    PROVE  RestFrom(links, s[p], s[q], first) = SubSeq(s, p + first - 1, q)
<1> DEFINE n == Len(s)
           x == SubSeq(s, p, n)
           m == q - p + 1
<1>1. s \in Seq(Cell) /\ n \in Nat /\ p \in Int /\ q \in Int /\ p >= 1 /\ p <= n /\ q <= n
  BY DEF IsPath
<1>2. /\ IsPath(links, x, s[p])
      /\ Len(x) = n - p + 1
      /\ \A i \in 1 .. n - p + 1 : x[i] = s[p + i - 1]
  BY SuffixPath
<1> HIDE DEF x
<1>3. Chain(links, s[p]) = x
  BY <1>2, ChainIsPath
<1>4. DOMAIN x = 1 .. n - p + 1 /\ \A i, j \in 1 .. n - p + 1 : x[i] = x[j] => i = j
  <2>1. x \in Seq(Cell)
    BY <1>2 DEF IsPath
  <2>2. DOMAIN x = 1 .. Len(x)
    BY <2>1, LenProperties
  <2> QED
    BY <1>2, <2>2 DEF IsPath, Distinct
<1>5. m \in 1 .. n - p + 1 /\ x[m] = s[q]
  <2>1. m \in 1 .. n - p + 1 /\ p + m - 1 = q
    BY <1>1
  <2> HIDE DEF m
  <2> QED
    BY <1>2, <2>1
<1> HIDE DEF m, n
<1>6. (CHOOSE i \in DOMAIN x : x[i] = s[q]) = m
  BY <1>4, <1>5
<1>7. RestFrom(links, s[p], s[q], first) = SubSeq(x, first, m)
  BY <1>3, <1>6 DEF RestFrom
<1>8. SubSeq(x, first, m) = SubSeq(s, p + first - 1, q)
  <2>1. SubSeq(x, first, m) = [i \in 1 .. m - first + 1 |-> x[i + first - 1]]
    BY <1>1, <1>5
  <2>2. SubSeq(s, p + first - 1, q) = [i \in 1 .. q - (p + first - 1) + 1 |-> s[i + (p + first - 1) - 1]]
    BY <1>1
  <2>3. m - first + 1 = q - (p + first - 1) + 1
    BY <1>1 DEF m
  <2>4. \A i \in 1 .. m - first + 1 : x[i + first - 1] = s[i + (p + first - 1) - 1]
    <3> SUFFICES ASSUME NEW i \in 1 .. m - first + 1 PROVE x[i + first - 1] = s[i + (p + first - 1) - 1]
      OBVIOUS
    <3>1. i + first - 1 \in 1 .. n - p + 1 /\ p + (i + first - 1) - 1 = i + (p + first - 1) - 1
      BY <1>1, <1>5
    <3> QED
      BY <1>2, <3>1 DEF n
  <2> QED
    BY <2>1, <2>2, <2>3, <2>4
<1> QED
  BY <1>7, <1>8

\* The round, in terms of the list.
LEMMA TodoMapped ==
    ASSUME TypeOK, NEW list, NEW timeouts, NEW free, Shape(list, timeouts, free),
           step \in {"call", "in"},
           NEW p \in 1 .. Len(list), NEW q \in 1 .. Len(list), WalkAt(list, p, q)
    PROVE  AbstractTodo = Each(Proc, Only(Rounds(list, p, q), Live))
<1>1. Next_Of \in Links
  BY DEF TypeOK, Links
<1>2. IsPath(Next_Of, list, First)
  BY DEF Shape, Places
<1>3. p <= q /\ walk.cell = list[p] /\ walk.last = list[q]
  BY DEF WalkAt
<1>4. /\ RestFrom(Next_Of, list[p], list[q], 1) = SubSeq(list, p + 1 - 1, q)
      /\ RestFrom(Next_Of, list[p], list[q], 2) = SubSeq(list, p + 2 - 1, q)
  <2>1. 1 \in {1, 2} /\ 2 \in {1, 2} /\ p <= q
    BY <1>3
  <2>2. RestFrom(Next_Of, list[p], list[q], 1) = SubSeq(list, p + 1 - 1, q)
    BY ONLY <1>1, <1>2, <2>1, RestIsPart
  <2> QED
    BY ONLY <1>1, <1>2, <2>1, <2>2, RestIsPart
<1>5. p + 1 - 1 = p /\ p + 2 - 1 = p + 1
  OBVIOUS
<1>6. Rest = Rounds(list, p, q)
  BY <1>3, <1>4, <1>5 DEF Rest, RestFrom, Rounds
<1> QED
  BY <1>6 DEF AbstractTodo

\* And in the next state.
LEMMA TodoMappedNext ==
    ASSUME TypeOK', NEW list, NEW timeouts, NEW free, Shape(list, timeouts, free)',
           step' \in {"call", "in"},
           NEW p \in 1 .. Len(list), NEW q \in 1 .. Len(list), WalkAt(list, p, q)'
    PROVE  AbstractTodo' = Each(Proc', Only(Rounds(list, p, q)', Live'))
<1>1. Next_Of' \in Links
  BY DEF TypeOK, Links
<1>2. IsPath(Next_Of', list, First')
  BY DEF Shape, Places
<1>3. p <= q /\ walk'.cell = list[p] /\ walk'.last = list[q]
  BY DEF WalkAt
<1>4. /\ RestFrom(Next_Of', list[p], list[q], 1) = SubSeq(list, p + 1 - 1, q)
      /\ RestFrom(Next_Of', list[p], list[q], 2) = SubSeq(list, p + 2 - 1, q)
  BY SMTT(20), <1>1, <1>2, <1>3, RestIsPart
<1>5. p + 1 - 1 = p /\ p + 2 - 1 = p + 1
  OBVIOUS
<1>6. Rest' = Rounds(list, p, q)'
  BY <1>3, <1>4, <1>5 DEF Rest, RestFrom, Rounds
<1> QED
  BY <1>6 DEF AbstractTodo

\* Nothing is kept of nothing.
LEMMA NoCells ==
    ASSUME NEW S, NEW f
    PROVE  Only(<<>>, S) = <<>> /\ Each(f, <<>>) = <<>>
<1>1. <<>> \in Seq(Cell)
  OBVIOUS
<1>2. \A i \in 1 .. Len(<<>>) : <<>>[i] \notin S
  OBVIOUS
<1> QED
  BY <1>1, <1>2, NothingKept

\* Nothing remains out of Call_Callbacks.
LEMMA NothingTodo ==
    /\ step \notin {"call", "in"} => AbstractTodo = <<>>
    /\ step' \notin {"call", "in"} => AbstractTodo' = <<>>
<1>1. Only(<<>>, Live) = <<>> /\ Each(Proc, <<>>) = <<>>
  BY NoCells
<1>2. Only(<<>>, Live') = <<>> /\ Each(Proc', <<>>) = <<>>
  BY NoCells
<1> QED
  BY <1>1, <1>2 DEF AbstractTodo, Rest

-----------------------------------------------------------------------------
\* The two parts of a list.
LEMMA PartsOfList ==
    ASSUME NEW s \in Seq(Cell), NEW n \in 0 .. Len(s)
    PROVE  /\ SubSeq(s, 1, n) \in Seq(Cell) /\ Len(SubSeq(s, 1, n)) = n
           /\ \A i \in 1 .. n : SubSeq(s, 1, n)[i] = s[i]
           /\ SubSeq(s, n + 1, Len(s)) \in Seq(Cell)
           /\ Len(SubSeq(s, n + 1, Len(s))) = Len(s) - n
           /\ \A i \in 1 .. Len(s) - n : SubSeq(s, n + 1, Len(s))[i] = s[n + i]
           /\ s = SubSeq(s, 1, n) \o SubSeq(s, n + 1, Len(s))
           /\ n = Len(s) => SubSeq(s, 1, n) = s /\ SubSeq(s, n + 1, Len(s)) = <<>>
<1> DEFINE m == Len(s)
           a == SubSeq(s, 1, n)
           b == SubSeq(s, n + 1, m)
<1>1. n \in Nat /\ m \in Nat /\ n <= m /\ (n + 1) - 1 = n /\ \A i \in 1 .. m : s[i] \in Cell
  OBVIOUS
<1> HIDE DEF m
<1>2. a \in Seq(Cell) /\ Len(a) = n /\ \A i \in 1 .. n : a[i] = s[i]
  <2>1. \A i \in 1 .. n : s[i] \in Cell
    BY <1>1
  <2>2. a \in Seq(Cell) /\ Len(a) = (IF 1 <= n THEN n - 1 + 1 ELSE 0)
        /\ \A i \in 1 .. n - 1 + 1 : a[i] = s[1 + i - 1]
    BY <1>1, <2>1, SubSeqProperties
  <2> HIDE DEF a
  <2> QED
    BY <1>1, <2>2
<1>3. b \in Seq(Cell) /\ Len(b) = m - n /\ \A i \in 1 .. m - n : b[i] = s[n + i]
  <2>1. \A i \in n + 1 .. m : s[i] \in Cell
    BY <1>1
  <2>2. b \in Seq(Cell) /\ Len(b) = (IF n + 1 <= m THEN m - (n + 1) + 1 ELSE 0)
        /\ \A i \in 1 .. m - (n + 1) + 1 : b[i] = s[(n + 1) + i - 1]
    BY <1>1, <2>1, SubSeqProperties
  <2> HIDE DEF b
  <2> QED
    BY <1>1, <2>2
<1>4. s = a \o b
  BY <1>1, CutList DEF m
<1> HIDE DEF a, b
<1>5. n = m => a = s /\ b = <<>>
  <2>1. a = [k \in 1 .. Len(a) |-> a[k]] /\ s = [k \in 1 .. m |-> s[k]]
    BY <1>2, LenProperties DEF m
  <2>2. Len(b) = 0 => b = <<>>
    BY <1>3
  <2> QED
    BY <1>1, <1>2, <1>3, <2>1, <2>2
<1> QED
  BY <1>2, <1>3, <1>4, <1>5 DEF a, b, m

\* The parts of a list around one of its cells.
LEMMA AroundElement ==
    ASSUME NEW s \in Seq(Cell), NEW p \in 1 .. Len(s)
    PROVE  /\ SubSeq(s, 1, p - 1) \in Seq(Cell)
           /\ SubSeq(s, p + 1, Len(s)) \in Seq(Cell)
           /\ \A i \in 1 .. Len(SubSeq(s, 1, p - 1)) :
                 \E j \in 1 .. Len(s) : j < p /\ SubSeq(s, 1, p - 1)[i] = s[j]
           /\ \A i \in 1 .. Len(SubSeq(s, p + 1, Len(s))) :
                 \E j \in 1 .. Len(s) : j > p /\ SubSeq(s, p + 1, Len(s))[i] = s[j]
           /\ s = SubSeq(s, 1, p - 1) \o SubSeq(s, p, Len(s))
<1> DEFINE n == Len(s)
           m == p - 1
           a == SubSeq(s, 1, m)
           b == SubSeq(s, p + 1, n)
<1>1. n \in Nat /\ p \in 0 .. n /\ p >= 1 /\ m \in 0 .. n /\ m + 1 = p /\ m < p
  OBVIOUS
<1> HIDE DEF m
<1>2. a \in Seq(Cell) /\ Len(a) = m /\ \A i \in 1 .. m : a[i] = s[i]
  BY <1>1, PartsOfList
<1>3. s = a \o SubSeq(s, m + 1, n)
  BY <1>1, PartsOfList
<1>4. b \in Seq(Cell) /\ Len(b) = n - p /\ \A i \in 1 .. n - p : b[i] = s[p + i]
  BY <1>1, PartsOfList
<1> HIDE DEF a, b, n
<1>5. ASSUME NEW i \in 1 .. Len(a) PROVE \E j \in 1 .. n : j < p /\ a[i] = s[j]
  <2>1. i \in 1 .. n /\ i < p /\ a[i] = s[i]
    BY <1>1, <1>2
  <2> QED
    BY <2>1
<1>6. ASSUME NEW i \in 1 .. Len(b) PROVE \E j \in 1 .. n : j > p /\ b[i] = s[j]
  <2>1. p + i \in 1 .. n /\ p + i > p /\ b[i] = s[p + i]
    BY <1>1, <1>4
  <2> QED
    BY <2>1
<1> QED
  BY <1>1, <1>2, <1>3, <1>4, <1>5, <1>6 DEF a, b, n, m

\* The first element of a part.
LEMMA PartHead ==
    ASSUME NEW s \in Seq(Cell), NEW p \in 1 .. Len(s), NEW q \in 1 .. Len(s), p <= q
    PROVE  SubSeq(s, p, q) = <<s[p]>> \o SubSeq(s, p + 1, q)
<1> DEFINE x == SubSeq(s, p, q)
           b == SubSeq(s, p + 1, q)
           y == <<s[p]>>
           c == y \o b
<1>1. p \in Int /\ q \in Int /\ p >= 1 /\ q <= Len(s) /\ Len(s) \in Nat
      /\ \A i \in 1 .. Len(s) : s[i] \in Cell
  OBVIOUS
<1>2. x \in Seq(Cell) /\ Len(x) = q - p + 1 /\ \A i \in 1 .. q - p + 1 : x[i] = s[p + i - 1]
  <2>1. \A i \in p .. q : s[i] \in Cell
    BY <1>1
  <2> QED
    BY <1>1, <2>1, SubSeqProperties
<1>3. b \in Seq(Cell) /\ Len(b) = q - p /\ \A i \in 1 .. q - p : b[i] = s[p + i]
  <2>1. \A i \in p + 1 .. q : s[i] \in Cell
    BY <1>1
  <2>2. b \in Seq(Cell) /\ Len(b) = (IF p + 1 <= q THEN q - (p + 1) + 1 ELSE 0)
        /\ \A i \in 1 .. q - (p + 1) + 1 : b[i] = s[(p + 1) + i - 1]
    BY <1>1, <2>1, SubSeqProperties
  <2> HIDE DEF b
  <2> QED
    BY <1>1, <2>2
<1>4. y \in Seq(Cell) /\ Len(y) = 1 /\ y[1] = s[p]
  BY <1>1
<1> HIDE DEF x, b, y
<1>5. c \in Seq(Cell) /\ Len(c) = 1 + (q - p)
      /\ \A k \in 1 .. 1 + (q - p) : c[k] = IF k <= 1 THEN y[k] ELSE b[k - 1]
  <2>1. c \in Seq(Cell) /\ Len(c) = Len(y) + Len(b)
        /\ \A k \in 1 .. Len(y) + Len(b) : c[k] = IF k <= Len(y) THEN y[k] ELSE b[k - Len(y)]
    BY <1>3, <1>4, ConcatProperties
  <2> HIDE DEF c
  <2> QED
    BY <1>3, <1>4, <2>1
<1> HIDE DEF c
<1>6. ASSUME NEW k \in 1 .. q - p + 1 PROVE x[k] = c[k]
  <2>1. CASE k = 1
    <3>1. x[1] = s[p + 1 - 1] /\ c[1] = y[1] /\ p + 1 - 1 = p
      BY <1>1, <1>2, <1>5, <1>6, <2>1
    <3> QED
      BY <1>4, <2>1, <3>1
  <2>2. CASE k # 1
    <3>1. k - 1 \in 1 .. q - p /\ ~(k <= 1) /\ k \in 1 .. 1 + (q - p) /\ p + k - 1 = p + (k - 1)
      BY <1>1, <2>2
    <3> QED
      BY <1>2, <1>3, <1>5, <3>1
  <2> QED
    BY <2>1, <2>2
<1>7. x = [k \in 1 .. q - p + 1 |-> x[k]] /\ c = [k \in 1 .. q - p + 1 |-> c[k]]
  <2>1. 1 + (q - p) = q - p + 1
    BY <1>1
  <2>2. x = [k \in 1 .. Len(x) |-> x[k]] /\ c = [k \in 1 .. Len(c) |-> c[k]]
    BY <1>2, <1>5, LenProperties
  <2> QED
    BY <1>2, <1>5, <2>1, <2>2
<1> QED
  BY <1>6, <1>7 DEF x, c, y, b

\* A cell that leaves a list and a cell that is not kept come to the same.
LEMMA OnlyDropped ==
    ASSUME NEW s \in Seq(Cell), Distinct(s), NEW p \in 1 .. Len(s), NEW S
    PROVE  Only(Dropped(s, p), S) = Only(s, S \ {s[p]})
<1> DEFINE a == SubSeq(s, 1, p - 1)
           b == SubSeq(s, p + 1, Len(s))
           x == <<s[p]>>
           R == S \ {s[p]}
<1>1. /\ a \in Seq(Cell) /\ b \in Seq(Cell)
      /\ \A i \in 1 .. Len(a) : \E j \in 1 .. Len(s) : j < p /\ a[i] = s[j]
      /\ \A i \in 1 .. Len(b) : \E j \in 1 .. Len(s) : j > p /\ b[i] = s[j]
      /\ s = a \o SubSeq(s, p, Len(s))
  BY AroundElement
<1>2. SubSeq(s, p, Len(s)) = x \o b
  BY PartHead
<1>3. x \in Seq(Cell) /\ x \o b \in Seq(Cell)
  <2>1. s[p] \in Cell
    OBVIOUS
  <2>2. x \in Seq(Cell)
    BY <2>1
  <2> HIDE DEF x, a, b
  <2> QED
    BY <1>1, <2>2
<1>4. Only(x, R) = <<>>
  BY OnlyOne
<1> HIDE DEF a, b, x
<1>5. Only(a, R) = Only(a, S)
  <2>1. \A i \in 1 .. Len(a) : a[i] \in R <=> a[i] \in S
    BY <1>1 DEF Distinct
  <2> HIDE DEF R
  <2> QED
    BY <1>1, <2>1, SameOnly
<1>6. Only(b, R) = Only(b, S)
  <2>1. \A i \in 1 .. Len(b) : b[i] \in R <=> b[i] \in S
    BY <1>1 DEF Distinct
  <2> HIDE DEF R
  <2> QED
    BY <1>1, <2>1, SameOnly
<1> HIDE DEF R
<1>7. Only(s, R) = Only(a, R) \o (Only(x, R) \o Only(b, R))
  <2>1. PICK y : y = x \o b
    OBVIOUS
  <2>2. y \in Seq(Cell) /\ s = a \o y
    BY <1>1, <1>2, <1>3, <2>1
  <2>3. Joined(Only(x \o b, R), Only(x, R), Only(b, R))
    BY ONLY <1>1, <1>3, OnlyConcat
  <2>4. Joined(Only(a \o y, R), Only(a, R), Only(y, R))
    BY ONLY <1>1, <2>2, OnlyConcat
  <2> QED
    BY <2>1, <2>2, <2>3, <2>4 DEF Joined
<1>8. Only(a \o b, S) = Only(a, S) \o Only(b, S)
  <2>1. Joined(Only(a \o b, S), Only(a, S), Only(b, S))
    BY ONLY <1>1, OnlyConcat
  <2> QED
    BY <2>1 DEF Joined
<1>9. <<>> \o Only(b, S) = Only(b, S)
  <2>1. Only(b, S) \in Seq(Cell)
    BY <1>1, OnlyElements
  <2> QED
    BY <2>1
<1> QED
  BY <1>4, <1>5, <1>6, <1>7, <1>8, <1>9 DEF Dropped, a, b, R

\* What is kept of a list with a new cell.
LEMMA OnlyInserted ==
    ASSUME NEW s \in Seq(Cell), NEW n \in 0 .. Len(s), NEW h \in Cell, NEW S, h \in S
    PROVE  Only(Inserted(s, n, h), S)
              = Only(SubSeq(s, 1, n), S) \o <<h>> \o Only(SubSeq(s, n + 1, Len(s)), S)
<1> DEFINE a == SubSeq(s, 1, n)
           b == SubSeq(s, n + 1, Len(s))
           x == <<h>>
<1>1. a \in Seq(Cell) /\ b \in Seq(Cell) /\ x \in Seq(Cell)
  BY PartsOfList
<1>2. Only(x, S) = x
  BY OnlyOne
<1> HIDE DEF a, b, x
<1>3. PICK y : y = a \o x
  OBVIOUS
<1>4. Only((a \o x) \o b, S) = (Only(a, S) \o Only(x, S)) \o Only(b, S)
  <2>1. y \in Seq(Cell)
    BY <1>1, <1>3
  <2>2. Joined(Only(a \o x, S), Only(a, S), Only(x, S))
    BY ONLY <1>1, OnlyConcat
  <2>3. Joined(Only(y \o b, S), Only(y, S), Only(b, S))
    BY ONLY <1>1, <2>1, OnlyConcat
  <2> QED
    BY <1>3, <2>2, <2>3 DEF Joined
<1> QED
  BY <1>2, <1>4 DEF Inserted, a, b, x

\* The same for a cell at the end.
LEMMA OnlyAppended ==
    ASSUME NEW s \in Seq(Cell), NEW h \in Cell, NEW S, h \in S
    PROVE  Only(Inserted(s, Len(s), h), S) = Only(s, S) \o <<h>>
<1> DEFINE n == Len(s)
<1>1. n \in 0 .. n /\ SubSeq(s, 1, n) = s /\ SubSeq(s, n + 1, n) = <<>>
  BY PartsOfList
<1>2. Only(Inserted(s, n, h), S) = Only(s, S) \o <<h>> \o Only(<<>>, S)
  BY <1>1, OnlyInserted
<1>3. Only(<<>>, S) = <<>>
  BY NoCells
<1>4. Only(s, S) \o <<h>> \in Seq(Cell)
  BY OnlyElements
<1> HIDE DEF n
<1>5. (Only(s, S) \o <<h>>) \o <<>> = Only(s, S) \o <<h>>
  BY <1>4
<1> QED
  BY <1>2, <1>3, <1>5 DEF n

-----------------------------------------------------------------------------
\* Whose turn it is.
LEMMA Turns ==
    ASSUME TypeOK
    PROVE  /\ ClientTurn => Abstract!ClientTurn
           /\ AbstractRound = "none" <=> step = "idle"
           /\ AbstractRound = "list" <=> step \in {"call", "in", "end"}
           /\ AbstractRound = "time" <=> step \in {"time", "time_in"}
BY DEF TypeOK, ClientTurn, Abstract!ClientTurn, AbstractRound

\* A step that leaves the cells and the lists alone shows the same timeouts,
\* and the same list unless a callback is about to leave it.
LEMMA ViewKept ==
    ASSUME TypeOK, TypeOK', NEW list, NEW timeouts, NEW free, Shape(list, timeouts, free),
           NEW free2, Shape(list, timeouts, free2)', UNCHANGED <<Mode, T, Proc>>
    PROVE  /\ Live' = Live
           /\ AbstractTimeouts' = AbstractTimeouts
           /\ Removing' = Removing => AbstractQueue' = AbstractQueue
<1>1. Live' = Live
  BY DEF Live
<1>2. /\ AbstractQueue = Each(Entry(Proc, Mode), Only(list, Shown))
      /\ AbstractTimeouts = Each(Due(Proc, T), Only(timeouts, Live))
  BY Mapped
<1>3. /\ AbstractQueue' = Each(Entry(Proc', Mode'), Only(list, Shown'))
      /\ AbstractTimeouts' = Each(Due(Proc', T'), Only(timeouts, Live'))
  BY MappedNext
<1>4. Removing' = Removing => Shown' = Shown
  BY <1>1 DEF Shown
<1> QED
  BY <1>1, <1>2, <1>3, <1>4

\* Call_Callbacks starts a round with the whole list.
LEMMA CallCallbacksRefines ==
    ASSUME TypeOK, NEW list, NEW timeouts, NEW free, Shape(list, timeouts, free), Call_Callbacks
    PROVE  Abstract!Start_Round
<1> DEFINE n == Len(list)
           o == Only(list, Live)
<1>1. /\ step = "idle" /\ First # Null /\ step' = "call"
      /\ walk' = [cell |-> First, prev |-> Null, last |-> Last]
      /\ UNCHANGED <<cellVars, Cb_Handle, current, Current_Time>>
  BY DEF Call_Callbacks
<1>2. TypeOK' /\ Shape(list, timeouts, free)'
  BY WalkKeeps
<1>3. /\ IsPath(Next_Of, list, First)
      /\ Last = Get(list, n)
  BY DEF Shape, Places
<1>4. /\ list \in Seq(Cell) /\ n \in Nat /\ n > 0 /\ First = list[1]
  BY <1>1, <1>3, PathEnds
<1>5. 1 \in 1 .. n /\ n \in 1 .. n /\ 1 - 1 \notin 1 .. n /\ 1 <= n
  BY <1>4
<1>6. WalkAt(list, 1, n)'
  BY <1>1, <1>3, <1>4, <1>5 DEF WalkAt, Get
<1>7. AbstractTodo' = Each(Proc', Only(Rounds(list, 1, n)', Live'))
  BY <1>1, <1>2, <1>5, <1>6, TodoMappedNext
<1>8. Rounds(list, 1, n)' = list
  BY <1>1, <1>4, <1>5, PartsOfList DEF Rounds
<1>9. Live' = Live /\ AbstractTimeouts' = AbstractTimeouts
      /\ (Removing' = Removing => AbstractQueue' = AbstractQueue)
  BY <1>1, <1>2, ViewKept DEF cellVars
<1>10. Removing = {} /\ Removing' = {}
  BY <1>1 DEF Removing
<1>11. AbstractQueue = Each(Entry(Proc, Mode), o)
  <2>1. Shown = Live
    BY <1>10 DEF Shown
  <2> QED
    BY <2>1, Mapped
<1>12. o \in Seq(Cell) /\ DOMAIN o = 1 .. Len(o)
  BY <1>4, OnlyElements
<1>13. AbstractTodo' = Each(Proc, o)
  BY <1>1, <1>7, <1>8, <1>9 DEF cellVars
<1> HIDE DEF o
<1>14. AbstractTodo' = [i \in DOMAIN AbstractQueue |-> AbstractQueue[i].id]
  <2>1. DOMAIN AbstractQueue = DOMAIN o
    BY <1>11 DEF Each
  <2>2. \A i \in DOMAIN o : AbstractQueue[i].id = Proc[o[i]]
    BY <1>11, <1>12 DEF Each, Entry
  <2>3. AbstractTodo' = [i \in DOMAIN o |-> Proc[o[i]]]
    BY <1>13 DEF Each
  <2> QED
    BY <2>1, <2>2, <2>3
<1>15. AbstractRound = "none" /\ AbstractRound' = "list"
  BY <1>1 DEF AbstractRound
<1> QED
  BY <1>1, <1>9, <1>10, <1>14, <1>15 DEF Abstract!Start_Round

\* Call_Cell calls the next callback of the round, or passes a deleted one.
LEMMA CallCellRefines ==
    ASSUME TypeOK, NEW list, NEW timeouts, NEW free, Shape(list, timeouts, free), Call_Cell
    PROVE  Abstract!Call \/ UNCHANGED Abstract!vars
<1>1. /\ step = "call" /\ step' = "in" /\ current' = Proc[walk.cell]
      /\ UNCHANGED <<cellVars, Cb_Handle, walk, Current_Time>>
  BY DEF Call_Cell
<1>2. TypeOK' /\ Shape(list, timeouts, free)'
  BY WalkKeeps
<1>3. PICK p \in 1 .. Len(list), q \in 1 .. Len(list) : WalkAt(list, p, q)
  BY <1>1 DEF Shape, Walking
<1> DEFINE c == list[p]
           b == SubSeq(list, p + 1, q)
           r == Only(b, Live)
           o == Only(list, Live)
           R == {d \in Cell : Proc[d] = Proc[c] => Mode[d] = "Repeat"}
<1>4. WalkAt(list, p, q)' /\ p <= q /\ walk.cell = c
  BY <1>1, <1>3 DEF WalkAt
<1>5. /\ list \in Seq(Cell) /\ c \in Cell
      /\ \A i, j \in 1 .. Len(list) : list[i] = list[j] => i = j
      /\ \A i \in 1 .. Len(list) : list[i] \in Cells(list) /\ list[i] \in Cell
  BY DEF Shape, Places, IsPath, Distinct, Cells
<1>6. AbstractTodo = Each(Proc, Only(SubSeq(list, p, q), Live))
  <2>1. AbstractTodo = Each(Proc, Only(Rounds(list, p, q), Live))
    BY <1>1, <1>3, TodoMapped
  <2> QED
    BY <1>1, <2>1 DEF Rounds
<1>7. Live' = Live /\ AbstractTimeouts' = AbstractTimeouts
  BY <1>1, <1>2, ViewKept DEF cellVars
<1>8. AbstractTodo' = Each(Proc, r)
  <2>1. AbstractTodo' = Each(Proc', Only(Rounds(list, p, q)', Live'))
    BY <1>1, <1>2, <1>4, TodoMappedNext
  <2> QED
    BY <1>1, <1>7, <2>1 DEF Rounds, cellVars
<1>9. SubSeq(list, p, q) = <<c>> \o b /\ b \in Seq(Cell)
  <2>1. \A i \in p + 1 .. q : list[i] \in Cell
    BY <1>5
  <2> QED
    BY <1>4, <1>5, <2>1, PartHead, SubSeqProperties
<1>10. Only(SubSeq(list, p, q), Live) = Only(<<c>>, Live) \o r
  <2>1. <<c>> \in Seq(Cell)
    BY <1>5
  <2> HIDE DEF b, c
  <2>2. Joined(Only(<<c>> \o b, Live), Only(<<c>>, Live), Only(b, Live))
    BY ONLY <1>9, <2>1, OnlyConcat
  <2> QED
    BY <1>9, <2>2 DEF Joined
<1>11. AbstractQueue = Each(Entry(Proc, Mode), o)
  <2>1. Shown = Live
    BY <1>1 DEF Shown, Removing
  <2> QED
    BY <2>1, Mapped
<1>12. AbstractQueue' = Each(Entry(Proc, Mode), Only(list, Shown'))
  BY <1>1, <1>2, MappedNext DEF cellVars
<1>13. \A i \in 1 .. Len(list) : list[i] \in Shown' <=> list[i] \in Live /\ (list[i] = c => Mode[c] # "Oneshot")
  BY <1>1, <1>4, <1>7 DEF Shown, Removing, cellVars
<1>14. AbstractRound = "list" /\ AbstractRound' = "list"
  BY <1>1 DEF AbstractRound
<1>15. current = None
  BY <1>1 DEF Shape, Calling
<1>16. r \in Seq(Cell)
  BY <1>9, OnlyElements
<1>17. ASSUME c \in Live PROVE Abstract!Call
  <2>1. Only(SubSeq(list, p, q), Live) = <<c>> \o r
    BY <1>5, <1>10, <1>17, OnlyOne
  <2>2. AbstractTodo = <<Proc[c]>> \o Each(Proc, r)
    <3>1. Proc \in [Cell -> Id \cup {None}] /\ <<c>> \in Seq(Cell)
      BY <1>5 DEF TypeOK, Nop_Callback
    <3>2. Each(Proc, <<c>> \o r) = Each(Proc, <<c>>) \o Each(Proc, r)
      <4> HIDE DEF c, r
      <4>1. Joined(Each(Proc, <<c>> \o r), Each(Proc, <<c>>), Each(Proc, r))
        BY ONLY <1>16, <3>1, EachConcat
      <4> QED
        BY <4>1 DEF Joined
    <3>3. Each(Proc, <<c>>) = <<Proc[c]>>
      BY <1>5, OnlyOne
    <3> QED
      BY <1>6, <2>1, <3>2, <3>3
  <2>3. Each(Proc, r) \in Seq(Id \cup {None})
    <3>1. Proc \in [Cell -> Id \cup {None}]
      BY DEF TypeOK, Nop_Callback
    <3> HIDE DEF r
    <3> QED
      BY ONLY <1>16, <3>1, EachConcat
  <2>4. Head(AbstractTodo) = Proc[c] /\ Tail(AbstractTodo) = Each(Proc, r) /\ AbstractTodo # <<>>
    <3>1. Proc[c] \in Id \cup {None}
      BY <1>5 DEF TypeOK, Nop_Callback
    <3> QED
      BY <2>2, <2>3, <3>1, HeadTailProperties
  <2>5. AbstractQueue' = Abstract!At(AbstractQueue, {i \in DOMAIN AbstractQueue :
                 AbstractQueue[i].id = Head(AbstractTodo) => AbstractQueue[i].mode = "Repeat"})
    <3> DEFINE I == {i \in DOMAIN AbstractQueue :
                        AbstractQueue[i].id = Proc[c] => AbstractQueue[i].mode = "Repeat"}
    <3>1. o \in Seq(Cell) /\ DOMAIN o = 1 .. Len(o)
      BY <1>5, OnlyElements
    <3>2. I = {i \in DOMAIN o : o[i] \in R}
      <4>1. DOMAIN AbstractQueue = DOMAIN o
        BY <1>11 DEF Each
      <4>2. \A i \in DOMAIN o : AbstractQueue[i].id = Proc[o[i]] /\ AbstractQueue[i].mode = Mode[o[i]]
                                /\ o[i] \in Cell
        BY <1>11, <3>1 DEF Each, Entry
      <4> HIDE DEF o, c
      <4> QED
        BY <4>1, <4>2
    <3> HIDE DEF I
    <3>3. At(AbstractQueue, I) = Each(Entry(Proc, Mode), Only(list, Live \cap R))
      <4> HIDE DEF R
      <4>1. I = Selected(Only(list, Live), R)
        BY <3>2 DEF Selected
      <4>2. At(Each(Entry(Proc, Mode), Only(list, Live)), Selected(Only(list, Live), R))
               = Each(Entry(Proc, Mode), Only(list, Live \cap R))
        BY ONLY <1>5, TakenOfKept
      <4> QED
        BY <1>11, <4>1, <4>2
    <3>4. Only(list, Live \cap R) = Only(list, Shown')
      <4>1. \A i \in 1 .. Len(list) : list[i] \in Live \cap R <=> list[i] \in Shown'
        <5> TAKE i \in 1 .. Len(list)
        <5>1. list[i] \in Live /\ Proc[list[i]] = Proc[c] => list[i] = c
          BY <1>5, <1>17 DEF Shape, Handles, Live, Nop_Callback
        <5>2. Mode[c] \in {"Repeat", "Oneshot"}
          BY <1>5 DEF TypeOK, Shape, Modes
        <5> HIDE DEF c
        <5> QED
          BY <1>5, <1>13, <5>1, <5>2
      <4> HIDE DEF R
      <4> QED
        BY ONLY <1>5, <4>1, SameOnly
    <3> QED
      BY <1>12, <2>4, <3>3, <3>4, SameTaken DEF I
  <2> QED
    BY <1>1, <1>4, <1>7, <1>8, <1>14, <1>15, <2>4, <2>5 DEF Abstract!Call
<1>18. ASSUME c \notin Live PROVE UNCHANGED Abstract!vars
  <2>1. Only(<<c>>, Live) = <<>>
    BY <1>5, <1>18, OnlyOne
  <2>2. AbstractTodo' = AbstractTodo
    BY <1>6, <1>8, <1>10, <1>16, <2>1
  <2>3. Only(list, Shown') = o
    <3>1. \A i \in 1 .. Len(list) : list[i] \in Shown' <=> list[i] \in Live
      BY <1>13, <1>18
    <3> QED
      BY <1>5, <3>1, SameOnly
  <2>4. current' = None
    BY <1>1, <1>4, <1>5, <1>18 DEF Live, Nop_Callback
  <2> QED
    BY <1>1, <1>7, <1>11, <1>12, <1>14, <1>15, <2>2, <2>3, <2>4 DEF Abstract!vars
<1> QED
  BY <1>17, <1>18

\* A callback that is forgotten stays registered.
LEMMA RegisteredKept ==
    ASSUME TypeOK, NEW c, c # Null,
           Cb_Handle' = [x \in Id |-> IF Cb_Handle[x] = c THEN None ELSE Cb_Handle[x]]
    PROVE  {id \in Id : Cb_Handle'[id] # Null} = {id \in Id : Cb_Handle[id] # Null}
<1>1. \A id \in Id : Cb_Handle'[id] # Null <=> Cb_Handle[id] # Null
  BY CallbackAssumption
<1> QED
  BY <1>1

\* A step that changes nothing but current, to None, is the return of a
\* callback that has not been deleted before its turn.
LEMMA ReturnOrNothing ==
    ASSUME {id \in Id : Cb_Handle'[id] # Null} = {id \in Id : Cb_Handle[id] # Null},
           AbstractQueue' = AbstractQueue, AbstractTodo' = AbstractTodo,
           AbstractTimeouts' = AbstractTimeouts, AbstractRound' = AbstractRound,
           Current_Time' = Current_Time, current' = None
    PROVE  Abstract!Return \/ UNCHANGED Abstract!vars
<1>1. CASE current = None
  BY <1>1 DEF Abstract!vars
<1>2. CASE current # None
  BY <1>2 DEF Abstract!Return
<1> QED
  BY <1>1, <1>2

\* Return_Cell: the list is without the cell of a oneshot callback since the
\* call.
LEMMA ReturnCellRefines ==
    ASSUME TypeOK, NEW list, NEW timeouts, NEW free, Shape(list, timeouts, free), Return_Cell
    PROVE  Abstract!Return \/ UNCHANGED Abstract!vars
<1>1. /\ step = "in" /\ current' = None /\ step' \in {"call", "end"}
      /\ UNCHANGED <<Mode, T, Proc, Current_Time>>
  BY DEF Return_Cell
<1>2. PICK p \in 1 .. Len(list), q \in 1 .. Len(list) : WalkAt(list, p, q)
  BY <1>1 DEF Shape, Walking
<1>3. p <= q /\ walk.cell = list[p]
  BY <1>2 DEF WalkAt
<1>4. /\ list \in Seq(Cell) /\ Distinct(list) /\ list[p] \in Cell /\ list[p] # Null
  BY CallbackAssumption DEF Shape, Places, IsPath
<1>5. Live' = Live /\ Removing' = {}
  BY <1>1 DEF Live, Removing
<1>6. AbstractRound' = AbstractRound
  BY <1>1 DEF AbstractRound
<1>7. /\ AbstractQueue = Each(Entry(Proc, Mode), Only(list, Shown))
      /\ AbstractTimeouts = Each(Due(Proc, T), Only(timeouts, Live))
  BY Mapped
<1>8. AbstractTodo = Each(Proc, Only(SubSeq(list, p + 1, q), Live))
  <2>1. AbstractTodo = Each(Proc, Only(Rounds(list, p, q), Live))
    BY <1>1, <1>2, TodoMapped
  <2> QED
    BY <1>1, <2>1 DEF Rounds
<1>9. p = q => AbstractTodo = <<>>
  <2>1. p = q => SubSeq(list, p + 1, q) = <<>>
    BY <1>4
  <2> QED
    BY <1>8, <2>1, NoCells
<1>10. CASE Mode[walk.cell] # "Oneshot"
  <2>1. TypeOK' /\ Shape(list, timeouts, free)'
        /\ (p # q => step' = "call" /\ WalkAt(list, p + 1, q)')
        /\ (p = q => step' = "end")
    BY <1>2, <1>10, ReturnRepeated
  <2>2. Removing = {}
    BY <1>10 DEF Removing
  <2>3. AbstractTimeouts' = AbstractTimeouts /\ AbstractQueue' = AbstractQueue
    BY <1>1, <1>5, <2>1, <2>2, ViewKept
  <2>4. AbstractTodo' = AbstractTodo
    <3>1. CASE p = q
      BY <1>9, <2>1, <3>1, NothingTodo
    <3>2. CASE p # q
      <4>1. p + 1 \in 1 .. Len(list)
        BY <1>3, <1>4, <3>2
      <4>2. AbstractTodo' = Each(Proc', Only(Rounds(list, p + 1, q)', Live'))
        BY <2>1, <3>2, <4>1, TodoMappedNext
      <4>3. Rounds(list, p + 1, q)' = SubSeq(list, p + 1, q)
        BY <2>1, <3>2 DEF Rounds
      <4> QED
        BY <1>1, <1>5, <1>8, <4>2, <4>3
    <3> QED
      BY <3>1, <3>2
  <2>5. Cb_Handle' = Cb_Handle
    BY <1>10 DEF Return_Cell
  <2> QED
    BY <1>1, <1>6, <2>3, <2>4, <2>5, ReturnOrNothing
<1>11. CASE Mode[walk.cell] = "Oneshot"
  <2> DEFINE list2 == Dropped(list, p)
  <2>1. /\ TypeOK'
        /\ (p # q => step' = "call" /\ WalkAt(list2, p, q - 1)')
        /\ (p = q => step' = "end")
        /\ \E free2 \in Seq(Cell) : Shape(list2, timeouts, free2)'
    BY <1>2, <1>11, ReturnOneshot
  <2>2. PICK free2 \in Seq(Cell) : Shape(list2, timeouts, free2)'
    BY <2>1
  <2>3. Removing = {list[p]}
    BY <1>1, <1>3, <1>11 DEF Removing
  <2>4. /\ AbstractQueue' = Each(Entry(Proc', Mode'), Only(list2, Shown'))
        /\ AbstractTimeouts' = Each(Due(Proc', T'), Only(timeouts, Live'))
    <3> HIDE DEF list2
    <3> QED
      BY <2>1, <2>2, MappedNext
  <2>5. AbstractQueue' = AbstractQueue
    <3>1. Shown' = Live
      BY <1>5 DEF Shown
    <3>2. Shown = Live \ {list[p]}
      BY <2>3 DEF Shown
    <3>3. Only(list2, Live) = Only(list, Live \ {list[p]})
      BY <1>4, OnlyDropped
    <3> QED
      BY <1>1, <1>7, <2>4, <3>1, <3>2, <3>3
  <2>6. AbstractTodo' = AbstractTodo
    <3>1. CASE p = q
      BY <1>9, <2>1, <3>1, NothingTodo
    <3>2. CASE p # q
      <4>1. /\ list2 \in Seq(Cell) /\ Len(list2) = Len(list) - 1
            /\ \A i \in p + 1 .. Len(list) : list2[i - 1] = list[i]
        BY <1>4, DroppedElements DEF TakesOut
      <4> HIDE DEF list2
      <4>2. p \in 1 .. Len(list2) /\ q - 1 \in 1 .. Len(list2)
        BY <1>3, <1>4, <3>2, <4>1
      <4>3. AbstractTodo' = Each(Proc', Only(Rounds(list2, p, q - 1)', Live'))
        BY <2>1, <2>2, <3>2, <4>2, TodoMappedNext
      <4>4. Rounds(list2, p, q - 1)' = SubSeq(list2, p, q - 1)
        BY <2>1, <3>2 DEF Rounds
      <4>5. SubSeq(list2, p, q - 1) = SubSeq(list, p + 1, q)
        <5>1. SubSeq(list2, p, q - 1) = [i \in 1 .. (q - 1) - p + 1 |-> list2[i + p - 1]]
          BY <1>3, <4>1
        <5>2. SubSeq(list, p + 1, q) = [i \in 1 .. q - (p + 1) + 1 |-> list[i + (p + 1) - 1]]
          BY SMTT(20), <1>3, <1>4
        <5>3. (q - 1) - p + 1 = q - (p + 1) + 1
          OBVIOUS
        <5>4. ASSUME NEW i \in 1 .. (q - 1) - p + 1 PROVE list2[i + p - 1] = list[i + (p + 1) - 1]
          <6>1. i + p \in p + 1 .. Len(list) /\ (i + p) - 1 = i + p - 1 /\ i + p = i + (p + 1) - 1
            BY <1>3, <1>4
          <6> QED
            BY <4>1, <6>1
        <5> QED
          BY <5>1, <5>2, <5>3, <5>4
      <4> QED
        BY <1>1, <1>5, <1>8, <4>3, <4>4, <4>5
    <3> QED
      BY <3>1, <3>2
  <2>7. {id \in Id : Cb_Handle'[id] # Null} = {id \in Id : Cb_Handle[id] # Null}
    <3>1. Cb_Handle' = [x \in Id |-> IF Cb_Handle[x] = list[p] THEN None ELSE Cb_Handle[x]]
      BY <1>3, <1>11 DEF Return_Cell, Forget
    <3> QED
      BY <1>4, <3>1, RegisteredKept
  <2>8. AbstractTimeouts' = AbstractTimeouts
    BY <1>1, <1>5, <1>7, <2>4
  <2> QED
    BY <1>1, <1>6, <2>5, <2>6, <2>7, <2>8, ReturnOrNothing
<1> QED
  BY <1>10, <1>11

\* The other steps of the walks, and time.
LEMMA RoundRefines ==
    ASSUME TypeOK, NEW list, NEW timeouts, NEW free, Shape(list, timeouts, free)
    PROVE  /\ End_Calls => Abstract!End_Round
           /\ Call_Time_Callbacks => Abstract!Start_Timeouts
           /\ Return_Timed => Abstract!Return \/ UNCHANGED Abstract!vars
           /\ End_Timed => Abstract!End_Round
           /\ \A t \in 0 .. TimeHigh : Advance(t) => Abstract!Advance(t)
<1> DEFINE o == Only(timeouts, Live)
           Quiet == /\ AbstractQueue' = AbstractQueue /\ AbstractTodo' = AbstractTodo
                    /\ AbstractTimeouts' = AbstractTimeouts
                    /\ UNCHANGED Cb_Handle
<1>1. ASSUME \/ End_Calls \/ Call_Time_Callbacks \/ Return_Timed \/ End_Timed
             \/ \E t \in 0 .. TimeHigh : Advance(t)
      PROVE  Quiet /\ AbstractTodo = <<>>
  <2>1. step \notin {"call", "in"} /\ step' \notin {"call", "in"}
        /\ UNCHANGED <<Mode, T, Proc, Cb_Handle>>
    BY <1>1 DEF End_Calls, Call_Time_Callbacks, Return_Timed, End_Timed, Advance, cellVars, walkVars
  <2>2. TypeOK' /\ Shape(list, timeouts, free)'
    BY <1>1, WalkKeeps
  <2>3. Removing = {} /\ Removing' = {}
    BY <2>1 DEF Removing
  <2>4. AbstractTodo = <<>> /\ AbstractTodo' = <<>>
    BY <2>1, NothingTodo
  <2> QED
    BY <2>1, <2>2, <2>3, <2>4, ViewKept
<1>2. /\ timeouts \in Seq(Cell) /\ Len(timeouts) \in Nat
      /\ Time_First = Null <=> Len(timeouts) = 0
      /\ Len(timeouts) > 0 => Time_First = timeouts[1]
      /\ \A i \in 1 .. Len(timeouts) : timeouts[i] \in Cell
  BY PathEnds DEF Shape, Places
<1>3. \A c \in Cell : T[c] \in Int
  BY DEF TypeOK
<1>4. /\ o \in Seq(Cell) /\ Len(o) \in Nat /\ DOMAIN o = 1 .. Len(o)
      /\ \A k \in 1 .. Len(o) : \E i \in 1 .. Len(timeouts) : timeouts[i] = o[k]
  BY <1>2, OnlyElements
<1>5. AbstractTimeouts = Each(Due(Proc, T), o)
  BY Mapped
<1> HIDE DEF o
<1>6. AbstractTimeouts # <<>> =>
         Len(timeouts) > 0 /\ T[timeouts[1]] \in Int /\ Head(AbstractTimeouts).t \in Int
         /\ T[timeouts[1]] <= Head(AbstractTimeouts).t
  <2> SUFFICES ASSUME AbstractTimeouts # <<>>
               PROVE  Len(timeouts) > 0 /\ T[timeouts[1]] \in Int /\ Head(AbstractTimeouts).t \in Int
                      /\ T[timeouts[1]] <= Head(AbstractTimeouts).t
    OBVIOUS
  <2>1. Len(o) > 0
    <3>1. Len(o) = 0 => o = <<>>
      BY <1>4
    <3> QED
      BY <1>4, <1>5, <3>1, NoCells
  <2>2. 1 \in 1 .. Len(o)
    BY <1>4, <2>1
  <2>3. PICK i \in 1 .. Len(timeouts) : timeouts[i] = o[1]
    BY <1>4, <2>2
  <2>4. Head(AbstractTimeouts) = Due(Proc, T)[o[1]]
    BY <1>4, <1>5, <2>2 DEF Each
  <2>5. o[1] \in Cell /\ Head(AbstractTimeouts).t = T[o[1]]
    BY <1>4, <2>2, <2>4 DEF Due
  <2>6. Len(timeouts) > 0 /\ 1 \in 1 .. Len(timeouts)
    BY <1>2
  <2>7. T[timeouts[1]] <= T[timeouts[i]]
    <3>1. CASE i = 1
      BY <1>2, <1>3, <2>6, <3>1
    <3>2. CASE i # 1
      BY <2>6, <3>2 DEF Shape, Ordered
    <3> QED
      BY <3>1, <3>2
  <2> QED
    BY <1>2, <1>3, <2>3, <2>5, <2>6, <2>7
<1>7. End_Calls => Abstract!End_Round
  <2> SUFFICES ASSUME End_Calls PROVE Abstract!End_Round
    OBVIOUS
  <2>1. Quiet /\ AbstractTodo = <<>>
    BY <1>1
  <2>2. step = "end" /\ step' = "idle" /\ UNCHANGED <<current, Current_Time>>
    BY DEF End_Calls
  <2>3. current = None
    BY <2>2 DEF Shape, Calling
  <2> QED
    BY <2>1, <2>2, <2>3 DEF Abstract!End_Round, AbstractRound
<1>8. Call_Time_Callbacks => Abstract!Start_Timeouts
  <2> SUFFICES ASSUME Call_Time_Callbacks PROVE Abstract!Start_Timeouts
    OBVIOUS
  <2>1. Quiet
    BY <1>1
  <2>2. step = "idle" /\ step' = "time" /\ UNCHANGED <<current, Current_Time>>
    BY DEF Call_Time_Callbacks
  <2> QED
    BY <2>1, <2>2 DEF Abstract!Start_Timeouts, AbstractRound
<1>9. Return_Timed => Abstract!Return \/ UNCHANGED Abstract!vars
  <2> SUFFICES ASSUME Return_Timed PROVE Abstract!Return \/ UNCHANGED Abstract!vars
    OBVIOUS
  <2>1. Quiet
    BY <1>1
  <2>2. step = "time_in" /\ step' = "time" /\ current' = None /\ UNCHANGED Current_Time
    BY DEF Return_Timed
  <2>3. AbstractRound' = AbstractRound
    BY <2>2 DEF AbstractRound
  <2> QED
    BY <2>1, <2>2, <2>3, ReturnOrNothing
<1>10. End_Timed => Abstract!End_Round
  <2> SUFFICES ASSUME End_Timed PROVE Abstract!End_Round
    OBVIOUS
  <2>1. Quiet
    BY <1>1
  <2>2. /\ step = "time" /\ step' = "idle" /\ UNCHANGED <<current, Current_Time>>
        /\ Time_First # Null => T[Time_First] > Current_Time
    BY DEF End_Timed
  <2>3. current = None
    BY <2>2 DEF Shape, Calling
  <2>4. AbstractTimeouts = <<>> \/ Head(AbstractTimeouts).t > Current_Time
    <3>1. Current_Time \in Int
      BY DEF TypeOK
    <3> QED
      BY <1>2, <1>6, <2>2, <3>1
  <2> QED
    BY <2>1, <2>2, <2>3, <2>4 DEF Abstract!End_Round, AbstractRound
<1>11. ASSUME NEW t \in 0 .. TimeHigh, Advance(t) PROVE Abstract!Advance(t)
  <2>1. Quiet
    BY <1>1, <1>11
  <2>2. /\ step = "idle" /\ t > Current_Time /\ t <= First_Timeout /\ Current_Time' = t
        /\ UNCHANGED <<step, current>>
    BY <1>11 DEF Advance, In_Reach, walkVars
  <2>3. AbstractTimeouts # <<>> => t <= Head(AbstractTimeouts).t
    <3>1. First_Timeout = FirstTime(timeouts)
      BY <2>2 DEF Shape, Cached
    <3>2. Len(timeouts) > 0 => First_Timeout = T[timeouts[1]]
      BY <1>2, <3>1 DEF FirstTime
    <3>3. t \in Int
      OBVIOUS
    <3> QED
      BY <1>6, <2>2, <3>2, <3>3
  <2> QED
    BY <2>1, <2>2, <2>3 DEF Abstract!Advance, AbstractRound
<1> QED
  BY <1>7, <1>8, <1>9, <1>10, <1>11

\* Call_Timed_Cell calls the first timeout, or passes a deleted one.
LEMMA CallTimedRefines ==
    ASSUME TypeOK, NEW list, NEW timeouts, NEW free, Shape(list, timeouts, free), Call_Timed_Cell
    PROVE  Abstract!Call_Timeout \/ UNCHANGED Abstract!vars
<1>0. PICK c : c = Time_First
  OBVIOUS
<1> DEFINE n == Len(timeouts)
           b == SubSeq(timeouts, 1 + 1, n)
           r == Only(b, Live)
<1>1. /\ step = "time" /\ step' = "time_in" /\ current' = Proc[c] /\ c # Null
      /\ T[c] <= Current_Time
      /\ UNCHANGED <<Mode, T, Proc, walk, Current_Time>>
      /\ Cb_Handle' = [x \in Id |-> IF Cb_Handle[x] = c THEN None ELSE Cb_Handle[x]]
  BY <1>0 DEF Call_Timed_Cell, Forget
<1>2. /\ TypeOK' /\ n > 0 /\ c = timeouts[1]
      /\ \E free2 \in Seq(Cell) : Shape(list, Dropped(timeouts, 1), free2)'
  BY <1>0, CallTimedKeeps
<1>3. PICK free2 : Shape(list, Dropped(timeouts, 1), free2)'
  BY <1>2
<1>4. /\ timeouts \in Seq(Cell) /\ n \in Nat /\ 1 \in 1 .. n /\ 1 \in 0 .. n /\ n \in 1 .. n
      /\ n \in 0 .. n /\ 1 <= n /\ c \in Cell
  <2>1. timeouts \in Seq(Cell) /\ n \in Nat
    BY DEF Shape, Places, IsPath
  <2> QED
    BY <1>2, <2>1
<1>5. b \in Seq(Cell) /\ timeouts = <<c>> \o b
  <2>1. b \in Seq(Cell)
    BY <1>4, PartsOfList
  <2>2. SubSeq(timeouts, 1, n) = timeouts
    BY <1>4, PartsOfList
  <2>3. SubSeq(timeouts, 1, n) = <<timeouts[1]>> \o b
    BY <1>4, PartHead
  <2> QED
    BY <1>2, <2>1, <2>2, <2>3
<1>6. Dropped(timeouts, 1) = b
  <2>1. SubSeq(timeouts, 1, 1 - 1) = <<>>
    BY <1>4
  <2>2. <<>> \o b = b
    <3> HIDE DEF b
    <3> QED
      BY <1>5
  <2> QED
    BY <2>1, <2>2 DEF Dropped
<1> HIDE DEF b
<1>7. Live' = Live /\ Removing = {} /\ Removing' = {}
  BY <1>1 DEF Live, Removing
<1>8. AbstractQueue' = AbstractQueue
  <2>1. Shown' = Shown
    BY <1>7 DEF Shown
  <2>2. AbstractQueue = Each(Entry(Proc, Mode), Only(list, Shown))
    BY Mapped
  <2>3. AbstractQueue' = Each(Entry(Proc', Mode'), Only(list, Shown'))
    BY <1>2, <1>3, MappedNext
  <2> QED
    BY <1>1, <2>1, <2>2, <2>3
<1>9. AbstractTimeouts = Each(Due(Proc, T), Only(timeouts, Live))
  BY Mapped
<1>10. AbstractTimeouts' = Each(Due(Proc, T), r)
  <2>1. AbstractTimeouts' = Each(Due(Proc', T'), Only(Dropped(timeouts, 1), Live'))
    BY <1>2, <1>3, MappedNext
  <2> QED
    BY <1>1, <1>6, <1>7, <2>1
<1>11. Only(timeouts, Live) = Only(<<c>>, Live) \o r
  <2>1. <<c>> \in Seq(Cell)
    BY <1>4
  <2>2. Joined(Only(<<c>> \o b, Live), Only(<<c>>, Live), Only(b, Live))
    BY ONLY <1>5, <2>1, OnlyConcat
  <2> QED
    BY <1>5, <2>2 DEF Joined
<1>12. r \in Seq(Cell)
  BY <1>5, OnlyElements
<1> HIDE DEF r
<1>13. AbstractTodo' = AbstractTodo
  BY <1>1, NothingTodo
<1>14. AbstractRound = "time" /\ AbstractRound' = "time" /\ current = None
  BY <1>1 DEF AbstractRound, Shape, Calling
<1>15. {id \in Id : Cb_Handle'[id] # Null} = {id \in Id : Cb_Handle[id] # Null}
  BY <1>1, RegisteredKept
<1>16. T[c] = Current_Time
  <2>1. c \in Cells(timeouts)
    BY <1>2, <1>4 DEF Cells
  <2>2. T[c] >= Current_Time /\ T[c] \in Int /\ Current_Time \in Int
    BY <1>4, <2>1 DEF Shape, Ordered, TypeOK
  <2> QED
    BY <1>1, <2>2
<1>17. ASSUME c \in Live PROVE Abstract!Call_Timeout
  <2> DEFINE D == Due(Proc, T)
             V == {D[d] : d \in Cell}
  <2>1. Only(timeouts, Live) = <<c>> \o r
    BY <1>4, <1>11, <1>17, OnlyOne
  <2>2. D \in [Cell -> V] /\ <<c>> \in Seq(Cell)
    BY <1>4 DEF Due
  <2>3. D[c] \in V /\ D[c].id = Proc[c] /\ D[c].t = T[c]
    BY <1>4 DEF Due
  <2>4. Each(D, <<c>>) = <<D[c]>>
    BY <1>4, OnlyOne
  <2> HIDE DEF D, V
  <2>5. Joined(Each(D, <<c>> \o r), Each(D, <<c>>), Each(D, r))
    BY ONLY <1>12, <2>2, EachConcat
  <2>6. Each(D, r) \in Seq(V)
    BY ONLY <1>12, <2>2, EachConcat
  <2>7. AbstractTimeouts = <<D[c]>> \o Each(D, r)
    BY <1>9, <2>1, <2>4, <2>5 DEF Joined, D
  <2>8. AbstractTimeouts # <<>> /\ Head(AbstractTimeouts) = D[c] /\ Tail(AbstractTimeouts) = Each(D, r)
    BY <2>3, <2>6, <2>7, HeadTailProperties
  <2>9. Tail(AbstractTimeouts) = AbstractTimeouts'
    BY <1>10, <2>8 DEF D
  <2> QED
    BY <1>1, <1>8, <1>13, <1>14, <1>15, <1>16, <2>3, <2>8, <2>9 DEF Abstract!Call_Timeout
<1>18. ASSUME c \notin Live PROVE UNCHANGED Abstract!vars
  <2>1. Only(<<c>>, Live) = <<>>
    BY <1>4, <1>18, OnlyOne
  <2>2. AbstractTimeouts' = AbstractTimeouts
    <3>1. <<>> \o r = r
      BY <1>12
    <3> QED
      BY <1>9, <1>10, <1>11, <2>1, <3>1
  <2>3. current' = None
    BY <1>1, <1>4, <1>18 DEF Live, Nop_Callback
  <2> QED
    BY <1>1, <1>8, <1>13, <1>14, <1>15, <2>2, <2>3 DEF Abstract!vars
<1> QED
  BY <1>17, <1>18

-----------------------------------------------------------------------------
\* A call of the client does not move the walk: what remains of the round is
\* the same part of the list, although the list may have grown.
LEMMA RoundKept ==
    ASSUME TypeOK, TypeOK', NEW list, NEW timeouts, NEW free, Shape(list, timeouts, free),
           NEW list2, NEW timeouts2, NEW free2, Shape(list2, timeouts2, free2)',
           UNCHANGED walkVars,
           Len(list) <= Len(list2), \A i \in 1 .. Len(list) : list2[i] = list[i]
    PROVE  \E s \in Seq(Cell) :
              /\ \A i \in 1 .. Len(s) : s[i] \in Cells(list)
              /\ AbstractTodo = Each(Proc, Only(s, Live))
              /\ AbstractTodo' = Each(Proc', Only(s, Live'))
<1>1. step' = step
  BY DEF walkVars
<1>2. /\ list \in Seq(Cell) /\ Len(list) \in Nat /\ list2 \in Seq(Cell) /\ Len(list2) \in Nat
      /\ \A i \in 1 .. Len(list) : list[i] \in Cells(list) /\ list[i] \in Cell
  BY DEF Shape, Places, IsPath, Cells
<1>3. CASE step \notin {"call", "in"}
  <2>1. AbstractTodo = <<>> /\ AbstractTodo' = <<>>
    BY <1>1, <1>3, NothingTodo
  <2>2. <<>> = Each(Proc, Only(<<>>, Live)) /\ <<>> = Each(Proc', Only(<<>>, Live'))
    BY NoCells
  <2>3. PICK z : z = <<>>
    OBVIOUS
  <2>4. z \in Seq(Cell) /\ \A i \in 1 .. Len(z) : z[i] \in Cells(list)
    BY <2>3
  <2>5. AbstractTodo = Each(Proc, Only(z, Live)) /\ AbstractTodo' = Each(Proc', Only(z, Live'))
    BY <2>1, <2>2, <2>3
  <2> QED
    BY <2>4, <2>5
<1>4. CASE step \in {"call", "in"}
  <2>1. PICK p \in 1 .. Len(list), q \in 1 .. Len(list) : WalkAt(list, p, q)
    BY <1>4 DEF Shape, Walking
  <2>2. WalkAt(list2, p, q)' /\ p \in 1 .. Len(list2) /\ q \in 1 .. Len(list2)
    BY <1>2, <2>1, WalkAtAfterAppend
  <2>3. AbstractTodo = Each(Proc, Only(Rounds(list, p, q), Live))
    BY <1>4, <2>1, TodoMapped
  <2>4. AbstractTodo' = Each(Proc', Only(Rounds(list2, p, q)', Live'))
    BY <1>1, <1>4, <2>2, TodoMappedNext
  <2>5. PICK m : m = IF step = "call" THEN p ELSE p + 1
    OBVIOUS
  <2>6. m \in Int /\ m >= 1 /\ q \in Int /\ q <= Len(list)
    BY <1>2, <2>5
  <2>7. SubSeq(list2, m, q) = SubSeq(list, m, q)
    <3>1. SubSeq(list2, m, q) = [i \in 1 .. q - m + 1 |-> list2[i + m - 1]]
      BY <1>2, <2>6
    <3>2. SubSeq(list, m, q) = [i \in 1 .. q - m + 1 |-> list[i + m - 1]]
      BY <1>2, <2>6
    <3>3. \A i \in 1 .. q - m + 1 : i + m - 1 \in 1 .. Len(list)
      BY <1>2, <2>6
    <3> QED
      BY <3>1, <3>2, <3>3
  <2>8. Rounds(list, p, q) = SubSeq(list, m, q) /\ Rounds(list2, p, q)' = SubSeq(list, m, q)
    BY <1>1, <2>5, <2>7 DEF Rounds
  <2>9. /\ SubSeq(list, m, q) \in Seq(Cell)
        /\ \A i \in 1 .. Len(SubSeq(list, m, q)) : SubSeq(list, m, q)[i] \in Cells(list)
    <3>1. \A i \in m .. q : list[i] \in Cell /\ list[i] \in Cells(list)
      BY <1>2, <2>6
    <3>2. SubSeq(list, m, q) \in Seq(Cell) /\ SubSeq(list, m, q) \in Seq(Cells(list))
      BY <1>2, <2>6, <3>1, SubSeqProperties
    <3> QED
      BY <3>2
  <2> QED
    BY <2>3, <2>4, <2>8, <2>9
<1> QED
  BY <1>3, <1>4

\* What is taken of a view, in the terms of the next state.
LEMMA TakenView ==
    ASSUME NEW s \in Seq(Cell), NEW f, NEW g, NEW R, NEW S, NEW S2,
           \A i \in 1 .. Len(s) : s[i] \in S \cap R <=> s[i] \in S2,
           \A i \in 1 .. Len(s) : s[i] \in S2 => f[s[i]] = g[s[i]]
    PROVE  At(Each(f, Only(s, S)), Selected(Only(s, S), R)) = Each(g, Only(s, S2))
<1>1. At(Each(f, Only(s, S)), Selected(Only(s, S), R)) = Each(f, Only(s, S \cap R))
  BY TakenOfKept
<1>2. PICK P : P = S \cap R
  OBVIOUS
<1>3. Each(f, Only(s, P)) = Each(g, Only(s, S2))
  BY <1>2, SameKept
<1> QED
  BY <1>1, <1>2, <1>3

\* The entries are those of the cells that are kept.
LEMMA TakenEntries ==
    ASSUME NEW s \in Seq(Cell), NEW S, NEW f
    PROVE  /\ DOMAIN Each(f, Only(s, S)) = DOMAIN Only(s, S)
           /\ \A i \in DOMAIN Only(s, S) :
                 Only(s, S)[i] \in Cell /\ Each(f, Only(s, S))[i] = f[Only(s, S)[i]]
<1> DEFINE o == Only(s, S)
<1>1. o \in Seq(Cell) /\ DOMAIN o = 1 .. Len(o)
  BY OnlyElements
<1> HIDE DEF o
<1>2. DOMAIN Each(f, o) = DOMAIN o /\ \A i \in DOMAIN o : o[i] \in Cell /\ Each(f, o)[i] = f[o[i]]
  BY <1>1 DEF Each
<1> QED
  BY <1>2 DEF o

\* Delete_Callback takes the callback out of all lists.
LEMMA DeleteRefines ==
    ASSUME TypeOK, NEW list, NEW timeouts, NEW free, Shape(list, timeouts, free),
           NEW id \in Id, Delete_Callback(id)
    PROVE  Abstract!Delete(id)
<1>0. PICK h : h = Cb_Handle[id]
  OBVIOUS
<1> DEFINE R == {d \in Cell : Proc[d] # id}
<1>1. /\ ClientTurn /\ h \in Cell
      /\ Proc' = [Proc EXCEPT ![h] = None]
      /\ Mode' = [Mode EXCEPT ![h] = Deleted_Mode(h)]
      /\ Cb_Handle' = [x \in Id |-> IF Cb_Handle[x] = h THEN None ELSE Cb_Handle[x]]
      /\ UNCHANGED <<T, walkVars, Current_Time>>
  BY <1>0 DEF Delete_Callback, Forget, Nop_Callback
<1>2. UNCHANGED <<step, walk, current>>
  BY <1>1 DEF walkVars
<1>3. TypeOK' /\ Shape(list, timeouts, free)'
  BY DeleteKeeps
<1>4. /\ list \in Seq(Cell) /\ timeouts \in Seq(Cell)
      /\ \A i \in 1 .. Len(list) : list[i] \in Cells(list) /\ list[i] \in Cell
      /\ \A i \in 1 .. Len(timeouts) : timeouts[i] \in Cells(timeouts) /\ timeouts[i] \in Cell
      /\ Cells(list) \subseteq Cell /\ Cells(timeouts) \subseteq Cell
  BY DEF Shape, Places, IsPath, Cells
<1>5. /\ \A c \in Cell : Proc'[c] = IF c = h THEN None ELSE Proc[c]
      /\ \A c \in Cell : c # h => Mode'[c] = Mode[c]
      /\ Proc[h] = id
  <2>1. Proc \in [Cell -> Id \cup {None}] /\ Mode \in [Cell -> {"Timed", "Repeat", "Oneshot"}]
    BY DEF TypeOK, Nop_Callback
  <2>2. Proc[h] = id
    BY <1>0, <1>1 DEF Shape, Handles
  <2> QED
    BY <1>1, <2>1, <2>2
<1>6. \A c \in Cells(list) \cup Cells(timeouts) : c \in Live /\ Proc[c] = id => c = h
  BY <1>0 DEF Shape, Handles, Live, Nop_Callback
<1>7. \A c \in Cells(list) \cup Cells(timeouts) : c \in Live \cap R <=> c \in Live'
  <2>1. \A c \in Cell : c \in Live' <=> c # h /\ c \in Live
    BY <1>5 DEF Live, Nop_Callback
  <2> QED
    BY <1>4, <1>5, <1>6, <2>1
<1>8. \A c \in Cells(list) : c \in Shown \cap R <=> c \in Shown'
  <2>1. \A c \in Cell : c \in Live' => c # h
    BY <1>5 DEF Live, Nop_Callback
  <2>2. \A c \in Cell : c # h => (c \in Removing <=> c \in Removing')
    BY <1>2, <1>5 DEF Removing
  <2>3. \A c \in Cells(list) : c \in R /\ c \in Live => c # h
    BY <1>5
  <2> QED
    BY <1>4, <1>7, <2>1, <2>2, <2>3 DEF Shown
<1>9. \A c \in Cell : c \in Live' => c # h /\ Proc'[c] = Proc[c] /\ Mode'[c] = Mode[c]
  BY <1>5 DEF Live, Nop_Callback
<1>10. AbstractQueue' = Abstract!Without(AbstractQueue, id)
  <2> DEFINE o == Only(list, Shown)
             I == {i \in DOMAIN AbstractQueue : AbstractQueue[i].id # id}
             f == Entry(Proc, Mode)
             g == Entry(Proc', Mode')
  <2>1. AbstractQueue = Each(f, o) /\ AbstractQueue' = Each(g, Only(list, Shown'))
    BY <1>3, Mapped, MappedNext
  <2>2. I = Selected(o, R)
    <3>1. DOMAIN AbstractQueue = DOMAIN o
          /\ \A i \in DOMAIN o : o[i] \in Cell /\ AbstractQueue[i] = f[o[i]]
      <4> HIDE DEF f
      <4> QED
        BY <1>4, <2>1, TakenEntries
    <3>2. \A c \in Cell : f[c].id = Proc[c]
      BY DEF Entry
    <3>3. \A i \in DOMAIN o : o[i] \in R <=> AbstractQueue[i].id # id
      <4> HIDE DEF o, f
      <4> QED
        BY <3>1, <3>2
    <3> HIDE DEF o, R
    <3> QED
      BY <3>1, <3>3 DEF Selected
  <2>3. \A i \in 1 .. Len(list) : list[i] \in Shown \cap R <=> list[i] \in Shown'
    BY <1>4, <1>8
  <2>4. \A i \in 1 .. Len(list) : list[i] \in Shown' => f[list[i]] = g[list[i]]
    BY <1>4, <1>9 DEF Shown, Entry
  <2> HIDE DEF R, f, g
  <2>5. At(Each(f, Only(list, Shown)), Selected(Only(list, Shown), R)) = Each(g, Only(list, Shown'))
    BY ONLY <1>4, <2>3, <2>4, TakenView
  <2> QED
    BY <2>1, <2>2, <2>5, SameTaken DEF Abstract!Without
<1>11. AbstractTimeouts' = Abstract!Without(AbstractTimeouts, id)
  <2> DEFINE o == Only(timeouts, Live)
             I == {i \in DOMAIN AbstractTimeouts : AbstractTimeouts[i].id # id}
             f == Due(Proc, T)
             g == Due(Proc', T')
  <2>1. AbstractTimeouts = Each(f, o) /\ AbstractTimeouts' = Each(g, Only(timeouts, Live'))
    BY <1>3, Mapped, MappedNext
  <2>2. I = Selected(o, R)
    <3>1. DOMAIN AbstractTimeouts = DOMAIN o
          /\ \A i \in DOMAIN o : o[i] \in Cell /\ AbstractTimeouts[i] = f[o[i]]
      <4> HIDE DEF f
      <4> QED
        BY <1>4, <2>1, TakenEntries
    <3>2. \A c \in Cell : f[c].id = Proc[c]
      BY DEF Due
    <3>3. \A i \in DOMAIN o : o[i] \in R <=> AbstractTimeouts[i].id # id
      <4> HIDE DEF o, f
      <4> QED
        BY <3>1, <3>2
    <3> HIDE DEF o, R
    <3> QED
      BY <3>1, <3>3 DEF Selected
  <2>3. \A i \in 1 .. Len(timeouts) : timeouts[i] \in Live \cap R <=> timeouts[i] \in Live'
    BY <1>4, <1>7
  <2>4. \A i \in 1 .. Len(timeouts) : timeouts[i] \in Live' => f[timeouts[i]] = g[timeouts[i]]
    BY <1>1, <1>4, <1>9 DEF Due
  <2> HIDE DEF R, f, g
  <2>5. At(Each(f, Only(timeouts, Live)), Selected(Only(timeouts, Live), R)) = Each(g, Only(timeouts, Live'))
    BY ONLY <1>4, <2>3, <2>4, TakenView
  <2> QED
    BY <2>1, <2>2, <2>5, SameTaken DEF Abstract!Without
<1>12. AbstractTodo' = Abstract!At(AbstractTodo, {i \in DOMAIN AbstractTodo : AbstractTodo[i] # id})
  <2>1. Len(list) <= Len(list)
    BY <1>4
  <2>2. PICK s \in Seq(Cell) : /\ \A i \in 1 .. Len(s) : s[i] \in Cells(list)
                               /\ AbstractTodo = Each(Proc, Only(s, Live))
                               /\ AbstractTodo' = Each(Proc', Only(s, Live'))
    BY <1>1, <1>3, <2>1, RoundKept
  <2> DEFINE o == Only(s, Live)
             I == {i \in DOMAIN AbstractTodo : AbstractTodo[i] # id}
  <2>3. I = Selected(o, R)
    <3>1. DOMAIN AbstractTodo = DOMAIN o
          /\ \A i \in DOMAIN o : o[i] \in Cell /\ AbstractTodo[i] = Proc[o[i]]
      BY <2>2, TakenEntries
    <3> HIDE DEF o
    <3> QED
      BY <3>1 DEF Selected
  <2>4. \A i \in 1 .. Len(s) : s[i] \in Live \cap R <=> s[i] \in Live'
    BY <1>7, <2>2
  <2>5. \A i \in 1 .. Len(s) : s[i] \in Live' => Proc[s[i]] = Proc'[s[i]]
    BY <1>4, <1>9, <2>2
  <2> HIDE DEF R
  <2>6. At(Each(Proc, Only(s, Live)), Selected(Only(s, Live), R)) = Each(Proc', Only(s, Live'))
    BY ONLY <2>4, <2>5, TakenView
  <2> QED
    BY <2>2, <2>3, <2>6, SameTaken
<1>13. {x \in Id : Cb_Handle'[x] # Null} = {x \in Id : Cb_Handle[x] # Null}
  <2>1. h # Null
    BY <1>1, CallbackAssumption
  <2> QED
    BY <1>1, <2>1, RegisteredKept
<1>14. Abstract!ClientTurn
  BY <1>1, Turns
<1>15. AbstractRound' = AbstractRound
  BY <1>2 DEF AbstractRound
<1> HIDE DEF R
<1> QED
  BY <1>1, <1>2, <1>10, <1>11, <1>12, <1>13, <1>14, <1>15 DEF Abstract!Delete

-----------------------------------------------------------------------------
\* The new cell h is shown, and what is shown of the other cells is the same.
Added(used, h, id, m, t) ==
    /\ h \in Cell
    /\ \A c \in used : c \in Cell /\ c # h
    /\ h \in Live' /\ h \in Shown'
    /\ \A c \in Cell : c # h => /\ Proc'[c] = Proc[c] /\ Mode'[c] = Mode[c] /\ T'[c] = T[c]
                                /\ c \in Live <=> c \in Live'
                                /\ c \in Shown <=> c \in Shown'
    /\ Proc'[h] = id /\ Mode'[h] = m /\ T'[h] = t
    /\ {x \in Id : Cb_Handle'[x] # Null} = {x \in Id : Cb_Handle[x] # Null} \cup {id}
    /\ AbstractRound' = AbstractRound

\* A registration adds a cell.
LEMMA NewCell ==
    ASSUME TypeOK, NEW list, NEW timeouts, NEW free, Shape(list, timeouts, free),
           Allocates, NEW h, h = Allocate_Handle, NEW id \in Id, NEW m, NEW t,
           Mode' = [Mode EXCEPT ![h] = m],
           T' = [T EXCEPT ![h] = t],
           Proc' = [Proc EXCEPT ![h] = id],
           Cb_Handle' = [Cb_Handle EXCEPT ![id] = h],
           UNCHANGED walkVars
    PROVE  Added(Cells(list) \cup Cells(timeouts), h, id, m, t)
<1>1. h \in Cell /\ h # Null /\ h \notin Cells(list) /\ h \notin Cells(timeouts)
  BY AllocatedCell
<1>2. \A c \in Cells(list) \cup Cells(timeouts) : c \in Cell /\ c # h
  BY <1>1, PathEnds DEF Shape, Places
<1>3. /\ Proc'[h] = id /\ Mode'[h] = m /\ T'[h] = t
      /\ \A c \in Cell : c # h => Proc'[c] = Proc[c] /\ Mode'[c] = Mode[c] /\ T'[c] = T[c]
  <2>1. /\ Proc \in [Cell -> Id \cup {None}] /\ Mode \in [Cell -> {"Timed", "Repeat", "Oneshot"}]
        /\ T \in [Cell -> 0 .. TimeHigh]
    BY DEF TypeOK, Nop_Callback
  <2> QED
    BY <1>1, <2>1
<1>4. h \in Live' /\ \A c \in Cell : c # h => (c \in Live <=> c \in Live')
  BY <1>1, <1>3, CallbackAssumption DEF Live, Nop_Callback
<1>5. UNCHANGED <<step, walk>>
  BY DEF walkVars
<1>6. h \notin Removing'
  <2>1. step = "in" => walk.cell \in Cells(list)
    BY DEF Shape, Walking, WalkAt, Cells
  <2> QED
    BY <1>1, <1>5, <2>1 DEF Removing
<1>7. \A c \in Cell : c # h => (c \in Removing <=> c \in Removing')
  BY <1>3, <1>5 DEF Removing
<1>8. h \in Shown' /\ \A c \in Cell : c # h => (c \in Shown <=> c \in Shown')
  BY <1>4, <1>6, <1>7 DEF Shown
<1>9. {x \in Id : Cb_Handle'[x] # Null} = {x \in Id : Cb_Handle[x] # Null} \cup {id}
  <2>1. Cb_Handle \in [Id -> Allocated \cup {Null, None}]
    BY DEF TypeOK
  <2>2. \A x \in Id : Cb_Handle'[x] = IF x = id THEN h ELSE Cb_Handle[x]
    BY <2>1
  <2> QED
    BY <1>1, <2>2
<1>10. AbstractRound' = AbstractRound
  BY <1>5 DEF AbstractRound
<1> QED
  BY <1>1, <1>2, <1>3, <1>4, <1>8, <1>9, <1>10 DEF Added

\* Register_Callback appends the callback.
LEMMA RegisterRefines ==
    ASSUME TypeOK, NEW list, NEW timeouts, NEW free, Shape(list, timeouts, free),
           NEW id \in Id, NEW m \in {"Repeat", "Oneshot"}, Register_Callback(id, m)
    PROVE  Abstract!Register(id, m)
<1>0. PICK h : h = Allocate_Handle
  OBVIOUS
<1> DEFINE f == Entry(Proc, Mode)
           g == Entry(Proc', Mode')
           V == {g[c] : c \in Cell}
           list2 == Inserted(list, Len(list), h)
<1>1. /\ ClientTurn /\ Cb_Handle[id] = Null /\ Allocates
      /\ Mode' = [Mode EXCEPT ![h] = m]
      /\ T' = [T EXCEPT ![h] = 0]
      /\ Proc' = [Proc EXCEPT ![h] = id]
      /\ Cb_Handle' = [Cb_Handle EXCEPT ![id] = h]
      /\ UNCHANGED walkVars /\ UNCHANGED Current_Time
  BY <1>0 DEF Register_Callback
<1>2. TypeOK' /\ \E free2 \in Seq(Cell) : Shape(list2, timeouts, free2)'
  BY <1>0, RegisterKeeps
<1>3. PICK free2 \in Seq(Cell) : Shape(list2, timeouts, free2)'
  BY <1>2
<1>4. /\ h \in Cell
      /\ \A c \in Cells(list) \cup Cells(timeouts) : c \in Cell /\ c # h
      /\ h \in Live' /\ h \in Shown'
      /\ \A c \in Cell : c # h => /\ Proc'[c] = Proc[c] /\ Mode'[c] = Mode[c] /\ T'[c] = T[c]
                                  /\ c \in Live <=> c \in Live'
                                  /\ c \in Shown <=> c \in Shown'
      /\ Proc'[h] = id /\ Mode'[h] = m
      /\ {x \in Id : Cb_Handle'[x] # Null} = {x \in Id : Cb_Handle[x] # Null} \cup {id}
      /\ AbstractRound' = AbstractRound
  <2>1. Added(Cells(list) \cup Cells(timeouts), h, id, m, 0)
    BY <1>0, <1>1, NewCell
  <2> QED
    BY <2>1 DEF Added
<1>5. /\ list \in Seq(Cell) /\ timeouts \in Seq(Cell) /\ Len(list) \in Nat
      /\ \A i \in 1 .. Len(list) : list[i] \in Cells(list)
      /\ \A i \in 1 .. Len(timeouts) : timeouts[i] \in Cells(timeouts)
  BY DEF Shape, Places, IsPath, Cells
<1>6. /\ list2 \in Seq(Cell) /\ Len(list2) = Len(list) + 1
      /\ \A i \in 1 .. Len(list) : list2[i] = list[i]
  <2>1. Len(list) \in 0 .. Len(list)
    BY <1>5
  <2> QED
    <3>1. list2 \in Seq(Cell) /\ PutsIn(list2, list, Len(list), h)
      BY <1>4, <1>5, <2>1, InsertedElements
    <3> HIDE DEF list2
    <3> QED
      BY <1>5, <3>1 DEF PutsIn
<1>7. AbstractQueue = Each(f, Only(list, Shown)) /\ AbstractTimeouts = Each(Due(Proc, T), Only(timeouts, Live))
  BY Mapped
<1>8. AbstractQueue' = Each(g, Only(list2, Shown'))
      /\ AbstractTimeouts' = Each(Due(Proc', T'), Only(timeouts, Live'))
  <2> HIDE DEF list2
  <2> QED
    BY <1>2, <1>3, MappedNext
<1>9. Each(f, Only(list, Shown)) = Each(g, Only(list, Shown'))
  <2>1. \A i \in 1 .. Len(list) : list[i] \in Shown <=> list[i] \in Shown'
    BY <1>4, <1>5
  <2>2. \A i \in 1 .. Len(list) : list[i] \in Shown' => f[list[i]] = g[list[i]]
    BY <1>4, <1>5 DEF Entry
  <2> HIDE DEF f, g
  <2> QED
    BY ONLY <1>5, <2>1, <2>2, SameKept
<1>10. AbstractTimeouts' = AbstractTimeouts
  <2> DEFINE d == Due(Proc, T)
             e == Due(Proc', T')
  <2>1. \A i \in 1 .. Len(timeouts) : timeouts[i] \in Live <=> timeouts[i] \in Live'
    BY <1>4, <1>5
  <2>2. \A i \in 1 .. Len(timeouts) : timeouts[i] \in Live' => d[timeouts[i]] = e[timeouts[i]]
    BY <1>4, <1>5 DEF Due
  <2>3. Each(d, Only(timeouts, Live)) = Each(e, Only(timeouts, Live'))
    <3> HIDE DEF d, e
    <3> QED
      BY ONLY <1>5, <2>1, <2>2, SameKept
  <2> QED
    BY <1>7, <1>8, <2>3
<1>11. AbstractTodo' = AbstractTodo
  <2>1. Len(list) <= Len(list2)
    BY <1>5, <1>6
  <2>2. PICK s \in Seq(Cell) : /\ \A i \in 1 .. Len(s) : s[i] \in Cells(list)
                               /\ AbstractTodo = Each(Proc, Only(s, Live))
                               /\ AbstractTodo' = Each(Proc', Only(s, Live'))
    <3> HIDE DEF list2
    <3> QED
      BY <1>1, <1>2, <1>3, <1>6, <2>1, RoundKept
  <2>3. \A i \in 1 .. Len(s) : s[i] \in Live <=> s[i] \in Live'
    BY <1>4, <2>2
  <2>4. \A i \in 1 .. Len(s) : s[i] \in Live' => Proc[s[i]] = Proc'[s[i]]
    BY <1>4, <2>2
  <2>5. Each(Proc, Only(s, Live)) = Each(Proc', Only(s, Live'))
    BY ONLY <2>3, <2>4, SameKept
  <2> QED
    BY <2>2, <2>5
<1>12. AbstractQueue' = Append(AbstractQueue, [id |-> id, mode |-> m])
  <2>1. g \in [Cell -> V] /\ g[h] = [id |-> id, mode |-> m] /\ g[h] \in V
    BY <1>4 DEF Entry
  <2>2. Only(list2, Shown') = Only(list, Shown') \o <<h>>
    BY <1>4, <1>5, OnlyAppended
  <2>3. Each(g, <<h>>) = <<g[h]>>
    BY <1>4, OnlyOne
  <2>4. Only(list, Shown') \in Seq(Cell) /\ <<h>> \in Seq(Cell)
    BY <1>4, <1>5, OnlyElements
  <2> HIDE DEF f, g, V
  <2>5. Joined(Each(g, Only(list, Shown') \o <<h>>), Each(g, Only(list, Shown')), Each(g, <<h>>))
    BY ONLY <2>1, <2>4, EachConcat
  <2>6. Each(g, Only(list, Shown')) \in Seq(V)
    BY ONLY <2>1, <2>4, EachConcat
  <2>7. AbstractQueue' = AbstractQueue \o <<g[h]>> /\ AbstractQueue \in Seq(V)
    BY <1>7, <1>8, <1>9, <2>2, <2>3, <2>5, <2>6 DEF Joined
  <2> QED
    BY <2>1, <2>7, AppendIsConcat
<1>13. Abstract!ClientTurn
  BY <1>1, Turns
<1>14. id \notin {x \in Id : Cb_Handle[x] # Null} /\ current' = current
  BY <1>1 DEF walkVars
<1> QED
  BY <1>1, <1>4, <1>10, <1>11, <1>12, <1>13, <1>14 DEF Abstract!Register

\* Register_Callback_At puts the timeout after those at its time or before it.
LEMMA RegisterAtRefines ==
    ASSUME TypeOK, NEW list, NEW timeouts, NEW free, Shape(list, timeouts, free),
           NEW id \in Id, NEW t \in 0 .. TimeHigh, Register_Callback_At(id, t)
    PROVE  Abstract!Register_At(id, t)
<1>0. PICK h : h = Allocate_Handle
  OBVIOUS
<1>00. PICK n : n = Before(timeouts, t)
  OBVIOUS
<1> DEFINE f == Due(Proc, T)
           g == Due(Proc', T')
           V == {g[c] : c \in Cell}
           k == Len(timeouts)
           a == SubSeq(timeouts, 1, n)
           b == SubSeq(timeouts, n + 1, k)
           x == <<h>>
           timeouts2 == Inserted(timeouts, n, h)
           Early == {c \in Cell : T[c] <= t}
           Late == {c \in Cell : T[c] > t}
<1>1. /\ ClientTurn /\ Cb_Handle[id] = Null /\ Allocates /\ t >= Current_Time
      /\ Mode' = [Mode EXCEPT ![h] = "Timed"]
      /\ T' = [T EXCEPT ![h] = t]
      /\ Proc' = [Proc EXCEPT ![h] = id]
      /\ Cb_Handle' = [Cb_Handle EXCEPT ![id] = h]
      /\ UNCHANGED walkVars /\ UNCHANGED Current_Time
  BY <1>0 DEF Register_Callback_At, TypeOK
<1>2. TypeOK' /\ \E free2 \in Seq(Cell) : Shape(list, timeouts2, free2)'
  BY <1>0, <1>00, RegisterAtKeeps
<1>3. PICK free2 \in Seq(Cell) : Shape(list, timeouts2, free2)'
  BY <1>2
<1>4. /\ h \in Cell
      /\ \A c \in Cells(list) \cup Cells(timeouts) : c \in Cell /\ c # h
      /\ h \in Live' /\ h \in Shown'
      /\ \A c \in Cell : c # h => /\ Proc'[c] = Proc[c] /\ Mode'[c] = Mode[c] /\ T'[c] = T[c]
                                  /\ c \in Live <=> c \in Live'
                                  /\ c \in Shown <=> c \in Shown'
      /\ Proc'[h] = id /\ T'[h] = t
      /\ {y \in Id : Cb_Handle'[y] # Null} = {y \in Id : Cb_Handle[y] # Null} \cup {id}
      /\ AbstractRound' = AbstractRound
  <2>1. Added(Cells(list) \cup Cells(timeouts), h, id, "Timed", t)
    BY <1>0, <1>1, NewCell
  <2> QED
    BY <2>1 DEF Added
<1>5. /\ list \in Seq(Cell) /\ timeouts \in Seq(Cell) /\ Len(list) \in Nat /\ k \in Nat
      /\ \A i \in 1 .. Len(list) : list[i] \in Cells(list)
      /\ \A i \in 1 .. k : timeouts[i] \in Cells(timeouts) /\ timeouts[i] \in Cell
  BY DEF Shape, Places, IsPath, Cells
<1>6. /\ n \in 0 .. k
      /\ \A j \in 1 .. n : T[timeouts[j]] <= t
      /\ \A j \in n + 1 .. k : T[timeouts[j]] > t
  BY <1>00, TimeoutPosition
<1>7. /\ a \in Seq(Cell) /\ Len(a) = n /\ \A i \in 1 .. n : a[i] = timeouts[i]
      /\ b \in Seq(Cell) /\ Len(b) = k - n /\ \A i \in 1 .. k - n : b[i] = timeouts[n + i]
      /\ timeouts = a \o b
      /\ x \in Seq(Cell)
  <2>1. x \in Seq(Cell)
    BY <1>4
  <2>2. n \in 0 .. Len(timeouts)
    BY <1>6
  <2>3. a \in Seq(Cell) /\ Len(a) = n /\ \A i \in 1 .. n : a[i] = timeouts[i]
    BY <1>5, <2>2, PartsOfList
  <2>4. b \in Seq(Cell) /\ Len(b) = k - n /\ \A i \in 1 .. k - n : b[i] = timeouts[n + i]
    BY <1>5, <2>2, PartsOfList
  <2>5. timeouts = a \o b
    BY <1>5, <2>2, PartsOfList
  <2> HIDE DEF a, b, x
  <2> QED
    BY <2>1, <2>3, <2>4, <2>5
<1>8. AbstractQueue = Each(Entry(Proc, Mode), Only(list, Shown)) /\ AbstractTimeouts = Each(f, Only(timeouts, Live))
  BY Mapped
<1>9. AbstractQueue' = Each(Entry(Proc', Mode'), Only(list, Shown'))
      /\ AbstractTimeouts' = Each(g, Only(timeouts2, Live'))
  <2> HIDE DEF timeouts2
  <2> QED
    BY <1>2, <1>3, MappedNext
<1>10. AbstractQueue' = AbstractQueue
  <2> DEFINE d == Entry(Proc, Mode)
             e == Entry(Proc', Mode')
  <2>1. \A i \in 1 .. Len(list) : list[i] \in Shown <=> list[i] \in Shown'
    BY <1>4, <1>5
  <2>2. \A i \in 1 .. Len(list) : list[i] \in Shown' => d[list[i]] = e[list[i]]
    BY <1>4, <1>5 DEF Entry
  <2>3. Each(d, Only(list, Shown)) = Each(e, Only(list, Shown'))
    <3> HIDE DEF d, e
    <3> QED
      BY ONLY <1>5, <2>1, <2>2, SameKept
  <2> QED
    BY <1>8, <1>9, <2>3
<1>11. AbstractTodo' = AbstractTodo
  <2>1. Len(list) <= Len(list)
    BY <1>5
  <2>2. PICK s \in Seq(Cell) : /\ \A i \in 1 .. Len(s) : s[i] \in Cells(list)
                               /\ AbstractTodo = Each(Proc, Only(s, Live))
                               /\ AbstractTodo' = Each(Proc', Only(s, Live'))
    <3> HIDE DEF timeouts2
    <3> QED
      BY <1>1, <1>2, <1>3, <2>1, RoundKept
  <2>3. \A i \in 1 .. Len(s) : s[i] \in Live <=> s[i] \in Live'
    BY <1>4, <2>2
  <2>4. \A i \in 1 .. Len(s) : s[i] \in Live' => Proc[s[i]] = Proc'[s[i]]
    BY <1>4, <2>2
  <2>5. Each(Proc, Only(s, Live)) = Each(Proc', Only(s, Live'))
    BY ONLY <2>3, <2>4, SameKept
  <2> QED
    BY <2>2, <2>5
<1>12. /\ \A i \in 1 .. Len(a) : a[i] \in Cell /\ a[i] \in Early /\ a[i] \notin Late
                                 /\ (a[i] \in Live <=> a[i] \in Live') /\ f[a[i]] = g[a[i]]
       /\ \A i \in 1 .. Len(b) : b[i] \in Cell /\ b[i] \in Late /\ b[i] \notin Early
                                 /\ (b[i] \in Live <=> b[i] \in Live') /\ f[b[i]] = g[b[i]]
  <2>1. \A c \in Cells(timeouts) : c \in Cell /\ (c \in Live <=> c \in Live') /\ f[c] = g[c]
    BY <1>4 DEF Due
  <2>2. \A c \in Cell : T[c] \in Int
    BY DEF TypeOK
  <2> HIDE DEF f, g, k, a, b
  <2>3. ASSUME NEW i \in 1 .. Len(a)
        PROVE  a[i] \in Cells(timeouts) /\ a[i] \in Early /\ a[i] \notin Late
    <3>1. i \in 1 .. n /\ i \in 1 .. k
      BY <1>5, <1>6, <1>7 DEF k
    <3>2. a[i] = timeouts[i] /\ T[timeouts[i]] <= t /\ timeouts[i] \in Cells(timeouts) /\ timeouts[i] \in Cell
      BY <1>5, <1>6, <1>7, <3>1
    <3> QED
      BY <2>2, <3>2
  <2>4. ASSUME NEW i \in 1 .. Len(b)
        PROVE  b[i] \in Cells(timeouts) /\ b[i] \in Late /\ b[i] \notin Early
    <3>1. i \in 1 .. k - n /\ n + i \in n + 1 .. k /\ n + i \in 1 .. k
      BY <1>5, <1>6, <1>7
    <3>2. b[i] = timeouts[n + i] /\ T[timeouts[n + i]] > t /\ timeouts[n + i] \in Cells(timeouts)
          /\ timeouts[n + i] \in Cell
      BY <1>5, <1>6, <1>7, <3>1
    <3> QED
      BY <2>2, <3>2
  <2> QED
    BY <2>1, <2>3, <2>4
<1> HIDE DEF a, b, x, Early, Late
<1>13. Each(f, Only(timeouts, Live \cap Early)) = Each(g, Only(a, Live'))
  <2>1. PICK P : P = Live \cap Early
    OBVIOUS
  <2>2. Joined(Only(a \o b, P), Only(a, P), Only(b, P))
    BY ONLY <1>7, OnlyConcat
  <2>3. Only(b, P) = <<>>
    <3>1. \A i \in 1 .. Len(b) : b[i] \notin P
      BY <1>12, <2>1
    <3> QED
      BY ONLY <1>7, <3>1, NothingKept
  <2>4. Only(a, P) \in Seq(Cell)
    BY <1>7, OnlyElements
  <2>5. Only(timeouts, P) = Only(a, P)
    BY <1>7, <2>2, <2>3, <2>4 DEF Joined
  <2>6. \A i \in 1 .. Len(a) : a[i] \in P <=> a[i] \in Live'
    BY <1>12, <2>1
  <2>7. \A i \in 1 .. Len(a) : a[i] \in Live' => f[a[i]] = g[a[i]]
    BY <1>12
  <2>8. Each(f, Only(a, P)) = Each(g, Only(a, Live'))
    <3>1. a \in Seq(Cell)
      BY <1>7
    <3> HIDE DEF f, g
    <3> QED
      BY ONLY <2>6, <2>7, <3>1, SameKept
  <2> QED
    BY <2>1, <2>5, <2>8
<1>14. Each(f, Only(timeouts, Live \cap Late)) = Each(g, Only(b, Live'))
  <2>1. PICK P : P = Live \cap Late
    OBVIOUS
  <2>2. Joined(Only(a \o b, P), Only(a, P), Only(b, P))
    BY ONLY <1>7, OnlyConcat
  <2>3. Only(a, P) = <<>>
    <3>1. \A i \in 1 .. Len(a) : a[i] \notin P
      BY <1>12, <2>1
    <3> QED
      BY ONLY <1>7, <3>1, NothingKept
  <2>4. Only(b, P) \in Seq(Cell)
    BY <1>7, OnlyElements
  <2>5. Only(timeouts, P) = Only(b, P)
    BY <1>7, <2>2, <2>3, <2>4 DEF Joined
  <2>6. \A i \in 1 .. Len(b) : b[i] \in P <=> b[i] \in Live'
    BY <1>12, <2>1
  <2>7. \A i \in 1 .. Len(b) : b[i] \in Live' => f[b[i]] = g[b[i]]
    BY <1>12
  <2>8. Each(f, Only(b, P)) = Each(g, Only(b, Live'))
    <3>1. b \in Seq(Cell)
      BY <1>7
    <3> HIDE DEF f, g
    <3> QED
      BY ONLY <2>6, <2>7, <3>1, SameKept
  <2> QED
    BY <2>1, <2>5, <2>8
<1>15. AbstractTimeouts' = Each(g, Only(a, Live')) \o <<[id |-> id, t |-> t]>> \o Each(g, Only(b, Live'))
  <2> DEFINE u == Only(a, Live')
             w == Only(b, Live')
  <2>1. g \in [Cell -> V] /\ g[h] = [id |-> id, t |-> t]
    BY <1>4 DEF Due
  <2>2. Only(timeouts2, Live') = u \o x \o w
    <3>1. timeouts \in Seq(Cell) /\ n \in 0 .. Len(timeouts) /\ h \in Cell /\ h \in Live'
      BY <1>4, <1>5, <1>6
    <3> QED
      BY ONLY <3>1, OnlyInserted DEF a, b, x, u, w, k, timeouts2
  <2>3. Each(g, x) = <<g[h]>>
    BY <1>4, OnlyOne DEF x
  <2>4. u \in Seq(Cell) /\ w \in Seq(Cell)
    BY <1>7, OnlyElements
  <2> HIDE DEF g, V, u, w
  <2>5. PICK v : v = u \o x
    OBVIOUS
  <2>6. v \in Seq(Cell)
    BY <1>7, <2>4, <2>5
  <2>7. Joined(Each(g, u \o x), Each(g, u), Each(g, x))
    BY ONLY <1>7, <2>1, <2>4, EachConcat
  <2>8. Joined(Each(g, v \o w), Each(g, v), Each(g, w))
    BY ONLY <2>1, <2>4, <2>6, EachConcat
  <2> QED
    BY <1>9, <2>1, <2>2, <2>3, <2>5, <2>7, <2>8 DEF Joined, u, w
<1>16. \A S : Abstract!At(AbstractTimeouts, S) = At(AbstractTimeouts, S)
  BY SameTaken
<1>17. /\ {i \in DOMAIN AbstractTimeouts : AbstractTimeouts[i].t <= t} = Selected(Only(timeouts, Live), Early)
       /\ {i \in DOMAIN AbstractTimeouts : AbstractTimeouts[i].t > t} = Selected(Only(timeouts, Live), Late)
  <2> DEFINE o == Only(timeouts, Live)
  <2>1. DOMAIN AbstractTimeouts = DOMAIN o
        /\ \A i \in DOMAIN o : o[i] \in Cell /\ AbstractTimeouts[i] = f[o[i]]
    <3> HIDE DEF f
    <3> QED
      BY <1>5, <1>8, TakenEntries
  <2>2. \A c \in Cell : f[c].t = T[c]
    BY DEF Due
  <2> HIDE DEF f, o
  <2>3. \A i \in DOMAIN o : /\ o[i] \in Early <=> AbstractTimeouts[i].t <= t
                            /\ o[i] \in Late <=> AbstractTimeouts[i].t > t
    BY <2>1, <2>2 DEF Early, Late
  <2> QED
    BY <2>1, <2>3 DEF Selected, o
<1>18. /\ At(AbstractTimeouts, Selected(Only(timeouts, Live), Early)) = Each(f, Only(timeouts, Live \cap Early))
       /\ At(AbstractTimeouts, Selected(Only(timeouts, Live), Late)) = Each(f, Only(timeouts, Live \cap Late))
  <2> HIDE DEF f
  <2>1. At(Each(f, Only(timeouts, Live)), Selected(Only(timeouts, Live), Early))
           = Each(f, Only(timeouts, Live \cap Early))
    BY ONLY <1>5, TakenOfKept
  <2>2. At(Each(f, Only(timeouts, Live)), Selected(Only(timeouts, Live), Late))
           = Each(f, Only(timeouts, Live \cap Late))
    BY ONLY <1>5, TakenOfKept
  <2> QED
    BY <1>8, <2>1, <2>2
<1>19. Abstract!ClientTurn
  BY <1>1, Turns
<1>20. id \notin {y \in Id : Cb_Handle[y] # Null} /\ current' = current
  BY <1>1 DEF walkVars
<1> HIDE DEF f, g
<1> QED
  BY <1>1, <1>4, <1>10, <1>11, <1>13, <1>14, <1>15, <1>16, <1>17, <1>18, <1>19, <1>20 DEF Abstract!Register_At

-----------------------------------------------------------------------------
\* The cells do what grt-callbacks.ads says, for any number of callbacks and
\* cells: each call of the cells is a call of the queue, or nothing changes.
THEOREM CellsImplementQueue == Spec => ImplementsQueue
<1>1. Init => Abstract!Init
  <2> SUFFICES ASSUME Init PROVE Abstract!Init
    OBVIOUS
  <2>1. TypeOK /\ Shape(<<>>, <<>>, <<>>)
    BY InitShape
  <2>2. AbstractQueue = <<>> /\ AbstractTimeouts = <<>>
    <3>1. /\ AbstractQueue = Each(Entry(Proc, Mode), Only(<<>>, Shown))
          /\ AbstractTimeouts = Each(Due(Proc, T), Only(<<>>, Live))
      BY <2>1, Mapped
    <3> QED
      BY <3>1, NoCells
  <2>3. AbstractTodo = <<>>
    BY NothingTodo DEF Init
  <2> QED
    BY <2>2, <2>3 DEF Init, Abstract!Init, AbstractRound
<1>2. IInv /\ [Next]_vars => [Abstract!Next]_(Abstract!vars)
  <2> SUFFICES ASSUME IInv, [Next]_vars PROVE Abstract!Next \/ UNCHANGED Abstract!vars
    OBVIOUS
  <2>1. TypeOK
    BY DEF IInv
  <2>2. PICK list \in Seq(Cell), timeouts \in Seq(Cell), free \in Seq(Cell) : Shape(list, timeouts, free)
    BY DEF IInv
  <2>3. ASSUME NEW id \in Id, NEW m \in {"Repeat", "Oneshot"}, Register_Callback(id, m)
        PROVE  Abstract!Next
    BY <2>1, <2>2, <2>3, RegisterRefines DEF Abstract!Next
  <2>4. ASSUME NEW id \in Id, NEW t \in 0 .. TimeHigh, Register_Callback_At(id, t)
        PROVE  Abstract!Next
    BY <2>1, <2>2, <2>4, RegisterAtRefines DEF Abstract!Next
  <2>5. ASSUME NEW id \in Id, Delete_Callback(id)
        PROVE  Abstract!Next
    BY <2>1, <2>2, <2>5, DeleteRefines DEF Abstract!Next
  <2>6. CASE Call_Callbacks
    BY <2>1, <2>2, <2>6, CallCallbacksRefines DEF Abstract!Next
  <2>7. CASE Call_Cell
    BY <2>1, <2>2, <2>7, CallCellRefines DEF Abstract!Next
  <2>8. CASE Return_Cell
    BY <2>1, <2>2, <2>8, ReturnCellRefines DEF Abstract!Next
  <2>9. CASE Call_Timed_Cell
    BY <2>1, <2>2, <2>9, CallTimedRefines DEF Abstract!Next
  <2>10. CASE End_Calls \/ Call_Time_Callbacks \/ Return_Timed \/ End_Timed
              \/ \E t \in 0 .. TimeHigh : Advance(t)
    <3>1. /\ End_Calls => Abstract!End_Round
          /\ Call_Time_Callbacks => Abstract!Start_Timeouts
          /\ Return_Timed => Abstract!Return \/ UNCHANGED Abstract!vars
          /\ End_Timed => Abstract!End_Round
          /\ \A t \in 0 .. TimeHigh : Advance(t) => Abstract!Advance(t)
      BY <2>1, <2>2, RoundRefines
    <3> QED
      BY <2>10, <3>1 DEF Abstract!Next
  <2>11. CASE UNCHANGED vars
    <3>1. UNCHANGED <<Next_Of, Mode, T, Proc, First, Time_First, Cb_Handle, step, walk, current, Current_Time>>
      BY <2>11 DEF vars, cellVars, listVars, timeListVars, walkVars
    <3>2. AbstractQueue' = AbstractQueue /\ AbstractTimeouts' = AbstractTimeouts
          /\ AbstractTodo' = AbstractTodo /\ AbstractRound' = AbstractRound
      BY <3>1 DEF AbstractQueue, AbstractTimeouts, AbstractTodo, AbstractRound, Live, Removing, Rest
    <3> QED
      BY <3>1, <3>2 DEF Abstract!vars
  <2> QED
    BY <2>3, <2>4, <2>5, <2>6, <2>7, <2>8, <2>9, <2>10, <2>11 DEF Next
<1> QED
  BY <1>1, <1>2, CallbacksInvariant, PTL DEF Spec, ImplementsQueue, Abstract!Spec
=============================================================================
