-------------------------- MODULE SubsequenceLemmas --------------------------
(***************************************************************************)
(* Facts about sets of numbers and sequences that the proofs share: a      *)
(* subsequence is determined by any increasing enumeration of its indices. *)
(***************************************************************************)
EXTENDS Subsequences, FiniteSetsExt, FiniteSetTheorems, NaturalsInduction,
        SequenceTheorems, TLAPS

\* A set of naturals has a least element.
LEMMA LeastElement ==
    ASSUME NEW S \in SUBSET Nat, S # {}
    PROVE  Min(S) \in S /\ \A i \in S : Min(S) <= i
<1> DEFINE Less == OpToRel(<, Nat)
<1>1. PICK m \in S : \A k \in S : ~(<<k, m>> \in Less)
  <2>1. IsWellFoundedOn(Less, Nat)
    BY NatLessThanWellFounded
  <2> QED
    BY <2>1, WFMin
<1>2. \A k \in S : m <= k
  <2>1. \A i, j \in Nat : i < j => <<i, j>> \in Less
    BY DEF OpToRel
  <2> HIDE DEF Less
  <2>2. \A k \in S : k \in Nat /\ m \in Nat /\ ~(k < m)
    BY <1>1, <2>1
  <2> QED
    BY <2>2
<1> QED
  BY <1>2 DEF Min

\* A bounded set of naturals has a greatest element.
LEMMA GreatestElement ==
    ASSUME NEW n \in Nat, NEW S \in SUBSET (0 .. n), S # {}
    PROVE  Max(S) \in S /\ \A i \in S : i <= Max(S)
<1> DEFINE N == {n - i : i \in S}
           Less == OpToRel(<, Nat)
<1>1. N \subseteq Nat /\ N # {}
  <2>1. \A i \in S : n - i \in Nat
    OBVIOUS
  <2> QED
    BY <2>1
<1>2. PICK m \in N : \A k \in N : ~(<<k, m>> \in Less)
  <2>1. IsWellFoundedOn(Less, Nat)
    BY NatLessThanWellFounded
  <2> QED
    BY <1>1, <2>1, WFMin
<1>3. \A k \in N : m <= k
  <2>1. \A i, j \in Nat : i < j => <<i, j>> \in Less
    BY DEF OpToRel
  <2> HIDE DEF Less, N
  <2>2. \A k \in N : k \in Nat /\ m \in Nat /\ ~(k < m)
    BY <1>1, <1>2, <2>1
  <2> QED
    BY <2>2
<1>4. PICK x \in S : m = n - x
  BY <1>2
<1>5. \A i \in S : x >= i
  BY SMTT(20), <1>3, <1>4
<1> QED
  BY <1>5 DEF Max

\* f lists the elements of I, which are numbers, in increasing order.
Enumerates(f, n, I) ==
    /\ f \in [1 .. n -> I]
    /\ \A i \in I : \E k \in 1 .. n : f[k] = i
    /\ \A j, k \in 1 .. n : j < k => f[j] < f[k]

\* The rank of the element number k is k.
LEMMA RankOfEnumerated ==
    ASSUME NEW n \in Nat, NEW I \in SUBSET Int, NEW f, Enumerates(f, n, I),
           NEW k \in 1 .. n
    PROVE  Rank(I, f[k]) = k
<1> DEFINE J == {j \in I : j <= f[k]}
           g == [i \in 1 .. k |-> f[i]]
<1>1. \A i \in 1 .. n : f[i] \in I /\ f[i] \in Int
  BY DEF Enumerates
<1>2. \A i, j \in 1 .. n : i < j => f[i] < f[j]
  BY DEF Enumerates
<1>3. \A i \in 1 .. n : f[i] <= f[k] <=> i <= k
  <2> SUFFICES ASSUME NEW i \in 1 .. n PROVE f[i] <= f[k] <=> i <= k
    OBVIOUS
  <2>1. CASE i = k
    BY <1>1, <2>1
  <2>2. CASE i < k
    BY <1>1, <1>2, <2>2
  <2>3. CASE k < i
    BY <1>1, <1>2, <2>3
  <2> QED
    BY <2>1, <2>2, <2>3
<1>4. g \in Bijection(1 .. k, J)
  <2>1. g \in [1 .. k -> J]
    BY <1>1, <1>3
  <2>2. \A i, j \in 1 .. k : g[i] = g[j] => i = j
    <3> SUFFICES ASSUME NEW i \in 1 .. k, NEW j \in 1 .. k, i # j PROVE g[i] # g[j]
      OBVIOUS
    <3>1. i \in 1 .. n /\ j \in 1 .. n /\ (i < j \/ j < i)
      OBVIOUS
    <3> QED
      BY <1>1, <1>2, <3>1
  <2>3. \A j \in J : \E i \in 1 .. k : g[i] = j
    <3> SUFFICES ASSUME NEW j \in J PROVE \E i \in 1 .. k : g[i] = j
      OBVIOUS
    <3>1. PICK i \in 1 .. n : f[i] = j
      BY DEF Enumerates
    <3>2. i \in 1 .. k
      BY <1>3, <3>1
    <3> QED
      BY <3>1, <3>2
  <2> HIDE DEF g, J
  <2> QED
    BY <2>1, <2>2, <2>3 DEF Bijection, Injection, Surjection, IsInjective
<1>5. Cardinality(J) = k
  <2> HIDE DEF g, J
  <2> QED
    BY <1>4, FS_CountingElements DEF ExistsBijection
<1> QED
  BY <1>5 DEF Rank

\* The number of indices, and what is at each of them.
LEMMA AtEnumerated ==
    ASSUME NEW s, NEW n \in Nat, NEW I \in SUBSET Int, NEW f, Enumerates(f, n, I)
    PROVE  /\ Cardinality(I) = n
           /\ \A k \in 1 .. n : Nth(I, k) = f[k]
           /\ At(s, I) = [k \in 1 .. n |-> s[f[k]]]
<1>1. Cardinality(I) = n
  <2>1. f \in Bijection(1 .. n, I)
    <3>1. \A i, j \in 1 .. n : f[i] = f[j] => i = j
      <4> SUFFICES ASSUME NEW i \in 1 .. n, NEW j \in 1 .. n, i # j PROVE f[i] # f[j]
        OBVIOUS
      <4>1. f[i] \in Int /\ f[j] \in Int
        BY DEF Enumerates
      <4>2. i < j \/ j < i
        OBVIOUS
      <4> QED
        BY <4>1, <4>2 DEF Enumerates
    <3> QED
      BY <3>1 DEF Enumerates, Bijection, Injection, Surjection, IsInjective
  <2> QED
    BY <2>1, FS_CountingElements DEF ExistsBijection
<1>2. \A k \in 1 .. n : Nth(I, k) = f[k]
  <2> SUFFICES ASSUME NEW k \in 1 .. n PROVE Nth(I, k) = f[k]
    OBVIOUS
  <2>1. f[k] \in I /\ Rank(I, f[k]) = k
    BY RankOfEnumerated DEF Enumerates
  <2>2. \A i \in I : Rank(I, i) = k => i = f[k]
    <3> SUFFICES ASSUME NEW i \in I, Rank(I, i) = k PROVE i = f[k]
      OBVIOUS
    <3>1. PICK j \in 1 .. n : f[j] = i
      BY DEF Enumerates
    <3>2. Rank(I, f[j]) = j
      BY RankOfEnumerated
    <3> QED
      BY <3>1, <3>2
  <2> QED
    BY <2>1, <2>2 DEF Nth
<1> QED
  BY <1>1, <1>2 DEF At

\* Every finite set of numbers can be enumerated: by Nth.
LEMMA NthEnumerates ==
    ASSUME NEW I \in SUBSET Int, IsFiniteSet(I)
    PROVE  /\ Cardinality(I) \in Nat
           /\ Enumerates([k \in 1 .. Cardinality(I) |-> Nth(I, k)], Cardinality(I), I)
<1> DEFINE n == Cardinality(I)
           r == [i \in I |-> Rank(I, i)]
           f == [k \in 1 .. n |-> Nth(I, k)]
<1>1. n \in Nat
  BY FS_CardinalityType
<1>2. ASSUME NEW i \in I, NEW j \in I, i < j
      PROVE  Rank(I, i) < Rank(I, j)
  <2> DEFINE A == {x \in I : x <= i}
             B == {x \in I : x <= j}
  <2>1. A \in SUBSET B /\ j \in B /\ j \notin A /\ B \in SUBSET I
    <3>1. i \in Int /\ j \in Int /\ \A x \in I : x \in Int
      OBVIOUS
    <3>2. \A x \in I : x <= i => x <= j
      BY <1>2, <3>1
    <3>3. ~(j <= i) /\ j <= j
      BY <1>2, <3>1
    <3> QED
      BY <3>2, <3>3
  <2> HIDE DEF A, B
  <2>2. IsFiniteSet(B) /\ Cardinality(B) \in Nat
    BY <2>1, FS_Subset, FS_CardinalityType
  <2>3. IsFiniteSet(A) /\ Cardinality(A) \in Nat
    BY <2>1, <2>2, FS_Subset, FS_CardinalityType
  <2>4. Cardinality(A) <= Cardinality(B) /\ Cardinality(A) # Cardinality(B)
    BY <2>1, <2>2, FS_Subset
  <2>5. Cardinality(A) < Cardinality(B)
    BY <2>2, <2>3, <2>4
  <2> QED
    BY <2>5 DEF Rank, A, B
<1>3. \A i \in I : Rank(I, i) \in 1 .. n
  <2> SUFFICES ASSUME NEW i \in I PROVE Rank(I, i) \in 1 .. n
    OBVIOUS
  <2> DEFINE A == {x \in I : x <= i}
  <2>1. A \in SUBSET I /\ A # {}
    OBVIOUS
  <2> HIDE DEF A
  <2>2. IsFiniteSet(A) /\ Cardinality(A) \in Nat /\ Cardinality(A) <= n
    BY <2>1, FS_Subset, FS_CardinalityType
  <2>3. Cardinality(A) # 0
    BY <2>1, <2>2, FS_EmptySet
  <2>4. Cardinality(A) \in 1 .. n
    BY <1>1, <2>2, <2>3
  <2> QED
    BY <2>4 DEF Rank, A
<1>4. r \in Injection(I, 1 .. n)
  <2>1. \A i, j \in I : r[i] = r[j] => i = j
    <3> SUFFICES ASSUME NEW i \in I, NEW j \in I, i # j PROVE Rank(I, i) # Rank(I, j)
      OBVIOUS
    <3>1. i \in Int /\ j \in Int /\ Rank(I, i) \in 1 .. n /\ Rank(I, j) \in 1 .. n
      BY <1>3
    <3>2. i < j \/ j < i
      BY <3>1
    <3> QED
      BY <1>2, <3>1, <3>2
  <2>2. r \in [I -> 1 .. n]
    BY <1>3
  <2> HIDE DEF r
  <2> QED
    BY <2>1, <2>2 DEF Injection, IsInjective
<1>5. \A k \in 1 .. n : \E i \in I : Rank(I, i) = k
  <2>1. IsFiniteSet(1 .. n) /\ Cardinality(1 .. n) = n
    BY <1>1, FS_Interval
  <2>2. r \in Surjection(I, 1 .. n)
    <3> HIDE DEF r
    <3> QED
      BY <1>4, <2>1, FS_Injection
  <2> QED
    BY <2>2 DEF Surjection
<1>6. \A k \in 1 .. n : Nth(I, k) \in I /\ Rank(I, Nth(I, k)) = k
  BY <1>5 DEF Nth
<1>7. f \in [1 .. n -> I]
  BY <1>6
<1>8. \A i \in I : \E k \in 1 .. n : f[k] = i
  <2> SUFFICES ASSUME NEW i \in I PROVE f[Rank(I, i)] = i
    BY <1>3
  <2>1. Rank(I, i) \in 1 .. n
    BY <1>3
  <2>2. Nth(I, Rank(I, i)) \in I /\ Rank(I, Nth(I, Rank(I, i))) = Rank(I, i)
    BY <1>6, <2>1
  <2>3. r[Nth(I, Rank(I, i))] = r[i]
    BY <2>2
  <2>4. Nth(I, Rank(I, i)) = i
    <3> HIDE DEF r
    <3> QED
      BY <1>4, <2>2, <2>3 DEF Injection, IsInjective
  <2> QED
    BY <2>1, <2>4
<1>9. \A j, k \in 1 .. n : j < k => f[j] < f[k]
  <2> SUFFICES ASSUME NEW j \in 1 .. n, NEW k \in 1 .. n, j < k PROVE Nth(I, j) < Nth(I, k)
    OBVIOUS
  <2>1. /\ Nth(I, j) \in I /\ Nth(I, j) \in Int /\ Rank(I, Nth(I, j)) = j
        /\ Nth(I, k) \in I /\ Nth(I, k) \in Int /\ Rank(I, Nth(I, k)) = k
    BY <1>6
  <2>2. ASSUME Nth(I, k) < Nth(I, j) PROVE FALSE
    <3>1. Rank(I, Nth(I, k)) < Rank(I, Nth(I, j))
      BY <1>2, <2>1, <2>2
    <3> QED
      BY <2>1, <3>1
  <2> QED
    BY <2>1, <2>2
<1> HIDE DEF f
<1> QED
  BY <1>1, <1>7, <1>8, <1>9 DEF Enumerates, f

\* The first n elements of a sequence.
LEMMA AtPrefix ==
    ASSUME NEW T, NEW w \in Seq(T), NEW n \in 1 .. Len(w)
    PROVE  At(w, 1 .. n) = SubSeq(w, 1, n)
<1> DEFINE f == [k \in 1 .. n |-> k]
<1>1. n \in Nat /\ (1 .. n) \in SUBSET Int
  OBVIOUS
<1>2. Enumerates(f, n, 1 .. n)
  BY DEF Enumerates
<1>3. At(w, 1 .. n) = [k \in 1 .. n |-> w[f[k]]]
  <2> HIDE DEF f
  <2> QED
    BY <1>1, <1>2, AtEnumerated
<1> QED
  BY <1>3

\* c is w without its elements from p + 1 to m - 1.
LeavesOut(c, w, p, m) ==
    /\ Len(c) = p + (Len(w) + 1 - m)
    /\ \A k \in 1 .. p : c[k] = w[k]
    /\ \A k \in p + 1 .. Len(c) : c[k] = w[k - p + m - 1]

\* A sequence with a part left out.
LEMMA JoinedParts ==
    ASSUME NEW T, NEW w \in Seq(T), NEW p \in Nat, NEW m \in Nat, p < m, m <= Len(w) + 1,
           NEW c, c = SubSeq(w, 1, p) \o SubSeq(w, m, Len(w))
    PROVE  c \in Seq(T) /\ LeavesOut(c, w, p, m)
<1> DEFINE a == SubSeq(w, 1, p)
           b == SubSeq(w, m, Len(w))
           n == Len(w)
<1>1. n \in Nat
  OBVIOUS
<1>2. a \in Seq(T) /\ Len(a) = p /\ \A k \in 1 .. p : a[k] = w[k]
  BY <1>1
<1>3. b \in Seq(T) /\ Len(b) = n + 1 - m /\ \A k \in 1 .. n + 1 - m : b[k] = w[k + m - 1]
  BY <1>1
<1> HIDE DEF a, b, n
<1>4. /\ a \o b \in Seq(T)
      /\ Len(a \o b) = Len(a) + Len(b)
      /\ \A k \in 1 .. Len(a) + Len(b) :
            (a \o b)[k] = IF k <= Len(a) THEN a[k] ELSE b[k - Len(a)]
  BY <1>2, <1>3, ConcatProperties
<1>5. c = a \o b
  BY DEF a, b, n
<1>6. c \in Seq(T) /\ Len(c) = p + (n + 1 - m)
  BY <1>2, <1>3, <1>4, <1>5
<1>7. ASSUME NEW k \in 1 .. p PROVE c[k] = w[k]
  <2>1. k \in 1 .. Len(a) + Len(b) /\ k <= Len(a)
    BY <1>1, <1>2, <1>3
  <2>2. c[k] = a[k]
    BY <1>4, <1>5, <2>1
  <2> QED
    BY <1>2, <2>2
<1>8. ASSUME NEW k \in p + 1 .. Len(c) PROVE c[k] = w[k - p + m - 1]
  <2>1. k \in 1 .. Len(a) + Len(b) /\ ~(k <= Len(a)) /\ Len(a) = p /\ k - p \in 1 .. n + 1 - m
    <3>1. k \in p + 1 .. p + (n + 1 - m)
      BY <1>6
    <3> QED
      BY <1>1, <1>2, <1>3, <3>1
  <2>2. c[k] = b[k - p]
    BY <1>4, <1>5, <2>1
  <2>3. b[k - p] = w[(k - p) + m - 1]
    BY <1>3, <2>1
  <2> QED
    BY <2>2, <2>3
<1> QED
  BY <1>6, <1>7, <1>8 DEF n, LeavesOut

\* A sequence cut in two.
LEMMA CutList ==
    ASSUME NEW T, NEW w \in Seq(T), NEW p \in Nat, p <= Len(w)
    PROVE  w = SubSeq(w, 1, p) \o SubSeq(w, p + 1, Len(w))
<1>1. 1 \in 1 .. Len(w) + 1 /\ p \in 1 - 1 .. Len(w) /\ Len(w) \in p .. Len(w)
  OBVIOUS
<1>2. SubSeq(w, 1, p) \o SubSeq(w, p + 1, Len(w)) = SubSeq(w, 1, Len(w))
  BY <1>1, ConcatAdjacentSubSeq
<1> QED
  BY <1>2, SubSeqFull

\* s with h after its first n elements, and s without its element number p.
Inserted(s, n, h) == SubSeq(s, 1, n) \o <<h>> \o SubSeq(s, n + 1, Len(s))

Dropped(s, p) == SubSeq(s, 1, p - 1) \o SubSeq(s, p + 1, Len(s))

\* What is where in such sequences.
PutsIn(x, s, n, h) ==
    /\ Len(x) = Len(s) + 1
    /\ \A i \in 1 .. n : x[i] = s[i]
    /\ x[n + 1] = h
    /\ \A i \in n + 1 .. Len(s) : x[i + 1] = s[i]

TakesOut(x, s, p) ==
    /\ Len(x) = Len(s) - 1
    /\ \A i \in 1 .. p - 1 : x[i] = s[i]
    /\ \A i \in p + 1 .. Len(s) : x[i - 1] = s[i]

\* The elements of a sequence with one inserted.
LEMMA InsertedElements ==
    ASSUME NEW T, NEW s \in Seq(T), NEW n \in 0 .. Len(s), NEW h \in T
    PROVE  Inserted(s, n, h) \in Seq(T) /\ PutsIn(Inserted(s, n, h), s, n, h)
<1> DEFINE a == SubSeq(s, 1, n)
           b == SubSeq(s, n + 1, Len(s))
           m == Len(s)
           x == a \o <<h>>
           y == x \o b
<1>1. m \in Nat /\ n \in Nat /\ n <= m
  OBVIOUS
<1>2. a \in Seq(T) /\ Len(a) = n /\ \A k \in 1 .. n : a[k] = s[k]
  BY <1>1
<1>3. b \in Seq(T) /\ Len(b) = m - n /\ \A k \in 1 .. m - n : b[k] = s[k + n]
  BY <1>1
<1>4. <<h>> \in Seq(T) /\ Len(<<h>>) = 1 /\ <<h>>[1] = h
  OBVIOUS
<1> HIDE DEF a, b, m
<1>5. /\ x \in Seq(T) /\ Len(x) = n + 1
      /\ \A k \in 1 .. n + 1 : x[k] = IF k <= n THEN a[k] ELSE <<h>>[k - n]
  BY <1>2, <1>4, ConcatProperties
<1>6. (\A k \in 1 .. n : x[k] = s[k]) /\ x[n + 1] = h
  <2>1. \A k \in 1 .. n : k \in 1 .. n + 1 /\ k <= n
    BY <1>1
  <2>2. n + 1 \in 1 .. n + 1 /\ ~(n + 1 <= n) /\ n + 1 - n = 1
    BY <1>1
  <2> QED
    BY <1>2, <1>4, <1>5, <2>1, <2>2
<1> HIDE DEF x
<1>7. /\ y \in Seq(T) /\ Len(y) = (n + 1) + (m - n)
      /\ \A k \in 1 .. (n + 1) + (m - n) : y[k] = IF k <= n + 1 THEN x[k] ELSE b[k - (n + 1)]
  <2>1. /\ y \in Seq(T) /\ Len(y) = Len(x) + Len(b)
        /\ \A k \in 1 .. Len(x) + Len(b) : y[k] = IF k <= Len(x) THEN x[k] ELSE b[k - Len(x)]
    BY <1>3, <1>5, ConcatProperties
  <2>2. Len(x) = n + 1 /\ Len(b) = m - n
    BY <1>3, <1>5
  <2> HIDE DEF y
  <2> QED
    BY <2>1, <2>2
<1>8. Len(y) = m + 1
  BY <1>1, <1>7
<1>9. ASSUME NEW i \in 1 .. n PROVE y[i] = s[i]
  <2>1. i \in 1 .. (n + 1) + (m - n) /\ i <= n + 1
    BY <1>1
  <2> QED
    BY <1>6, <1>7, <2>1
<1>10. y[n + 1] = h
  <2>1. n + 1 \in 1 .. (n + 1) + (m - n) /\ n + 1 <= n + 1
    BY <1>1
  <2> QED
    BY <1>6, <1>7, <2>1
<1>11. ASSUME NEW i \in n + 1 .. m PROVE y[i + 1] = s[i]
  <2>1. /\ i + 1 \in 1 .. (n + 1) + (m - n) /\ ~(i + 1 <= n + 1)
        /\ i + 1 - (n + 1) = i - n /\ i - n \in 1 .. m - n /\ i - n + n = i
    BY <1>1
  <2>2. y[i + 1] = b[i - n]
    BY <1>7, <2>1
  <2> QED
    BY <1>3, <2>1, <2>2
<1>12. y = Inserted(s, n, h)
  BY DEF Inserted, a, b, m, x
<1> HIDE DEF y
<1> QED
  BY <1>7, <1>8, <1>9, <1>10, <1>11, <1>12 DEF m, PutsIn

\* The elements of a sequence without one of them.
LEMMA DroppedElements ==
    ASSUME NEW T, NEW s \in Seq(T), NEW p \in 1 .. Len(s)
    PROVE  Dropped(s, p) \in Seq(T) /\ TakesOut(Dropped(s, p), s, p)
<1> DEFINE c == SubSeq(s, 1, p - 1) \o SubSeq(s, p + 1, Len(s))
           q == p - 1
           m == p + 1
<1>1. s \in Seq(T)
  OBVIOUS
<1>2. q \in Nat /\ m \in Nat /\ q < m /\ Len(s) \in Nat
  OBVIOUS
<1>3. m <= Len(s) + 1
  OBVIOUS
<1>4. c = SubSeq(s, 1, q) \o SubSeq(s, m, Len(s))
  OBVIOUS
<1> HIDE DEF c, q, m
<1>5. c \in Seq(T) /\ LeavesOut(c, s, q, m)
  BY <1>1, <1>2, <1>3, <1>4, JoinedParts
<1>6. /\ Len(c) = q + (Len(s) + 1 - m)
      /\ \A k \in 1 .. q : c[k] = s[k]
      /\ \A k \in q + 1 .. Len(c) : c[k] = s[k - q + m - 1]
  BY <1>5 DEF LeavesOut
<1>7. q = p - 1 /\ m = p + 1 /\ Len(c) = Len(s) - 1
  BY <1>2, <1>6 DEF q, m
<1>8. ASSUME NEW i \in p + 1 .. Len(s) PROVE c[i - 1] = s[i]
  <2>1. i - 1 \in q + 1 .. Len(c) /\ (i - 1) - q + m - 1 = i
    BY <1>2, <1>7
  <2> QED
    BY <1>6, <2>1
<1> QED
  BY <1>5, <1>6, <1>7, <1>8 DEF Dropped, c, TakesOut

-----------------------------------------------------------------------------
\* The indices of the elements that belong to S.
Picked(s, S) == {i \in DOMAIN s : s[i] \in S}

\* f lists the indices I of these elements, and Only what is there.
Picks(s, S, I, n, f) ==
    /\ n \in Nat /\ I \in SUBSET Int
    /\ Enumerates(f, n, I)
    /\ Only(s, S) = [k \in 1 .. n |-> s[f[k]]]
    /\ \A i : i \in I <=> i \in 1 .. Len(s) /\ s[i] \in S

\* The indices can be enumerated.
LEMMA PickedIndices ==
    ASSUME NEW T, NEW s \in Seq(T), NEW S
    PROVE  \E I, n, f : Picks(s, S, I, n, f)
<1>0. PICK I, n : I = Picked(s, S) /\ n = Cardinality(I)
  OBVIOUS
<1> DEFINE f == [k \in 1 .. n |-> Nth(I, k)]
<1>1. Len(s) \in Nat /\ DOMAIN s = 1 .. Len(s)
  BY LenProperties
<1>2. \A i : i \in I <=> i \in 1 .. Len(s) /\ s[i] \in S
  BY <1>0, <1>1 DEF Picked
<1>3. I \in SUBSET (1 .. Len(s))
  BY <1>2
<1>4. IsFiniteSet(I)
  <2>1. IsFiniteSet(1 .. Len(s))
    BY <1>1, FS_Interval
  <2> QED
    BY <1>3, <2>1, FS_Subset
<1>5. I \in SUBSET Int
  BY <1>3
<1>6. n \in Nat /\ Enumerates(f, n, I)
  BY <1>0, <1>4, <1>5, NthEnumerates
<1> HIDE DEF f
<1>7. At(s, I) = [k \in 1 .. n |-> s[f[k]]]
  <2>1. n \in Nat
    BY <1>6
  <2>2. Enumerates(f, n, I)
    BY <1>6
  <2> QED
    BY ONLY <1>5, <2>1, <2>2, AtEnumerated
<1>8. Picks(s, S, I, n, f)
  BY <1>0, <1>2, <1>5, <1>6, <1>7 DEF Only, Picked, Picks
<1> QED
  BY <1>8

\* The elements of Only are those of the sequence that belong to S.
LEMMA OnlyElements ==
    ASSUME NEW T, NEW s \in Seq(T), NEW S
    PROVE  /\ Only(s, S) \in Seq(T) /\ Len(Only(s, S)) \in Nat
           /\ DOMAIN Only(s, S) = 1 .. Len(Only(s, S))
           /\ \A k \in 1 .. Len(Only(s, S)) :
                 Only(s, S)[k] \in S /\ \E i \in 1 .. Len(s) : s[i] = Only(s, S)[k]
           /\ \A i \in 1 .. Len(s) : s[i] \in S => \E k \in 1 .. Len(Only(s, S)) : Only(s, S)[k] = s[i]
<1>0. PICK I, n, f : Picks(s, S, I, n, f)
  BY PickedIndices
<1> DEFINE o == Only(s, S)
<1>1. /\ n \in Nat /\ I \in SUBSET Int
      /\ Enumerates(f, n, I)
      /\ o = [k \in 1 .. n |-> s[f[k]]]
      /\ \A i : i \in I <=> i \in 1 .. Len(s) /\ s[i] \in S
  BY <1>0 DEF Picks
<1> HIDE DEF o
<1>2. /\ \A k \in 1 .. n : f[k] \in I
      /\ \A i \in I : \E k \in 1 .. n : f[k] = i
  BY <1>1 DEF Enumerates
<1>3. \A i \in 1 .. Len(s) : s[i] \in T
  OBVIOUS
<1>4. o \in Seq(T) /\ Len(o) = n /\ DOMAIN o = 1 .. n
  <2>1. o \in [1 .. n -> T]
    BY <1>1, <1>2, <1>3
  <2> QED
    BY <1>1, <2>1, SeqDef, LenProperties
<1>5. \A k \in 1 .. n : o[k] \in S /\ \E i \in 1 .. Len(s) : s[i] = o[k]
  BY <1>1, <1>2
<1>6. \A i \in 1 .. Len(s) : s[i] \in S => \E k \in 1 .. n : o[k] = s[i]
  BY <1>1, <1>2
<1> QED
  BY <1>1, <1>4, <1>5, <1>6 DEF o

\* Each element is kept or not by itself: sets that agree on the sequence.
LEMMA SameOnly ==
    ASSUME NEW T, NEW s \in Seq(T), NEW R, NEW S,
           \A i \in 1 .. Len(s) : s[i] \in R <=> s[i] \in S
    PROVE  Only(s, R) = Only(s, S)
<1>1. DOMAIN s = 1 .. Len(s)
  BY LenProperties
<1>2. {i \in DOMAIN s : s[i] \in R} = {i \in DOMAIN s : s[i] \in S}
  BY <1>1
<1> QED
  BY <1>2 DEF Only

\* c is made of a and b.
Joined(c, a, b) == c = a \o b

\* What is kept of two parts of a sequence.
LEMMA OnlyConcat ==
    ASSUME NEW T, NEW a \in Seq(T), NEW b \in Seq(T), NEW S
    PROVE  Joined(Only(a \o b, S), Only(a, S), Only(b, S))
<1> DEFINE c == a \o b
           m == Len(a)
<1>1. /\ c \in Seq(T) /\ Len(c) = m + Len(b)
      /\ \A k \in 1 .. m + Len(b) : c[k] = IF k <= m THEN a[k] ELSE b[k - m]
      /\ m \in Nat /\ Len(b) \in Nat
  BY ConcatProperties
<1> HIDE DEF c, m
<1>2. PICK Ia, ka, fa : Picks(a, S, Ia, ka, fa)
  BY PickedIndices
<1>4. /\ ka \in Nat /\ Ia \in SUBSET Int
      /\ Enumerates(fa, ka, Ia)
      /\ Only(a, S) = [k \in 1 .. ka |-> a[fa[k]]]
      /\ \A i : i \in Ia <=> i \in 1 .. m /\ a[i] \in S
  BY <1>2 DEF m, Picks
<1>5. PICK Ib, kb, fb : Picks(b, S, Ib, kb, fb)
  BY PickedIndices
<1>7. /\ kb \in Nat /\ Ib \in SUBSET Int
      /\ Enumerates(fb, kb, Ib)
      /\ Only(b, S) = [k \in 1 .. kb |-> b[fb[k]]]
      /\ \A i : i \in Ib <=> i \in 1 .. Len(b) /\ b[i] \in S
  BY <1>5 DEF Picks
<1> DEFINE I == Picked(c, S)
           f == [k \in 1 .. ka + kb |-> IF k <= ka THEN fa[k] ELSE m + fb[k - ka]]
<1>8. I \in SUBSET Int /\ \A i : i \in I <=> i \in 1 .. m + Len(b) /\ c[i] \in S
  <2>1. DOMAIN c = 1 .. m + Len(b)
    BY <1>1, LenProperties
  <2> QED
    BY <1>1, <2>1 DEF Picked
<1> HIDE DEF I
<1>9. /\ \A k \in 1 .. ka : fa[k] \in Ia /\ fa[k] \in 1 .. m
      /\ \A i \in Ia : \E k \in 1 .. ka : fa[k] = i
      /\ \A j, k \in 1 .. ka : j < k => fa[j] < fa[k]
  BY <1>4 DEF Enumerates
<1>10. /\ \A k \in 1 .. kb : fb[k] \in Ib /\ fb[k] \in 1 .. Len(b)
       /\ \A i \in Ib : \E k \in 1 .. kb : fb[k] = i
       /\ \A j, k \in 1 .. kb : j < k => fb[j] < fb[k]
  BY <1>7 DEF Enumerates
<1>11. \A i \in 1 .. m : i \in 1 .. m + Len(b) /\ c[i] = a[i] /\ (i \in I <=> i \in Ia)
  <2>1. \A i \in 1 .. m : i \in 1 .. m + Len(b) /\ i <= m
    BY <1>1
  <2> QED
    BY <1>1, <1>4, <1>8, <2>1
<1>12. \A i \in 1 .. Len(b) : m + i \in 1 .. m + Len(b) /\ c[m + i] = b[i] /\ (m + i \in I <=> i \in Ib)
  <2>1. \A i \in 1 .. Len(b) : m + i \in 1 .. m + Len(b) /\ ~(m + i <= m) /\ (m + i) - m = i
    BY <1>1
  <2> QED
    BY <1>1, <1>7, <1>8, <2>1
<1>13. \A k \in 1 .. ka : k \in 1 .. ka + kb /\ f[k] = fa[k] /\ k <= ka
  BY <1>4, <1>7
<1>14. \A k \in ka + 1 .. ka + kb : /\ k \in 1 .. ka + kb /\ k - ka \in 1 .. kb
                                    /\ f[k] = m + fb[k - ka] /\ ~(k <= ka)
  BY <1>4, <1>7
<1>15. \A k \in 1 .. ka + kb : k \in 1 .. ka \/ k \in ka + 1 .. ka + kb
  BY <1>4, <1>7
<1>16. f = [k \in 1 .. ka + kb |-> f[k]]
  OBVIOUS
<1> HIDE DEF f
<1>17. \A k \in 1 .. ka + kb : f[k] \in I /\ f[k] \in Int
  BY <1>8, <1>9, <1>10, <1>11, <1>12, <1>13, <1>14, <1>15
<1>18. ASSUME NEW i \in I PROVE \E k \in 1 .. ka + kb : f[k] = i
  <2>1. CASE i \in 1 .. m
    <3>1. PICK k \in 1 .. ka : fa[k] = i
      BY <1>9, <1>11, <2>1
    <3> QED
      BY <1>13, <3>1
  <2>2. CASE i \notin 1 .. m
    <3>1. i - m \in 1 .. Len(b) /\ m + (i - m) = i
      BY <1>1, <1>8, <2>2
    <3>2. PICK k \in 1 .. kb : fb[k] = i - m
      BY <1>10, <1>12, <3>1
    <3>3. ka + k \in ka + 1 .. ka + kb /\ (ka + k) - ka = k
      BY <1>4, <1>7
    <3>4. f[ka + k] = m + fb[k]
      BY <1>14, <3>3
    <3> QED
      BY <1>14, <3>1, <3>2, <3>3, <3>4
  <2> QED
    BY <2>1, <2>2
<1>19. ASSUME NEW j \in 1 .. ka + kb, NEW k \in 1 .. ka + kb, j < k PROVE f[j] < f[k]
  <2>1. CASE j \in 1 .. ka /\ k \in 1 .. ka
    BY <1>9, <1>13, <1>19, <2>1
  <2>2. CASE j \in 1 .. ka /\ k \in ka + 1 .. ka + kb
    <3>1. fa[j] \in 1 .. m /\ fb[k - ka] \in 1 .. Len(b) /\ f[j] = fa[j] /\ f[k] = m + fb[k - ka]
      BY <1>9, <1>10, <1>13, <1>14, <2>2
    <3> QED
      BY <1>1, <3>1
  <2>3. CASE j \in ka + 1 .. ka + kb /\ k \in ka + 1 .. ka + kb
    <3>1. j - ka \in 1 .. kb /\ k - ka \in 1 .. kb /\ j - ka < k - ka
      BY <1>4, <1>7, <1>19, <2>3
    <3>2. fb[j - ka] < fb[k - ka] /\ fb[j - ka] \in 1 .. Len(b) /\ fb[k - ka] \in 1 .. Len(b)
      BY <1>10, <3>1
    <3>3. f[j] = m + fb[j - ka] /\ f[k] = m + fb[k - ka]
      BY <1>14, <2>3
    <3> QED
      BY <1>1, <3>2, <3>3
  <2>4. ~(j \in ka + 1 .. ka + kb /\ k \in 1 .. ka)
    BY <1>4, <1>7, <1>19
  <2> QED
    BY <1>15, <2>1, <2>2, <2>3, <2>4
<1>20. Enumerates(f, ka + kb, I)
  BY <1>16, <1>17, <1>18, <1>19 DEF Enumerates
<1>21. Only(c, S) = [k \in 1 .. ka + kb |-> c[f[k]]]
  <2>1. ka + kb \in Nat
    BY <1>4, <1>7
  <2>2. At(c, I) = [k \in 1 .. ka + kb |-> c[f[k]]]
    BY SMTT(20), <1>8, <1>20, <2>1, AtEnumerated
  <2> QED
    BY <2>2 DEF I, Only, Picked
<1>22. /\ Only(a, S) \in Seq(T) /\ Only(b, S) \in Seq(T)
       /\ Len(Only(a, S)) = ka /\ Len(Only(b, S)) = kb
  <2>1. Only(a, S) \in Seq(T) /\ Only(b, S) \in Seq(T)
    BY OnlyElements
  <2>2. DOMAIN Only(a, S) = 1 .. ka /\ DOMAIN Only(b, S) = 1 .. kb
    BY <1>4, <1>7
  <2> QED
    BY <1>4, <1>7, <2>1, <2>2, LenProperties
<1> DEFINE oa == Only(a, S)
           ob == Only(b, S)
           x == oa \o ob
<1>23. /\ x \in Seq(T) /\ Len(x) = ka + kb
       /\ \A k \in 1 .. ka + kb : x[k] = IF k <= ka THEN oa[k] ELSE ob[k - ka]
  <2> HIDE DEF oa, ob
  <2>1. oa \in Seq(T) /\ ob \in Seq(T) /\ Len(oa) = ka /\ Len(ob) = kb
    BY <1>22 DEF oa, ob
  <2>2. /\ x \in Seq(T) /\ Len(x) = Len(oa) + Len(ob)
        /\ \A k \in 1 .. Len(oa) + Len(ob) : x[k] = IF k <= Len(oa) THEN oa[k] ELSE ob[k - Len(oa)]
    BY <2>1, ConcatProperties
  <2> HIDE DEF x
  <2> QED
    BY <2>1, <2>2
<1>24. ASSUME NEW k \in 1 .. ka + kb PROVE x[k] = c[f[k]]
  <2>1. CASE k \in 1 .. ka
    <3>1. x[k] = oa[k] /\ oa[k] = a[fa[k]]
      <4> HIDE DEF x
      <4> QED
        BY <1>4, <1>13, <1>23, <2>1
    <3>2. c[f[k]] = a[fa[k]]
      BY <1>9, <1>11, <1>13, <2>1
    <3> QED
      BY <3>1, <3>2
  <2>2. CASE k \in ka + 1 .. ka + kb
    <3>1. k - ka \in 1 .. kb /\ f[k] = m + fb[k - ka]
      BY <1>14, <2>2
    <3>2. x[k] = ob[k - ka] /\ ob[k - ka] = b[fb[k - ka]]
      <4> HIDE DEF x
      <4> QED
        BY <1>7, <1>14, <1>23, <2>2, <3>1
    <3>3. c[f[k]] = b[fb[k - ka]]
      BY <1>10, <1>12, <3>1
    <3> QED
      BY <3>2, <3>3
  <2> QED
    BY <1>15, <2>1, <2>2
<1>25. x = [k \in 1 .. ka + kb |-> x[k]]
  <2> HIDE DEF x
  <2>1. DOMAIN x = 1 .. ka + kb
    BY <1>23, LenProperties
  <2> QED
    BY <1>23, <2>1, LenProperties
<1>26. x = [k \in 1 .. ka + kb |-> c[f[k]]]
  <2> HIDE DEF x
  <2> QED
    BY <1>24, <1>25
<1> QED
  BY <1>21, <1>26 DEF c, Joined

\* What is kept in two steps.
LEMMA OnlyOnly ==
    ASSUME NEW T, NEW s \in Seq(T), NEW S, NEW R
    PROVE  Only(Only(s, S), R) = Only(s, S \cap R)
<1>1. PICK I, n, f : Picks(s, S, I, n, f)
  BY PickedIndices
<1> DEFINE r == Only(s, S)
<1>2. r \in Seq(T) /\ DOMAIN r = 1 .. Len(r)
  BY OnlyElements
<1>3. PICK J, m, g : Picks(r, R, J, m, g)
  <2> HIDE DEF r
  <2> QED
    BY <1>2, PickedIndices
<1>4. /\ n \in Nat /\ I \in SUBSET Int
      /\ r = [k \in 1 .. n |-> s[f[k]]]
      /\ \A i : i \in I <=> i \in 1 .. Len(s) /\ s[i] \in S
      /\ \A k \in 1 .. n : f[k] \in I /\ f[k] \in Int
      /\ \A i \in I : \E k \in 1 .. n : f[k] = i
      /\ \A j, k \in 1 .. n : j < k => f[j] < f[k]
  BY <1>1 DEF Picks, Enumerates
<1>5. Len(r) = n
  <2>1. DOMAIN r = 1 .. n
    BY <1>4
  <2> HIDE DEF r
  <2> QED
    BY <1>2, <1>4, <2>1, LenProperties
<1> HIDE DEF r
<1>6. /\ m \in Nat /\ J \in SUBSET Int
      /\ Only(r, R) = [k \in 1 .. m |-> r[g[k]]]
      /\ \A i : i \in J <=> i \in 1 .. n /\ r[i] \in R
      /\ \A k \in 1 .. m : g[k] \in J /\ g[k] \in 1 .. n
      /\ \A i \in J : \E k \in 1 .. m : g[k] = i
      /\ \A j, k \in 1 .. m : j < k => g[j] < g[k]
  BY <1>3, <1>5 DEF Picks, Enumerates
<1> DEFINE K == {i \in DOMAIN s : s[i] \in S \cap R}
           h == [k \in 1 .. m |-> f[g[k]]]
<1>7. K \in SUBSET Int /\ \A i : i \in K <=> i \in I /\ s[i] \in R
  <2>1. DOMAIN s = 1 .. Len(s)
    BY LenProperties
  <2>2. \A i : i \in K <=> i \in I /\ s[i] \in R
    BY <1>4, <2>1
  <2> QED
    BY <1>4, <2>2
<1> HIDE DEF K
<1>8. \A k \in 1 .. m : h[k] \in K
  BY <1>4, <1>6, <1>7
<1>9. ASSUME NEW i \in K PROVE \E k \in 1 .. m : h[k] = i
  <2>1. PICK x \in 1 .. n : f[x] = i
    BY <1>4, <1>7
  <2>2. x \in J
    BY <1>4, <1>6, <1>7, <2>1
  <2>3. PICK k \in 1 .. m : g[k] = x
    BY <1>6, <2>2
  <2> QED
    BY <2>1, <2>3
<1>10. \A j, k \in 1 .. m : j < k => h[j] < h[k]
  BY <1>4, <1>6
<1>11. h = [k \in 1 .. m |-> h[k]]
  OBVIOUS
<1>12. \A k \in 1 .. m : h[k] = f[g[k]]
  OBVIOUS
<1> HIDE DEF h
<1>13. Enumerates(h, m, K)
  BY <1>8, <1>9, <1>10, <1>11 DEF Enumerates
<1>14. At(s, K) = [k \in 1 .. m |-> s[h[k]]]
  <2>1. m \in Nat
    BY <1>6
  <2>2. K \in SUBSET Int
    BY <1>7
  <2> QED
    BY ONLY <1>13, <2>1, <2>2, AtEnumerated
<1>15. \A k \in 1 .. m : r[g[k]] = s[h[k]]
  BY <1>4, <1>6, <1>12
<1>16. Only(r, R) = [k \in 1 .. m |-> s[h[k]]]
  BY <1>6, <1>15
<1> QED
  BY <1>14, <1>16 DEF Only, K, r

\* A function applied before or after some elements are taken.
LEMMA AtEach ==
    ASSUME NEW T, NEW s \in Seq(T), NEW f, NEW I \in SUBSET (1 .. Len(s))
    PROVE  At(Each(f, s), I) = Each(f, At(s, I))
<1> DEFINE n == Cardinality(I)
           g == [k \in 1 .. n |-> Nth(I, k)]
<1>1. Len(s) \in Nat /\ DOMAIN s = 1 .. Len(s)
  BY LenProperties
<1>2. IsFiniteSet(I)
  <2>1. IsFiniteSet(1 .. Len(s))
    BY <1>1, FS_Interval
  <2> QED
    BY <2>1, FS_Subset
<1>3. I \in SUBSET Int
  OBVIOUS
<1>4. Enumerates(g, n, I)
  BY <1>2, <1>3, NthEnumerates
<1>5. \A k \in 1 .. n : Nth(I, k) \in DOMAIN s
  BY <1>1, <1>4 DEF Enumerates
<1> HIDE DEF n
<1>6. At(Each(f, s), I) = [k \in 1 .. n |-> f[s[Nth(I, k)]]]
  BY <1>5 DEF At, Each, n
<1>7. At(s, I) = [k \in 1 .. n |-> s[Nth(I, k)]]
  BY DEF At, n
<1>8. Each(f, At(s, I)) = [k \in 1 .. n |-> f[s[Nth(I, k)]]]
  BY <1>7 DEF Each
<1> QED
  BY <1>6, <1>8

\* The indices of the elements that belong to R.
Selected(s, R) == {i \in DOMAIN s : s[i] \in R}

\* What is taken of the elements kept, when R tells which.
LEMMA TakenOfKept ==
    ASSUME NEW T, NEW s \in Seq(T), NEW f, NEW S, NEW R
    PROVE  At(Each(f, Only(s, S)), Selected(Only(s, S), R)) = Each(f, Only(s, S \cap R))
<1> DEFINE r == Only(s, S)
           I == Selected(r, R)
<1>1. r \in Seq(T) /\ DOMAIN r = 1 .. Len(r)
  BY OnlyElements
<1>2. Only(r, R) = Only(s, S \cap R)
  BY OnlyOnly
<1>3. Only(r, R) = At(r, I)
  BY DEF Only, Selected
<1>4. I \in SUBSET (1 .. Len(r))
  BY <1>1 DEF Selected
<1> HIDE DEF r, I
<1>5. At(Each(f, r), I) = Each(f, At(r, I))
  BY <1>1, <1>4, AtEach
<1> QED
  BY <1>2, <1>3, <1>5 DEF r, I

\* A function applied to the elements of a concatenation.
LEMMA EachConcat ==
    ASSUME NEW T, NEW V, NEW f \in [T -> V], NEW a \in Seq(T), NEW b \in Seq(T)
    PROVE  /\ Each(f, a) \in Seq(V)
           /\ Len(Each(f, a)) = Len(a)
           /\ Joined(Each(f, a \o b), Each(f, a), Each(f, b))
<1> DEFINE x == Each(f, a)
           y == Each(f, b)
           c == a \o b
           z == Each(f, c)
           w == x \o y
<1>1. ASSUME NEW s \in Seq(T)
      PROVE  /\ Each(f, s) \in Seq(V) /\ Len(Each(f, s)) = Len(s)
             /\ \A i \in 1 .. Len(s) : Each(f, s)[i] = f[s[i]]
  <2>1. Len(s) \in Nat /\ DOMAIN s = 1 .. Len(s) /\ \A i \in 1 .. Len(s) : s[i] \in T
    BY LenProperties
  <2>2. Each(f, s) \in [1 .. Len(s) -> V]
    BY <2>1 DEF Each
  <2>3. Each(f, s) \in Seq(V)
    BY <2>1, <2>2, SeqDef
  <2>4. Len(Each(f, s)) = Len(s)
    BY <2>1, <2>2, <2>3, LenProperties
  <2> QED
    BY <2>1, <2>3, <2>4 DEF Each
<1>2. /\ x \in Seq(V) /\ Len(x) = Len(a) /\ \A i \in 1 .. Len(a) : x[i] = f[a[i]]
  BY <1>1
<1>3. /\ y \in Seq(V) /\ Len(y) = Len(b) /\ \A i \in 1 .. Len(b) : y[i] = f[b[i]]
  BY <1>1
<1>4. /\ c \in Seq(T) /\ Len(c) = Len(a) + Len(b)
      /\ \A k \in 1 .. Len(a) + Len(b) : c[k] = IF k <= Len(a) THEN a[k] ELSE b[k - Len(a)]
      /\ Len(a) \in Nat /\ Len(b) \in Nat
  BY ConcatProperties
<1> HIDE DEF x, y, c
<1>5. /\ z \in Seq(V) /\ Len(z) = Len(a) + Len(b) /\ \A i \in 1 .. Len(a) + Len(b) : z[i] = f[c[i]]
  BY <1>1, <1>4
<1>6. /\ w \in Seq(V) /\ Len(w) = Len(x) + Len(y)
      /\ \A k \in 1 .. Len(x) + Len(y) : w[k] = IF k <= Len(x) THEN x[k] ELSE y[k - Len(x)]
  <2>1. x \in Seq(V) /\ y \in Seq(V)
    BY <1>2, <1>3
  <2> QED
    BY ONLY <2>1, ConcatProperties DEF w
<1> HIDE DEF z, w
<1>7. \A k \in 1 .. Len(a) + Len(b) : z[k] = w[k]
  <2> SUFFICES ASSUME NEW k \in 1 .. Len(a) + Len(b) PROVE z[k] = w[k]
    OBVIOUS
  <2>1. CASE k <= Len(a)
    <3>1. k \in 1 .. Len(a)
      BY <1>4, <2>1
    <3>2. z[k] = f[a[k]]
      BY <1>4, <1>5, <2>1
    <3>3. w[k] = x[k]
      BY <1>2, <1>3, <1>6, <2>1
    <3> QED
      BY <1>2, <3>1, <3>2, <3>3
  <2>2. CASE ~(k <= Len(a))
    <3>1. k - Len(a) \in 1 .. Len(b)
      BY <1>4, <2>2
    <3>2. z[k] = f[b[k - Len(a)]]
      BY <1>4, <1>5, <2>2
    <3>3. w[k] = y[k - Len(a)]
      BY <1>2, <1>3, <1>6, <2>2
    <3> QED
      BY <1>3, <3>1, <3>2, <3>3
  <2> QED
    BY <2>1, <2>2
<1>8. z = w
  <2>1. DOMAIN z = 1 .. Len(a) + Len(b) /\ DOMAIN w = 1 .. Len(a) + Len(b)
    BY <1>2, <1>3, <1>5, <1>6, LenProperties
  <2>2. z = [k \in 1 .. Len(a) + Len(b) |-> z[k]]
    BY <1>5, <2>1, LenProperties
  <2>3. w = [k \in 1 .. Len(a) + Len(b) |-> w[k]]
    BY <1>6, <2>1, LenProperties
  <2> QED
    BY <1>7, <2>2, <2>3
<1> QED
  BY <1>2, <1>8 DEF x, y, z, w, c, Joined

\* The values on the elements of the sequence are all that matters.
LEMMA SameEach ==
    ASSUME NEW T, NEW s \in Seq(T), NEW f, NEW g, \A i \in 1 .. Len(s) : f[s[i]] = g[s[i]]
    PROVE  Each(f, s) = Each(g, s)
<1>1. DOMAIN s = 1 .. Len(s)
  BY LenProperties
<1> QED
  BY <1>1 DEF Each

\* Neither a set nor a function matters out of the sequence.
LEMMA SameKept ==
    ASSUME NEW T, NEW s \in Seq(T), NEW R, NEW S, NEW f, NEW g,
           \A i \in 1 .. Len(s) : s[i] \in R <=> s[i] \in S,
           \A i \in 1 .. Len(s) : s[i] \in S => f[s[i]] = g[s[i]]
    PROVE  Each(f, Only(s, R)) = Each(g, Only(s, S))
<1> DEFINE o == Only(s, S)
<1>1. Only(s, R) = o
  BY SameOnly
<1>2. /\ o \in Seq(T)
      /\ \A k \in 1 .. Len(o) : o[k] \in S /\ \E i \in 1 .. Len(s) : s[i] = o[k]
  BY OnlyElements
<1> HIDE DEF o
<1>3. \A k \in 1 .. Len(o) : f[o[k]] = g[o[k]]
  BY <1>2
<1>4. Each(f, o) = Each(g, o)
  BY <1>2, <1>3, SameEach
<1> QED
  BY <1>1, <1>4 DEF o

\* Nothing of the empty sequence, and nothing when no element belongs to S.
LEMMA NothingKept ==
    ASSUME NEW T, NEW s \in Seq(T), NEW S, \A i \in 1 .. Len(s) : s[i] \notin S, NEW f
    PROVE  Only(s, S) = <<>> /\ Each(f, <<>>) = <<>>
<1>1. /\ Only(s, S) \in Seq(T) /\ Len(Only(s, S)) \in Nat
      /\ \A k \in 1 .. Len(Only(s, S)) :
            Only(s, S)[k] \in S /\ \E i \in 1 .. Len(s) : s[i] = Only(s, S)[k]
  BY OnlyElements
<1>2. Len(Only(s, S)) = 0
  <2>1. Len(Only(s, S)) # 0 => 1 \in 1 .. Len(Only(s, S))
    BY <1>1
  <2> QED
    BY <1>1, <2>1
<1>3. Only(s, S) = <<>>
  BY <1>1, <1>2, EmptySeq
<1>4. Each(f, <<>>) = <<>>
  <2>1. DOMAIN <<>> = {}
    OBVIOUS
  <2>2. Each(f, <<>>) = [i \in {} |-> f[<<>>[i]]]
    BY <2>1 DEF Each
  <2>3. Each(f, <<>>) \in [1 .. 0 -> T]
    <3>1. 1 .. 0 = {}
      OBVIOUS
    <3>2. \A i \in {} : f[<<>>[i]] \in T
      OBVIOUS
    <3> QED
      BY ONLY <2>2, <3>1, <3>2
  <2>4. Each(f, <<>>) \in Seq(T) /\ Len(Each(f, <<>>)) = 0
    BY <2>3, SeqDef, LenProperties
  <2> QED
    BY <2>4, EmptySeq
<1> QED
  BY <1>3, <1>4

\* Everything, when all elements belong to S.
LEMMA AllKept ==
    ASSUME NEW T, NEW s \in Seq(T), NEW S, \A i \in 1 .. Len(s) : s[i] \in S
    PROVE  Only(s, S) = s
<1> DEFINE n == Len(s)
           f == [k \in 1 .. n |-> k]
<1>1. n \in Nat /\ DOMAIN s = 1 .. n
  BY LenProperties
<1>2. {i \in DOMAIN s : s[i] \in S} = 1 .. n
  BY <1>1
<1>3. Enumerates(f, n, 1 .. n)
  BY DEF Enumerates
<1>4. At(s, 1 .. n) = [k \in 1 .. n |-> s[f[k]]]
  <2> HIDE DEF f, n
  <2>1. (1 .. n) \in SUBSET Int
    OBVIOUS
  <2>2. n \in Nat
    BY <1>1
  <2> QED
    BY ONLY <1>3, <2>1, <2>2, AtEnumerated
<1>5. At(s, 1 .. n) = [k \in 1 .. n |-> s[k]]
  BY <1>4
<1>6. s = [k \in 1 .. n |-> s[k]]
  BY LenProperties
<1> QED
  BY <1>2, <1>5, <1>6 DEF Only

\* A sequence of one element.
LEMMA OnlyOne ==
    ASSUME NEW T, NEW x \in T, NEW S, NEW f
    PROVE  /\ x \in S => Only(<<x>>, S) = <<x>>
           /\ x \notin S => Only(<<x>>, S) = <<>>
           /\ Each(f, <<x>>) = <<f[x]>>
<1>1. <<x>> \in Seq(T) /\ Len(<<x>>) = 1 /\ \A i \in 1 .. 1 : <<x>>[i] = x
  OBVIOUS
<1>2. x \in S => Only(<<x>>, S) = <<x>>
  BY <1>1, AllKept
<1>3. x \notin S => Only(<<x>>, S) = <<>>
  BY <1>1, NothingKept
<1>4. Each(f, <<x>>) = <<f[x]>>
  <2>1. Each(f, <<x>>) = [i \in 1 .. 1 |-> f[x]]
    BY <1>1 DEF Each
  <2>2. <<f[x]>> = [i \in 1 .. 1 |-> f[x]]
    OBVIOUS
  <2> QED
    BY <2>1, <2>2
<1> QED
  BY <1>2, <1>3, <1>4
=============================================================================
