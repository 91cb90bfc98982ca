----------------------------- MODULE Fst_proofs -----------------------------
(***************************************************************************)
(* Theorems about FST files: wherever the program ends, the time does not  *)
(* go back in what the reader reports; a complete trace gives back the     *)
(* interruptions; and a complete section is never moved or changed.  They  *)
(* rest on an invariant of the blocks in the file: complete sections, in   *)
(* the order of their times, then the header of a section that is being    *)
(* recorded, or the blocks of the end of the file.  Then the changes: an   *)
(* integer, a change and the chain of a signal are read back as they were  *)
(* written, and what a chain is made of, the section in memory, is what    *)
(* the client emitted.  What a loop or a recursive function computes is    *)
(* proved by the least number of rounds for which it would be wrong.       *)
(***************************************************************************)
EXTENDS Fst, SubsequenceLemmas

-----------------------------------------------------------------------------
(* Partial sums.                                                           *)

\* The function Sums is made of, up to m.
SumsUpTo(f, d, m) == f = [k \in 0 .. m |-> IF k = 0 THEN 0 ELSE f[k - 1] + d[k]]

\* It exists.
LEMMA SumsExist ==
    ASSUME NEW d, NEW n \in Nat
    PROVE  \E f : SumsUpTo(f, d, n)
<1> DEFINE Bad == {m \in Nat : ~ \E f : SumsUpTo(f, d, m)}
<1>1. SUFFICES ASSUME Bad # {} PROVE FALSE
  BY <1>1
<1>2. PICK m \in Bad : \A j \in Bad : m <= j
  BY <1>1, LeastElement
<1>3. m \in Nat /\ ~ \E f : SumsUpTo(f, d, m)
  BY <1>2
<1> HIDE DEF Bad
<1>4. m # 0
  <2>1. SumsUpTo([k \in 0 .. 0 |-> 0], d, 0)
    BY DEF SumsUpTo
  <2> QED
    BY <2>1, <1>3
<1>5. PICK f : SumsUpTo(f, d, m - 1)
  <2>1. m - 1 \in Nat /\ ~ (m <= m - 1)
    BY <1>3, <1>4
  <2> QED
    BY <2>1, <1>2 DEF Bad
<1> DEFINE g == [k \in 0 .. m |-> IF k = m THEN f[m - 1] + d[m] ELSE f[k]]
<1>6. SumsUpTo(g, d, m)
  <2>1. \A k \in 0 .. m - 1 : f[k] = IF k = 0 THEN 0 ELSE f[k - 1] + d[k]
    BY <1>3, <1>4, <1>5 DEF SumsUpTo
  <2>2. \A k \in 0 .. m : g[k] = IF k = 0 THEN 0 ELSE g[k - 1] + d[k]
    <3> TAKE k \in 0 .. m
    <3>1. CASE k = m
      BY <3>1, <1>3, <1>4
    <3>2. CASE k # m
      BY <3>2, <1>3, <1>4, <2>1
    <3> QED
      BY <3>1, <3>2
  <2> QED
    BY <2>2 DEF SumsUpTo
<1> QED
  BY <1>6, <1>3

\* Each sum is the one before and a difference.
LEMMA SumsSteps ==
    ASSUME NEW d \in Seq(Int)
    PROVE  /\ Sums(d) \in Seq(Int) /\ Len(Sums(d)) = Len(d)
           /\ Len(d) > 0 => Sums(d)[1] = d[1]
           /\ \A k \in 2 .. Len(d) : Sums(d)[k] = Sums(d)[k - 1] + d[k]
<1>1. Len(d) \in Nat /\ DOMAIN d = 1 .. Len(d) /\ \A k \in 1 .. Len(d) : d[k] \in Int
  BY LenProperties, ElementOfSeq
<1>2. PICK n \in Nat : n = Len(d)
  <2>1. Len(d) \in Nat
    BY <1>1
  <2> QED
    BY ONLY <2>1
<1>3. \E f : SumsUpTo(f, d, n)
  BY SumsExist
<1>4. PICK f : SumsUpTo(f, d, n) /\ Sums(d) = [k \in 1 .. n |-> f[k]]
  <2> DEFINE f == CHOOSE f : SumsUpTo(f, d, n)
  <2>1. SumsUpTo(f, d, n)
    BY <1>3
  <2>2. Sums(d) = [k \in 1 .. n |-> f[k]]
    BY <1>1, <1>2 DEF Sums, SumsUpTo
  <2> QED
    BY <2>1, <2>2
<1>5. \A k \in 0 .. n : f[k] = IF k = 0 THEN 0 ELSE f[k - 1] + d[k]
  BY <1>4 DEF SumsUpTo
<1>6. \A k \in 0 .. n : f[k] \in Int
  <2> DEFINE Bad == {m \in 0 .. n : f[m] \notin Int}
  <2>1. SUFFICES ASSUME Bad # {} PROVE FALSE
    BY <2>1
  <2>2. PICK m \in Bad : \A j \in Bad : m <= j
    <3>1. Bad \in SUBSET Nat
      OBVIOUS
    <3> QED
      BY <3>1, <2>1, LeastElement
  <2>3. m \in 0 .. n /\ f[m] \notin Int
    BY <2>2
  <2>4. m # 0
    BY <2>3, <1>5
  <2>5. m - 1 \in 0 .. n /\ ~ (m <= m - 1)
    BY <2>3, <2>4
  <2>6. f[m - 1] \in Int
    BY <2>2, <2>5
  <2>7. d[m] \in Int
    BY <2>3, <2>4, <1>1, <1>2
  <2> QED
    BY <2>3, <2>4, <2>6, <2>7, <1>5
<1>7. Sums(d) \in [1 .. n -> Int]
  BY <1>4, <1>6
<1>8. Sums(d) \in Seq(Int) /\ Len(Sums(d)) = n
  <2>1. PICK s : s = Sums(d)
    OBVIOUS
  <2> QED
    BY <1>7, <2>1
<1>9. n > 0 => Sums(d)[1] = d[1]
  <2>1. n > 0 => 1 \in 1 .. n /\ f[1] = f[0] + d[1] /\ f[0] = 0 /\ d[1] \in Int
    BY <1>5, <1>1, <1>2
  <2> QED
    BY <2>1, <1>4
<1>10. ASSUME NEW k \in 2 .. n PROVE Sums(d)[k] = Sums(d)[k - 1] + d[k]
  <2>1. k \in 1 .. n /\ k - 1 \in 1 .. n /\ k # 0 /\ k \in 0 .. n
    OBVIOUS
  <2> QED
    BY <2>1, <1>4, <1>5
<1> QED
  BY <1>2, <1>8, <1>9, <1>10

\* There is only one such list.
LEMMA SumsUnique ==
    ASSUME NEW d \in Seq(Int), NEW s \in Seq(Int), Len(s) <= Len(d),
           Len(s) > 0 => s[1] = d[1],
           \A k \in 2 .. Len(s) : s[k] = s[k - 1] + d[k]
    PROVE  \A k \in 1 .. Len(s) : s[k] = Sums(d)[k]
<1>1. /\ Len(d) \in Nat /\ Len(s) \in Nat
      /\ \A k \in 1 .. Len(d) : d[k] \in Int
      /\ \A k \in 1 .. Len(s) : s[k] \in Int
  BY LenProperties, ElementOfSeq
<1>2. PICK t : t = Sums(d)
  OBVIOUS
<1>3. /\ Len(d) > 0 => t[1] = d[1]
      /\ \A k \in 2 .. Len(d) : t[k] = t[k - 1] + d[k]
  BY <1>2, SumsSteps
<1> DEFINE Bad == {m \in 1 .. Len(s) : s[m] # t[m]}
<1>4. SUFFICES ASSUME Bad # {} PROVE FALSE
  BY <1>4, <1>2
<1>5. PICK m \in Bad : \A j \in Bad : m <= j
  <2>1. Bad \in SUBSET Nat
    BY <1>1
  <2> HIDE DEF Bad
  <2> QED
    BY <2>1, <1>4, LeastElement
<1>6. m \in 1 .. Len(s) /\ s[m] # t[m]
  BY Zenon
<1>7. m # 1
  BY <1>6, <1>3, <1>1
<1>8. m \in 2 .. Len(s) /\ m \in 2 .. Len(d) /\ m - 1 \in 1 .. Len(s) /\ ~ (m <= m - 1)
  <2>1. PICK n, k : n = Len(s) /\ k = Len(d) /\ n \in Nat /\ k \in Nat /\ n <= k
    BY <1>1
  <2>2. m \in 1 .. n /\ m # 1 /\ n \in Nat /\ k \in Nat /\ n <= k
    BY <2>1, <1>6, <1>7
  <2>3. m \in 2 .. n /\ m \in 2 .. k /\ m - 1 \in 1 .. n /\ ~ (m <= m - 1)
    BY ONLY <2>2
  <2> QED
    BY <2>1, <2>3
<1>9. s[m - 1] = t[m - 1]
  BY <1>5, <1>8
<1> QED
  BY <1>3, <1>6, <1>8, <1>9

\* Without negative differences the sums grow.
LEMMA SumsGrow ==
    ASSUME NEW d \in Seq(Nat)
    PROVE  /\ Sums(d) \in Seq(Nat) /\ Len(Sums(d)) = Len(d)
           /\ Len(d) > 0 => Sums(d)[1] = d[1]
           /\ \A i, j \in 1 .. Len(d) : i <= j => Sums(d)[i] <= Sums(d)[j]
<1>1. /\ d \in Seq(Int) /\ Len(d) \in Nat
      /\ \A k \in 1 .. Len(d) : d[k] \in Nat
  BY LenProperties, ElementOfSeq
<1>2. PICK t, n : t = Sums(d) /\ n = Len(d)
  OBVIOUS
<1>3. /\ t \in Seq(Int) /\ Len(t) = n
      /\ n > 0 => t[1] = d[1]
      /\ \A k \in 2 .. n : t[k] = t[k - 1] + d[k]
  BY <1>1, <1>2, SumsSteps
<1>4. n \in Nat /\ \A k \in 1 .. n : t[k] \in Int /\ d[k] \in Nat
  BY <1>1, <1>2, <1>3, ElementOfSeq
<1>5. ASSUME NEW i \in 1 .. n, NEW j \in 1 .. n, i <= j PROVE t[i] <= t[j]
  <2> DEFINE Bad == {m \in i .. n : ~ (t[i] <= t[m])}
  <2>1. SUFFICES ASSUME Bad # {} PROVE FALSE
    BY <2>1, <1>5, <1>4
  <2>2. PICK m \in Bad : \A k \in Bad : m <= k
    <3>1. Bad \in SUBSET Nat
      BY <1>4
    <3> QED
      BY <3>1, <2>1, LeastElement
  <2>3. m \in i .. n /\ ~ (t[i] <= t[m]) /\ i \in 1 .. n
    BY <2>2, <1>5
  <2>4. m # i
    BY <2>3, <1>4
  <2>5. m \in 2 .. n /\ m \in 1 .. n /\ m - 1 \in i .. n /\ m - 1 \in 1 .. n /\ ~ (m <= m - 1)
    BY <2>3, <2>4, <1>4
  <2>6. t[i] <= t[m - 1]
    BY <2>2, <2>5
  <2>7. t[m] = t[m - 1] + d[m] /\ d[m] \in Nat /\ t[i] \in Int /\ t[m - 1] \in Int
    BY <2>3, <2>5, <1>3, <1>4
  <2> QED
    BY <2>3, <2>6, <2>7
<1>6. \A k \in 1 .. n : t[k] \in Nat
  <2> TAKE k \in 1 .. n
  <2>1. 1 \in 1 .. n /\ n > 0 /\ 1 <= k
    BY <1>4
  <2>2. t[1] \in Nat /\ t[1] <= t[k] /\ t[k] \in Int
    BY <2>1, <1>3, <1>4, <1>5
  <2> QED
    BY <2>2
<1>7. t \in [1 .. n -> Nat]
  <2>1. t \in [1 .. n -> Int]
    BY <1>3, LenProperties
  <2> QED
    BY <2>1, <1>6
<1>8. t \in Seq(Nat)
  BY <1>4, <1>7
<1> QED
  BY <1>2, <1>3, <1>5, <1>8

\* One more difference leaves the times before it alone.
LEMMA SumsKept ==
    ASSUME NEW d \in Seq(Nat), NEW x \in Nat, NEW e, e = Append(d, x)
    PROVE  \A k \in 1 .. Len(d) : Sums(e)[k] = Sums(d)[k]
<1>1. PICK n : n = Len(d)
  OBVIOUS
<1>2. /\ n \in Nat /\ e \in Seq(Nat) /\ Len(e) = n + 1
      /\ \A k \in 1 .. n : e[k] = d[k]
  BY <1>1, AppendProperties, LenProperties
<1>3. d \in Seq(Int) /\ e \in Seq(Int)
  BY <1>2
<1>4. PICK s, t : s = Sums(d) /\ t = Sums(e)
  OBVIOUS
<1>5. /\ s \in Seq(Int) /\ Len(s) = n
      /\ n > 0 => s[1] = d[1]
      /\ \A k \in 2 .. n : s[k] = s[k - 1] + d[k]
  BY <1>1, <1>3, <1>4, SumsSteps
<1>6. \A k \in 1 .. n : s[k] = t[k]
  <2>1. Len(s) <= Len(e) /\ (Len(s) > 0 => s[1] = e[1])
    <3>1. n > 0 => 1 \in 1 .. n
      BY <1>2
    <3> QED
      BY <3>1, <1>2, <1>5
  <2>2. \A k \in 2 .. Len(s) : s[k] = s[k - 1] + e[k]
    <3>1. \A k \in 2 .. n : k \in 1 .. n
      OBVIOUS
    <3> QED
      BY <3>1, <1>2, <1>5
  <2> QED
    BY <2>1, <2>2, <1>3, <1>4, <1>5, SumsUnique
<1> QED
  BY <1>1, <1>4, <1>6

\* One more difference.
LEMMA SumsAppend ==
    ASSUME NEW d \in Seq(Nat), NEW x \in Nat, NEW e, e = Append(d, x)
    PROVE  /\ e \in Seq(Nat) /\ Len(e) = Len(d) + 1
           /\ Len(d) > 0 => e[1] = d[1] /\ Sums(e)[Len(e)] = Sums(d)[Len(d)] + x
           /\ Len(d) = 0 => e[1] = x /\ Sums(e)[Len(e)] = x
<1>1. PICK n : n = Len(d)
  OBVIOUS
<1>2. /\ n \in Nat /\ e \in Seq(Nat) /\ Len(e) = n + 1 /\ e[n + 1] = x
      /\ \A k \in 1 .. n : e[k] = d[k]
  BY <1>1, AppendProperties, LenProperties
<1>3. d \in Seq(Int) /\ e \in Seq(Int)
  BY <1>2
<1>4. PICK s, t : s = Sums(d) /\ t = Sums(e)
  OBVIOUS
<1>5. /\ s \in Seq(Int) /\ Len(s) = n
      /\ n > 0 => s[1] = d[1]
      /\ \A k \in 2 .. n : s[k] = s[k - 1] + d[k]
  BY <1>1, <1>3, <1>4, SumsSteps
<1>6. /\ t[1] = e[1]
      /\ \A k \in 2 .. n + 1 : t[k] = t[k - 1] + e[k]
  <2>1. /\ Len(e) > 0 => t[1] = e[1]
        /\ \A k \in 2 .. Len(e) : t[k] = t[k - 1] + e[k]
    BY <1>3, <1>4, SumsSteps
  <2> QED
    BY <2>1, <1>2
<1>7. \A k \in 1 .. n : s[k] = t[k]
  BY <1>1, <1>4, SumsKept
<1>8. CASE n = 0
  BY <1>1, <1>2, <1>4, <1>6, <1>8
<1>9. CASE n > 0
  <2>1. n \in 1 .. n /\ 1 \in 1 .. n /\ n + 1 \in 2 .. n + 1 /\ (n + 1) - 1 = n
    BY <1>2, <1>9
  <2>2. t[n + 1] = t[n] + e[n + 1]
    BY <2>1, <1>6
  <2> QED
    BY <2>1, <2>2, <1>1, <1>2, <1>4, <1>7, <1>9
<1> QED
  BY <1>1, <1>2, <1>8, <1>9

-----------------------------------------------------------------------------
(* Interruptions: what the reader makes of the differences.                *)

Interruption == [tim : Nat, active : BOOLEAN]

LEMMA DifferencesInvert ==
    ASSUME NEW b \in Seq(Interruption)
    PROVE  BlackoutTimes(Differences(b)) = b
<1> DEFINE n == Len(b)
           deltas == [k \in 1 .. n |-> b[k].tim - IF k = 1 THEN 0 ELSE b[k - 1].tim]
           times == [k \in 1 .. n |-> b[k].tim]
<1>1. n \in Nat /\ DOMAIN b = 1 .. n /\ \A k \in 1 .. n : b[k] \in Interruption
  BY LenProperties, ElementOfSeq
<1>2. \A k \in 1 .. n : b[k] = [tim |-> b[k].tim, active |-> b[k].active] /\ b[k].tim \in Nat
  BY <1>1 DEF Interruption
<1>3. \A k \in 1 .. n : deltas[k] \in Int /\ times[k] \in Int
  <2> TAKE k \in 1 .. n
  <2>1. times[k] = b[k].tim /\ deltas[k] = b[k].tim - IF k = 1 THEN 0 ELSE b[k - 1].tim
    OBVIOUS
  <2>2. b[k].tim \in Nat
    BY <1>2
  <2>3. (IF k = 1 THEN 0 ELSE b[k - 1].tim) \in Int
    <3>1. k # 1 => k - 1 \in 1 .. n
      BY <1>1
    <3>2. k # 1 => b[k - 1].tim \in Nat
      BY <3>1, <1>2
    <3> QED
      BY <3>2
  <2> HIDE DEF deltas, times
  <2> QED
    BY <2>1, <2>2, <2>3
<1>4. deltas \in Seq(Int) /\ Len(deltas) = n /\ times \in Seq(Int) /\ Len(times) = n
  <2>1. PICK f, g : f = deltas /\ g = times
    OBVIOUS
  <2>2. f \in [1 .. n -> Int] /\ g \in [1 .. n -> Int]
    BY <2>1, <1>3
  <2> HIDE DEF deltas, times, n
  <2>3. f \in Seq(Int) /\ Len(f) = n
    BY <2>2, <1>1
  <2>4. g \in Seq(Int) /\ Len(g) = n
    BY <2>2, <1>1
  <2> QED
    BY <2>1, <2>3, <2>4
<1>5. n > 0 => times[1] = deltas[1]
  BY <1>1, <1>2
<1>6. \A k \in 2 .. n : times[k] = times[k - 1] + deltas[k]
  <2> TAKE k \in 2 .. n
  <2>1. k \in 1 .. n /\ k - 1 \in 1 .. n /\ k # 1
    BY <1>1
  <2>2. times[k] = b[k].tim /\ times[k - 1] = b[k - 1].tim /\ deltas[k] = b[k].tim - b[k - 1].tim
    BY <2>1
  <2>3. times[k] \in Int /\ times[k - 1] \in Int
    BY <2>1, <1>3
  <2> HIDE DEF deltas, times
  <2> QED
    BY <2>2, <2>3
<1>7. \A k \in 1 .. n : times[k] = Sums(deltas)[k]
  <2>1. PICK d, s : d = deltas /\ s = times
    OBVIOUS
  <2> HIDE DEF deltas, times
  <2>2. /\ d \in Seq(Int) /\ s \in Seq(Int) /\ Len(s) = n /\ Len(d) = n
        /\ n > 0 => s[1] = d[1]
        /\ \A k \in 2 .. n : s[k] = s[k - 1] + d[k]
    BY <2>1, <1>4, <1>5, <1>6
  <2>3. Len(s) <= Len(d)
    BY <2>2, <1>1
  <2>4. \A k \in 1 .. Len(s) : s[k] = Sums(d)[k]
    BY <2>2, <2>3, SumsUnique
  <2> QED
    BY <2>1, <2>2, <2>4
<1> DEFINE c == Differences(b)
<1>8. DOMAIN c = 1 .. n /\ \A k \in 1 .. n : c[k].delta = deltas[k] /\ c[k].active = b[k].active
  BY <1>1 DEF Differences
<1> HIDE DEF c
<1>9. [k \in DOMAIN c |-> c[k].delta] = deltas
  BY <1>8
<1>10. BlackoutTimes(c) = [k \in 1 .. n |-> [tim |-> Sums(deltas)[k], active |-> c[k].active]]
  BY <1>8, <1>9 DEF BlackoutTimes
<1>11. BlackoutTimes(c) = [k \in 1 .. n |-> b[k]]
  <2>1. \A k \in 1 .. n : [tim |-> Sums(deltas)[k], active |-> c[k].active] = b[k]
    <3> TAKE k \in 1 .. n
    <3>1. Sums(deltas)[k] = b[k].tim
      BY <1>7
    <3> QED
      BY <3>1, <1>2, <1>8
  <2> QED
    BY <2>1, <1>10
<1>12. b = [k \in 1 .. n |-> b[k]]
  BY <1>1
<1> QED
  BY <1>11, <1>12 DEF c

-----------------------------------------------------------------------------
(* The scan of the blocks when a file is opened.                           *)

ScanFields == {"stop", "sections", "start", "end", "incomplete", "lens", "hier", "blackouts"}
ScanTags == {"vcdata", "geom", "hier", "hier_lz4", "hier_lz4duo", "blackout", "skip"}

ScanStart(hdr) ==
    [stop |-> FALSE, sections |-> 0, start |-> hdr.start, end |-> hdr.end,
     incomplete |-> hdr.start = 0 /\ hdr.end = 0,
     lens |-> <<>>, hier |-> NoHierBlock, blackouts |-> <<>>]

\* The states of the scan, up to the block m.
ScanUpTo(f, hdr, blocks, m) ==
    f = [k \in 0 .. m |-> IF k = 0 THEN ScanStart(hdr) ELSE ScanBlock(f[k - 1], blocks[k])]

LEMMA ScanExists ==
    ASSUME NEW hdr, NEW blocks, NEW n \in Nat
    PROVE  \E f : ScanUpTo(f, hdr, blocks, n)
<1> DEFINE Bad == {m \in Nat : ~ \E f : ScanUpTo(f, hdr, blocks, m)}
<1>1. SUFFICES ASSUME Bad # {} PROVE FALSE
  BY <1>1
<1>2. PICK m \in Bad : \A j \in Bad : m <= j
  BY <1>1, LeastElement
<1>3. m \in Nat /\ ~ \E f : ScanUpTo(f, hdr, blocks, m)
  BY <1>2
<1> HIDE DEF Bad
<1>4. m # 0
  <2>1. ScanUpTo([k \in 0 .. 0 |-> ScanStart(hdr)], hdr, blocks, 0)
    BY DEF ScanUpTo
  <2> QED
    BY <2>1, <1>3
<1>5. PICK f : ScanUpTo(f, hdr, blocks, m - 1)
  <2>1. m - 1 \in Nat /\ ~ (m <= m - 1)
    BY <1>3, <1>4
  <2> QED
    BY <2>1, <1>2 DEF Bad
<1> DEFINE g == [k \in 0 .. m |-> IF k = m THEN ScanBlock(f[m - 1], blocks[m]) ELSE f[k]]
<1>6. ScanUpTo(g, hdr, blocks, m)
  <2>1. \A k \in 0 .. m - 1 :
           f[k] = IF k = 0 THEN ScanStart(hdr) ELSE ScanBlock(f[k - 1], blocks[k])
    BY <1>3, <1>4, <1>5 DEF ScanUpTo
  <2>2. \A k \in 0 .. m :
           g[k] = IF k = 0 THEN ScanStart(hdr) ELSE ScanBlock(g[k - 1], blocks[k])
    <3> TAKE k \in 0 .. m
    <3>1. CASE k = m
      BY <3>1, <1>3, <1>4
    <3>2. CASE k # m
      BY <3>2, <1>3, <1>4, <2>1
    <3> QED
      BY <3>1, <3>2
  <2> QED
    BY <2>2 DEF ScanUpTo
<1> QED
  BY <1>6, <1>3

ScanRun(f, hdr, blocks, n) ==
    /\ ScanBlocks(hdr, blocks) = f[n]
    /\ f[0] = ScanStart(hdr)
    /\ \A k \in 1 .. n : f[k] = ScanBlock(f[k - 1], blocks[k])

LEMMA ScanSteps ==
    ASSUME NEW hdr, NEW blocks, NEW n \in Nat, n = Len(blocks)
    PROVE  \E f : ScanRun(f, hdr, blocks, n)
<1>1. \E f : ScanUpTo(f, hdr, blocks, n)
  BY ScanExists
<1> DEFINE f == CHOOSE f : ScanUpTo(f, hdr, blocks, n)
<1>2. ScanUpTo(f, hdr, blocks, n)
  BY <1>1
<1>3. ScanBlocks(hdr, blocks) = f[n]
  BY DEF ScanBlocks, Repeat, ScanUpTo, ScanStart
<1>4. \A k \in 0 .. n : f[k] = IF k = 0 THEN ScanStart(hdr) ELSE ScanBlock(f[k - 1], blocks[k])
  BY <1>2 DEF ScanUpTo
<1> HIDE DEF f
<1>5. f[0] = ScanStart(hdr) /\ \A k \in 1 .. n : f[k] = ScanBlock(f[k - 1], blocks[k])
  BY <1>4
<1> QED
  BY <1>3, <1>5 DEF ScanRun

\* One block of a known length.
ScanGoesOn(st, b, r) ==
    /\ DOMAIN r = ScanFields /\ r.stop = FALSE
    /\ b.tag = "blackout" => r.blackouts = BlackoutTimes(b.blackouts)
    /\ b.tag # "blackout" => r.blackouts = st.blackouts

LEMMA ScanKnown ==
    ASSUME NEW st, DOMAIN st = ScanFields, st.stop = FALSE,
           NEW b, b.known = TRUE, b.tag \in ScanTags, NEW r, r = ScanBlock(st, b)
    PROVE  ScanGoesOn(st, b, r)
<1> USE DEF ScanGoesOn
<1>1. CASE b.tag = "vcdata"
  BY <1>1 DEF ScanBlock, ScanFields
<1>2. CASE b.tag = "geom"
  BY <1>2 DEF ScanBlock, ScanFields
<1>3. CASE b.tag \in {"hier", "hier_lz4", "hier_lz4duo"}
  BY <1>3 DEF ScanBlock, ScanFields
<1>4. CASE b.tag = "blackout"
  BY <1>4 DEF ScanBlock, ScanFields
<1>5. CASE b.tag = "skip"
  BY <1>5 DEF ScanBlock, ScanFields
<1> QED
  BY <1>1, <1>2, <1>3, <1>4, <1>5 DEF ScanTags

\* When every block is known, the interruptions are those of the only block
\* that has some.
InterruptedBy(blocks, times) ==
    /\ \A k \in 1 .. Len(blocks) : blocks[k].known = TRUE /\ blocks[k].tag \in ScanTags
    /\ \A k \in 1 .. Len(blocks) :
          blocks[k].tag = "blackout" => BlackoutTimes(blocks[k].blackouts) = times
    /\ times = <<>> \/ \E k \in 1 .. Len(blocks) : blocks[k].tag = "blackout"

LEMMA ScannedInterruptions ==
    ASSUME NEW hdr, NEW blocks, Len(blocks) \in Nat, NEW times, InterruptedBy(blocks, times)
    PROVE  ScanBlocks(hdr, blocks).blackouts = times
<1> USE DEF InterruptedBy
<1>1. PICK n : n \in Nat /\ n = Len(blocks)
  OBVIOUS
<1>0. PICK f : ScanRun(f, hdr, blocks, n)
  BY <1>1, ScanSteps
<1>2. /\ ScanBlocks(hdr, blocks) = f[n]
      /\ f[0] = ScanStart(hdr)
      /\ \A k \in 1 .. n : f[k] = ScanBlock(f[k - 1], blocks[k])
  BY <1>0 DEF ScanRun
<1> DEFINE Seen(k) == \E j \in 1 .. k : blocks[j].tag = "blackout"
           Fits(k) == /\ DOMAIN f[k] = ScanFields /\ f[k].stop = FALSE
                      /\ Seen(k) => f[k].blackouts = times
                      /\ ~Seen(k) => f[k].blackouts = <<>>
           Bad == {m \in 0 .. n : ~Fits(m)}
<1>3. Bad = {}
  <2> SUFFICES ASSUME Bad # {} PROVE FALSE
    OBVIOUS
  <2>1. PICK m \in Bad : \A j \in Bad : m <= j
    <3>1. Bad \in SUBSET Nat
      OBVIOUS
    <3> HIDE DEF Bad
    <3> QED
      BY <3>1, LeastElement
  <2>2. m \in 0 .. n /\ ~Fits(m)
    BY <2>1
  <2>3. m # 0
    <3>1. Fits(0)
      BY <1>2 DEF ScanStart, ScanFields
    <3> QED
      BY <3>1, <2>2
  <2>4. m \in 1 .. n /\ m - 1 \in 0 .. n /\ ~ (m <= m - 1)
    BY <1>1, <2>2, <2>3
  <2>5. Fits(m - 1)
    BY <2>1, <2>4
  <2>6. PICK p, b, r : p = f[m - 1] /\ b = blocks[m] /\ r = f[m]
    OBVIOUS
  <2>7. r = ScanBlock(p, b) /\ b.known = TRUE /\ b.tag \in ScanTags
    BY <2>4, <2>6, <1>1, <1>2
  <2>8. DOMAIN p = ScanFields /\ p.stop = FALSE
    BY <2>5, <2>6
  <2>9. /\ DOMAIN r = ScanFields /\ r.stop = FALSE
        /\ b.tag = "blackout" => r.blackouts = BlackoutTimes(b.blackouts)
        /\ b.tag # "blackout" => r.blackouts = p.blackouts
    <3> HIDE DEF Bad
    <3>1. b.known = TRUE /\ b.tag \in ScanTags /\ r = ScanBlock(p, b) /\ p.stop = FALSE
      BY <2>7, <2>8
    <3>2. ScanGoesOn(p, b, r)
      BY ONLY <3>1, <2>8, ScanKnown
    <3> QED
      BY <3>2 DEF ScanGoesOn
  <2>10. CASE b.tag = "blackout"
    <3>1. r.blackouts = times
      BY <2>4, <2>6, <2>9, <2>10, <1>1
    <3>2. Seen(m)
      BY <2>4, <2>6, <2>10
    <3> QED
      BY <3>1, <3>2, <2>2, <2>6, <2>9
  <2>11. CASE b.tag # "blackout"
    <3>1. Seen(m) <=> Seen(m - 1)
      <4>1. \A j \in 1 .. m : j = m \/ j \in 1 .. m - 1
        BY <2>4
      <4>2. \A j \in 1 .. m - 1 : j \in 1 .. m
        BY <2>4
      <4> QED
        BY <4>1, <4>2, <2>6, <2>11
    <3> QED
      BY <3>1, <2>2, <2>5, <2>6, <2>9, <2>11
  <2> QED
    BY <2>10, <2>11
<1>4. Fits(n)
  BY <1>1, <1>3
<1> QED
  BY <1>1, <1>2, <1>4

\* When the length of the first one is not known, no section is found.
LEMMA ScanStopped ==
    ASSUME NEW hdr, NEW blocks, Len(blocks) \in Nat, Len(blocks) > 0, blocks[1].known = FALSE
    PROVE  ScanBlocks(hdr, blocks).sections = 0
<1>1. PICK n : n \in Nat /\ n = Len(blocks)
  OBVIOUS
<1>0. PICK f : ScanRun(f, hdr, blocks, n)
  BY <1>1, ScanSteps
<1>2. /\ ScanBlocks(hdr, blocks) = f[n]
      /\ f[0] = ScanStart(hdr)
      /\ \A k \in 1 .. n : f[k] = ScanBlock(f[k - 1], blocks[k])
  BY <1>0 DEF ScanRun
<1> DEFINE Still(k) == DOMAIN f[k] = ScanFields /\ f[k].stop = TRUE /\ f[k].sections = 0
           Bad == {m \in 1 .. n : ~Still(m)}
<1>3. Bad = {}
  <2> SUFFICES ASSUME Bad # {} PROVE FALSE
    OBVIOUS
  <2>1. PICK m \in Bad : \A j \in Bad : m <= j
    <3>1. Bad \in SUBSET Nat
      OBVIOUS
    <3> HIDE DEF Bad
    <3> QED
      BY <3>1, LeastElement
  <2>2. m \in 1 .. n /\ ~Still(m)
    BY <2>1
  <2>3. m # 1
    <3>1. f[1] = ScanBlock(ScanStart(hdr), blocks[1])
      BY <1>1, <1>2
    <3>2. Still(1)
      BY <3>1 DEF ScanBlock, ScanStart, ScanFields
    <3> QED
      BY <3>2, <2>2
  <2>4. m - 1 \in 1 .. n /\ ~ (m <= m - 1)
    BY <1>1, <2>2, <2>3
  <2>5. Still(m - 1)
    BY <2>1, <2>4
  <2>6. f[m] = ScanBlock(f[m - 1], blocks[m])
    BY <1>2, <2>2
  <2>7. Still(m)
    BY <2>5, <2>6 DEF ScanBlock, ScanFields
  <2> QED
    BY <2>2, <2>7
<1> QED
  BY <1>1, <1>2, <1>3

-----------------------------------------------------------------------------
(* The changes that are reported: their times do not go back, and stay     *)
(* between two bounds.                                                     *)

IsList(s) == \E S : s \in Seq(S)

Ordered(out, lo, hi) ==
    /\ IsList(out)
    /\ \A k \in 1 .. Len(out) : out[k].time \in Nat /\ lo <= out[k].time /\ out[k].time <= hi
    /\ \A j, k \in 1 .. Len(out) : j <= k => out[j].time <= out[k].time

LEMMA ListLength ==
    ASSUME NEW s, IsList(s)
    PROVE  Len(s) \in Nat /\ DOMAIN s = 1 .. Len(s)
<1>1. PICK S : s \in Seq(S)
  BY DEF IsList
<1> QED
  BY <1>1, LenProperties

LEMMA ListMap ==
    ASSUME NEW s, IsList(s), NEW t, t = [h \in DOMAIN s |-> t[h]]
    PROVE  IsList(t)
<1>1. PICK n : n \in Nat /\ DOMAIN s = 1 .. n
  BY ListLength
<1>2. PICK S : S = {t[h] : h \in 1 .. n}
  OBVIOUS
<1>3. t \in [1 .. n -> S]
  BY <1>1, <1>2
<1>4. t \in Seq(S)
  BY <1>1, <1>3
<1> QED
  BY <1>4 DEF IsList

LEMMA OrderedNone ==
    ASSUME NEW lo \in Nat, NEW hi \in Nat
    PROVE  Ordered(<<>>, lo, hi)
<1>1. <<>> \in Seq({}) /\ Len(<<>>) = 0
  OBVIOUS
<1> QED
  BY <1>1 DEF Ordered, IsList

LEMMA OrderedWider ==
    ASSUME NEW out, NEW lo \in Nat, NEW hi \in Nat, Ordered(out, lo, hi),
           NEW l \in Nat, NEW h \in Nat, l <= lo, hi <= h
    PROVE  Ordered(out, l, h)
BY DEF Ordered

LongerBy(t, s, e) ==
    /\ IsList(t) /\ Len(t) = Len(s) + 1 /\ t[Len(s) + 1] = e
    /\ \A k \in 1 .. Len(s) : t[k] = s[k]

LEMMA ListAppend ==
    ASSUME NEW s, IsList(s), NEW e, NEW t, t = Append(s, e)
    PROVE  LongerBy(t, s, e)
<1>1. PICK S : s \in Seq(S)
  BY DEF IsList
<1>2. s \in Seq(S \cup {e}) /\ e \in S \cup {e}
  <2>1. PICK T : T = S \cup {e}
    OBVIOUS
  <2>2. S \subseteq T
    BY <2>1
  <2>3. s \in Seq(T)
    BY <1>1, <2>2
  <2> QED
    BY <2>1, <2>3
<1>3. PICK T : s \in Seq(T) /\ e \in T
  BY <1>2
<1>4. /\ t \in Seq(T) /\ Len(t) = Len(s) + 1 /\ t[Len(s) + 1] = e
      /\ \A k \in 1 .. Len(s) : t[k] = s[k]
  BY <1>3, AppendProperties
<1> QED
  BY <1>4 DEF IsList, LongerBy

Concatenated(c, a, b) ==
    /\ IsList(c) /\ Len(c) = Len(a) + Len(b)
    /\ \A k \in 1 .. Len(a) : c[k] = a[k]
    /\ \A k \in 1 .. Len(b) : c[Len(a) + k] = b[k]

LEMMA ListConcat ==
    ASSUME NEW a, IsList(a), NEW b, IsList(b), NEW c, c = a \o b
    PROVE  Concatenated(c, a, b)
<1>1. PICK S, T : a \in Seq(S) /\ b \in Seq(T)
  BY DEF IsList
<1>2. PICK U : S \subseteq U /\ T \subseteq U
  <2>1. S \subseteq S \cup T /\ T \subseteq S \cup T
    OBVIOUS
  <2> QED
    BY <2>1
<1>3. a \in Seq(U) /\ b \in Seq(U)
  BY <1>1, <1>2
<1>4. PICK m, n : m = Len(a) /\ n = Len(b) /\ m \in Nat /\ n \in Nat
  BY <1>3, LenProperties
<1>5. /\ c \in Seq(U) /\ Len(c) = m + n
      /\ \A k \in 1 .. m + n : c[k] = IF k <= m THEN a[k] ELSE b[k - m]
  BY <1>3, <1>4, ConcatProperties
<1>6. \A k \in 1 .. m : c[k] = a[k]
  <2>1. \A k \in 1 .. m : k \in 1 .. m + n /\ k <= m
    BY <1>4
  <2> QED
    BY <2>1, <1>5
<1>7. \A k \in 1 .. n : c[m + k] = b[k]
  <2>1. \A k \in 1 .. n : m + k \in 1 .. m + n /\ ~ (m + k <= m) /\ (m + k) - m = k
    BY <1>4
  <2> QED
    BY <2>1, <1>5
<1> QED
  BY <1>4, <1>5, <1>6, <1>7 DEF IsList, Concatenated

\* One more change, not before the others.
LEMMA OrderedAppend ==
    ASSUME NEW out, NEW lo \in Nat, NEW t \in Nat, lo <= t, Ordered(out, lo, t),
           NEW e, e.time = t, NEW o, o = Append(out, e)
    PROVE  Ordered(o, lo, t)
<1>1. IsList(out)
  BY DEF Ordered
<1>2. PICK n : n = Len(out) /\ n \in Nat
  BY <1>1, ListLength
<1>3. IsList(o) /\ Len(o) = n + 1 /\ o[n + 1] = e /\ \A k \in 1 .. n : o[k] = out[k]
  <2>1. LongerBy(o, out, e)
    BY <1>1, ListAppend
  <2> QED
    BY <2>1, <1>2 DEF LongerBy
<1>4. \A k \in 1 .. n + 1 : k \in 1 .. n \/ k = n + 1
  BY <1>2
<1>5. \A k \in 1 .. n + 1 : o[k].time \in Nat /\ lo <= o[k].time /\ o[k].time <= t
  BY <1>2, <1>3, <1>4 DEF Ordered
<1>6. ASSUME NEW j \in 1 .. n + 1, NEW k \in 1 .. n + 1, j <= k
      PROVE  o[j].time <= o[k].time
  <2>1. CASE k = n + 1
    BY <2>1, <1>3, <1>5
  <2>2. CASE k # n + 1
    <3>1. k \in 1 .. n /\ j \in 1 .. n
      BY <2>2, <1>2, <1>6
    <3> QED
      BY <3>1, <1>2, <1>3, <1>6 DEF Ordered
  <2> QED
    BY <2>1, <2>2
<1> QED
  BY <1>3, <1>5, <1>6 DEF Ordered

\* Changes after other ones.
LEMMA OrderedConcat ==
    ASSUME NEW lo \in Nat, NEW m \in Nat, NEW l \in Nat, NEW hi \in Nat,
           lo <= m, m <= l, l <= hi,
           NEW a, Ordered(a, lo, m), NEW b, Ordered(b, l, hi), NEW c, c = a \o b
    PROVE  Ordered(c, lo, hi)
<1>1. IsList(a) /\ IsList(b)
  BY DEF Ordered
<1>2. PICK p, q : p = Len(a) /\ q = Len(b) /\ p \in Nat /\ q \in Nat
  BY <1>1, ListLength
<1>3. /\ IsList(c) /\ Len(c) = p + q
      /\ \A k \in 1 .. p : c[k] = a[k]
      /\ \A k \in 1 .. q : c[p + k] = b[k]
  <2>1. Concatenated(c, a, b)
    BY <1>1, ListConcat
  <2> QED
    BY <2>1, <1>2 DEF Concatenated
<1>4. \A k \in 1 .. p : c[k].time \in Nat /\ lo <= c[k].time /\ c[k].time <= m
  BY <1>2, <1>3 DEF Ordered
<1>5. ASSUME NEW k \in p + 1 .. p + q
      PROVE  k - p \in 1 .. q /\ c[k] = b[k - p]
  <2>1. k - p \in 1 .. q /\ p + (k - p) = k
    BY <1>2
  <2> QED
    BY <2>1, <1>3
<1>6. \A k \in p + 1 .. p + q : c[k].time \in Nat /\ l <= c[k].time /\ c[k].time <= hi
  BY <1>2, <1>5 DEF Ordered
<1>7. \A k \in 1 .. p + q : k \in 1 .. p \/ k \in p + 1 .. p + q
  BY <1>2
<1>8. ASSUME NEW k \in 1 .. p + q
      PROVE  c[k].time \in Nat /\ lo <= c[k].time /\ c[k].time <= hi
  <2>0. PICK t : t = c[k].time
    OBVIOUS
  <2>1. CASE k \in 1 .. p
    <3>1. t \in Nat /\ lo <= t /\ t <= m
      BY <2>0, <2>1, <1>4
    <3>2. t <= hi
      BY <3>1
    <3> QED
      BY <2>0, <3>1, <3>2
  <2>2. CASE k \in p + 1 .. p + q
    <3>1. t \in Nat /\ l <= t /\ t <= hi
      BY <2>0, <2>2, <1>6
    <3>2. lo <= t
      BY <3>1
    <3> QED
      BY <2>0, <3>1, <3>2
  <2> QED
    BY <2>1, <2>2, <1>7
<1>9. ASSUME NEW j \in 1 .. p + q, NEW k \in 1 .. p + q, j <= k
      PROVE  c[j].time <= c[k].time
  <2>1. CASE k \in 1 .. p
    <3>1. j \in 1 .. p
      BY <2>1, <1>2, <1>9
    <3> QED
      BY <2>1, <3>1, <1>2, <1>3, <1>9 DEF Ordered
  <2>2. CASE k \in p + 1 .. p + q /\ j \in 1 .. p
    <3>0. PICK s, t : s = c[j].time /\ t = c[k].time
      OBVIOUS
    <3>1. s \in Nat /\ s <= m
      BY <3>0, <2>2, <1>4
    <3>2. t \in Nat /\ l <= t
      BY <3>0, <2>2, <1>6
    <3>3. s <= t
      BY <3>1, <3>2
    <3> QED
      BY <3>0, <3>3
  <2>3. CASE k \in p + 1 .. p + q /\ j \in p + 1 .. p + q
    <3>1. /\ k - p \in 1 .. q /\ c[k] = b[k - p]
          /\ j - p \in 1 .. q /\ c[j] = b[j - p]
      BY <2>3, <1>5
    <3>2. j - p <= k - p
      BY <2>3, <1>2, <1>9
    <3> QED
      BY <3>1, <3>2, <1>2 DEF Ordered
  <2> QED
    BY <2>1, <2>2, <2>3, <1>7
<1> QED
  BY <1>3, <1>8, <1>9 DEF Ordered

-----------------------------------------------------------------------------
(* The traversal of a section reports the changes of each time in turn,    *)
(* whatever the stacks and the chains are.                                 *)

TravFields == {"chains", "pos", "tc", "out"}

LEMMA TakenTop ==
    ASSUME NEW st, DOMAIN st = TravFields, NEW lens, NEW times, NEW i,
           NEW lo \in Nat, times[i] \in Nat, lo <= times[i], Ordered(st.out, lo, times[i]),
           NEW r, r = TakeTop(st, lens, times, i)
    PROVE  DOMAIN r = TravFields /\ Ordered(r.out, lo, times[i])
<1>1. CASE st.tc[i] = <<>>
  BY <1>1 DEF TakeTop
<1>2. CASE st.tc[i] # <<>>
  <2> DEFINE h == Head(st.tc[i])
             c == DecodeChange(lens[h], st.chains[h], st.pos[h])
             e == [time |-> times[i], handle |-> h, val |-> c.val]
             s == [st EXCEPT !.tc[i] = Tail(@), !.pos[h] = c.next, !.out = Append(@, e)]
  <2>1. r = IF c.next > Len(st.chains[h]) THEN s ELSE Schedule(s, lens, h, i)
    BY <1>2 DEF TakeTop
  <2>2. DOMAIN s = TravFields /\ s.out = Append(st.out, e)
    BY DEF TravFields
  <2>3. e.time = times[i]
    OBVIOUS
  <2>4. PICK u : u = s
    OBVIOUS
  <2> HIDE DEF e, s
  <2>5. Ordered(u.out, lo, times[i])
    <3>1. PICK a, o, t : a = st.out /\ o = u.out /\ t = times[i]
      OBVIOUS
    <3>x. PICK x : x = e
      OBVIOUS
    <3>2. t \in Nat /\ lo <= t /\ Ordered(a, lo, t) /\ x.time = t
      BY <2>3, <3>x, <3>1
    <3>3. o = Append(a, x)
      BY <2>2, <3>x, <2>4, <3>1
    <3>4. Ordered(o, lo, t)
      BY ONLY <3>2, <3>3, lo \in Nat, OrderedAppend
    <3> QED
      BY <3>1, <3>4
  <2>6. CASE r = u
    BY <2>2, <2>4, <2>5, <2>6
  <2>7. CASE r = Schedule(u, lens, h, i)
    <3>1. DOMAIN r = DOMAIN u /\ r.out = u.out
      BY <2>2, <2>4, <2>7 DEF Schedule, TravFields
    <3> QED
      BY <3>1, <2>2, <2>4, <2>5
  <2> QED
    BY <2>1, <2>4, <2>6, <2>7
<1> QED
  BY <1>1, <1>2

\* The states of the loop of Drain.
DrainUpTo(f, st, lens, times, i, m) ==
    f = [k \in 0 .. m |-> IF k = 0 THEN st ELSE TakeTop(f[k - 1], lens, times, i)]

LEMMA DrainExists ==
    ASSUME NEW st, NEW lens, NEW times, NEW i, NEW n \in Nat
    PROVE  \E f : DrainUpTo(f, st, lens, times, i, n)
<1> DEFINE Bad == {m \in Nat : ~ \E f : DrainUpTo(f, st, lens, times, i, m)}
<1>1. SUFFICES ASSUME Bad # {} PROVE FALSE
  BY <1>1
<1>2. PICK m \in Bad : \A j \in Bad : m <= j
  BY <1>1, LeastElement
<1>3. m \in Nat /\ ~ \E f : DrainUpTo(f, st, lens, times, i, m)
  BY <1>2
<1> HIDE DEF Bad
<1>4. m # 0
  <2>1. DrainUpTo([k \in 0 .. 0 |-> st], st, lens, times, i, 0)
    BY DEF DrainUpTo
  <2> QED
    BY <2>1, <1>3
<1>5. PICK f : DrainUpTo(f, st, lens, times, i, m - 1)
  <2>1. m - 1 \in Nat /\ ~ (m <= m - 1)
    BY <1>3, <1>4
  <2> QED
    BY <2>1, <1>2 DEF Bad
<1> DEFINE g == [k \in 0 .. m |-> IF k = m THEN TakeTop(f[m - 1], lens, times, i) ELSE f[k]]
<1>6. DrainUpTo(g, st, lens, times, i, m)
  <2>1. \A k \in 0 .. m - 1 :
           f[k] = IF k = 0 THEN st ELSE TakeTop(f[k - 1], lens, times, i)
    BY <1>3, <1>4, <1>5 DEF DrainUpTo
  <2>2. \A k \in 0 .. m :
           g[k] = IF k = 0 THEN st ELSE TakeTop(g[k - 1], lens, times, i)
    <3> TAKE k \in 0 .. m
    <3>1. CASE k = m
      BY <3>1, <1>3, <1>4
    <3>2. CASE k # m
      BY <3>2, <1>3, <1>4, <2>1
    <3> QED
      BY <3>1, <3>2
  <2> QED
    BY <2>2 DEF DrainUpTo
<1> QED
  BY <1>6, <1>3

LEMMA Drained ==
    ASSUME NEW st, DOMAIN st = TravFields, NEW lens, NEW times, NEW i,
           NEW lo \in Nat, times[i] \in Nat, lo <= times[i], Ordered(st.out, lo, times[i]),
           NEW r, r = Drain(st, lens, times, i)
    PROVE  DOMAIN r = TravFields /\ Ordered(r.out, lo, times[i])
<1>1. PICK n : n = MaxChanges /\ n \in Nat
  BY MaxChangesAssumption
<1>2. \E f : DrainUpTo(f, st, lens, times, i, n)
  BY <1>1, DrainExists
<1> DEFINE f == CHOOSE f : DrainUpTo(f, st, lens, times, i, n)
<1>3. DrainUpTo(f, st, lens, times, i, n)
  BY <1>2
<1>4. r = f[n]
  BY <1>1 DEF Drain, Repeat, DrainUpTo
<1>5. \A k \in 0 .. n : f[k] = IF k = 0 THEN st ELSE TakeTop(f[k - 1], lens, times, i)
  BY <1>3 DEF DrainUpTo
<1> HIDE DEF f
<1> DEFINE Fits(s) == DOMAIN s = TravFields /\ Ordered(s.out, lo, times[i])
           Bad == {m \in 0 .. n : ~Fits(f[m])}
<1>6. Bad = {}
  <2> SUFFICES ASSUME Bad # {} PROVE FALSE
    OBVIOUS
  <2>1. PICK m \in Bad : \A j \in Bad : m <= j
    <3>1. Bad \in SUBSET Nat
      OBVIOUS
    <3> HIDE DEF Bad
    <3> QED
      BY <3>1, LeastElement
  <2>2. m \in 0 .. n /\ ~Fits(f[m])
    BY <2>1
  <2>3. m # 0
    <3>1. f[0] = st
      BY <1>1, <1>5
    <3> QED
      BY <3>1, <2>2
  <2>4. m - 1 \in 0 .. n /\ ~ (m <= m - 1)
    BY <1>1, <2>2, <2>3
  <2>5. PICK p, q : p = f[m - 1] /\ q = f[m]
    OBVIOUS
  <2>6. Fits(p) /\ q = TakeTop(p, lens, times, i)
    BY <2>1, <2>2, <2>3, <2>4, <2>5, <1>5
  <2>7. DOMAIN p = TravFields /\ Ordered(p.out, lo, times[i])
    BY <2>6
  <2>8. DOMAIN q = TravFields /\ Ordered(q.out, lo, times[i])
    BY <2>6, <2>7, TakenTop
  <2> QED
    BY <2>2, <2>5, <2>8
<1>7. Fits(f[n])
  BY <1>1, <1>6
<1> QED
  BY <1>4, <1>7

\* The states of the loop of Traverse.
TraverseUpTo(f, start, lens, times, m) ==
    f = [k \in 0 .. m |-> IF k = 0 THEN start ELSE Drain(f[k - 1], lens, times, k)]

LEMMA TraverseExists ==
    ASSUME NEW start, NEW lens, NEW times, NEW n \in Nat
    PROVE  \E f : TraverseUpTo(f, start, lens, times, n)
<1> DEFINE Bad == {m \in Nat : ~ \E f : TraverseUpTo(f, start, lens, times, m)}
<1>1. SUFFICES ASSUME Bad # {} PROVE FALSE
  BY <1>1
<1>2. PICK m \in Bad : \A j \in Bad : m <= j
  BY <1>1, LeastElement
<1>3. m \in Nat /\ ~ \E f : TraverseUpTo(f, start, lens, times, m)
  BY <1>2
<1> HIDE DEF Bad
<1>4. m # 0
  <2>1. TraverseUpTo([k \in 0 .. 0 |-> start], start, lens, times, 0)
    BY DEF TraverseUpTo
  <2> QED
    BY <2>1, <1>3
<1>5. PICK f : TraverseUpTo(f, start, lens, times, m - 1)
  <2>1. m - 1 \in Nat /\ ~ (m <= m - 1)
    BY <1>3, <1>4
  <2> QED
    BY <2>1, <1>2 DEF Bad
<1> DEFINE g == [k \in 0 .. m |-> IF k = m THEN Drain(f[m - 1], lens, times, m) ELSE f[k]]
<1>6. TraverseUpTo(g, start, lens, times, m)
  <2>1. \A k \in 0 .. m - 1 :
           f[k] = IF k = 0 THEN start ELSE Drain(f[k - 1], lens, times, k)
    BY <1>3, <1>4, <1>5 DEF TraverseUpTo
  <2>2. \A k \in 0 .. m :
           g[k] = IF k = 0 THEN start ELSE Drain(g[k - 1], lens, times, k)
    <3> TAKE k \in 0 .. m
    <3>1. CASE k = m
      BY <3>1, <1>3, <1>4
    <3>2. CASE k # m
      BY <3>2, <1>3, <1>4, <2>1
    <3> QED
      BY <3>1, <3>2
  <2> QED
    BY <2>2 DEF TraverseUpTo
<1> QED
  BY <1>6, <1>3

\* What a section reports is between its first and its last time.
LEMMA Traversed ==
    ASSUME NEW section, section.tchn \in Seq(Nat), Len(section.tchn) > 0,
           NEW chains, NEW lens, NEW lo, lo = section.tchn[1],
           NEW hi, hi = Sums(section.tchn)[Len(section.tchn)],
           NEW r, r = Traverse(section, chains, lens)
    PROVE  lo \in Nat /\ hi \in Nat /\ lo <= hi /\ Ordered(r, lo, hi)
<1>0. PICK d : d = section.tchn
  OBVIOUS
<1>1. PICK times, n : times = Sums(d) /\ n = Len(d)
  OBVIOUS
<1>2. /\ times \in Seq(Nat) /\ Len(times) = n /\ n \in Nat /\ n > 0
      /\ times[1] = lo /\ hi = times[n]
      /\ \A i, j \in 1 .. n : i <= j => times[i] <= times[j]
  <2>1. d \in Seq(Nat) /\ Len(d) > 0 /\ Len(d) \in Nat
    BY <1>0, LenProperties
  <2>2. /\ Sums(d) \in Seq(Nat) /\ Len(Sums(d)) = Len(d)
        /\ Len(d) > 0 => Sums(d)[1] = d[1]
        /\ \A i, j \in 1 .. Len(d) : i <= j => Sums(d)[i] <= Sums(d)[j]
    BY <2>1, SumsGrow
  <2> QED
    BY <2>1, <2>2, <1>0, <1>1
<1>3. \A i \in 1 .. n : times[i] \in Nat /\ lo <= times[i]
  <2>1. \A i \in 1 .. n : times[i] \in Nat
    BY <1>2, ElementOfSeq
  <2>2. \A i \in 1 .. n : 1 \in 1 .. n /\ 1 <= i
    BY <1>2
  <2> QED
    BY <2>1, <2>2, <1>2
<1>4. lo \in Nat /\ hi \in Nat /\ lo <= hi
  <2>1. 1 \in 1 .. n /\ n \in 1 .. n
    BY <1>2
  <2> QED
    BY <2>1, <1>2, <1>3
<1>5. PICK start : start = StartTraversal(section, chains, lens)
  OBVIOUS
<1>6. DOMAIN start = TravFields /\ start.out = <<>>
  BY <1>5 DEF StartTraversal, TravFields
<1>7. \E f : TraverseUpTo(f, start, lens, times, n)
  BY <1>2, TraverseExists
<1> DEFINE f == CHOOSE f : TraverseUpTo(f, start, lens, times, n)
<1>8. TraverseUpTo(f, start, lens, times, n)
  BY <1>7
<1>9. r = f[n].out
  BY <1>0, <1>1, <1>2, <1>5 DEF Traverse, Repeat, TraverseUpTo
<1>10. \A k \in 0 .. n : f[k] = IF k = 0 THEN start ELSE Drain(f[k - 1], lens, times, k)
  BY <1>8 DEF TraverseUpTo
<1> HIDE DEF f
<1> DEFINE Fits(k) == DOMAIN f[k] = TravFields /\ Ordered(f[k].out, lo, times[k])
           Bad == {m \in 1 .. n : ~Fits(m)}
<1>11. Bad = {}
  <2> SUFFICES ASSUME Bad # {} PROVE FALSE
    OBVIOUS
  <2>1. PICK m \in Bad : \A j \in Bad : m <= j
    <3>1. Bad \in SUBSET Nat
      BY <1>2
    <3> HIDE DEF Bad
    <3> QED
      BY <3>1, LeastElement
  <2>2. m \in 1 .. n /\ ~Fits(m)
    BY <2>1
  <2>3. PICK p, q, t : p = f[m - 1] /\ q = f[m] /\ t = times[m]
    OBVIOUS
  <2>4. q = Drain(p, lens, times, m)
    <3>1. m \in 0 .. n /\ m # 0
      BY <1>2, <2>2
    <3> QED
      BY <3>1, <2>3, <1>10
  <2>5. t \in Nat /\ lo <= t
    BY <2>2, <2>3, <1>3
  <2>6. DOMAIN p = TravFields /\ Ordered(p.out, lo, t)
    <3>1. CASE m = 1
      <4>1. p = start
        <5>1. 0 \in 0 .. n /\ m - 1 = 0
          BY <3>1, <1>2
        <5> QED
          BY <5>1, <2>3, <1>10
      <4>2. Ordered(<<>>, lo, t)
        BY <1>4, <2>5, OrderedNone
      <4> QED
        BY <4>1, <4>2, <1>6
    <3>2. CASE m # 1
      <4>1. m - 1 \in 1 .. n /\ ~ (m <= m - 1) /\ m - 1 <= m
        BY <3>2, <2>2, <1>2
      <4>2. Fits(m - 1)
        BY <4>1, <2>1
      <4>3. PICK a, s : a = p.out /\ s = times[m - 1]
        OBVIOUS
      <4>4. s \in Nat /\ s <= t /\ Ordered(a, lo, s)
        BY <4>1, <4>2, <4>3, <2>2, <2>3, <1>2, <1>3
      <4>5. lo \in Nat /\ t \in Nat /\ lo <= lo
        BY <1>4, <2>5
      <4>6. Ordered(a, lo, t)
        BY ONLY <4>4, <4>5, OrderedWider
      <4> QED
        BY <4>2, <4>3, <4>6, <2>3
    <3> QED
      BY <3>1, <3>2
  <2>7. DOMAIN q = TravFields /\ Ordered(q.out, lo, times[m])
    <3>1. lo \in Nat /\ times[m] \in Nat /\ lo <= times[m] /\ Ordered(p.out, lo, times[m])
      BY <1>4, <2>3, <2>5, <2>6
    <3> QED
      BY ONLY <3>1, <2>4, <2>6, Drained
  <2> QED
    BY <2>2, <2>3, <2>7
<1>12. Fits(n)
  BY <1>2, <1>11
<1> QED
  BY <1>2, <1>4, <1>9, <1>12

-----------------------------------------------------------------------------
(* The scan of the value changes.                                          *)

\* A section that is complete: its times go from its beginning to its end.
Complete(b) ==
    /\ b.known = TRUE
    /\ b.tchn \in Seq(Nat) /\ Len(b.tchn) > 0
    /\ b.beg = b.tchn[1]
    /\ b.end = Sums(b.tchn)[Len(b.tchn)]

\* The sections among some blocks are complete and follow each other in time.
InOrder(blocks) ==
    /\ \A k \in 1 .. Len(blocks) : IsSection(blocks[k]) => Complete(blocks[k])
    /\ \A j, k \in 1 .. Len(blocks) :
          j < k /\ IsSection(blocks[j]) /\ IsSection(blocks[k]) => blocks[j].end <= blocks[k].beg

IterFields == {"stop", "skipped", "count", "tab", "largest", "loads", "out"}
Iterating(st) == DOMAIN st = IterFields /\ st.skipped = FALSE
IterStart ==
    [stop |-> FALSE, skipped |-> FALSE, count |-> 0, tab |-> NoTable(0), largest |-> 0,
     loads |-> <<>>, out |-> <<>>]

\* A complete section adds what its traversal reports: the frame is only for a
\* scan that starts later.
LEMMA SectionRead ==
    ASSUME NEW st, Iterating(st), NEW b, Complete(b), NEW lens, NEW r, r = ReadSection(st, lens, b),
           NEW hi \in Nat, hi <= b.beg, Ordered(st.out, 0, hi)
    PROVE  Iterating(r) /\ b.beg \in Nat /\ b.end \in Nat /\ b.beg <= b.end /\ Ordered(r.out, 0, b.end)
<1>1. PICK tab : tab = ReadIndex(FreshTable(st, b), b.index, Len(b.body))
  OBVIOUS
<1>2. PICK chains, t : chains = Chains(b, tab) /\ t = Traverse(b, chains, lens)
  OBVIOUS
<1>3. r = ReadChains(st, lens, b, tab, chains)
  BY <1>1, <1>2 DEF ReadSection, ReadTable
<1>4. ~ (st.count = 0 /\ (b.beg # b.tchn[1] \/ st.skipped))
  BY DEF Complete, Iterating
<1>5. PICK a : a = st.out \o <<>> \o t
  OBVIOUS
<1>6. r.out = a /\ Iterating(r)
  BY <1>2, <1>3, <1>4, <1>5 DEF ReadChains, Iterating, IterFields
<1>7. PICK lo, end : lo = b.beg /\ end = b.end
  OBVIOUS
<1>8. lo \in Nat /\ end \in Nat /\ lo <= end /\ Ordered(t, lo, end)
  <2>1. b.tchn \in Seq(Nat) /\ Len(b.tchn) > 0 /\ lo = b.tchn[1] /\ end = Sums(b.tchn)[Len(b.tchn)]
    BY <1>7 DEF Complete
  <2> QED
    BY <2>1, <1>2, Traversed
<1>9. a = st.out \o t
  <2>1. PICK S : st.out \in Seq(S)
    BY DEF Ordered, IsList
  <2>2. st.out \o <<>> = st.out
    BY <2>1, ConcatEmptySeq
  <2> QED
    BY <2>2, <1>5
<1>10. Ordered(a, 0, end)
  <2>1. PICK o : o = st.out
    OBVIOUS
  <2>2. a = o \o t /\ Ordered(o, 0, hi) /\ hi <= lo /\ 0 \in Nat /\ 0 <= hi /\ hi \in Nat
    BY <2>1, <1>7, <1>9
  <2> QED
    BY ONLY <2>2, <1>8, OrderedConcat
<1> QED
  BY <1>6, <1>7, <1>8, <1>10

\* One block.
LEMMA BlockIterated ==
    ASSUME NEW st, Iterating(st), NEW b, IsSection(b) => Complete(b),
           NEW rd, NEW r, r = ScanSection(st, rd, NoRange, b),
           NEW hi \in Nat, IsSection(b) => hi <= b.beg, Ordered(st.out, 0, hi)
    PROVE  /\ Iterating(r)
           /\ ~IsSection(b) => Ordered(r.out, 0, hi)
           /\ IsSection(b) => b.end \in Nat /\ b.beg <= b.end /\ b.beg \in Nat /\ Ordered(r.out, 0, b.end)
<1>1. CASE ~IsSection(b)
  <2>1. r = st \/ r = [st EXCEPT !.stop = TRUE]
    BY <1>1 DEF ScanSection
  <2>2. Iterating(r) /\ r.out = st.out
    BY <2>1 DEF Iterating, IterFields
  <2> QED
    BY <2>2, <1>1
<1>2. CASE IsSection(b)
  <2>1. PICK u : u = ReadSection(st, rd.lens, b)
    OBVIOUS
  <2>2. Iterating(u) /\ b.beg \in Nat /\ b.end \in Nat /\ b.beg <= b.end /\ Ordered(u.out, 0, b.end)
    BY <1>2, <2>1, SectionRead
  <2>3. r = [st EXCEPT !.stop = TRUE] \/ r = [u EXCEPT !.stop = (u.count = rd.sections)]
    <3>1. ~NoRange.valid
      BY DEF NoRange
    <3> QED
      BY <1>2, <2>1, <3>1 DEF ScanSection, StopAfter
  <2>4. CASE r = [st EXCEPT !.stop = TRUE]
    <3>1. Iterating(r) /\ r.out = st.out
      BY <2>4 DEF Iterating, IterFields
    <3>2. PICK o, end : o = st.out /\ end = b.end
      OBVIOUS
    <3>3. Ordered(o, 0, hi) /\ end \in Nat /\ hi <= end /\ 0 \in Nat /\ hi \in Nat /\ 0 <= 0
      BY <3>2, <1>2, <2>2
    <3>4. Ordered(o, 0, end)
      BY ONLY <3>3, OrderedWider
    <3> QED
      BY <3>1, <3>2, <3>4, <2>2, <1>2
  <2>5. CASE r = [u EXCEPT !.stop = (u.count = rd.sections)]
    <3>1. Iterating(r) /\ r.out = u.out
      BY <2>2, <2>5 DEF Iterating, IterFields
    <3> QED
      BY <3>1, <2>2, <1>2
  <2> QED
    BY <2>3, <2>4, <2>5
<1> QED
  BY <1>1, <1>2

\* The states of the scan.
IterUpTo(f, rd, m) ==
    f = [k \in 0 .. m |-> IF k = 0 THEN IterStart ELSE ScanSection(f[k - 1], rd, NoRange, rd.blocks[k])]

LEMMA IterExists ==
    ASSUME NEW rd, NEW n \in Nat
    PROVE  \E f : IterUpTo(f, rd, n)
<1> DEFINE Bad == {m \in Nat : ~ \E f : IterUpTo(f, rd, m)}
<1>1. SUFFICES ASSUME Bad # {} PROVE FALSE
  BY <1>1
<1>2. PICK m \in Bad : \A j \in Bad : m <= j
  BY <1>1, LeastElement
<1>3. m \in Nat /\ ~ \E f : IterUpTo(f, rd, m)
  BY <1>2
<1> HIDE DEF Bad
<1>4. m # 0
  <2>1. IterUpTo([k \in 0 .. 0 |-> IterStart], rd, 0)
    BY DEF IterUpTo
  <2> QED
    BY <2>1, <1>3
<1>5. PICK f : IterUpTo(f, rd, m - 1)
  <2>1. m - 1 \in Nat /\ ~ (m <= m - 1)
    BY <1>3, <1>4
  <2> QED
    BY <2>1, <1>2 DEF Bad
<1> DEFINE g == [k \in 0 .. m |-> IF k = m THEN ScanSection(f[m - 1], rd, NoRange, rd.blocks[m]) ELSE f[k]]
<1>6. IterUpTo(g, rd, m)
  <2>1. \A k \in 0 .. m - 1 :
           f[k] = IF k = 0 THEN IterStart ELSE ScanSection(f[k - 1], rd, NoRange, rd.blocks[k])
    BY <1>3, <1>4, <1>5 DEF IterUpTo
  <2>2. \A k \in 0 .. m :
           g[k] = IF k = 0 THEN IterStart ELSE ScanSection(g[k - 1], rd, NoRange, rd.blocks[k])
    <3> TAKE k \in 0 .. m
    <3>1. CASE k = m
      BY <3>1, <1>3, <1>4
    <3>2. CASE k # m
      BY <3>2, <1>3, <1>4, <2>1
    <3> QED
      BY <3>1, <3>2
  <2> QED
    BY <2>2 DEF IterUpTo
<1> QED
  BY <1>6, <1>3

\* The times of all that a scan reports do not go back.
LEMMA ScanOrdered ==
    ASSUME NEW rd, Len(rd.blocks) \in Nat, InOrder(rd.blocks)
    PROVE  \E hi \in Nat : Ordered(IterBlocks(rd, NoRange).out, 0, hi)
<1>1. PICK blocks, n : blocks = rd.blocks /\ n = Len(blocks) /\ n \in Nat
  OBVIOUS
<1>2. \E f : IterUpTo(f, rd, n)
  BY <1>1, IterExists
<1> DEFINE f == CHOOSE f : IterUpTo(f, rd, n)
<1>3. IterUpTo(f, rd, n)
  BY <1>2
<1>4. IterBlocks(rd, NoRange) = f[n]
  BY <1>1 DEF IterBlocks, Repeat, IterUpTo, IterStart
<1>5. \A k \in 0 .. n : f[k] = IF k = 0 THEN IterStart ELSE ScanSection(f[k - 1], rd, NoRange, rd.blocks[k])
  BY <1>3 DEF IterUpTo
<1> HIDE DEF f
<1> DEFINE Bound(k, hi) ==
               /\ Ordered(f[k].out, 0, hi)
               /\ \A j \in k + 1 .. n : IsSection(blocks[j]) => hi <= blocks[j].beg
           Fits(k) == Iterating(f[k]) /\ \E hi \in Nat : Bound(k, hi)
           Bad == {m \in 0 .. n : ~Fits(m)}
<1>6. /\ \A k \in 1 .. n : IsSection(blocks[k]) => Complete(blocks[k])
      /\ \A j, k \in 1 .. n :
            j < k /\ IsSection(blocks[j]) /\ IsSection(blocks[k]) => blocks[j].end <= blocks[k].beg
  BY <1>1 DEF InOrder
<1>7. \A k \in 1 .. n : IsSection(blocks[k]) => blocks[k].beg \in Nat
  <2> TAKE k \in 1 .. n
  <2>1. SUFFICES ASSUME IsSection(blocks[k]) PROVE blocks[k].beg \in Nat
    OBVIOUS
  <2>2. PICK d : d = blocks[k].tchn
    OBVIOUS
  <2>3. d \in Seq(Nat) /\ Len(d) > 0 /\ blocks[k].beg = d[1]
    BY <2>1, <2>2, <1>6 DEF Complete
  <2>4. Len(d) \in Nat /\ 1 \in 1 .. Len(d)
    BY <2>3, LenProperties
  <2> QED
    BY <2>3, <2>4, ElementOfSeq
<1>8. Fits(0)
  <2>1. f[0] = IterStart
    BY <1>1, <1>5
  <2>2. Iterating(f[0]) /\ f[0].out = <<>>
    BY <2>1 DEF Iterating, IterStart, IterFields
  <2>3. Ordered(<<>>, 0, 0)
    BY OrderedNone
  <2>4. \A j \in 0 + 1 .. n : IsSection(blocks[j]) => 0 <= blocks[j].beg
    BY <1>7
  <2>5. Bound(0, 0)
    BY <2>2, <2>3, <2>4
  <2> QED
    BY <2>2, <2>5
<1>9. Bad = {}
  <2> SUFFICES ASSUME Bad # {} PROVE FALSE
    OBVIOUS
  <2>1. PICK m \in Bad : \A j \in Bad : m <= j
    <3>1. Bad \in SUBSET Nat
      OBVIOUS
    <3> HIDE DEF Bad
    <3> QED
      BY <3>1, LeastElement
  <2>2. m \in 0 .. n /\ ~Fits(m)
    BY <2>1
  <2>3. m # 0
    BY <2>2, <1>8
  <2>4. m \in 1 .. n /\ m - 1 \in 0 .. n /\ ~ (m <= m - 1) /\ (m - 1) + 1 = m
    BY <1>1, <2>2, <2>3
  <2>5. PICK hi \in Nat : Iterating(f[m - 1]) /\ Bound(m - 1, hi)
    <3>1. Fits(m - 1)
      BY <2>1, <2>4
    <3> QED
      BY <3>1
  <2>6. PICK p, q, b : p = f[m - 1] /\ q = f[m] /\ b = blocks[m]
    OBVIOUS
  <2>7. q = ScanSection(p, rd, NoRange, b)
    BY <2>2, <2>3, <2>6, <1>1, <1>5
  <2>8. Iterating(p) /\ Ordered(p.out, 0, hi) /\ (IsSection(b) => hi <= b.beg) /\ (IsSection(b) => Complete(b))
    <3>1. m \in (m - 1) + 1 .. n
      BY <2>4
    <3> QED
      BY <3>1, <2>4, <2>5, <2>6, <1>6
  <2>9. /\ Iterating(q)
        /\ ~IsSection(b) => Ordered(q.out, 0, hi)
        /\ IsSection(b) => b.end \in Nat /\ b.beg <= b.end /\ b.beg \in Nat /\ Ordered(q.out, 0, b.end)
    BY <2>7, <2>8, BlockIterated
  <2>10. CASE IsSection(b)
    <3>1. Ordered(f[m].out, 0, b.end) /\ b.end \in Nat
      BY <2>6, <2>9, <2>10
    <3>2. \A j \in m + 1 .. n : IsSection(blocks[j]) => b.end <= blocks[j].beg
      <4>1. \A j \in m + 1 .. n : j \in 1 .. n /\ m < j
        BY <2>4
      <4> QED
        BY <4>1, <2>4, <2>6, <2>10, <1>6
    <3>3. Bound(m, b.end)
      BY <3>1, <3>2
    <3> QED
      BY <3>1, <3>3, <2>2, <2>6, <2>9
  <2>11. CASE ~IsSection(b)
    <3>1. Ordered(f[m].out, 0, hi)
      BY <2>6, <2>9, <2>11
    <3>2. \A j \in m + 1 .. n : j \in (m - 1) + 1 .. n
      BY <2>4
    <3>3. Bound(m, hi)
      BY <3>1, <3>2, <2>5
    <3> QED
      BY <3>3, <2>2, <2>6, <2>9
  <2> QED
    BY <2>10, <2>11
<1>10. Fits(n)
  BY <1>1, <1>9
<1> QED
  BY <1>4, <1>10

-----------------------------------------------------------------------------
(* The invariant: the blocks of the file and the context of the writer,    *)
(* phase by phase.                                                         *)

ContextFields ==
    {"hier", "paths", "geom", "numsigs", "numscopes", "vals", "curval", "mapped",
     "initial", "firsttime", "curtime", "vchg", "tchn", "tchn_idx", "secnum",
     "header_only", "skip_header", "locked", "truncpos", "blackouts"}
SectionFields ==
    {"tag", "known", "beg", "end", "memreq", "frame", "maxhandle", "pack", "body", "index", "tchn"}

\* The steps of the end of the file; the interruptions are written by the later ones.
LatePhases ==
    {"hier", "hier_length", "hier_tag", "unlink_hier", "header", "pak", "unlink", "rename", "closed"}
ClosePhases == {"geom", "geom_tag", "blackout", "blackout_tag"} \cup LatePhases
TagPhases == {"geom_tag", "blackout_tag", "hier_tag"}

\* A context, as far as it decides about the blocks.
Context(x) ==
    /\ DOMAIN x = ContextFields
    /\ x.curtime \in Nat /\ x.truncpos \in Nat
    /\ x.tchn \in Seq(Nat)
    /\ x.blackouts \in Seq(Interruption)
    /\ x.initial \in BOOLEAN /\ x.locked \in BOOLEAN /\ x.header_only \in BOOLEAN
    /\ IsList(x.vals)

\* The first m blocks have a length and a tag the reader knows.
Known(blocks, m) == \A k \in 1 .. m : blocks[k].known = TRUE /\ blocks[k].tag \in ScanTags
\* The sections among the first m blocks end before t.
Before(blocks, m, t) == \A k \in 1 .. m : IsSection(blocks[k]) => blocks[k].end <= t

\* Before the first time there is nothing in the file.
Starting(x, blocks) ==
    /\ x.locked = FALSE /\ x.initial = TRUE
    /\ x.curtime = 0 /\ x.tchn = <<>> /\ x.truncpos = 0
    /\ blocks = <<>>

\* After the complete blocks comes the header of a section that begins at t.
Headed(x, blocks, t) ==
    /\ x.locked = FALSE /\ x.initial = FALSE /\ x.header_only = TRUE
    /\ Len(blocks) > 0 /\ x.truncpos = Len(blocks) - 1
    /\ DOMAIN blocks[Len(blocks)] = SectionFields
    /\ blocks[Len(blocks)].tag = "skip" /\ blocks[Len(blocks)].known = FALSE
    /\ blocks[Len(blocks)].beg = t
    /\ Known(blocks, Len(blocks) - 1) /\ Before(blocks, Len(blocks) - 1, t)

\* The times of the section go from its beginning to the current time.
Recording(x, blocks) ==
    /\ Len(x.tchn) > 0 /\ Sums(x.tchn)[Len(x.tchn)] = x.curtime
    /\ Headed(x, blocks, x.tchn[1])

\* The file has reached its limit.
Stopped(x, blocks) == x.locked = TRUE /\ x.initial = TRUE /\ Known(blocks, Len(blocks))

\* The section is complete but for its tag.
Sectioned(x, blocks) ==
    /\ x.locked = FALSE /\ x.initial = FALSE
    /\ Len(blocks) > 0
    /\ DOMAIN blocks[Len(blocks)] = SectionFields
    /\ Complete(blocks[Len(blocks)])
    /\ blocks[Len(blocks)].tag = "skip"
    /\ blocks[Len(blocks)].end = x.curtime
    /\ Known(blocks, Len(blocks) - 1) /\ Before(blocks, Len(blocks) - 1, blocks[Len(blocks)].beg)

\* The section is complete.
Tagged(x, blocks) ==
    /\ x.locked = FALSE /\ x.initial = FALSE
    /\ Known(blocks, Len(blocks)) /\ Before(blocks, Len(blocks), x.curtime)

\* Only the writer's first section can be left without a length.
Unfinished(blocks) == Len(blocks) > 0 /\ blocks[1].known = FALSE
Closing(here, blocks) ==
    /\ \/ Unfinished(blocks)
       \/ Known(blocks, IF here = "hier_length" THEN Len(blocks) - 1 ELSE Len(blocks))
    /\ here # "geom" => Len(blocks) > 0
    /\ here = "hier_length" => Len(blocks) > 1 /\ blocks[Len(blocks)].tag = "skip"
    /\ here \in TagPhases =>
          /\ {"tag", "known"} \subseteq DOMAIN blocks[Len(blocks)]
          /\ blocks[Len(blocks)].known = TRUE /\ blocks[Len(blocks)].tag = "skip"

\* The writer and the file agree, in each phase.
Phase(here, x, blocks) ==
    /\ here \in {"declare", "run", "flush_tag", "flush_next", "time"} \cup ClosePhases
    /\ here = "declare" => Starting(x, blocks)
    /\ here = "run" => \/ Starting(x, blocks)
                       \/ Recording(x, blocks)
                       \/ Stopped(x, blocks)
    /\ here = "flush_tag" => Sectioned(x, blocks)
    /\ here = "flush_next" => Tagged(x, blocks)
    /\ here = "time" => Headed(x, blocks, x.curtime) \/ Stopped(x, blocks)
    /\ here \in ClosePhases => Closing(here, blocks)

\* The times of the sections are those of the cycles that were begun.
CycleTime(c, n) == IF n = -1 THEN 0 ELSE n * c.step
Timed(here, x, t, now_time) ==
    /\ x.curtime <= now_time
    /\ here = "time" \/ (here \in {"flush_tag", "flush_next"} /\ ~x.skip_header) =>
          x.curtime <= t /\ t <= now_time

\* The interruptions are in the only block that is made for them.
Interrupting(here, x, blocks) ==
    /\ \A k \in 1 .. Len(blocks) :
          blocks[k].tag = "blackout" =>
              here \in LatePhases /\ blocks[k].blackouts = Differences(x.blackouts)
    /\ here \in LatePhases /\ x.blackouts # <<>> =>
          \E k \in 1 .. Len(blocks) : blocks[k].tag = "blackout"
    /\ here = "blackout_tag" =>
          /\ "blackouts" \in DOMAIN blocks[Len(blocks)]
          /\ blocks[Len(blocks)].blackouts = Differences(x.blackouts)

BlocksInv ==
    /\ conf \in Configs /\ now \in Nat \cup {-1} /\ tim \in Nat
    /\ DOMAIN file = {"hdr", "blocks"} /\ IsList(file.blocks)
    /\ Context(xc)
    /\ InOrder(file.blocks)
    /\ Phase(pc, xc, file.blocks)
    /\ Timed(pc, xc, tim, CycleTime(conf, now))
    /\ Interrupting(pc, xc, file.blocks)

-----------------------------------------------------------------------------
(* The blocks after one of them was written.                               *)

\* The first m blocks of s, then e.
Written(t, s, m, e) ==
    /\ m \in Nat /\ m <= Len(s) /\ Len(s) \in Nat
    /\ IsList(t) /\ Len(t) = m + 1 /\ t[m + 1] = e
    /\ \A k \in 1 .. m : t[k] = s[k]

LEMMA AppendWrites ==
    ASSUME NEW s, IsList(s), NEW e, NEW t, t = Append(s, e)
    PROVE  Written(t, s, Len(s), e)
<1>1. LongerBy(t, s, e)
  BY ListAppend
<1>2. Len(s) \in Nat
  BY ListLength
<1> QED
  BY <1>1, <1>2 DEF LongerBy, Written

\* A list without its end.
LEMMA ListPrefix ==
    ASSUME NEW s, IsList(s), NEW m \in Nat, m <= Len(s), NEW t, t = SubSeq(s, 1, m)
    PROVE  IsList(t) /\ Len(t) = m /\ \A k \in 1 .. m : t[k] = s[k]
<1>1. PICK S : s \in Seq(S)
  BY DEF IsList
<1>2. PICK n : n = Len(s) /\ n \in Nat
  BY <1>1, LenProperties
<1>3. \A i \in 1 .. m : s[i] \in S
  BY <1>1, <1>2, ElementOfSeq
<1>4. t \in Seq(S) /\ Len(t) = m /\ \A k \in 1 .. m : t[k] = s[k]
  <2>1. CASE m = 0
    BY <2>1, <1>1, <1>2, <1>3, SubSeqProperties
  <2>2. CASE m # 0
    BY <2>2, <1>1, <1>2, <1>3, SubSeqProperties
  <2> QED
    BY <2>1, <2>2
<1> QED
  BY <1>4 DEF IsList

LEMMA ReplaceWrites ==
    ASSUME NEW s, IsList(s), Len(s) > 0, NEW e, NEW t, t = Replace(s, e)
    PROVE  Written(t, s, Len(s) - 1, e)
<1>1. PICK n : n = Len(s) /\ n \in Nat /\ n > 0
  BY ListLength
<1>2. PICK m : m = n - 1
  OBVIOUS
<1>3. m \in Nat /\ m <= n
  BY <1>1, <1>2
<1>4. PICK u : u = SubSeq(s, 1, m)
  OBVIOUS
<1>5. t = Append(u, e)
  BY <1>1, <1>2, <1>4 DEF Replace, Front
<1>6. IsList(u) /\ Len(u) = m /\ \A k \in 1 .. m : u[k] = s[k]
  BY <1>1, <1>3, <1>4, ListPrefix
<1>7. LongerBy(t, u, e)
  BY <1>5, <1>6, ListAppend
<1> QED
  BY <1>1, <1>2, <1>3, <1>6, <1>7 DEF LongerBy, Written

\* A section is written after those that end before it.
LEMMA WrittenInOrder ==
    ASSUME NEW s, InOrder(s), NEW m, NEW e, NEW t, Written(t, s, m, e),
           IsSection(e) => Complete(e), IsSection(e) => Before(s, m, e.beg)
    PROVE  InOrder(t)
<1>1. PICK n : n = Len(s) /\ n \in Nat /\ m \in Nat /\ m <= n
  BY DEF Written
<1>2. Len(t) = m + 1 /\ t[m + 1] = e /\ \A k \in 1 .. m : t[k] = s[k]
  BY DEF Written
<1>3. \A k \in 1 .. m : k \in 1 .. n
  BY <1>1
<1>4. \A k \in 1 .. m + 1 : k \in 1 .. m \/ k = m + 1
  BY <1>1
<1>5. \A k \in 1 .. m + 1 : IsSection(t[k]) => Complete(t[k])
  BY <1>1, <1>2, <1>3, <1>4 DEF InOrder
<1>6. ASSUME NEW j \in 1 .. m + 1, NEW k \in 1 .. m + 1, j < k, IsSection(t[j]), IsSection(t[k])
      PROVE  t[j].end <= t[k].beg
  <2>1. j \in 1 .. m
    BY <1>1, <1>6
  <2>2. CASE k \in 1 .. m
    BY <2>1, <2>2, <1>1, <1>2, <1>3, <1>6 DEF InOrder
  <2>3. CASE k = m + 1
    BY <2>1, <2>3, <1>2, <1>6 DEF Before
  <2> QED
    BY <2>2, <2>3, <1>4
<1> QED
  BY <1>2, <1>5, <1>6 DEF InOrder

LEMMA PrefixInOrder ==
    ASSUME NEW s, InOrder(s), NEW m \in Nat, Len(s) \in Nat, m <= Len(s), NEW t, Len(t) = m,
           \A k \in 1 .. m : t[k] = s[k]
    PROVE  InOrder(t)
<1>1. \A k \in 1 .. m : k \in 1 .. Len(s)
  OBVIOUS
<1> QED
  BY <1>1 DEF InOrder

LEMMA WrittenKnown ==
    ASSUME NEW s, NEW m, NEW e, NEW t, Written(t, s, m, e), Known(s, m)
    PROVE  /\ Known(t, m)
           /\ e.known = TRUE /\ e.tag \in ScanTags => Known(t, m + 1)
BY DEF Written, Known

LEMMA WrittenBefore ==
    ASSUME NEW s, NEW m, NEW e, NEW t, Written(t, s, m, e), NEW u, Before(s, m, u)
    PROVE  /\ Before(t, m, u)
           /\ (IsSection(e) => e.end <= u) => Before(t, m + 1, u)
BY DEF Written, Before

\* The beginning and the end of a section.
LEMMA CompleteSpan ==
    ASSUME NEW b, Complete(b)
    PROVE  b.beg \in Nat /\ b.end \in Nat /\ b.beg <= b.end
<1>1. PICK d : d = b.tchn
  OBVIOUS
<1>2. d \in Seq(Nat) /\ Len(d) > 0 /\ b.beg = d[1] /\ b.end = Sums(d)[Len(d)]
  BY <1>1 DEF Complete
<1>3. PICK n : n = Len(d) /\ n \in Nat
  BY <1>2, LenProperties
<1>4. PICK t : t = Sums(d)
  OBVIOUS
<1>5. /\ t \in Seq(Nat) /\ Len(t) = n /\ t[1] = d[1]
      /\ \A i, j \in 1 .. n : i <= j => t[i] <= t[j]
  BY <1>2, <1>3, <1>4, SumsGrow
<1>6. 1 \in 1 .. n /\ n \in 1 .. n /\ 1 <= n
  BY <1>2, <1>3
<1>7. t[1] \in Nat /\ t[n] \in Nat
  BY <1>5, <1>6, ElementOfSeq
<1> QED
  BY <1>2, <1>3, <1>4, <1>5, <1>6, <1>7

-----------------------------------------------------------------------------
(* The context after the operations of the writer.                         *)

\* What decides about the blocks is the same.
Alike(y, x) ==
    /\ DOMAIN y = ContextFields
    /\ y.initial = x.initial /\ y.curtime = x.curtime /\ y.tchn = x.tchn
    /\ y.header_only = x.header_only /\ y.skip_header = x.skip_header /\ y.locked = x.locked
    /\ y.truncpos = x.truncpos /\ y.blackouts = x.blackouts
    /\ IsList(x.vals) => IsList(y.vals)

LEMMA AlikeKeeps ==
    ASSUME NEW x, NEW y, Alike(y, x), Context(x), NEW here, NEW blocks, NEW t, NEW c
    PROVE  /\ Context(y)
           /\ Phase(here, x, blocks) => Phase(here, y, blocks)
           /\ Timed(here, x, t, c) => Timed(here, y, t, c)
           /\ Interrupting(here, x, blocks) => Interrupting(here, y, blocks)
<1> USE DEF Alike
<1>1. Context(y)
  BY DEF Context
<1>2. Phase(here, x, blocks) => Phase(here, y, blocks)
  BY DEF Phase, Starting, Recording, Headed, Stopped, Sectioned, Tagged
<1>3. Timed(here, x, t, c) => Timed(here, y, t, c)
  BY DEF Timed
<1>4. Interrupting(here, x, blocks) => Interrupting(here, y, blocks)
  BY DEF Interrupting
<1> QED
  BY <1>1, <1>2, <1>3, <1>4

LEMMA AddStemAlike ==
    ASSUME NEW x, DOMAIN x = ContextFields, NEW c, NEW y, y = AddStem(x, c)
    PROVE  Alike(y, x)
<1>1. \E p, h : y = [x EXCEPT !.paths = p, !.hier = h]
  BY Zenon DEF AddStem
<1> QED
  BY <1>1 DEF Alike, ContextFields

LEMMA AddVarAlike ==
    ASSUME NEW x, DOMAIN x = ContextFields, NEW c, NEW y, y = AddVar(x, c)
    PROVE  Alike(y, x)
<1> DEFINE alias == IF c.alias > Len(x.vals) THEN 0 ELSE c.alias
           h == PutVar(PutMisc(x.hier, c.type, SupVar, c.svt * 1024 + c.sdt),
                       c.vt, c.dir, c.len, c.name, alias)
           z == [x EXCEPT !.hier = h, !.numsigs = @ + 1]
           v == [len |-> VarLength(c.vt, c.len), vchg |-> 0, tidx |-> 0]
           w == [z EXCEPT !.geom = Append(@, GeomLength(c.vt, c.len)), !.vals = Append(@, v),
                          !.curval = Append(@, InitialValue(c.vt, c.len))]
<1>1. y = IF alias # 0 THEN z ELSE w
  BY DEF AddVar
<1> HIDE DEF h, v, alias
<1>2. Alike(z, x)
  BY DEF Alike, ContextFields
<1>3. Alike(w, z)
  <2>1. DOMAIN z = ContextFields
    BY <1>2 DEF Alike
  <2> HIDE DEF z
  <2>2. w.vals = Append(z.vals, v)
    BY <2>1 DEF ContextFields
  <2>3. PICK a, b : a = z.vals /\ b = w.vals
    OBVIOUS
  <2>4. IsList(a) => LongerBy(b, a, v)
    <3>1. b = Append(a, v)
      BY <2>2, <2>3
    <3> QED
      BY ONLY <3>1, ListAppend
  <2>5. IsList(z.vals) => IsList(w.vals)
    BY <2>3, <2>4 DEF LongerBy
  <2> QED
    BY <2>1, <2>5 DEF Alike, ContextFields
<1>4. Alike(w, x)
  <2> HIDE DEF z, w
  <2> QED
    BY <1>2, <1>3 DEF Alike
<1> QED
  BY <1>1, <1>2, <1>4

LEMMA CalledAlike ==
    ASSUME NEW x, DOMAIN x = ContextFields, NEW c, c.call \in Calls, NEW y, y = Called(x, c)
    PROVE  Alike(y, x)
<1> USE DEF Alike, ContextFields
<1>1. CASE c.call = "scope"
  BY <1>1 DEF Called
<1>2. CASE c.call = "upscope"
  BY <1>2 DEF Called
<1>3. CASE c.call = "attr"
  BY <1>3 DEF Called
<1>4. CASE c.call = "attrend"
  BY <1>4 DEF Called
<1>5. CASE c.call = "comment"
  BY <1>5 DEF Called
<1>6. CASE c.call = "stem"
  <2>1. y = AddStem(x, c)
    BY <1>6 DEF Called
  <2> QED
    BY <2>1, AddStemAlike
<1>7. CASE c.call = "var"
  <2>1. y = AddVar(x, c)
    BY <1>7 DEF Called
  <2> QED
    BY <2>1, AddVarAlike
<1> QED
  BY <1>1, <1>2, <1>3, <1>4, <1>5, <1>6, <1>7 DEF Calls

LEMMA ChangeAlike ==
    ASSUME NEW x, DOMAIN x = ContextFields, NEW h, NEW v, NEW y, y = Change(x, h, v)
    PROVE  Alike(y, x)
<1>1. /\ DOMAIN y = ContextFields
      /\ y.initial = x.initial /\ y.curtime = x.curtime /\ y.tchn = x.tchn
      /\ y.header_only = x.header_only /\ y.skip_header = x.skip_header /\ y.locked = x.locked
      /\ y.truncpos = x.truncpos /\ y.blackouts = x.blackouts
  BY DEF Change, ContextFields
<1>2. y.vals = [k \in DOMAIN x.vals |-> y.vals[k]]
  BY DEF Change, ContextFields
<1>3. IsList(x.vals) => IsList(y.vals)
  BY <1>2, ListMap
<1> QED
  BY <1>1, <1>3 DEF Alike

LEMMA EmittedAlike ==
    ASSUME NEW x, DOMAIN x = ContextFields, NEW h, NEW v, NEW y, y = Emitted(x, h, v)
    PROVE  Alike(y, x)
<1>1. y = Change(x, h, v) \/ y = [x EXCEPT !.curval[h] = v]
  BY DEF Emitted
<1>2. y = Change(x, h, v) => Alike(y, x)
  BY ChangeAlike
<1>3. y = [x EXCEPT !.curval[h] = v] => Alike(y, x)
  BY DEF Alike, ContextFields
<1> QED
  BY <1>1, <1>2, <1>3

-----------------------------------------------------------------------------
(* A trace without a time: the values become changes at time 0.            *)

MockupStart(x) == AddTime(FirstTime(x, 0), 0, 0)
MockupRound(y, h) == IF y.vals[h].len # 0 THEN Change(y, h, y.curval[h]) ELSE y

\* The states of the loop.
MockupUpTo(f, x, m) ==
    f = [k \in 0 .. m |-> IF k = 0 THEN MockupStart(x) ELSE MockupRound(f[k - 1], k)]

LEMMA MockupExists ==
    ASSUME NEW x, NEW n \in Nat
    PROVE  \E f : MockupUpTo(f, x, n)
<1> DEFINE Bad == {m \in Nat : ~ \E f : MockupUpTo(f, x, m)}
<1>1. SUFFICES ASSUME Bad # {} PROVE FALSE
  BY <1>1
<1>2. PICK m \in Bad : \A j \in Bad : m <= j
  BY <1>1, LeastElement
<1>3. m \in Nat /\ ~ \E f : MockupUpTo(f, x, m)
  BY <1>2
<1> HIDE DEF Bad
<1>4. m # 0
  <2>1. MockupUpTo([k \in 0 .. 0 |-> MockupStart(x)], x, 0)
    BY DEF MockupUpTo
  <2> QED
    BY <2>1, <1>3
<1>5. PICK f : MockupUpTo(f, x, m - 1)
  <2>1. m - 1 \in Nat /\ ~ (m <= m - 1)
    BY <1>3, <1>4
  <2> QED
    BY <2>1, <1>2 DEF Bad
<1> DEFINE g == [k \in 0 .. m |-> IF k = m THEN MockupRound(f[m - 1], m) ELSE f[k]]
<1>6. MockupUpTo(g, x, m)
  <2>1. \A k \in 0 .. m - 1 :
           f[k] = IF k = 0 THEN MockupStart(x) ELSE MockupRound(f[k - 1], k)
    BY <1>3, <1>4, <1>5 DEF MockupUpTo
  <2>2. \A k \in 0 .. m :
           g[k] = IF k = 0 THEN MockupStart(x) ELSE MockupRound(g[k - 1], k)
    <3> TAKE k \in 0 .. m
    <3>1. CASE k = m
      BY <3>1, <1>3, <1>4
    <3>2. CASE k # m
      BY <3>2, <1>3, <1>4, <2>1
    <3> QED
      BY <3>1, <3>2
  <2> QED
    BY <2>2 DEF MockupUpTo
<1> QED
  BY <1>6, <1>3

Begun(y, x, t) ==
    /\ Context(y)
    /\ y.initial = FALSE /\ y.curtime = 0 /\ y.tchn = x.tchn /\ y.header_only = TRUE
    /\ y.locked = x.locked /\ y.truncpos = x.truncpos /\ y.blackouts = x.blackouts
    /\ y.firsttime = t

LEMMA FirstTimeKeeps ==
    ASSUME NEW x, Context(x), NEW t \in Nat, NEW y, y = FirstTime(x, t)
    PROVE  Begun(y, x, t)
<1>1. DOMAIN x = ContextFields
  BY DEF Context
<1>2. /\ DOMAIN y = ContextFields /\ y.skip_header = x.skip_header
      /\ y.initial = FALSE /\ y.curtime = 0 /\ y.tchn = x.tchn /\ y.header_only = TRUE
      /\ y.locked = x.locked /\ y.truncpos = x.truncpos /\ y.blackouts = x.blackouts
      /\ y.firsttime = t
  BY <1>1 DEF FirstTime, ContextFields
<1>3. y.vals = [h \in DOMAIN x.vals |-> y.vals[h]]
  BY <1>1 DEF FirstTime, ContextFields
<1>4. IsList(y.vals)
  BY <1>3, ListMap DEF Context
<1>5. y.initial \in BOOLEAN /\ y.header_only \in BOOLEAN /\ y.locked \in BOOLEAN
  BY <1>2, Zenon DEF Context
<1>6. y.curtime \in Nat /\ y.truncpos \in Nat /\ y.tchn \in Seq(Nat) /\ y.blackouts \in Seq(Interruption)
  BY <1>2 DEF Context
<1> QED
  BY <1>2, <1>4, <1>5, <1>6, Zenon DEF Context, Begun

Moved(y, x, t) ==
    /\ Context(y)
    /\ y.tchn = Append(x.tchn, t - x.curtime) /\ y.curtime = t
    /\ y.initial = x.initial /\ y.header_only = x.header_only /\ y.skip_header = x.skip_header
    /\ y.locked = x.locked /\ y.truncpos = x.truncpos /\ y.blackouts = x.blackouts

LEMMA AddTimeKeeps ==
    ASSUME NEW x, Context(x), NEW t \in Nat, x.curtime <= t, NEW idx, NEW y, y = AddTime(x, t, idx)
    PROVE  Moved(y, x, t)
<1>1. DOMAIN x = ContextFields
  BY DEF Context
<1>2. /\ DOMAIN y = ContextFields /\ y.vals = x.vals
      /\ y.tchn = Append(x.tchn, t - x.curtime) /\ y.curtime = t
      /\ y.initial = x.initial /\ y.header_only = x.header_only /\ y.skip_header = x.skip_header
      /\ y.locked = x.locked /\ y.truncpos = x.truncpos /\ y.blackouts = x.blackouts
  BY <1>1 DEF AddTime, ContextFields
<1>3. y.tchn \in Seq(Nat)
  <2>1. x.tchn \in Seq(Nat) /\ t - x.curtime \in Nat
    BY DEF Context
  <2> QED
    BY <2>1, <1>2
<1> QED
  BY <1>2, <1>3 DEF Context, Moved

LEMMA MockupAlike ==
    ASSUME NEW x, Context(x), NEW y, y = Mockup(x)
    PROVE  Alike(y, MockupStart(x))
<1>1. PICK n : n = Len(x.vals) /\ n \in Nat
  BY ListLength DEF Context
<1>2. \E f : MockupUpTo(f, x, n)
  BY <1>1, MockupExists
<1> DEFINE f == CHOOSE f : MockupUpTo(f, x, n)
<1>3. MockupUpTo(f, x, n)
  BY <1>2
<1>4. y = f[n]
  BY <1>1 DEF Mockup, Repeat, MockupUpTo, MockupStart, MockupRound
<1>5. \A k \in 0 .. n : f[k] = IF k = 0 THEN MockupStart(x) ELSE MockupRound(f[k - 1], k)
  BY <1>3 DEF MockupUpTo
<1> HIDE DEF f
<1>6. PICK s : s = MockupStart(x)
  OBVIOUS
<1>7. DOMAIN s = ContextFields
  <2>1. PICK t : t \in Nat /\ t = 0
    OBVIOUS
  <2>2. PICK z : z = FirstTime(x, t)
    OBVIOUS
  <2>3. Context(x) /\ t \in Nat
    BY <2>1
  <2>4. Context(z) /\ z.curtime = 0
    <3>1. Begun(z, x, t)
      BY ONLY <2>2, <2>3, FirstTimeKeeps
    <3> QED
      BY <3>1 DEF Begun
  <2>5. s = AddTime(z, t, 0) /\ z.curtime <= t
    BY <2>1, <2>2, <2>4, <1>6 DEF MockupStart
  <2>6. Context(s)
    <3>1. Moved(s, z, t)
      BY ONLY <2>3, <2>4, <2>5, AddTimeKeeps
    <3> QED
      BY <3>1 DEF Moved
  <2> QED
    BY <2>6 DEF Context
<1> DEFINE Bad == {m \in 0 .. n : ~Alike(f[m], s)}
<1>8. Bad = {}
  <2> SUFFICES ASSUME Bad # {} PROVE FALSE
    OBVIOUS
  <2>1. PICK m \in Bad : \A j \in Bad : m <= j
    <3>1. Bad \in SUBSET Nat
      OBVIOUS
    <3> HIDE DEF Bad
    <3> QED
      BY <3>1, LeastElement
  <2>2. m \in 0 .. n /\ ~Alike(f[m], s)
    BY <2>1
  <2>3. m # 0
    <3>1. f[0] = s
      BY <1>1, <1>5, <1>6
    <3>2. Alike(s, s)
      BY <1>7 DEF Alike
    <3> QED
      BY <3>1, <3>2, <2>2
  <2>4. m - 1 \in 0 .. n /\ ~ (m <= m - 1)
    BY <1>1, <2>2, <2>3
  <2>5. PICK p, q : p = f[m - 1] /\ q = f[m]
    OBVIOUS
  <2>6. Alike(p, s)
    BY <2>1, <2>4, <2>5
  <2>7. q = p \/ q = Change(p, m, p.curval[m])
    BY <2>2, <2>3, <2>5, <1>5 DEF MockupRound
  <2>8. Alike(q, p)
    <3>1. DOMAIN p = ContextFields
      BY <2>6 DEF Alike
    <3>2. q = p => Alike(q, p)
      BY <3>1 DEF Alike
    <3> QED
      BY <3>1, <3>2, <2>7, ChangeAlike
  <2>9. Alike(q, s)
    BY <2>6, <2>8 DEF Alike
  <2> QED
    BY <2>2, <2>5, <2>9
<1> QED
  BY <1>1, <1>4, <1>6, <1>8

\* The context after the section was written.
AfterSection(y, x) ==
    /\ Context(y)
    /\ y.tchn = <<>> /\ y.header_only = FALSE
    /\ y.initial = x.initial /\ y.curtime = x.curtime /\ y.skip_header = x.skip_header
    /\ y.locked = x.locked /\ y.truncpos = x.truncpos /\ y.blackouts = x.blackouts

LEMMA AfterFlushKeeps ==
    ASSUME NEW x, Context(x), NEW y, y = AfterFlush(x)
    PROVE  AfterSection(y, x)
<1>1. DOMAIN x = ContextFields
  BY DEF Context
<1>2. /\ DOMAIN y = ContextFields
      /\ y.tchn = <<>> /\ y.header_only = FALSE
      /\ y.initial = x.initial /\ y.curtime = x.curtime /\ y.skip_header = x.skip_header
      /\ y.locked = x.locked /\ y.truncpos = x.truncpos /\ y.blackouts = x.blackouts
  BY <1>1 DEF AfterFlush, ContextFields
<1>3. y.vals = [h \in DOMAIN x.vals |-> y.vals[h]]
  BY <1>1 DEF AfterFlush, ContextFields
<1>4. IsList(y.vals)
  BY <1>3, ListMap DEF Context
<1>5. y.tchn \in Seq(Nat)
  BY <1>2
<1> QED
  BY <1>2, <1>4, <1>5 DEF Context, AfterSection

-----------------------------------------------------------------------------
(* The blocks the writer makes.                                            *)

LEMMA HeaderMade ==
    ASSUME NEW x, NEW b, b = SectionHeader(x)
    PROVE  /\ DOMAIN b = SectionFields /\ b.tag = "skip" /\ b.known = FALSE
           /\ b.beg = IF x.initial THEN x.firsttime ELSE x.curtime
BY DEF SectionHeader, SectionFields

MadeFrom(b, x, h) ==
    /\ DOMAIN b = SectionFields /\ b.tag = h.tag /\ b.known = TRUE
    /\ b.beg = h.beg /\ b.end = x.curtime /\ b.tchn = x.tchn

LEMMA SectionMade ==
    ASSUME NEW x, NEW h, DOMAIN h = SectionFields, NEW pack, NEW b, b = SectionOf(x, h, pack)
    PROVE  MadeFrom(b, x, h)
BY DEF SectionOf, SectionWith, SectionFields, MadeFrom

\* Neither a section that is being written nor a header has interruptions.
LEMMA StillNone ==
    ASSUME NEW here, here \notin LatePhases, NEW next, next \notin LatePhases, next # "blackout_tag",
           NEW x, NEW s, Interrupting(here, x, s), NEW m, NEW e, NEW t, Written(t, s, m, e),
           e.tag # "blackout", NEW y
    PROVE  Interrupting(next, y, t)
<1>1. \A k \in 1 .. Len(t) : t[k].tag # "blackout"
  BY DEF Interrupting, Written
<1> QED
  BY <1>1 DEF Interrupting

\* The section that was recorded is written.
LEMMA SectionWritten ==
    ASSUME NEW x, Context(x), NEW s, IsList(s), InOrder(s), Recording(x, s),
           NEW pack, NEW e, e = SectionOf(x, Last(s), pack),
           NEW t, t = Replace(s, e), NEW y, y = AfterFlush(x)
    PROVE  /\ Context(y) /\ IsList(t) /\ InOrder(t)
           /\ Sectioned(y, t)
           /\ Written(t, s, Len(s) - 1, e) /\ e.tag = "skip"
<1>1. PICK n : n = Len(s) /\ n \in Nat /\ n > 0
  BY ListLength DEF Recording, Headed
<1>2. PICK h : h = s[n]
  OBVIOUS
<1>3. Last(s) = h
  BY <1>1, <1>2 DEF Last
<1>4. /\ DOMAIN h = SectionFields /\ h.tag = "skip" /\ h.beg = x.tchn[1]
      /\ Known(s, n - 1) /\ Before(s, n - 1, x.tchn[1])
  BY <1>1, <1>2 DEF Recording, Headed
<1>5. /\ DOMAIN e = SectionFields /\ e.tag = "skip" /\ e.known = TRUE
      /\ e.beg = x.tchn[1] /\ e.end = x.curtime /\ e.tchn = x.tchn
  <2>1. MadeFrom(e, x, h)
    BY <1>3, <1>4, SectionMade
  <2> QED
    BY <2>1, <1>4 DEF MadeFrom
<1>6. Complete(e)
  BY <1>5 DEF Complete, Recording, Context
<1>7. Written(t, s, n - 1, e)
  BY <1>1, ReplaceWrites
<1>8. PICK m : m = n - 1
  OBVIOUS
<1>9. Written(t, s, m, e) /\ Known(s, m) /\ Before(s, m, e.beg)
  BY <1>4, <1>5, <1>7, <1>8
<1>10. IsList(t) /\ Len(t) = n /\ t[n] = e
  BY <1>1, <1>7 DEF Written
<1>11. InOrder(t)
  BY <1>6, <1>9, WrittenInOrder
<1>12. Known(t, m) /\ Before(t, m, e.beg)
  BY <1>9, WrittenKnown, WrittenBefore
<1>13. AfterSection(y, x)
  BY AfterFlushKeeps
<1>14. x.locked = FALSE /\ x.initial = FALSE
  BY DEF Recording, Headed
<1>15. Sectioned(y, t)
  BY <1>1, <1>5, <1>6, <1>8, <1>10, <1>12, <1>13, <1>14 DEF Sectioned, AfterSection
<1> QED
  BY <1>1, <1>5, <1>7, <1>10, <1>11, <1>13, <1>15 DEF AfterSection

-----------------------------------------------------------------------------
(* The steps that keep the invariant: declarations.                        *)

LEMMA CycleTimes ==
    ASSUME NEW c \in Configs, NEW n \in Nat \cup {-1}
    PROVE  /\ CycleTime(c, n) \in Nat
           /\ (n + 1) * c.step \in Nat
           /\ CycleTime(c, n) <= (n + 1) * c.step
           /\ CycleTime(c, n + 1) = (n + 1) * c.step
           /\ n + 1 \in Nat
<1>1. PICK s : s = c.step /\ s \in Nat
  BY ConfigsAssumption
<1>2. n + 1 \in Nat /\ n + 1 # -1 /\ (n + 1) * s \in Nat
  BY <1>1
<1>3. n # -1 => n * s \in Nat /\ (n + 1) * s = n * s + s
  <2> SUFFICES ASSUME NEW m \in Nat, m = n PROVE m * s \in Nat /\ (m + 1) * s = m * s + s
    OBVIOUS
  <2> QED
    BY <1>1
<1> QED
  BY <1>1, <1>2, <1>3 DEF CycleTime

LEMMA DeclareKeeps ==
    ASSUME BlocksInv, Declare, UNCHANGED now
    PROVE  BlocksInv'
<1>1. conf.calls[tim + 1].call \in Calls
  <2>1. PICK n : n = Len(conf.calls)
    OBVIOUS
  <2>2. n \in Nat /\ \A k \in 1 .. n : conf.calls[k].call \in Calls
    BY <2>1, ConfigsAssumption DEF BlocksInv
  <2>3. tim + 1 \in 1 .. n
    BY <2>1, <2>2 DEF BlocksInv, Declare
  <2> QED
    BY <2>2, <2>3
<1>2. Alike(xc', xc)
  BY <1>1, CalledAlike DEF BlocksInv, Context, Declare
<1>3. Context(xc) /\ Phase(pc, xc, file.blocks) /\ Timed(pc, xc, tim, CycleTime(conf, now))
      /\ Interrupting(pc, xc, file.blocks)
  BY DEF BlocksInv
<1>4. /\ Context(xc') /\ Phase(pc, xc', file.blocks) /\ Timed(pc, xc', tim, CycleTime(conf, now))
      /\ Interrupting(pc, xc', file.blocks)
  BY <1>2, <1>3, AlikeKeeps
<1>5. Timed(pc, xc', tim', CycleTime(conf, now))
  BY <1>4 DEF Timed, Declare
<1> QED
  BY <1>4, <1>5 DEF BlocksInv, Declare

LEMMA DeclaredKeeps ==
    ASSUME BlocksInv, Declared, UNCHANGED now
    PROVE  BlocksInv'
<1>1. Phase("run", xc, file.blocks)
  BY DEF BlocksInv, Declared, Phase, ClosePhases, LatePhases
<1>2. Timed("run", xc, 0, CycleTime(conf, now))
  BY DEF BlocksInv, Declared, Timed
<1>3. Interrupting("run", xc, file.blocks)
  BY DEF BlocksInv, Declared, Interrupting, LatePhases
<1> QED
  BY <1>1, <1>2, <1>3 DEF BlocksInv, Declared

-----------------------------------------------------------------------------
(* The steps that keep the invariant: a section is completed.              *)

LEMMA BeforeLater ==
    ASSUME NEW s, InOrder(s), NEW m \in Nat, Len(s) \in Nat, m <= Len(s),
           NEW u \in Nat, NEW v \in Nat, u <= v, Before(s, m, u)
    PROVE  Before(s, m, v)
<1> SUFFICES ASSUME NEW k \in 1 .. m, IsSection(s[k]) PROVE s[k].end <= v
  BY DEF Before
<1>1. k \in 1 .. Len(s)
  OBVIOUS
<1>2. Complete(s[k])
  BY <1>1 DEF InOrder
<1>3. PICK e : e = s[k].end
  OBVIOUS
<1>4. e \in Nat /\ e <= u
  BY <1>2, <1>3, CompleteSpan DEF Before
<1> QED
  BY <1>3, <1>4

LEMMA FlushTagKeeps ==
    ASSUME BlocksInv, FlushTag, UNCHANGED now
    PROVE  BlocksInv'
<1>1. PICK s, t : s = file.blocks /\ t = file'.blocks
  OBVIOUS
<1>2. /\ IsList(s) /\ InOrder(s) /\ Sectioned(xc, s) /\ Context(xc)
      /\ DOMAIN file' = {"hdr", "blocks"}
      /\ t = Replace(s, [Last(s) EXCEPT !.tag = "vcdata"])
  BY <1>1 DEF BlocksInv, FlushTag, Phase
<1>3. PICK n, m : n = Len(s) /\ n \in Nat /\ n > 0 /\ m = n - 1
  BY <1>2, ListLength DEF Sectioned
<1>4. PICK h, e : h = s[n] /\ e = [h EXCEPT !.tag = "vcdata"]
  OBVIOUS
<1>5. /\ DOMAIN h = SectionFields /\ Complete(h) /\ h.end = xc.curtime
      /\ Known(s, m) /\ Before(s, m, h.beg)
  BY <1>2, <1>3, <1>4 DEF Sectioned
<1>6. Complete(e) /\ IsSection(e) /\ e.beg = h.beg /\ e.end = xc.curtime /\ e.known = TRUE
  BY <1>4, <1>5 DEF Complete, IsSection, SectionFields
<1>7. Written(t, s, m, e)
  <2>1. t = Replace(s, e)
    BY <1>2, <1>3, <1>4 DEF Last
  <2> QED
    BY <2>1, <1>2, <1>3, ReplaceWrites
<1>8. InOrder(t)
  BY <1>2, <1>5, <1>6, <1>7, WrittenInOrder
<1>9. IsList(t) /\ Len(t) = n
  BY <1>3, <1>7 DEF Written
<1>10. PICK u, v : u = h.beg /\ v = xc.curtime
  OBVIOUS
<1>11. Before(s, m, v)
  <2>1. u \in Nat /\ v \in Nat /\ u <= v
    BY <1>5, <1>10, CompleteSpan
  <2>2. m \in Nat /\ m <= Len(s) /\ Len(s) \in Nat /\ Before(s, m, u)
    BY <1>3, <1>5, <1>10
  <2> QED
    BY ONLY <2>1, <2>2, <1>2, BeforeLater
<1>12. Known(t, n) /\ Before(t, n, v)
  <2>1. e.tag \in ScanTags /\ m + 1 = n /\ e.end <= v
    <3>1. v \in Nat
      BY <1>2, <1>10 DEF Context
    <3> QED
      BY <3>1, <1>3, <1>6, <1>10 DEF IsSection, ScanTags
  <2>2. Known(t, m + 1)
    BY <2>1, <1>5, <1>6, <1>7, WrittenKnown
  <2>3. Before(t, m + 1, v)
    BY <2>1, <1>7, <1>11, WrittenBefore
  <2> QED
    BY <2>1, <2>2, <2>3
<1>13. Phase("flush_next", xc, t)
  BY <1>2, <1>9, <1>10, <1>12 DEF Phase, Tagged, Sectioned, ClosePhases, LatePhases
<1>14. Interrupting("flush_next", xc, t)
  <2>1. Interrupting("flush_tag", xc, s) /\ e.tag # "blackout"
    BY <1>1, <1>6 DEF BlocksInv, FlushTag, IsSection
  <2>2. "flush_tag" \notin LatePhases /\ "flush_next" \notin LatePhases /\ "flush_next" # "blackout_tag"
    BY DEF LatePhases
  <2> QED
    BY <2>1, <2>2, <1>7, StillNone
<1>15. Timed("flush_next", xc, tim, CycleTime(conf, now))
  BY DEF BlocksInv, FlushTag, Timed
<1> QED
  BY <1>1, <1>2, <1>8, <1>9, <1>13, <1>14, <1>15 DEF BlocksInv, FlushTag

\* What the next section starts from.
NextFrom(y, x, n, full) ==
    /\ DOMAIN y = ContextFields /\ y.vals = x.vals
    /\ y.curtime = x.curtime /\ y.tchn = x.tchn /\ y.blackouts = x.blackouts
    /\ y.truncpos = n
    /\ y.locked = (x.locked \/ full) /\ y.initial = (x.initial \/ full)
    /\ y.header_only = ~(x.skip_header \/ full)

LEMMA FlushNextKeeps ==
    ASSUME BlocksInv, FlushNext, UNCHANGED now
    PROVE  BlocksInv'
<1>1. PICK s, t, n : s = file.blocks /\ t = file'.blocks /\ n = Len(s)
  OBVIOUS
<1>2. /\ IsList(s) /\ InOrder(s) /\ Tagged(xc, s) /\ Context(xc) /\ pc = "flush_next"
      /\ Interrupting("flush_next", xc, s)
  BY <1>1 DEF BlocksInv, FlushNext, Phase
<1>3. n \in Nat
  BY <1>1, <1>2, ListLength
<1>4. PICK full, skip \in BOOLEAN :
         /\ full = (conf.size_limit # 0 /\ Len(file.blocks) >= conf.size_limit)
         /\ skip = (xc.skip_header \/ full)
  BY Zenon
<1>5. PICK y : y = [xc EXCEPT !.truncpos = n, !.skip_header = skip, !.locked = @ \/ full,
                              !.initial = @ \/ full, !.header_only = ~skip]
  OBVIOUS
<1>6. /\ xc' = y
      /\ file' = IF skip THEN file ELSE [file EXCEPT !.blocks = Append(@, SectionHeader(y))]
      /\ pc' = IF xc.skip_header THEN "geom" ELSE "time"
  BY <1>1, <1>4, <1>5, Zenon DEF FlushNext
<1>7. DOMAIN xc = ContextFields
  BY <1>2 DEF Context
<1>8. NextFrom(y, xc, n, full)
  BY <1>4, <1>5, <1>7 DEF NextFrom, ContextFields
<1>9. Context(y)
  <2>1. y.initial \in BOOLEAN /\ y.locked \in BOOLEAN /\ y.header_only \in BOOLEAN
    BY <1>8, Zenon DEF NextFrom
  <2> QED
    BY <2>1, <1>2, <1>3, <1>8, Zenon DEF NextFrom, Context
<1>10. xc.locked = FALSE /\ xc.initial = FALSE /\ Known(s, n) /\ Before(s, n, xc.curtime)
  BY <1>1, <1>2 DEF Tagged
<1>11. Timed(pc', y, tim, CycleTime(conf, now))
  BY <1>2, <1>6, <1>8 DEF Timed, NextFrom, BlocksInv
<1>12. CASE skip
  <2>1. file' = file /\ t = s
    BY <1>1, <1>6, <1>12
  <2>2. CASE xc.skip_header
    <3>1. pc' = "geom"
      BY <2>2, <1>6
    <3>2. Phase("geom", y, s)
      BY <1>1, <1>10 DEF Phase, Closing, TagPhases, ClosePhases, LatePhases
    <3>3. Interrupting("geom", y, s)
      BY <1>2 DEF Interrupting, LatePhases
    <3> QED
      BY <2>1, <3>1, <3>2, <3>3, <1>1, <1>2, <1>6, <1>9, <1>11 DEF BlocksInv, FlushNext
  <2>3. CASE ~xc.skip_header
    <3>1. pc' = "time"
      BY <2>3, <1>6
    <3>2. y.locked = TRUE /\ y.initial = TRUE
      BY <2>3, <1>4, <1>8, <1>12, Zenon DEF NextFrom
    <3>3. Phase("time", y, s)
      BY <3>2, <1>1, <1>10 DEF Phase, Stopped, ClosePhases, LatePhases
    <3>4. Interrupting("time", y, s)
      BY <1>2 DEF Interrupting, LatePhases
    <3> QED
      BY <2>1, <3>1, <3>3, <3>4, <1>1, <1>2, <1>6, <1>9, <1>11 DEF BlocksInv, FlushNext
  <2> QED
    BY <2>2, <2>3
<1>13. CASE ~skip
  <2>1. ~xc.skip_header /\ full = FALSE
    BY <1>4, <1>13, Zenon
  <2>2. y.locked = FALSE /\ y.initial = FALSE /\ y.header_only = TRUE /\ y.truncpos = n
        /\ y.curtime = xc.curtime
    BY <2>1, <1>8, <1>10, Zenon DEF NextFrom
  <2>3. pc' = "time" /\ file' = [file EXCEPT !.blocks = Append(@, SectionHeader(y))]
    BY <2>1, <1>6, <1>13
  <2>4. PICK e : e = SectionHeader(y)
    OBVIOUS
  <2>5. t = Append(s, e) /\ DOMAIN file' = {"hdr", "blocks"}
    BY <2>3, <2>4, <1>1 DEF BlocksInv
  <2>6. Written(t, s, n, e)
    BY <2>5, <1>1, <1>2, AppendWrites
  <2>7. /\ DOMAIN e = SectionFields /\ e.tag = "skip" /\ e.known = FALSE
        /\ e.beg = y.curtime
    BY <2>2, <2>4, HeaderMade
  <2>8. IsList(t) /\ Len(t) = n + 1 /\ t[n + 1] = e
    BY <2>6 DEF Written
  <2>9. InOrder(t)
    BY <2>6, <2>7, <1>2, WrittenInOrder DEF IsSection
  <2>10. Known(t, n) /\ Before(t, n, y.curtime)
    BY <2>2, <2>6, <1>10, WrittenKnown, WrittenBefore
  <2>11. Headed(y, t, y.curtime)
    BY <2>2, <2>7, <2>8, <2>10, <1>3 DEF Headed
  <2>12. Phase("time", y, t)
    BY <2>11 DEF Phase, ClosePhases, LatePhases
  <2>13. Interrupting("time", y, t)
    <3>1. "flush_next" \notin LatePhases /\ "time" \notin LatePhases /\ "time" # "blackout_tag"
      BY DEF LatePhases
    <3>2. e.tag # "blackout"
      BY <2>7
    <3> QED
      BY <3>1, <3>2, <2>6, <1>2, StillNone
  <2> QED
    BY <2>3, <2>5, <2>8, <2>9, <2>12, <2>13, <1>1, <1>6, <1>9, <1>11 DEF BlocksInv, FlushNext
<1> QED
  BY <1>12, <1>13

-----------------------------------------------------------------------------
(* The steps that keep the invariant: time and value changes.              *)

\* One more time in a section.
LEMMA RecordingGoesOn ==
    ASSUME NEW x, Context(x), NEW s, Recording(x, s), NEW t \in Nat, x.curtime <= t,
           NEW y, Moved(y, x, t)
    PROVE  Recording(y, s)
<1>1. PICK d, c, e : d = x.tchn /\ c = x.curtime /\ e = y.tchn
  OBVIOUS
<1>2. d \in Seq(Nat) /\ c \in Nat /\ t - c \in Nat /\ e = Append(d, t - c)
  BY <1>1 DEF Context, Moved
<1>3. Len(d) > 0 /\ Sums(d)[Len(d)] = c /\ Headed(x, s, d[1])
  BY <1>1 DEF Recording
<1>4. PICK v : v = t - c
  OBVIOUS
<1>5. Len(e) = Len(d) + 1 /\ e[1] = d[1] /\ Sums(e)[Len(e)] = Sums(d)[Len(d)] + v
  BY <1>2, <1>3, <1>4, SumsAppend
<1>6. Len(e) > 0 /\ Sums(e)[Len(e)] = t
  BY <1>2, <1>3, <1>4, <1>5, LenProperties
<1>7. Headed(y, s, d[1])
  BY <1>3 DEF Headed, Moved
<1> QED
  BY <1>1, <1>5, <1>6, <1>7 DEF Recording, Moved

\* After a flush the list of times starts with the beginning of the section.
LEMMA RecordingStarts ==
    ASSUME NEW x, Context(x), NEW y, y = [x EXCEPT !.tchn = <<x.curtime>>]
    PROVE  /\ Context(y) /\ y.curtime = x.curtime /\ y.blackouts = x.blackouts
           /\ \A s : Headed(x, s, x.curtime) => Recording(y, s)
           /\ \A s : Stopped(x, s) => Stopped(y, s)
<1>1. PICK c : c = x.curtime /\ c \in Nat
  BY DEF Context
<1>2. /\ DOMAIN y = ContextFields /\ y.tchn = <<c>> /\ y.curtime = c /\ y.vals = x.vals
      /\ y.initial = x.initial /\ y.header_only = x.header_only
      /\ y.locked = x.locked /\ y.truncpos = x.truncpos /\ y.blackouts = x.blackouts
  BY <1>1 DEF Context, ContextFields
<1>3. PICK d : d = <<c>>
  OBVIOUS
<1>4. d \in Seq(Nat) /\ Len(d) = 1 /\ d[1] = c
  BY <1>1, <1>3
<1>5. Sums(d)[Len(d)] = c /\ Len(d) > 0
  <2>1. PICK u : u = Sums(d)
    OBVIOUS
  <2>2. Len(d) > 0 => u[1] = d[1]
    BY <2>1, <1>4, SumsGrow
  <2> QED
    BY <2>1, <2>2, <1>4
<1>6. Context(y)
  BY <1>2, <1>3, <1>4 DEF Context
<1>7. ASSUME NEW s, Headed(x, s, c) PROVE Recording(y, s)
  <2>1. Headed(y, s, c)
    BY <1>2, <1>7 DEF Headed
  <2> QED
    BY <2>1, <1>2, <1>3, <1>4, <1>5 DEF Recording
<1>8. \A s : Stopped(x, s) => Stopped(y, s)
  BY <1>2 DEF Stopped
<1> QED
  BY <1>1, <1>2, <1>6, <1>7, <1>8

\* The first section is begun.
LEMMA RecordingBegins ==
    ASSUME NEW x, Context(x), Starting(x, <<>>), NEW t \in Nat,
           NEW z, z = FirstTime(x, t), NEW y, y = AddTime(z, t, 0),
           NEW e, e = SectionHeader([z EXCEPT !.initial = TRUE]), NEW s, s = Append(<<>>, e)
    PROVE  /\ Context(y) /\ y.curtime = t /\ y.blackouts = x.blackouts
           /\ IsList(s) /\ InOrder(s) /\ Recording(y, s)
           /\ Written(s, <<>>, 0, e) /\ e.tag = "skip"
<1>1. Begun(z, x, t)
  BY FirstTimeKeeps
<1>2. Context(z) /\ z.curtime = 0 /\ z.curtime <= t /\ z.firsttime = t
  BY <1>1 DEF Begun
<1>3. Moved(y, z, t)
  BY <1>2, AddTimeKeeps
<1>4. /\ Context(y) /\ y.curtime = t /\ y.blackouts = x.blackouts
      /\ y.tchn = Append(<<>>, t - 0)
      /\ y.initial = FALSE /\ y.header_only = TRUE /\ y.locked = FALSE /\ y.truncpos = 0
  BY <1>1, <1>3, Zenon DEF Begun, Moved, Starting
<1>5. DOMAIN e = SectionFields /\ e.tag = "skip" /\ e.known = FALSE /\ e.beg = t
  <2>1. PICK u : u = [z EXCEPT !.initial = TRUE]
    OBVIOUS
  <2>2. u.initial = TRUE /\ u.firsttime = t
    BY <2>1, <1>2 DEF Context, ContextFields
  <2> QED
    BY <2>1, <2>2, HeaderMade
<1>6. IsList(<<>>) /\ Len(<<>>) = 0
  <2>1. <<>> \in Seq({}) /\ Len(<<>>) = 0
    OBVIOUS
  <2> QED
    BY <2>1 DEF IsList
<1>7. Written(s, <<>>, 0, e)
  <2>1. Written(s, <<>>, Len(<<>>), e)
    BY <1>6, AppendWrites
  <2> QED
    BY <2>1, <1>6
<1>8. IsList(s) /\ Len(s) = 1 /\ s[1] = e
  BY <1>7 DEF Written
<1>9. InOrder(s)
  BY <1>5, <1>8 DEF InOrder, IsSection
<1>10. Len(y.tchn) > 0 /\ y.tchn[1] = t /\ Sums(y.tchn)[Len(y.tchn)] = y.curtime
  <2>1. PICK d, g : d = <<>> /\ g = Append(d, t)
    OBVIOUS
  <2>2. d \in Seq(Nat) /\ Len(d) = 0
    BY <2>1
  <2>3. g = Append(d, t) /\ t \in Nat
    BY <2>1
  <2>4. Len(g) = Len(d) + 1
    BY ONLY <2>2, <2>3, SumsAppend
  <2>5. Len(d) = 0 => g[1] = t /\ Sums(g)[Len(g)] = t
    <3>1. g \in Seq(Nat) /\ Len(g) = 1 /\ g[1] = t
      BY ONLY <2>2, <2>3, <2>4, AppendProperties
    <3>2. Len(g) > 0 => Sums(g)[1] = g[1]
      BY ONLY <3>1, SumsGrow
    <3> QED
      BY <3>1, <3>2
  <2>6. Len(g) > 0 /\ g[1] = t /\ Sums(g)[Len(g)] = t
    BY <2>2, <2>4, <2>5
  <2>7. y.tchn = g
    BY <2>1, <1>4
  <2> QED
    BY <2>6, <2>7, <1>4
<1>11. Recording(y, s)
  <2>1. Known(s, 0) /\ Before(s, 0, t)
    BY DEF Known, Before
  <2> QED
    BY <2>1, <1>4, <1>5, <1>8, <1>10 DEF Recording, Headed
<1> QED
  BY <1>4, <1>5, <1>7, <1>8, <1>9, <1>11

LEMMA TimeAfterFlushKeeps ==
    ASSUME BlocksInv, TimeAfterFlush, UNCHANGED now
    PROVE  BlocksInv'
<1>1. PICK z, t : z = [xc EXCEPT !.tchn = <<xc.curtime>>] /\ t = tim
  OBVIOUS
<1>2. /\ Context(xc) /\ t \in Nat /\ xc.curtime <= t /\ t <= CycleTime(conf, now)
      /\ Headed(xc, file.blocks, xc.curtime) \/ Stopped(xc, file.blocks)
      /\ xc' = AddTime(z, t, 1) /\ pc' = "run" /\ tim' = 0
  BY <1>1 DEF BlocksInv, TimeAfterFlush, Phase, Timed
<1>3. /\ Context(z) /\ z.curtime = xc.curtime /\ z.blackouts = xc.blackouts
      /\ Recording(z, file.blocks) \/ Stopped(z, file.blocks)
  BY <1>1, <1>2, RecordingStarts
<1>4. z.curtime <= t
  BY <1>2, <1>3
<1>5. Moved(xc', z, t)
  BY <1>2, <1>3, <1>4, AddTimeKeeps
<1>6. Recording(xc', file.blocks) \/ Stopped(xc', file.blocks)
  <2>1. Recording(z, file.blocks) => Recording(xc', file.blocks)
    BY <1>2, <1>3, <1>4, <1>5, RecordingGoesOn
  <2>2. Stopped(z, file.blocks) => Stopped(xc', file.blocks)
    BY <1>5 DEF Stopped, Moved
  <2> QED
    BY <2>1, <2>2, <1>3
<1>7. Phase("run", xc', file.blocks)
  BY <1>6 DEF Phase, ClosePhases, LatePhases
<1>8. Timed("run", xc', 0, CycleTime(conf, now))
  BY <1>2, <1>5 DEF Timed, Moved
<1>9. Interrupting("run", xc', file.blocks)
  BY DEF BlocksInv, TimeAfterFlush, Interrupting, LatePhases
<1>10. Context(xc')
  BY <1>5 DEF Moved
<1> QED
  BY <1>2, <1>7, <1>8, <1>9, <1>10 DEF BlocksInv, TimeAfterFlush

LEMMA BeginCycleKeeps ==
    ASSUME BlocksInv, BeginCycle
    PROVE  BlocksInv'
<1>1. PICK T, w : T = (now + 1) * conf.step /\ w = CycleTime(conf, now)
  OBVIOUS
<1>2. /\ T \in Nat /\ w \in Nat /\ w <= T
      /\ now' \in Nat /\ conf \in Configs
      /\ CycleTime(conf, now') = T
  BY <1>1, CycleTimes DEF BlocksInv, BeginCycle
<1>3. /\ Context(xc) /\ xc.curtime \in Nat /\ xc.curtime <= w /\ pc = "run" /\ tim \in Nat
      /\ EmitTimeChange(T)
      /\ DOMAIN file = {"hdr", "blocks"}
      /\ IsList(file.blocks) /\ InOrder(file.blocks) /\ Interrupting("run", xc, file.blocks)
      /\ Starting(xc, file.blocks) \/ Recording(xc, file.blocks) \/ Stopped(xc, file.blocks)
  BY <1>1 DEF BlocksInv, BeginCycle, EmitTimeChange, Phase, Timed, Context
<1>4. xc.curtime <= T
  BY <1>2, <1>3
<1>5. "run" \notin LatePhases /\ "flush_tag" \notin LatePhases /\ "run" # "blackout_tag" /\ "flush_tag" # "blackout_tag"
  BY DEF LatePhases
<1>6. CASE EmitFirstTime(T)
  <2>1. Starting(xc, file.blocks)
    BY <1>3, <1>6, Zenon DEF EmitFirstTime, Recording, Headed, Stopped
  <2>2. file.blocks = <<>> /\ Starting(xc, <<>>)
    BY <2>1 DEF Starting
  <2>3. PICK z, y, e, s : /\ z = FirstTime(xc, T) /\ y = AddTime(z, T, 0)
                          /\ e = SectionHeader([z EXCEPT !.initial = TRUE])
                          /\ s = Append(<<>>, e)
    OBVIOUS
  <2>4. xc' = y /\ file'.blocks = s /\ DOMAIN file' = {"hdr", "blocks"} /\ UNCHANGED <<conf, pc, tim>>
    BY <2>2, <2>3, <1>6 DEF EmitFirstTime
  <2>5. /\ Context(y) /\ y.curtime = T
        /\ IsList(s) /\ InOrder(s) /\ Recording(y, s)
        /\ Written(s, <<>>, 0, e) /\ e.tag = "skip"
    BY <2>2, <2>3, <1>2, <1>3, RecordingBegins
  <2>6. Interrupting("run", y, s)
    BY <2>2, <2>5, <1>3, <1>5, StillNone
  <2>7. Phase("run", y, s)
    BY <2>5 DEF Phase, ClosePhases, LatePhases
  <2>8. Timed("run", y, tim, T)
    BY <2>5, <1>2 DEF Timed
  <2> QED
    BY <2>4, <2>5, <2>6, <2>7, <2>8, <1>2, <1>3 DEF BlocksInv
<1>7. CASE EmitNextTime(T)
  <2>1. Recording(xc, file.blocks)
    BY <1>3, <1>7, Zenon DEF EmitNextTime, Starting, Stopped
  <2>2. CASE xc' = AddTime(xc, T, xc.tchn_idx + 1) /\ UNCHANGED <<file, pc, tim>>
    <3>1. PICK i : i = xc.tchn_idx + 1
      OBVIOUS
    <3>2. Moved(xc', xc, T)
      BY <3>1, <2>2, <1>2, <1>3, <1>4, AddTimeKeeps
    <3>3. Recording(xc', file.blocks)
      BY <3>2, <2>1, <1>2, <1>3, <1>4, RecordingGoesOn
    <3>4. Phase("run", xc', file.blocks)
      BY <3>3 DEF Phase, ClosePhases, LatePhases
    <3>5. Timed("run", xc', tim, T)
      BY <3>2, <1>2 DEF Timed, Moved
    <3>6. Interrupting("run", xc', file.blocks)
      BY <1>3 DEF Interrupting, LatePhases
    <3>7. Context(xc')
      BY <3>2 DEF Moved
    <3> QED
      BY <3>4, <3>5, <3>6, <3>7, <2>2, <1>2, <1>3, <1>7 DEF BlocksInv, EmitNextTime
  <2>3. CASE FlushBody(xc, file) /\ tim' = T
    <3>1. PICK s, e, t, y : /\ s = file.blocks /\ e = SectionOf(xc, Last(s), conf.pack)
                            /\ t = Replace(s, e) /\ y = AfterFlush(xc)
      OBVIOUS
    <3>2. xc' = y /\ file'.blocks = t /\ DOMAIN file' = {"hdr", "blocks"} /\ pc' = "flush_tag" /\ tim' = T
      BY <3>1, <2>3, <1>3 DEF FlushBody
    <3>3. PICK p : p = conf.pack
      OBVIOUS
    <3>4. e = SectionOf(xc, Last(s), p) /\ IsList(s) /\ InOrder(s) /\ Recording(xc, s)
      BY <3>1, <3>3, <2>1, <1>3
    <3>5. /\ Context(y) /\ IsList(t) /\ InOrder(t)
          /\ Sectioned(y, t)
          /\ Written(t, s, Len(s) - 1, e) /\ e.tag = "skip"
      BY <3>1, <3>4, <1>3, SectionWritten
    <3>6. y.curtime = xc.curtime
      <4>1. AfterSection(y, xc)
        BY <3>1, <1>3, AfterFlushKeeps
      <4> QED
        BY <4>1 DEF AfterSection
    <3>7. Interrupting("flush_tag", y, t)
      BY <3>1, <3>5, <1>3, <1>5, StillNone
    <3>8. Phase("flush_tag", y, t)
      BY <3>5 DEF Phase, ClosePhases, LatePhases
    <3>9. Timed("flush_tag", y, T, T)
      BY <3>6, <1>2, <1>4 DEF Timed
    <3> QED
      BY <3>2, <3>5, <3>7, <3>8, <3>9, <1>2, <1>3, <1>7 DEF BlocksInv, EmitNextTime
  <2> QED
    BY <2>2, <2>3, <1>7 DEF EmitNextTime
<1>8. CASE xc.locked /\ UNCHANGED wvars
  <2>1. Timed("run", xc, tim, T)
    BY <1>4 DEF Timed
  <2> QED
    BY <2>1, <1>2, <1>3, <1>8 DEF BlocksInv, wvars
<1> QED
  BY <1>3, <1>6, <1>7, <1>8 DEF EmitTimeChange

LEMMA EmitVarKeeps ==
    ASSUME BlocksInv, EmitVar
    PROVE  BlocksInv'
<1>1. PICK v : EmitValueChange(todo, v)
  BY DEF EmitVar
<1>2. xc' = Emitted(xc, todo, v) /\ UNCHANGED <<conf, file, pc, tim, now>>
  BY <1>1 DEF EmitValueChange, EmitVar
<1>3. Alike(xc', xc)
  BY <1>2, EmittedAlike DEF BlocksInv, Context
<1>4. /\ Context(xc) /\ Phase(pc, xc, file.blocks) /\ Timed(pc, xc, tim, CycleTime(conf, now))
      /\ Interrupting(pc, xc, file.blocks)
  BY DEF BlocksInv
<1>5. /\ Context(xc') /\ Phase(pc, xc', file.blocks) /\ Timed(pc, xc', tim, CycleTime(conf, now))
      /\ Interrupting(pc, xc', file.blocks)
  BY <1>3, <1>4, AlikeKeeps
<1> QED
  BY <1>2, <1>5 DEF BlocksInv

LEMMA SuspendKeeps ==
    ASSUME BlocksInv, Suspend
    PROVE  BlocksInv'
<1>0. PICK on \in BOOLEAN : xc' = [xc EXCEPT !.blackouts = Append(@, [tim |-> xc.curtime, active |-> on])]
  <2>1. PICK on : on = (Len(xc.blackouts) = 1)
    BY Zenon
  <2>2. on \in BOOLEAN
    BY <2>1
  <2>3. xc' = [xc EXCEPT !.blackouts = Append(@, [tim |-> xc.curtime, active |-> on])]
    BY <2>1, Zenon DEF Suspend, EmitDumpActive
  <2> QED
    BY <2>2, <2>3, Zenon
<1>1. PICK i : i = [tim |-> xc.curtime, active |-> on] /\ xc' = [xc EXCEPT !.blackouts = Append(@, i)]
  BY <1>0, Zenon
<1>2. pc = "run" /\ UNCHANGED <<conf, file, pc, tim, now>>
  BY DEF Suspend, EmitDumpActive
<1>3. Context(xc) /\ Phase("run", xc, file.blocks) /\ Timed("run", xc, tim, CycleTime(conf, now))
      /\ Interrupting("run", xc, file.blocks)
  BY <1>2 DEF BlocksInv
<1>4. /\ DOMAIN xc' = ContextFields /\ xc'.vals = xc.vals
      /\ xc'.initial = xc.initial /\ xc'.curtime = xc.curtime /\ xc'.tchn = xc.tchn
      /\ xc'.header_only = xc.header_only /\ xc'.skip_header = xc.skip_header /\ xc'.locked = xc.locked
      /\ xc'.truncpos = xc.truncpos /\ xc'.blackouts = Append(xc.blackouts, i)
  BY <1>1, <1>3 DEF Context, ContextFields
<1>5. Context(xc')
  <2>1. i \in Interruption
    BY <1>1, <1>3, Zenon DEF Interruption, Context
  <2>2. xc'.blackouts \in Seq(Interruption)
    BY <2>1, <1>3, <1>4 DEF Context
  <2> QED
    BY <2>2, <1>3, <1>4 DEF Context
<1>6. Phase("run", xc', file.blocks)
  BY <1>3, <1>4 DEF Phase, Starting, Recording, Headed, Stopped, ClosePhases, LatePhases
<1>7. Timed("run", xc', tim, CycleTime(conf, now))
  BY <1>3, <1>4 DEF Timed
<1>8. Interrupting("run", xc', file.blocks)
  BY <1>3 DEF Interrupting, LatePhases
<1> QED
  BY <1>2, <1>5, <1>6, <1>7, <1>8 DEF BlocksInv

-----------------------------------------------------------------------------
(* The steps that keep the invariant: the end of the trace begins.         *)

\* What an end of trace starts from does the same as before, but for the header.
LEMMA SkipHeader ==
    ASSUME NEW x, Context(x), NEW y, y = [x EXCEPT !.skip_header = TRUE]
    PROVE  /\ Context(y) /\ y.skip_header = TRUE /\ y.curtime = x.curtime /\ y.vchg = x.vchg
           /\ \A s : Recording(x, s) => Recording(y, s)
           /\ \A s : Stopped(x, s) => Stopped(y, s)
<1>1. /\ DOMAIN y = ContextFields /\ y.vals = x.vals /\ y.skip_header = TRUE
      /\ y.initial = x.initial /\ y.curtime = x.curtime /\ y.tchn = x.tchn
      /\ y.header_only = x.header_only /\ y.locked = x.locked
      /\ y.truncpos = x.truncpos /\ y.blackouts = x.blackouts /\ y.vchg = x.vchg
  BY DEF Context, ContextFields
<1>2. Context(y)
  BY <1>1 DEF Context
<1>3. \A s : Recording(x, s) => Recording(y, s)
  BY <1>1 DEF Recording, Headed
<1>4. \A s : Stopped(x, s) => Stopped(y, s)
  BY <1>1 DEF Stopped
<1> QED
  BY <1>1, <1>2, <1>3, <1>4

\* The last section is written, or the file stays without one.
CloseWith(x, f) ==
    IF NothingToFlush(x) THEN xc' = x /\ file' = f /\ pc' = "geom" ELSE FlushBody(x, f)

LEMMA CloseWithKeeps ==
    ASSUME BlocksInv, pc = "run",
           NEW x, Context(x), x.skip_header = TRUE, x.curtime <= CycleTime(conf, now),
           NEW f, DOMAIN f = {"hdr", "blocks"}, IsList(f.blocks), InOrder(f.blocks),
           Recording(x, f.blocks), Interrupting("run", x, f.blocks),
           NothingToFlush(x) => Unfinished(f.blocks),
           CloseWith(x, f), UNCHANGED <<conf, tim, now>>
    PROVE  BlocksInv'
<1>1. conf \in Configs /\ now \in Nat \cup {-1} /\ tim \in Nat
  BY DEF BlocksInv
<1>2. "run" \notin LatePhases /\ "flush_tag" \notin LatePhases /\ "flush_tag" # "blackout_tag"
  BY DEF LatePhases
<1>3. CASE NothingToFlush(x)
  <2>1. xc' = x /\ file' = f /\ pc' = "geom"
    BY <1>3 DEF CloseWith
  <2>2. Phase("geom", x, f.blocks)
    BY <1>3 DEF Phase, Closing, TagPhases, ClosePhases, LatePhases
  <2>3. Interrupting("geom", x, f.blocks)
    BY DEF Interrupting, LatePhases
  <2>4. Timed("geom", x, tim, CycleTime(conf, now))
    BY DEF Timed
  <2> QED
    BY <1>1, <2>1, <2>2, <2>3, <2>4 DEF BlocksInv
<1>4. CASE ~NothingToFlush(x)
  <2>1. PICK s, p, e, t, y : /\ s = f.blocks /\ p = conf.pack /\ e = SectionOf(x, Last(s), p)
                             /\ t = Replace(s, e) /\ y = AfterFlush(x)
    OBVIOUS
  <2>2. xc' = y /\ file'.blocks = t /\ DOMAIN file' = {"hdr", "blocks"} /\ pc' = "flush_tag"
    BY <1>4, <2>1 DEF CloseWith, FlushBody
  <2>3. IsList(s) /\ InOrder(s) /\ Recording(x, s) /\ Interrupting("run", x, s)
    BY <2>1
  <2>4. /\ Context(y) /\ IsList(t) /\ InOrder(t)
        /\ Sectioned(y, t)
        /\ Written(t, s, Len(s) - 1, e) /\ e.tag = "skip"
    BY <2>1, <2>3, SectionWritten
  <2>5. y.curtime = x.curtime /\ y.skip_header = x.skip_header
    <3>1. AfterSection(y, x)
      BY <2>1, AfterFlushKeeps
    <3> QED
      BY <3>1 DEF AfterSection
  <2>6. Interrupting("flush_tag", y, t)
    BY <2>3, <2>4, <1>2, StillNone
  <2>7. Phase("flush_tag", y, t)
    BY <2>4 DEF Phase, ClosePhases, LatePhases
  <2>8. Timed("flush_tag", y, tim, CycleTime(conf, now))
    BY <2>5 DEF Timed
  <2> QED
    BY <1>1, <2>2, <2>4, <2>6, <2>7, <2>8 DEF BlocksInv
<1> QED
  BY <1>3, <1>4

LEMMA TruncateKeeps ==
    ASSUME BlocksInv, pc = "run", CloseTruncate, UNCHANGED <<conf, tim, now>>
    PROVE  BlocksInv'
<1>1. PICK s, t : s = file.blocks /\ t = file'.blocks
  OBVIOUS
<1>2. /\ Context(xc) /\ IsList(s) /\ InOrder(s) /\ Interrupting("run", xc, s)
      /\ Timed("run", xc, tim, CycleTime(conf, now))
      /\ DOMAIN file' = {"hdr", "blocks"}
      /\ t = SubSeq(s, 1, xc.truncpos) /\ xc.truncpos # 0
      /\ xc' = [xc EXCEPT !.header_only = FALSE] /\ pc' = "geom"
  BY <1>1 DEF BlocksInv, CloseTruncate
<1>3. Recording(xc, s)
  <2>1. Starting(xc, s) \/ Recording(xc, s) \/ Stopped(xc, s)
    BY <1>1 DEF BlocksInv, Phase
  <2>2. ~xc.initial
    BY DEF CloseTruncate
  <2> QED
    BY <2>1, <2>2, Zenon DEF Starting, Stopped
<1>4. PICK n, m : n = Len(s) /\ n \in Nat /\ n > 0 /\ m = n - 1
  BY <1>2, <1>3, ListLength DEF Recording, Headed
<1>5. m \in Nat /\ m <= n /\ xc.truncpos = m /\ Known(s, m) /\ m # 0
  BY <1>2, <1>3, <1>4 DEF Recording, Headed
<1>6. IsList(t) /\ Len(t) = m /\ \A k \in 1 .. m : t[k] = s[k]
  <2>1. t = SubSeq(s, 1, m) /\ m \in Nat /\ m <= Len(s) /\ IsList(s)
    BY <1>2, <1>4, <1>5
  <2> QED
    BY ONLY <2>1, ListPrefix
<1>7. InOrder(t)
  BY <1>2, <1>4, <1>5, <1>6, PrefixInOrder
<1>8. Known(t, m)
  BY <1>5, <1>6 DEF Known
<1>9. /\ DOMAIN xc' = ContextFields /\ xc'.vals = xc.vals /\ xc'.header_only = FALSE
      /\ xc'.initial = xc.initial /\ xc'.curtime = xc.curtime /\ xc'.tchn = xc.tchn
      /\ xc'.locked = xc.locked /\ xc'.truncpos = xc.truncpos /\ xc'.blackouts = xc.blackouts
  BY <1>2 DEF Context, ContextFields
<1>10. Context(xc')
  <2>1. xc'.header_only \in BOOLEAN /\ xc'.initial \in BOOLEAN /\ xc'.locked \in BOOLEAN
    BY <1>2, <1>9, Zenon DEF Context
  <2> QED
    BY <2>1, <1>2, <1>9, Zenon DEF Context
<1>11. Phase("geom", xc', t)
  BY <1>6, <1>8 DEF Phase, Closing, TagPhases, ClosePhases, LatePhases
<1>12. Interrupting("geom", xc', t)
  <2>1. \A k \in 1 .. m : t[k].tag # "blackout"
    BY <1>2, <1>4, <1>5, <1>6 DEF Interrupting, LatePhases
  <2> QED
    BY <2>1, <1>6 DEF Interrupting, LatePhases
<1>13. Timed("geom", xc', tim, CycleTime(conf, now))
  BY <1>2, <1>9 DEF Timed
<1> QED
  BY <1>1, <1>2, <1>6, <1>7, <1>10, <1>11, <1>12, <1>13 DEF BlocksInv

LEMMA CloseFlushKeeps ==
    ASSUME BlocksInv, pc = "run", CloseFlush, UNCHANGED <<conf, tim, now>>
    PROVE  BlocksInv'
<1>1. PICK s : s = file.blocks
  OBVIOUS
<1>2. /\ Context(xc) /\ IsList(s) /\ InOrder(s) /\ Interrupting("run", xc, s)
      /\ Timed("run", xc, tim, CycleTime(conf, now))
      /\ DOMAIN file = {"hdr", "blocks"} /\ conf \in Configs /\ now \in Nat \cup {-1} /\ tim \in Nat
      /\ Starting(xc, s) \/ Recording(xc, s) \/ Stopped(xc, s)
  BY <1>1 DEF BlocksInv, Phase
<1>3. PICK w : w = CycleTime(conf, now) /\ w \in Nat /\ 0 <= w /\ xc.curtime <= w
  BY <1>2, CycleTimes DEF Timed
<1>4. CASE Starting(xc, s)
  <2>1. s = <<>> /\ Starting(xc, <<>>) /\ xc.initial /\ ~xc.locked
    BY <1>4, Zenon DEF Starting
  <2>2. PICK u, x : u = Mockup(xc) /\ x = [u EXCEPT !.skip_header = TRUE]
    OBVIOUS
  <2>3. PICK f : f = MockupFile(xc)
    OBVIOUS
  <2>4. CloseWith(x, f)
    BY <2>1, <2>2, <2>3, Zenon DEF CloseFlush, CloseWith
  <2>5. PICK o : o \in Nat /\ o = 0
    OBVIOUS
  <2>6. PICK z, y, e, b : /\ z = FirstTime(xc, o) /\ y = AddTime(z, o, 0)
                          /\ e = SectionHeader([z EXCEPT !.initial = TRUE])
                          /\ b = Append(<<>>, e)
    OBVIOUS
  <2>7. /\ Context(y) /\ y.curtime = o /\ y.blackouts = xc.blackouts
        /\ IsList(b) /\ InOrder(b) /\ Recording(y, b)
        /\ Written(b, <<>>, 0, e) /\ e.tag = "skip"
    BY <2>1, <2>5, <2>6, <1>2, RecordingBegins
  <2>8. f.blocks = b /\ DOMAIN f = {"hdr", "blocks"}
    <3>1. b = <<e>>
      BY <2>6
    <3> QED
      BY <3>1, <2>3, <2>5, <2>6 DEF MockupFile
  <2>9. Alike(u, y)
    <3>1. Alike(u, MockupStart(xc))
      BY <2>2, <1>2, MockupAlike
    <3> QED
      BY <3>1, <2>5, <2>6 DEF MockupStart
  <2>10. Context(u) /\ Recording(u, b) /\ u.curtime = o
    BY <2>7, <2>9 DEF Alike, Context, Recording, Headed
  <2>11. Context(x) /\ x.skip_header = TRUE /\ x.curtime = u.curtime /\ Recording(x, b)
    BY <2>2, <2>10, SkipHeader
  <2>12. Unfinished(b)
    BY <2>7, <2>10 DEF Unfinished, Written, Recording, Headed
  <2>13. Interrupting("run", x, b)
    <3>1. "run" \notin LatePhases /\ "run" # "blackout_tag"
      BY DEF LatePhases
    <3>2. Interrupting("run", xc, <<>>) /\ e.tag # "blackout"
      BY <2>1, <2>7, <1>2
    <3> QED
      BY <3>1, <3>2, <2>7, StillNone
  <2>14. x.curtime <= CycleTime(conf, now)
    BY <2>5, <2>10, <2>11, <1>3
  <2>15. IsList(f.blocks) /\ InOrder(f.blocks) /\ Recording(x, f.blocks) /\ Interrupting("run", x, f.blocks)
         /\ Unfinished(f.blocks)
    BY <2>7, <2>8, <2>11, <2>12, <2>13
  <2> QED
    BY <2>4, <2>8, <2>11, <2>14, <2>15, CloseWithKeeps
<1>5. CASE Recording(xc, s)
  <2>1. ~xc.initial /\ ~xc.locked /\ xc.header_only
    BY <1>5, Zenon DEF Recording, Headed
  <2>2. PICK x : x = [xc EXCEPT !.skip_header = TRUE]
    OBVIOUS
  <2>3. CloseWith(x, file)
    BY <2>1, <2>2, Zenon DEF CloseFlush, CloseWith
  <2>4. Context(x) /\ x.skip_header = TRUE /\ x.curtime = xc.curtime /\ Recording(x, s) /\ x.vchg = xc.vchg
    BY <2>2, <1>2, <1>5, SkipHeader
  <2>5. NothingToFlush(x) => Unfinished(s)
    <3>1. SUFFICES ASSUME NothingToFlush(x) PROVE Unfinished(s)
      BY <3>1
    <3>2. xc.truncpos = 0
      BY <3>1, <2>1, <2>4 DEF CloseFlush, NothingToFlush
    <3>3. Len(s) \in Nat
      BY <1>2, ListLength
    <3>4. Len(s) = 1
      <4>1. PICK n : n = Len(s)
        OBVIOUS
      <4>2. xc.truncpos = n - 1 /\ n > 0
        BY <4>1, <1>5 DEF Recording, Headed
      <4> QED
        BY <4>1, <4>2, <3>2, <3>3
    <3> QED
      BY <3>4, <1>5 DEF Unfinished, Recording, Headed
  <2>6. Interrupting("run", x, s)
    BY <1>2 DEF Interrupting, LatePhases
  <2>7. x.curtime <= CycleTime(conf, now)
    BY <2>4, <1>3
  <2> QED
    BY <2>3, <2>4, <2>5, <2>6, <2>7, <1>1, <1>2, CloseWithKeeps
<1>6. CASE Stopped(xc, s)
  <2>1. xc.initial /\ xc.locked
    BY <1>6, Zenon DEF Stopped
  <2>2. PICK x : x = [xc EXCEPT !.skip_header = TRUE]
    OBVIOUS
  <2>3. xc' = x /\ file' = file /\ pc' = "geom"
    BY <2>1, <2>2, Zenon DEF CloseFlush
  <2>4. Context(x) /\ x.curtime = xc.curtime
    BY <2>2, <1>2, SkipHeader
  <2>5. Phase("geom", x, s)
    BY <1>6 DEF Stopped, Phase, Closing, TagPhases, ClosePhases, LatePhases
  <2>6. Interrupting("geom", x, s)
    BY <1>2 DEF Interrupting, LatePhases
  <2>7. Timed("geom", x, tim, CycleTime(conf, now))
    BY <2>4, <1>3 DEF Timed
  <2> QED
    BY <2>3, <2>4, <2>5, <2>6, <2>7, <1>1, <1>2 DEF BlocksInv
<1> QED
  BY <1>2, <1>4, <1>5, <1>6

LEMMA EndTraceKeeps ==
    ASSUME BlocksInv, EndTrace
    PROVE  BlocksInv'
<1>1. pc = "run" /\ (CloseTruncate \/ CloseFlush) /\ UNCHANGED <<conf, tim, now>>
  BY DEF EndTrace, Close
<1> QED
  BY <1>1, TruncateKeeps, CloseFlushKeeps

-----------------------------------------------------------------------------
(* The steps that keep the invariant: the blocks of the end of the file.   *)

AtEnd(t, m, e) ==
    /\ IsList(t) /\ InOrder(t) /\ Len(t) = m + 1 /\ t[Len(t)] = e
    /\ Unfinished(t) \/ Known(t, m)
    /\ e.known = TRUE /\ e.tag \in ScanTags => Unfinished(t) \/ Known(t, Len(t))

LEMMA WrittenAtEnd ==
    ASSUME NEW s, InOrder(s), NEW m, NEW e, NEW t, Written(t, s, m, e), ~IsSection(e),
           Unfinished(s) \/ Known(s, m), Unfinished(s) => m > 0
    PROVE  AtEnd(t, m, e)
<1>1. InOrder(t)
  BY WrittenInOrder
<1>2. IsList(t) /\ Len(t) = m + 1 /\ t[m + 1] = e /\ m \in Nat /\ \A k \in 1 .. m : t[k] = s[k]
  BY DEF Written
<1>3. Unfinished(s) => Unfinished(t)
  BY <1>2 DEF Unfinished
<1>4. Known(s, m) => Known(t, m) /\ (e.known = TRUE /\ e.tag \in ScanTags => Known(t, m + 1))
  BY WrittenKnown
<1> QED
  BY <1>1, <1>2, <1>3, <1>4 DEF AtEnd

\* A block under the tag "skip".
LEMMA AppendBlockKeeps ==
    ASSUME BlocksInv, UNCHANGED now, NEW here, NEW e, NEW next, AppendBlock(here, e, next),
           <<here, next>> \in {<<"geom", "geom_tag">>, <<"blackout", "blackout_tag">>,
                               <<"hier", "hier_length">>},
           {"tag", "known"} \subseteq DOMAIN e, e.tag = "skip",
           next # "hier_length" => e.known = TRUE,
           next = "blackout_tag" =>
              "blackouts" \in DOMAIN e /\ e.blackouts = Differences(xc.blackouts)
    PROVE  BlocksInv'
<1>1. PICK s, t, n : s = file.blocks /\ t = file'.blocks /\ n = Len(s)
  OBVIOUS
<1>2. /\ Context(xc) /\ IsList(s) /\ InOrder(s) /\ Interrupting(here, xc, s)
      /\ Timed(here, xc, tim, CycleTime(conf, now))
      /\ DOMAIN file' = {"hdr", "blocks"} /\ t = Append(s, e) /\ pc' = next /\ pc = here
      /\ UNCHANGED <<conf, xc, tim>>
      /\ Phase(here, xc, s)
  BY <1>1 DEF BlocksInv, AppendBlock
<1>3. /\ here \in ClosePhases /\ here \notin TagPhases /\ here # "hier_length"
      /\ next \in ClosePhases /\ next # "geom" /\ next # "time" /\ next # "flush_tag" /\ next # "flush_next"
      /\ next = "hier_length" => here = "hier"
      /\ next \in LatePhases => next = "hier_length"
  BY DEF ClosePhases, LatePhases, TagPhases
<1>4. Closing(here, s)
  BY <1>2, <1>3 DEF Phase
<1>5. n \in Nat /\ (Unfinished(s) \/ Known(s, n)) /\ (Unfinished(s) => n > 0) /\ (here # "geom" => n > 0)
  BY <1>1, <1>2, <1>3, <1>4, ListLength DEF Closing, Unfinished
<1>6. Written(t, s, n, e)
  BY <1>1, <1>2, AppendWrites
<1>7. ~IsSection(e) /\ e.tag \in ScanTags
  BY DEF IsSection, ScanTags
<1>8. /\ IsList(t) /\ InOrder(t) /\ Len(t) = n + 1 /\ t[Len(t)] = e
      /\ Unfinished(t) \/ Known(t, n)
      /\ e.known = TRUE => Unfinished(t) \/ Known(t, Len(t))
  <2>1. AtEnd(t, n, e)
    BY <1>2, <1>5, <1>6, <1>7, WrittenAtEnd
  <2> QED
    BY <2>1, <1>7 DEF AtEnd
<1>9. Closing(next, t)
  <2>1. CASE next = "hier_length"
    <3>1. n > 0 /\ Len(t) > 1 /\ Len(t) - 1 = n
      BY <2>1, <1>3, <1>5, <1>8
    <3> QED
      BY <3>1, <2>1, <1>8 DEF Closing, TagPhases
  <2>2. CASE next # "hier_length"
    <3>1. Len(t) > 0 /\ e.known = TRUE
      BY <2>2, <1>5, <1>8
    <3> QED
      BY <3>1, <2>2, <1>8 DEF Closing
  <2> QED
    BY <2>1, <2>2
<1>10. Phase(next, xc, t)
  BY <1>3, <1>9 DEF Phase, ClosePhases, LatePhases
<1>11. Timed(next, xc, tim, CycleTime(conf, now))
  BY <1>2, <1>3 DEF Timed
<1>12. Interrupting(next, xc, t)
  <2>1. \A k \in 1 .. Len(t) : (k \in 1 .. n /\ t[k] = s[k]) \/ t[k] = e
    BY <1>5, <1>6, <1>8 DEF Written
  <2>2. \A k \in 1 .. n : k \in 1 .. Len(t) /\ t[k] = s[k]
    BY <1>5, <1>6, <1>8 DEF Written
  <2>3. \A k \in 1 .. Len(t) :
           t[k].tag = "blackout" => next \in LatePhases /\ t[k].blackouts = Differences(xc.blackouts)
    <3>1. here \in LatePhases => next \in LatePhases
      BY DEF LatePhases
    <3> QED
      BY <3>1, <2>1, <1>1, <1>2 DEF Interrupting
  <2>4. next \in LatePhases /\ xc.blackouts # <<>> => \E k \in 1 .. Len(t) : t[k].tag = "blackout"
    <3>1. next \in LatePhases => here \in LatePhases
      BY <1>3 DEF LatePhases
    <3> QED
      BY <3>1, <2>2, <1>1, <1>2 DEF Interrupting
  <2> QED
    BY <2>3, <2>4, <1>8 DEF Interrupting
<1> QED
  BY <1>1, <1>2, <1>8, <1>10, <1>11, <1>12 DEF BlocksInv

\* The tag of the last block.
LEMMA TagBlockKeeps ==
    ASSUME BlocksInv, UNCHANGED now, NEW here, NEW tag, NEW next, TagBlock(here, tag, next),
           here \in TagPhases, tag \in ScanTags, tag # "vcdata",
           next \in ClosePhases, next \notin {"geom", "hier_length", "blackout_tag"} \cup TagPhases,
           tag = "blackout" <=> here = "blackout_tag",
           here = "hier_tag" => next \in LatePhases,
           here = "blackout_tag" => next \in LatePhases,
           here = "geom_tag" /\ next \in LatePhases => xc.blackouts = <<>>
    PROVE  BlocksInv'
<1>1. PICK s, t : s = file.blocks /\ t = file'.blocks
  OBVIOUS
<1>2. /\ Context(xc) /\ IsList(s) /\ InOrder(s) /\ Interrupting(here, xc, s)
      /\ Timed(here, xc, tim, CycleTime(conf, now))
      /\ DOMAIN file' = {"hdr", "blocks"} /\ pc' = next /\ pc = here
      /\ t = Replace(s, [Last(s) EXCEPT !.tag = tag])
      /\ UNCHANGED <<conf, xc, tim>>
      /\ Phase(here, xc, s)
  BY <1>1 DEF BlocksInv, TagBlock
<1>3. /\ here \in ClosePhases /\ here # "hier_length" /\ here # "geom"
      /\ next # "time" /\ next # "flush_tag" /\ next # "flush_next" /\ next # "hier_length" /\ next # "geom"
      /\ next \notin TagPhases /\ next # "blackout_tag"
  BY DEF ClosePhases, LatePhases, TagPhases
<1>4. Closing(here, s)
  BY <1>2, <1>3 DEF Phase
<1>5. PICK n, m : n = Len(s) /\ n \in Nat /\ n > 0 /\ m = n - 1 /\ m \in Nat
  BY <1>2, <1>3, <1>4, ListLength DEF Closing
<1>6. PICK h, e : h = s[n] /\ e = [h EXCEPT !.tag = tag]
  OBVIOUS
<1>7. {"tag", "known"} \subseteq DOMAIN h /\ h.known = TRUE /\ h.tag = "skip"
      /\ (Unfinished(s) \/ Known(s, n))
  BY <1>3, <1>4, <1>5, <1>6 DEF Closing
<1>8. e.tag = tag /\ e.known = TRUE /\ ("blackouts" \in DOMAIN h => e.blackouts = h.blackouts)
  BY <1>6, <1>7
<1>9. (Unfinished(s) \/ Known(s, m)) /\ (Unfinished(s) => m > 0)
  <2>1. Known(s, n) => Known(s, m)
    BY <1>5 DEF Known
  <2>2. Unfinished(s) => n # 1
    BY <1>5, <1>6, <1>7 DEF Unfinished
  <2> QED
    BY <2>1, <2>2, <1>5, <1>7
<1>10. Written(t, s, m, e)
  <2>1. t = Replace(s, e)
    BY <1>2, <1>5, <1>6 DEF Last
  <2> QED
    BY <2>1, <1>2, <1>5, ReplaceWrites
<1>11. /\ IsList(t) /\ InOrder(t) /\ Len(t) = n /\ t[n] = e
       /\ Unfinished(t) \/ Known(t, n)
  <2>1. ~IsSection(e) /\ e.tag \in ScanTags
    BY <1>8 DEF IsSection
  <2>2. /\ IsList(t) /\ InOrder(t) /\ Len(t) = m + 1 /\ t[Len(t)] = e
        /\ Unfinished(t) \/ Known(t, Len(t))
    <3>1. AtEnd(t, m, e)
      BY <2>1, <1>2, <1>9, <1>10, WrittenAtEnd
    <3> QED
      BY <3>1, <2>1, <1>8 DEF AtEnd
  <2> QED
    BY <2>2, <1>5
<1>12. Closing(next, t)
  BY <1>3, <1>5, <1>11 DEF Closing
<1>13. Phase(next, xc, t)
  BY <1>12, <1>3 DEF Phase, ClosePhases, LatePhases
<1>14. Timed(next, xc, tim, CycleTime(conf, now))
  BY <1>2, <1>3 DEF Timed
<1>15. Interrupting(next, xc, t)
  <2>1. \A k \in 1 .. n : (k \in 1 .. n - 1 /\ t[k] = s[k]) \/ (k = n /\ t[k] = e)
    BY <1>5, <1>10, <1>11 DEF Written
  <2>2. \A k \in 1 .. n : s[k].tag = "blackout" => t[k] = s[k]
    BY <2>1, <1>6, <1>7
  <2>3. here = "blackout_tag" => e.blackouts = Differences(xc.blackouts)
    BY <1>2, <1>5, <1>6, <1>8 DEF Interrupting
  <2>4. here \in LatePhases => here = "hier_tag"
    BY DEF LatePhases, TagPhases
  <2>5. \A k \in 1 .. n :
           t[k].tag = "blackout" => next \in LatePhases /\ t[k].blackouts = Differences(xc.blackouts)
    <3> SUFFICES ASSUME NEW k \in 1 .. n, t[k].tag = "blackout"
                 PROVE  next \in LatePhases /\ t[k].blackouts = Differences(xc.blackouts)
      OBVIOUS
    <3>1. CASE k \in 1 .. n - 1 /\ t[k] = s[k]
      BY <3>1, <2>4, <1>2, <1>5 DEF Interrupting
    <3>2. CASE k = n /\ t[k] = e
      BY <3>2, <2>3, <1>8
    <3> QED
      BY <3>1, <3>2, <2>1
  <2>6. ASSUME next \in LatePhases, xc.blackouts # <<>>
        PROVE  \E k \in 1 .. n : t[k].tag = "blackout"
    <3>1. CASE here = "hier_tag"
      <4>1. here \in LatePhases
        BY <3>1 DEF LatePhases
      <4>2. PICK k \in 1 .. n : s[k].tag = "blackout"
        BY <4>1, <2>6, <1>2, <1>5 DEF Interrupting
      <4> QED
        BY <4>2, <2>2
    <3>2. CASE here = "blackout_tag"
      BY <3>2, <1>5, <1>8, <1>11
    <3>3. here # "geom_tag"
      BY <2>6
    <3> QED
      BY <3>1, <3>2, <3>3 DEF TagPhases
  <2> QED
    BY <2>5, <2>6, <1>3, <1>11 DEF Interrupting
<1> QED
  BY <1>1, <1>2, <1>11, <1>13, <1>14, <1>15 DEF BlocksInv

\* The length of the hierarchy is written.
LEMMA CloseHierKeeps ==
    ASSUME BlocksInv, CloseHier, UNCHANGED now
    PROVE  BlocksInv'
<1>1. PICK s, t, e : s = file.blocks /\ t = file'.blocks /\ e = HierBlock(TRUE)
  BY Zenon
<1>2. /\ Context(xc) /\ IsList(s) /\ InOrder(s) /\ Interrupting("hier_length", xc, s)
      /\ Timed("hier_length", xc, tim, CycleTime(conf, now))
      /\ DOMAIN file' = {"hdr", "blocks"} /\ t = Replace(s, e) /\ pc' = "hier_tag"
      /\ UNCHANGED <<conf, xc, tim>>
      /\ Phase("hier_length", xc, s)
  BY <1>1 DEF BlocksInv, CloseHier
<1>3. Closing("hier_length", s)
  BY <1>2 DEF Phase, ClosePhases, LatePhases
<1>4. PICK n, m : n = Len(s) /\ n \in Nat /\ n > 1 /\ m = n - 1 /\ m \in Nat
  BY <1>2, <1>3, ListLength DEF Closing
<1>5. /\ e.tag = "skip" /\ e.known = TRUE /\ {"tag", "known"} \subseteq DOMAIN e
      /\ e.tag \in ScanTags /\ ~IsSection(e)
  BY <1>1 DEF HierBlock, ScanTags, IsSection
<1>6. (Unfinished(s) \/ Known(s, m)) /\ m > 0 /\ s[n].tag = "skip"
  BY <1>3, <1>4 DEF Closing
<1>7. Written(t, s, m, e)
  BY <1>2, <1>4, ReplaceWrites
<1>8. AtEnd(t, m, e)
  BY <1>2, <1>5, <1>6, <1>7, WrittenAtEnd
<1>9. /\ IsList(t) /\ InOrder(t) /\ Len(t) = n /\ t[n] = e
      /\ Unfinished(t) \/ Known(t, n)
  BY <1>4, <1>5, <1>8 DEF AtEnd
<1>10. Phase("hier_tag", xc, t)
  <2>1. Closing("hier_tag", t)
    BY <1>4, <1>5, <1>9 DEF Closing
  <2> QED
    BY <2>1 DEF Phase, ClosePhases, LatePhases
<1>11. Timed("hier_tag", xc, tim, CycleTime(conf, now))
  BY <1>2 DEF Timed
<1>12. Interrupting("hier_tag", xc, t)
  <2>1. \A k \in 1 .. n : (k \in 1 .. n - 1 /\ t[k] = s[k]) \/ (k = n /\ t[k] = e)
    BY <1>4, <1>7, <1>9 DEF Written
  <2>2. \A k \in 1 .. n : (s[k].tag = "blackout" => t[k] = s[k]) /\ (t[k].tag = "blackout" => t[k] = s[k])
    BY <2>1, <1>5, <1>6
  <2>3. "hier_length" \in LatePhases /\ "hier_tag" \in LatePhases
    BY DEF LatePhases
  <2>4. \A k \in 1 .. n : t[k].tag = "blackout" => t[k].blackouts = Differences(xc.blackouts)
    BY <2>2, <1>2, <1>4 DEF Interrupting
  <2>5. xc.blackouts # <<>> => \E k \in 1 .. n : t[k].tag = "blackout"
    BY <2>2, <2>3, <1>2, <1>4 DEF Interrupting
  <2> QED
    BY <2>3, <2>4, <2>5, <1>9 DEF Interrupting
<1> QED
  BY <1>1, <1>2, <1>9, <1>10, <1>11, <1>12 DEF BlocksInv

\* The last steps write no block.
LEMMA LastStepsKeep ==
    ASSUME BlocksInv, UNCHANGED <<conf, xc, tim, now>>, file'.blocks = file.blocks, DOMAIN file' = DOMAIN file,
           pc \in {"unlink_hier", "header", "pak", "unlink", "rename"},
           pc' \in {"header", "pak", "unlink", "rename", "closed"}
    PROVE  BlocksInv'
<1>1. pc \in LatePhases /\ pc' \in LatePhases /\ pc \in ClosePhases
  BY DEF LatePhases, ClosePhases
<1>2. Closing(pc, file.blocks)
  BY <1>1 DEF BlocksInv, Phase
<1>3. Closing(pc', file.blocks)
  BY <1>2 DEF Closing, TagPhases
<1>4. Phase(pc', xc, file.blocks)
  BY <1>3 DEF Phase, ClosePhases, LatePhases
<1>5. Timed(pc', xc, tim, CycleTime(conf, now))
  BY DEF BlocksInv, Timed
<1>6. Interrupting(pc', xc, file.blocks)
  BY <1>1 DEF BlocksInv, Interrupting
<1> QED
  BY <1>4, <1>5, <1>6 DEF BlocksInv

LEMMA WriterStepKeeps ==
    ASSUME BlocksInv, WriterStep, UNCHANGED now
    PROVE  BlocksInv'
<1>1. CASE Declare
  BY <1>1, DeclareKeeps
<1>2. CASE Declared
  BY <1>2, DeclaredKeeps
<1>3. CASE FlushTag
  BY <1>3, FlushTagKeeps
<1>4. CASE FlushNext
  BY <1>4, FlushNextKeeps
<1>5. CASE TimeAfterFlush
  BY <1>5, TimeAfterFlushKeeps
<1>6. CASE CloseGeom
  <2>1. PICK e : e = [tag |-> "skip", known |-> TRUE, geom |-> xc.geom]
    OBVIOUS
  <2>2. AppendBlock("geom", e, "geom_tag") /\ {"tag", "known"} \subseteq DOMAIN e /\ e.tag = "skip" /\ e.known = TRUE
    BY <2>1, <1>6 DEF CloseGeom
  <2> QED
    BY <2>2, AppendBlockKeeps
<1>7. CASE CloseGeomTag
  <2>1. PICK next : next = IF xc.blackouts # <<>> THEN "blackout"
                           ELSE IF conf.compress_hier THEN "hier" ELSE "header"
    OBVIOUS
  <2>2. TagBlock("geom_tag", "geom", next)
    BY <2>1, <1>7 DEF CloseGeomTag
  <2>3. next \in {"blackout", "hier", "header"} /\ (next \in LatePhases => xc.blackouts = <<>>)
    BY <2>1 DEF LatePhases
  <2>4. next \in ClosePhases /\ next \notin {"geom", "hier_length", "blackout_tag"} \cup TagPhases
    BY <2>3 DEF ClosePhases, LatePhases, TagPhases
  <2>5. "geom_tag" \in TagPhases /\ "geom" \in ScanTags
    BY DEF TagPhases, ScanTags
  <2> QED
    BY <2>2, <2>3, <2>4, <2>5, TagBlockKeeps
<1>8. CASE CloseBlackout
  <2>1. PICK d : d = Differences(xc.blackouts)
    OBVIOUS
  <2>2. PICK e : e = [tag |-> "skip", known |-> TRUE, blackouts |-> d]
    OBVIOUS
  <2>3. /\ AppendBlock("blackout", e, "blackout_tag") /\ {"tag", "known"} \subseteq DOMAIN e
        /\ e.tag = "skip" /\ e.known = TRUE /\ "blackouts" \in DOMAIN e /\ e.blackouts = d
    BY <2>1, <2>2, <1>8 DEF CloseBlackout
  <2> QED
    BY <2>1, <2>3, AppendBlockKeeps
<1>9. CASE CloseBlackoutTag
  <2>1. PICK next : next = IF conf.compress_hier THEN "hier" ELSE "header"
    OBVIOUS
  <2>2. TagBlock("blackout_tag", "blackout", next)
    BY <2>1, <1>9 DEF CloseBlackoutTag
  <2>3. next \in {"hier", "header"}
    BY <2>1
  <2>4. next \in ClosePhases /\ next \in LatePhases
        /\ next \notin {"geom", "hier_length", "blackout_tag"} \cup TagPhases
    BY <2>3 DEF ClosePhases, LatePhases, TagPhases
  <2>5. "blackout_tag" \in TagPhases /\ "blackout" \in ScanTags
    BY DEF TagPhases, ScanTags
  <2> QED
    BY <2>2, <2>4, <2>5, TagBlockKeeps
<1>10. CASE CloseHierBegin
  <2>1. PICK e : e = HierBlock(FALSE)
    BY Zenon
  <2>2. AppendBlock("hier", e, "hier_length") /\ {"tag", "known"} \subseteq DOMAIN e /\ e.tag = "skip"
    BY <2>1, <1>10 DEF CloseHierBegin, HierBlock
  <2> QED
    BY <2>2, AppendBlockKeeps
<1>11. CASE CloseHier
  BY <1>11, CloseHierKeeps
<1>12. CASE CloseHierTag
  <2>1. PICK kind : kind = HierKind /\ kind \in {"hier", "hier_lz4duo", "hier_lz4"}
    BY DEF HierKind
  <2>2. TagBlock("hier_tag", kind, "unlink_hier")
    BY <2>1, <1>12 DEF CloseHierTag
  <2>3. /\ "unlink_hier" \in ClosePhases /\ "unlink_hier" \in LatePhases
        /\ "unlink_hier" \notin {"geom", "hier_length", "blackout_tag"} \cup TagPhases
        /\ "hier_tag" \in TagPhases
        /\ kind \in ScanTags /\ kind # "vcdata" /\ kind # "blackout"
    BY <2>1 DEF ClosePhases, LatePhases, TagPhases, ScanTags
  <2> QED
    BY <2>2, <2>3, TagBlockKeeps
<1>13. CASE CloseUnlinkHier
  BY <1>13, LastStepsKeep DEF CloseUnlinkHier
<1>14. CASE CloseHeader
  <2>1. file'.blocks = file.blocks /\ DOMAIN file' = DOMAIN file
    BY <1>14 DEF CloseHeader, BlocksInv
  <2>2. UNCHANGED <<conf, xc, tim, now>> /\ pc = "header" /\ pc' \in {"pak", "closed"}
    BY <1>14 DEF CloseHeader
  <2> QED
    BY <2>1, <2>2, LastStepsKeep
<1>15. CASE ClosePak
  BY <1>15, LastStepsKeep DEF ClosePak
<1>16. CASE CloseUnlink
  BY <1>16, LastStepsKeep DEF CloseUnlink
<1>17. CASE CloseRename
  BY <1>17, LastStepsKeep DEF CloseRename
<1> QED
  BY <1>1, <1>2, <1>3, <1>4, <1>5, <1>6, <1>7, <1>8, <1>9, <1>10, <1>11, <1>12, <1>13, <1>14,
     <1>15, <1>16, <1>17 DEF WriterStep

-----------------------------------------------------------------------------
(* The theorems.                                                           *)

LEMMA BlocksInvInit ==
    ASSUME Init
    PROVE  BlocksInv
<1>1. /\ conf \in Configs /\ now = -1 /\ tim = 0 /\ pc = "declare"
      /\ file = [hdr |-> NoHeader, blocks |-> <<>>] /\ xc = NewContext
  BY DEF Init, WriterInit
<1>2. Context(xc)
  <2>1. <<>> \in Seq(Interruption) /\ <<>> \in Seq(Nat) /\ <<>> \in Seq({})
    OBVIOUS
  <2>2. IsList(<<>>)
    BY <2>1 DEF IsList
  <2>3. DOMAIN xc = ContextFields /\ xc.initial = TRUE /\ xc.locked = FALSE /\ xc.header_only = FALSE
    BY <1>1 DEF NewContext, ContextFields
  <2>4. xc.curtime = 0 /\ xc.truncpos = 0 /\ xc.tchn = <<>> /\ xc.blackouts = <<>> /\ xc.vals = <<>>
    BY <1>1 DEF NewContext
  <2>5. xc.initial \in BOOLEAN /\ xc.locked \in BOOLEAN /\ xc.header_only \in BOOLEAN
    BY <2>3, Zenon
  <2>6. xc.curtime \in Nat /\ xc.truncpos \in Nat
    BY <2>4
  <2>7. xc.tchn \in Seq(Nat) /\ xc.blackouts \in Seq(Interruption) /\ IsList(xc.vals)
    BY <2>1, <2>2, <2>4, Zenon
  <2> QED
    BY <2>3, <2>5, <2>6, <2>7, Zenon DEF Context
<1>3. PICK s : s = file.blocks
  OBVIOUS
<1>4. s = <<>> /\ Len(s) = 0 /\ IsList(s) /\ DOMAIN file = {"hdr", "blocks"}
  <2>1. <<>> \in Seq({})
    OBVIOUS
  <2> QED
    BY <2>1, <1>1, <1>3 DEF IsList
<1>5. InOrder(s)
  BY <1>4 DEF InOrder
<1>6. Phase("declare", xc, s)
  <2>1. Starting(xc, s)
    BY <1>1, <1>4 DEF Starting, NewContext
  <2> QED
    BY <2>1 DEF Phase, ClosePhases, LatePhases
<1>7. Timed("declare", xc, tim, CycleTime(conf, now))
  BY <1>1 DEF Timed, CycleTime, NewContext
<1>8. Interrupting("declare", xc, s)
  BY <1>4 DEF Interrupting, LatePhases
<1> QED
  BY <1>1, <1>2, <1>3, <1>4, <1>5, <1>6, <1>7, <1>8 DEF BlocksInv

LEMMA BlocksInvNext ==
    ASSUME BlocksInv, [Next]_vars
    PROVE  BlocksInv'
<1>1. CASE BeginCycle
  BY <1>1, BeginCycleKeeps
<1>2. CASE EmitVar
  BY <1>2, EmitVarKeeps
<1>3. CASE PassVar
  BY <1>3 DEF PassVar, wvars, BlocksInv
<1>4. CASE Suspend
  BY <1>4, SuspendKeeps
<1>5. CASE EndTrace
  BY <1>5, EndTraceKeeps
<1>6. CASE WriterStep /\ UNCHANGED <<todo, now, last>>
  BY <1>6, WriterStepKeeps
<1>7. CASE Finished \/ UNCHANGED vars
  BY <1>7 DEF Finished, vars, wvars, BlocksInv
<1> QED
  BY <1>1, <1>2, <1>3, <1>4, <1>5, <1>6, <1>7 DEF Next

\* The blocks of the file: complete sections in the order of their times, then
\* what the phase the writer is in explains.
THEOREM BlocksAlwaysInOrder == Spec => []BlocksInv
BY BlocksInvInit, BlocksInvNext, PTL DEF Spec

\* What is opened shows all the blocks, and at least a section was found.
LEMMA OpenedShows ==
    ASSUME NEW dir, NEW f, NEW hier, NEW r, r = Open(dir, f, hier), r.opened
    PROVE  /\ r.blocks = f.blocks
           /\ r.blackouts = ScanBlocks(f.hdr, f.blocks).blackouts
           /\ ScanBlocks(f.hdr, f.blocks).sections # 0
<1>1. PICK st : st = ScanBlocks(f.hdr, f.blocks)
  OBVIOUS
<1>2. PICK bytes : bytes = HierBytes(dir, st, hier)
  OBVIOUS
<1>3. PICK lens : lens = IF st.lens # <<>> THEN st.lens ELSE ProcessHier(bytes).lens
  OBVIOUS
<1>4. r = NotOpened \/ (st.sections # 0 /\ r = OpenedWith(f, st, bytes, lens))
  BY <1>1, <1>2, <1>3 DEF Open, Opened
<1>5. r # NotOpened
  BY DEF NotOpened
<1> QED
  BY <1>1, <1>4, <1>5 DEF OpenedWith

\* Time does not go back in what a reader reports, wherever the program ended:
\* fstReaderIterBlocks goes through the sections in the order of the file, and
\* these were written in the order of their times.
THEOREM TimeAlwaysGoesOn == Spec => []TimeGoesOn
<1>1. BlocksInv => TimeGoesOn
  <2> SUFFICES ASSUME BlocksInv, Reading.opened
               PROVE  \A out \in {IterBlocks(Reading, NoRange).out} :
                      \A k \in DOMAIN out : k = 1 \/ out[k - 1].time <= out[k].time
    BY DEF TimeGoesOn
  <2>1. PICK r, f : r = Reading /\ f = file
    OBVIOUS
  <2>2. PICK dir, hier : r = Open(dir, f, hier)
    BY <2>1 DEF Reading
  <2>3. r.opened
    BY <2>1
  <2>4. r.blocks = f.blocks
    BY <2>2, <2>3, OpenedShows
  <2>5. Len(r.blocks) \in Nat /\ InOrder(r.blocks)
    BY <2>1, <2>4, ListLength DEF BlocksInv
  <2>6. PICK out : out = IterBlocks(r, NoRange).out
    OBVIOUS
  <2>7. PICK hi \in Nat : Ordered(out, 0, hi)
    BY <2>5, <2>6, ScanOrdered
  <2>8. PICK n : n = Len(out) /\ n \in Nat /\ DOMAIN out = 1 .. n
    BY <2>7, ListLength DEF Ordered
  <2>9. \A k \in 1 .. n : k = 1 \/ (k - 1 \in 1 .. n /\ k - 1 <= k)
    BY <2>8
  <2>10. \A k \in DOMAIN out : k = 1 \/ out[k - 1].time <= out[k].time
    BY <2>7, <2>8, <2>9 DEF Ordered
  <2> QED
    BY <2>1, <2>6, <2>10
<1> QED
  BY <1>1, BlocksAlwaysInOrder, PTL

\* A complete trace gives back the interruptions of the dump, at their times:
\* fstWriterClose writes their differences in one block, which fstReaderInit
\* finds behind blocks that all have a length.
THEOREM InterruptionsAlwaysExact == Spec => []InterruptionsExact
<1>1. BlocksInv => InterruptionsExact
  <2> SUFFICES ASSUME BlocksInv, pc = "closed", Reading.opened
               PROVE  Reading.blackouts = xc.blackouts
    BY DEF InterruptionsExact
  <2>1. PICK r, f, b, s : r = Reading /\ f = file /\ b = xc.blackouts /\ s = f.blocks
    OBVIOUS
  <2>2. PICK dir, hier : r = Open(dir, f, hier)
    BY <2>1 DEF Reading
  <2>3. r.opened
    BY <2>1
  <2>4. r.blackouts = ScanBlocks(f.hdr, s).blackouts /\ ScanBlocks(f.hdr, s).sections # 0
    BY <2>1, <2>2, <2>3, OpenedShows
  <2>5. b \in Seq(Interruption) /\ Len(s) \in Nat
    BY <2>1, ListLength DEF BlocksInv, Context
  <2>6. Unfinished(s) \/ Known(s, Len(s))
    <3>1. Closing("closed", s)
      BY <2>1 DEF BlocksInv, Phase, ClosePhases, LatePhases
    <3> QED
      BY <3>1 DEF Closing
  <2>7. ~Unfinished(s)
    BY <2>4, <2>5, ScanStopped DEF Unfinished
  <2>8. BlackoutTimes(Differences(b)) = b
    BY <2>5, DifferencesInvert
  <2>9. \A k \in 1 .. Len(s) : s[k].tag = "blackout" => s[k].blackouts = Differences(b)
    BY <2>1 DEF BlocksInv, Interrupting
  <2>10. b = <<>> \/ \E k \in 1 .. Len(s) : s[k].tag = "blackout"
    BY <2>1 DEF BlocksInv, Interrupting, LatePhases
  <2>11. \A k \in 1 .. Len(s) : s[k].known = TRUE /\ s[k].tag \in ScanTags
    BY <2>6, <2>7 DEF Known
  <2>12. \A k \in 1 .. Len(s) : s[k].tag = "blackout" => BlackoutTimes(s[k].blackouts) = b
    BY <2>8, <2>9
  <2>13. PICK hdr : hdr = f.hdr
    OBVIOUS
  <2>14. ScanBlocks(hdr, s).blackouts = b
    <3>1. Len(s) \in Nat
      BY <2>5
    <3>2. InterruptedBy(s, b)
      BY <2>10, <2>11, <2>12 DEF InterruptedBy
    <3> QED
      BY ONLY <3>1, <3>2, ScannedInterruptions
  <2> QED
    BY <2>1, <2>4, <2>13, <2>14
<1> QED
  BY <1>1, BlocksAlwaysInOrder, PTL

-----------------------------------------------------------------------------
(* Complete sections are never touched again.                              *)

KeptIn(s, t) == \A k \in 1 .. Len(s) : IsSection(s[k]) => k \in 1 .. Len(t) /\ t[k] = s[k]

LEMMA StillKept ==
    ASSUME NEW s PROVE KeptIn(s, s)
BY DEF KeptIn

LEMMA WrittenKept ==
    ASSUME NEW s, NEW m, NEW e, NEW t, Written(t, s, m, e),
           m = Len(s) \/ (m = Len(s) - 1 /\ ~IsSection(s[Len(s)]))
    PROVE  KeptIn(s, t)
<1>1. PICK n : n = Len(s) /\ n \in Nat /\ m \in Nat
  BY DEF Written
<1>2. \A k \in 1 .. n : IsSection(s[k]) => k \in 1 .. m
  BY <1>1
<1>3. \A k \in 1 .. m : k \in 1 .. m + 1
  BY <1>1
<1> QED
  BY <1>1, <1>2, <1>3 DEF Written, KeptIn

\* The last block is replaced while it is under the tag "skip".
LEMMA ReplacedKept ==
    ASSUME NEW s, IsList(s), Len(s) > 0, s[Len(s)].tag = "skip", NEW e, NEW t, t = Replace(s, e)
    PROVE  KeptIn(s, t)
<1>1. Written(t, s, Len(s) - 1, e)
  BY ReplaceWrites
<1>2. ~IsSection(s[Len(s)])
  BY DEF IsSection
<1>3. PICK m : m = Len(s) - 1
  OBVIOUS
<1> QED
  BY <1>1, <1>2, <1>3, WrittenKept

LEMMA AppendedKept ==
    ASSUME NEW s, IsList(s), NEW e, NEW t, t = Append(s, e)
    PROVE  KeptIn(s, t)
<1>1. Written(t, s, Len(s), e)
  BY AppendWrites
<1>2. PICK m : m = Len(s)
  OBVIOUS
<1> QED
  BY <1>1, <1>2, WrittenKept

LEMMA FlushBodyKept ==
    ASSUME NEW x, NEW f, DOMAIN f = {"hdr", "blocks"}, IsList(f.blocks), Recording(x, f.blocks),
           FlushBody(x, f)
    PROVE  KeptIn(f.blocks, file'.blocks)
<1>1. PICK s, e : s = f.blocks /\ e = SectionOf(x, Last(s), conf.pack)
  OBVIOUS
<1>2. file'.blocks = Replace(s, e)
  BY <1>1 DEF FlushBody
<1>3. IsList(s) /\ Len(s) > 0 /\ s[Len(s)].tag = "skip"
  BY <1>1 DEF Recording, Headed
<1> QED
  BY <1>1, <1>2, <1>3, ReplacedKept

LEMMA SectionsKeptNext ==
    ASSUME BlocksInv, [Next]_vars
    PROVE  KeptIn(file.blocks, file'.blocks)
<1>1. PICK s : s = file.blocks
  OBVIOUS
<1>2. /\ DOMAIN file = {"hdr", "blocks"} /\ IsList(s) /\ Phase(pc, xc, s)
  BY <1>1 DEF BlocksInv
<1>3. UNCHANGED file => KeptIn(s, file'.blocks)
  BY <1>1, StillKept
<1>4. pc = "run" => Starting(xc, s) \/ Recording(xc, s) \/ Stopped(xc, s)
  BY <1>2 DEF Phase
<1>5. Starting(xc, s) => KeptIn(s, file'.blocks)
  <2>1. Len(<<>>) = 0
    OBVIOUS
  <2> QED
    BY <2>1 DEF Starting, KeptIn
<1>6. CASE BeginCycle
  <2>1. PICK T : EmitTimeChange(T)
    BY <1>6 DEF BeginCycle
  <2>2. pc = "run"
    BY <2>1 DEF EmitTimeChange
  <2>3. CASE EmitFirstTime(T)
    <3>1. Starting(xc, s)
      BY <2>2, <2>3, <1>4, Zenon DEF EmitFirstTime, Recording, Headed, Stopped
    <3> QED
      BY <3>1, <1>1, <1>5
  <2>4. CASE EmitNextTime(T)
    <3>1. Recording(xc, s)
      BY <2>2, <2>4, <1>4, Zenon DEF EmitNextTime, Starting, Stopped
    <3>2. UNCHANGED file \/ FlushBody(xc, file)
      BY <2>4 DEF EmitNextTime
    <3> QED
      BY <3>1, <3>2, <1>1, <1>2, <1>3, FlushBodyKept
  <2>5. CASE UNCHANGED wvars
    BY <2>5, <1>1, <1>3 DEF wvars
  <2> QED
    BY <2>1, <2>3, <2>4, <2>5 DEF EmitTimeChange
<1>7. CASE EndTrace
  <2>1. pc = "run" /\ (CloseTruncate \/ CloseFlush)
    BY <1>7 DEF EndTrace, Close
  <2>2. CASE CloseTruncate
    <3>1. Recording(xc, s)
      BY <2>1, <2>2, <1>4, Zenon DEF CloseTruncate, Starting, Stopped
    <3>2. PICK n, m, t : n = Len(s) /\ n \in Nat /\ n > 0 /\ m = n - 1 /\ t = file'.blocks
      BY <3>1, <1>2, ListLength DEF Recording, Headed
    <3>3. m \in Nat /\ m <= n /\ xc.truncpos = m /\ s[n].tag = "skip"
      BY <3>1, <3>2 DEF Recording, Headed
    <3>4. t = SubSeq(s, 1, m) /\ m <= Len(s)
      BY <3>2, <3>3, <2>2, <1>1, <1>2 DEF CloseTruncate
    <3>5. Len(t) = m /\ \A k \in 1 .. m : t[k] = s[k]
      BY ONLY <3>3, <3>4, <1>2, ListPrefix
    <3>6. \A k \in 1 .. n : IsSection(s[k]) => k \in 1 .. m
      BY <3>2, <3>3 DEF IsSection
    <3> QED
      BY <3>2, <3>5, <3>6, <1>1 DEF KeptIn
  <2>3. CASE CloseFlush
    <3>1. CASE Starting(xc, s)
      BY <3>1, <1>1, <1>5
    <3>2. CASE Recording(xc, s)
      <4>1. ~xc.initial
        BY <3>2, Zenon DEF Recording, Headed
      <4>2. PICK x : x = [xc EXCEPT !.skip_header = TRUE]
        OBVIOUS
      <4>3. UNCHANGED file \/ FlushBody(x, file)
        BY <4>1, <4>2, <2>3, Zenon DEF CloseFlush
      <4>4. Recording(x, s)
        BY <4>2, <3>2, SkipHeader DEF BlocksInv
      <4> QED
        BY <4>3, <4>4, <1>1, <1>2, <1>3, FlushBodyKept
    <3>3. CASE Stopped(xc, s)
      <4>1. xc.initial /\ xc.locked
        BY <3>3, Zenon DEF Stopped
      <4>2. UNCHANGED file
        BY <4>1, <2>3, Zenon DEF CloseFlush
      <4> QED
        BY <4>2, <1>1, <1>3
    <3> QED
      BY <3>1, <3>2, <3>3, <2>1, <1>4
  <2> QED
    BY <2>1, <2>2, <2>3
<1>8. CASE FlushTag
  <2>1. Len(s) > 0 /\ s[Len(s)].tag = "skip"
    BY <1>2, <1>8 DEF FlushTag, Phase, Sectioned
  <2>2. PICK e : e = [Last(s) EXCEPT !.tag = "vcdata"]
    OBVIOUS
  <2>3. file'.blocks = Replace(s, e)
    BY <2>2, <1>1, <1>2, <1>8 DEF FlushTag
  <2> QED
    BY <2>1, <2>3, <1>1, <1>2, ReplacedKept
<1>9. CASE FlushNext
  <2>1. UNCHANGED file \/ \E e : file' = [file EXCEPT !.blocks = Append(@, e)]
    BY <1>9, Zenon DEF FlushNext
  <2>2. ASSUME NEW e, file' = [file EXCEPT !.blocks = Append(@, e)]
        PROVE  KeptIn(s, file'.blocks)
    <3>1. file'.blocks = Append(s, e)
      BY <2>2, <1>1, <1>2
    <3> QED
      BY <3>1, <1>2, AppendedKept
  <2> QED
    BY <2>1, <2>2, <1>1, <1>3
<1>10. ASSUME NEW here, NEW e, NEW next, AppendBlock(here, e, next)
       PROVE  KeptIn(s, file'.blocks)
  <2>1. file'.blocks = Append(s, e)
    BY <1>1, <1>2, <1>10 DEF AppendBlock
  <2> QED
    BY <2>1, <1>2, AppendedKept
<1>11. ASSUME NEW here \in TagPhases, NEW tag, NEW next, TagBlock(here, tag, next)
       PROVE  KeptIn(s, file'.blocks)
  <2>1. here \in ClosePhases /\ here # "geom"
    BY DEF TagPhases, ClosePhases, LatePhases
  <2>2. Len(s) > 0 /\ s[Len(s)].tag = "skip"
    BY <2>1, <1>2, <1>11 DEF TagBlock, Phase, Closing
  <2>3. PICK e : e = [Last(s) EXCEPT !.tag = tag]
    OBVIOUS
  <2>4. file'.blocks = Replace(s, e)
    BY <2>3, <1>1, <1>2, <1>11 DEF TagBlock
  <2> QED
    BY <2>2, <2>4, <1>2, ReplacedKept
<1>12. CASE CloseHier
  <2>1. Len(s) > 0 /\ s[Len(s)].tag = "skip"
    BY <1>2, <1>12 DEF CloseHier, Phase, Closing, ClosePhases, LatePhases
  <2>2. PICK e : file'.blocks = Replace(s, e)
    BY <1>1, <1>2, <1>12, Zenon DEF CloseHier
  <2> QED
    BY <2>1, <2>2, <1>1, <1>2, ReplacedKept
<1>13. CASE CloseHeader
  <2>1. file'.blocks = s
    BY <1>1, <1>2, <1>13 DEF CloseHeader
  <2> QED
    BY <2>1, <1>1, StillKept
<1>14. CASE WriterStep
  <2>1. CASE CloseGeom \/ CloseBlackout \/ CloseHierBegin
    BY <2>1, <1>1, <1>10, Zenon DEF CloseGeom, CloseBlackout, CloseHierBegin
  <2>2. CASE CloseGeomTag \/ CloseBlackoutTag \/ CloseHierTag
    <3>1. "geom_tag" \in TagPhases /\ "blackout_tag" \in TagPhases /\ "hier_tag" \in TagPhases
      BY DEF TagPhases
    <3> QED
      BY <3>1, <2>2, <1>1, <1>11, Zenon DEF CloseGeomTag, CloseBlackoutTag, CloseHierTag
  <2>3. CASE \/ Declare \/ Declared \/ TimeAfterFlush \/ CloseUnlinkHier \/ ClosePak
             \/ CloseUnlink \/ CloseRename
    <3>1. UNCHANGED file
      BY <2>3 DEF Declare, Declared, TimeAfterFlush, CloseUnlinkHier, ClosePak, CloseUnlink, CloseRename
    <3> QED
      BY <3>1, <1>1, <1>3
  <2> QED
    BY <2>1, <2>2, <2>3, <1>8, <1>9, <1>12, <1>13, <1>14 DEF WriterStep
<1>15. CASE EmitVar \/ PassVar \/ Suspend \/ Finished \/ UNCHANGED vars
  <2>1. UNCHANGED file
    BY <1>15 DEF EmitVar, EmitValueChange, PassVar, Suspend, EmitDumpActive, Finished, vars, wvars
  <2> QED
    BY <2>1, <1>1, <1>3
<1> QED
  BY <1>6, <1>7, <1>14, <1>15 DEF Next

\* A section that was completed stays in the file as it is, at its place,
\* whatever the writer does later: the next sections, the end of a section
\* that has no change (which is cut off), the blocks of the end of the file.
THEOREM SectionsAlwaysKept == Spec => [][KeptIn(file.blocks, file'.blocks)]_vars
<1>1. BlocksInv /\ [Next]_vars => [KeptIn(file.blocks, file'.blocks)]_vars
  BY SectionsKeptNext
<1> QED
  BY <1>1, BlocksAlwaysInOrder, PTL DEF Spec

-----------------------------------------------------------------------------
(* Value changes: what is written in a chain is read back.  A string of    *)
(* bytes is looked at in place, whatever is around it.                     *)

Byte == 0 .. 255

\* The bytes e are at position p.
Holds(bytes, p, e) ==
    /\ p \in Nat \ {0}
    /\ p + Len(e) - 1 <= Len(bytes)
    /\ \A k \in 1 .. Len(e) : bytes[p + k - 1] = e[k]

\* The function Varint is made of, up to m and for all integers.
VarintUpTo(f, m) ==
    f = [n \in 0 .. m |-> IF n < 128 THEN <<n>> ELSE <<128 + (n % 128)>> \o f[n \div 128]]
VarintFcn(f) ==
    f = [n \in Nat |-> IF n < 128 THEN <<n>> ELSE <<128 + (n % 128)>> \o f[n \div 128]]

LEMMA Shorter ==
    ASSUME NEW n \in Nat, n >= 128
    PROVE  n \div 128 \in Nat /\ n \div 128 < n /\ n \div 128 > 0
OBVIOUS

LEMMA VarintUpToExists ==
    ASSUME NEW n \in Nat
    PROVE  \E f : VarintUpTo(f, n)
<1> DEFINE Bad == {m \in Nat : ~ \E f : VarintUpTo(f, m)}
<1>1. SUFFICES ASSUME Bad # {} PROVE FALSE
  BY <1>1
<1>2. PICK m \in Bad : \A j \in Bad : m <= j
  BY <1>1, LeastElement
<1>3. m \in Nat /\ ~ \E f : VarintUpTo(f, m)
  BY <1>2
<1> HIDE DEF Bad
<1>4. m # 0
  <2>1. VarintUpTo([n_1 \in 0 .. 0 |-> <<n_1>>], 0)
    BY DEF VarintUpTo
  <2> QED
    BY <2>1, <1>3
<1>5. PICK f : VarintUpTo(f, m - 1)
  <2>1. m - 1 \in Nat /\ ~ (m <= m - 1)
    BY <1>3, <1>4
  <2> QED
    BY <2>1, <1>2 DEF Bad
<1> DEFINE end == IF m < 128 THEN <<m>> ELSE <<128 + (m % 128)>> \o f[m \div 128]
           g == [k \in 0 .. m |-> IF k = m THEN end ELSE f[k]]
<1>6. VarintUpTo(g, m)
  <2>1. \A k \in 0 .. m - 1 :
           f[k] = IF k < 128 THEN <<k>> ELSE <<128 + (k % 128)>> \o f[k \div 128]
    BY <1>3, <1>4, <1>5 DEF VarintUpTo
  <2>2. ASSUME NEW k \in 0 .. m
        PROVE  g[k] = IF k < 128 THEN <<k>> ELSE <<128 + (k % 128)>> \o g[k \div 128]
    <3>1. k >= 128 => k \div 128 \in 0 .. m - 1 /\ k \div 128 # m
      BY <1>3, Shorter
    <3>2. k >= 128 => g[k \div 128] = f[k \div 128]
      BY <3>1, <1>3
    <3>3. CASE k = m
      BY <3>2, <3>3, <1>3
    <3>4. CASE k # m
      <4>1. k \in 0 .. m - 1 /\ g[k] = f[k]
        BY <3>4, <1>3
      <4> QED
        BY <4>1, <2>1, <3>2, <1>3
    <3> QED
      BY <3>3, <3>4
  <2>3. g = [k \in 0 .. m |-> g[k]]
    OBVIOUS
  <2> HIDE DEF g
  <2> QED
    BY <2>2, <2>3 DEF VarintUpTo
<1> QED
  BY <1>6, <1>3

LEMMA VarintStates ==
    ASSUME NEW m, NEW f, VarintUpTo(f, m), NEW i \in 0 .. m
    PROVE  f[i] = IF i < 128 THEN <<i>> ELSE <<128 + (i % 128)>> \o f[i \div 128]
<1> DEFINE e(n) == IF n < 128 THEN <<n>> ELSE <<128 + (n % 128)>> \o f[n \div 128]
<1>1. f = [n \in 0 .. m |-> e(n)]
  BY Zenon DEF VarintUpTo
<1> HIDE DEF e
<1>2. f[i] = e(i)
  BY ONLY <1>1, i \in 0 .. m
<1> QED
  BY <1>2 DEF e

LEMMA VarintUpToUnique ==
    ASSUME NEW m \in Nat, NEW f, VarintUpTo(f, m), NEW k \in Nat, NEW g, VarintUpTo(g, k),
           NEW n \in Nat, n <= m, n <= k
    PROVE  f[n] = g[n]
<1> DEFINE Bad == {j \in Nat : j <= m /\ j <= k /\ f[j] # g[j]}
<1>1. SUFFICES ASSUME Bad # {} PROVE FALSE
  BY <1>1
<1>2. PICK i \in Bad : \A j \in Bad : i <= j
  BY <1>1, LeastElement
<1>3. i \in Nat /\ i <= m /\ i <= k /\ f[i] # g[i] /\ i \in 0 .. m /\ i \in 0 .. k
  BY <1>2
<1>4. /\ f[i] = IF i < 128 THEN <<i>> ELSE <<128 + (i % 128)>> \o f[i \div 128]
      /\ g[i] = IF i < 128 THEN <<i>> ELSE <<128 + (i % 128)>> \o g[i \div 128]
  BY <1>3, VarintStates
<1>5. i >= 128
  BY <1>3, <1>4
<1>6. i \div 128 \in Nat /\ ~ (i <= i \div 128) /\ i \div 128 <= m /\ i \div 128 <= k
  BY <1>3, <1>5, Shorter
<1>7. f[i \div 128] = g[i \div 128]
  BY <1>2, <1>6
<1> QED
  BY <1>3, <1>4, <1>7

LEMMA VarintFcnExists == \E f : VarintFcn(f)
<1> DEFINE upto(n) == CHOOSE f : VarintUpTo(f, n)
           h == [n \in Nat |-> upto(n)[n]]
<1>1. \A n \in Nat : VarintUpTo(upto(n), n)
  BY VarintUpToExists
<1>2. \A n \in Nat : h[n] = upto(n)[n]
  OBVIOUS
<1> HIDE DEF h, upto
<1>3. ASSUME NEW n \in Nat
      PROVE  h[n] = IF n < 128 THEN <<n>> ELSE <<128 + (n % 128)>> \o h[n \div 128]
  <2>1. PICK f : f = upto(n)
    OBVIOUS
  <2>2. VarintUpTo(f, n) /\ n \in 0 .. n
    BY <2>1, <1>1
  <2>3. f[n] = IF n < 128 THEN <<n>> ELSE <<128 + (n % 128)>> \o f[n \div 128]
    BY <2>2, VarintStates
  <2>4. ASSUME n >= 128 PROVE f[n \div 128] = h[n \div 128]
    <3>1. PICK d : d = n \div 128
      OBVIOUS
    <3>2. d \in Nat /\ d <= n /\ d <= d
      BY <3>1, <2>4, Shorter
    <3>3. PICK g : g = upto(d)
      OBVIOUS
    <3>4. VarintUpTo(g, d) /\ h[d] = g[d]
      BY <3>2, <3>3, <1>1, <1>2
    <3>5. f[d] = g[d]
      BY <3>2, <3>4, <2>2, VarintUpToUnique
    <3> QED
      BY <3>1, <3>4, <3>5
  <2> QED
    BY <2>1, <2>3, <2>4, <1>2
<1>4. VarintFcn(h)
  <2>1. h = [n \in Nat |-> h[n]]
    BY DEF h
  <2> QED
    BY <2>1, <1>3 DEF VarintFcn
<1> QED
  BY <1>4

\* One byte, or one byte in front of those of the rest.
LEMMA VarintSteps ==
    ASSUME NEW v \in Nat
    PROVE  /\ v < 128 => Varint(v) = <<v>>
           /\ v >= 128 => Varint(v) = <<128 + (v % 128)>> \o Varint(v \div 128)
<1> DEFINE f == CHOOSE f : VarintFcn(f)
<1>1. VarintFcn(f)
  BY VarintFcnExists
<1>2. \A n : Varint(n) = f[n]
  BY DEF Varint, VarintFcn
<1>3. \A n \in Nat : f[n] = IF n < 128 THEN <<n>> ELSE <<128 + (n % 128)>> \o f[n \div 128]
  BY <1>1 DEF VarintFcn
<1>4. f[v] = IF v < 128 THEN <<v>> ELSE <<128 + (v % 128)>> \o f[v \div 128]
  BY <1>3
<1>5. Varint(v) = f[v] /\ Varint(v \div 128) = f[v \div 128]
  BY <1>2, Zenon
<1> HIDE DEF f
<1> QED
  BY <1>4, <1>5

LEMMA BytePrefixed ==
    ASSUME NEW x \in Byte, NEW s \in Seq(Byte), NEW t, t = <<x>> \o s
    PROVE  /\ t \in Seq(Byte) /\ Len(t) = Len(s) + 1 /\ t[1] = x
           /\ \A k \in 1 .. Len(s) : t[k + 1] = s[k]
<1>1. PICK u, n : u = <<x>> /\ n = Len(s) /\ n \in Nat
  BY LenProperties
<1>2. u \in Seq(Byte) /\ Len(u) = 1 /\ u[1] = x
  BY <1>1
<1>3. t \in Seq(Byte) /\ Len(t) = 1 + n
  BY <1>1, <1>2, ConcatProperties
<1>4. \A k \in 1 .. 1 + n : t[k] = IF k <= 1 THEN u[k] ELSE s[k - 1]
  BY <1>1, <1>2, ConcatProperties
<1>5. t[1] = x
  BY <1>1, <1>2, <1>4
<1>6. \A k \in 1 .. n : t[k + 1] = s[k]
  <2> TAKE k \in 1 .. n
  <2>1. k + 1 \in 1 .. 1 + n /\ ~ (k + 1 <= 1) /\ (k + 1) - 1 = k
    BY <1>1
  <2> QED
    BY <2>1, <1>4
<1> QED
  BY <1>1, <1>3, <1>5, <1>6

\* Seven bits per byte, all but the end one with the eighth.
SevenBits(s) ==
    /\ s \in Seq(Byte) /\ Len(s) > 0
    /\ s[Len(s)] < 128
    /\ \A k \in 1 .. Len(s) - 1 : s[k] >= 128

LEMMA VarintSevenBits ==
    ASSUME NEW v \in Nat
    PROVE  SevenBits(Varint(v))
<1> DEFINE Bad == {w \in Nat : ~SevenBits(Varint(w))}
<1>1. SUFFICES ASSUME Bad # {} PROVE FALSE
  BY <1>1
<1>2. PICK w \in Bad : \A j \in Bad : w <= j
  BY <1>1, LeastElement
<1>3. w \in Nat /\ ~SevenBits(Varint(w))
  BY <1>2
<1>4. w >= 128
  <2>1. SUFFICES ASSUME w < 128 PROVE FALSE
    BY <2>1, <1>3
  <2>2. PICK s : s = Varint(w)
    OBVIOUS
  <2>3. s = <<w>>
    BY <2>1, <2>2, <1>3, VarintSteps
  <2>4. s \in Seq(Byte) /\ Len(s) = 1 /\ s[1] = w
    BY <2>1, <2>3, <1>3 DEF Byte
  <2> QED
    BY <2>1, <2>2, <2>4, <1>3 DEF SevenBits
<1>5. PICK d, x : d = w \div 128 /\ x = 128 + (w % 128)
  OBVIOUS
<1>6. d \in Nat /\ ~ (w <= d) /\ x \in Byte /\ x >= 128
  BY <1>3, <1>4, <1>5, Shorter DEF Byte
<1>7. PICK s, t : s = Varint(d) /\ t = Varint(w)
  OBVIOUS
<1>8. SevenBits(s)
  BY <1>2, <1>6, <1>7
<1>9. t = <<x>> \o s
  BY <1>3, <1>4, <1>5, <1>7, VarintSteps
<1>10. PICK n : n = Len(s) /\ n \in Nat /\ n > 0
  BY <1>8, LenProperties DEF SevenBits
<1>11. /\ s \in Seq(Byte) /\ s[n] < 128 /\ \A k \in 1 .. n - 1 : s[k] >= 128
  BY <1>8, <1>10 DEF SevenBits
<1>12. /\ t \in Seq(Byte) /\ Len(t) = n + 1 /\ t[1] = x /\ \A k \in 1 .. n : t[k + 1] = s[k]
  BY <1>6, <1>9, <1>10, <1>11, BytePrefixed
<1>13. t[n + 1] < 128
  BY <1>10, <1>11, <1>12
<1>14. \A k \in 1 .. n : t[k] >= 128
  <2> TAKE k \in 1 .. n
  <2>1. CASE k = 1
    BY <2>1, <1>6, <1>12
  <2>2. CASE k # 1
    <3>1. k - 1 \in 1 .. n - 1 /\ k - 1 \in 1 .. n /\ (k - 1) + 1 = k
      BY <2>2, <1>10
    <3>2. t[(k - 1) + 1] = s[k - 1]
      BY ONLY <3>1, <1>12
    <3>3. s[k - 1] >= 128
      BY <3>1, <1>11
    <3> QED
      BY <3>1, <3>2, <3>3
  <2> QED
    BY <2>1, <2>2
<1>15. SevenBits(t)
  <2>1. (n + 1) - 1 = n
    BY <1>10
  <2> QED
    BY <2>1, <1>10, <1>12, <1>13, <1>14 DEF SevenBits
<1> QED
  BY <1>3, <1>7, <1>15

\* The reader finds the end of an integer.
LEMMA VarintLengthRead ==
    ASSUME NEW bytes \in Seq(Byte), NEW p, NEW e, SevenBits(e), Holds(bytes, p, e)
    PROVE  VarintLength(bytes, p) = Len(e)
<1>1. PICK n, b : n = Len(e) /\ n \in Nat /\ b = Len(bytes) /\ b \in Nat
  BY LenProperties DEF SevenBits
<1>2. /\ p \in Nat \ {0} /\ n > 0 /\ p + n - 1 <= b
      /\ \A k \in 1 .. n : bytes[p + k - 1] = e[k]
      /\ e[n] < 128 /\ \A k \in 1 .. n - 1 : e[k] >= 128
  BY <1>1 DEF SevenBits, Holds
<1> DEFINE Ends(j) == bytes[p + j] < 128 /\ \A m \in 0 .. j - 1 : bytes[p + m] >= 128
<1>3. n - 1 \in 0 .. b - p /\ bytes[p + (n - 1)] = e[n]
  BY <1>1, <1>2
<1>4. \A m \in 0 .. n - 2 : bytes[p + m] >= 128
  <2> TAKE m \in 0 .. n - 2
  <2>1. m + 1 \in 1 .. n /\ m + 1 \in 1 .. n - 1 /\ p + (m + 1) - 1 = p + m
    BY <1>1, <1>2
  <2>2. bytes[p + (m + 1) - 1] = e[m + 1] /\ e[m + 1] >= 128
    BY ONLY <2>1, <1>2
  <2> QED
    BY <2>1, <2>2
<1>5. Ends(n - 1)
  BY <1>1, <1>2, <1>3, <1>4
<1>6. \A j \in 0 .. b - p : Ends(j) => j = n - 1
  <2> SUFFICES ASSUME NEW j \in 0 .. b - p, Ends(j), j # n - 1 PROVE FALSE
    OBVIOUS
  <2>1. CASE j < n - 1
    <3>1. j \in 0 .. n - 2
      BY <2>1, <1>1, <1>2
    <3>2. bytes[p + j] >= 128 /\ bytes[p + j] < 128 /\ j + 1 \in 1 .. n /\ p + (j + 1) - 1 = p + j
      BY <3>1, <1>1, <1>2, <1>4
    <3>3. bytes[p + j] = e[j + 1] /\ e[j + 1] \in Byte
      BY <3>2, <1>1, <1>2, ElementOfSeq DEF SevenBits
    <3>4. PICK x : x = bytes[p + j]
      OBVIOUS
    <3>5. x \in 0 .. 255 /\ x >= 128 /\ x < 128
      BY <3>2, <3>3, <3>4 DEF Byte
    <3> QED
      BY ONLY <3>5
  <2>2. CASE j > n - 1
    <3>1. n - 1 \in 0 .. j - 1
      BY <2>2, <1>1, <1>2
    <3>2. bytes[p + (n - 1)] >= 128 /\ bytes[p + (n - 1)] < 128
      BY <3>1, <1>2, <1>3
    <3>3. e[n] \in Byte
      BY <1>1, <1>2, ElementOfSeq DEF SevenBits
    <3>4. PICK x : x = bytes[p + (n - 1)]
      OBVIOUS
    <3>5. x \in 0 .. 255 /\ x >= 128 /\ x < 128
      BY <3>2, <3>3, <3>4, <1>3 DEF Byte
    <3> QED
      BY ONLY <3>5
  <2> QED
    BY <2>1, <2>2, <1>1, <1>2
<1>7. PICK j : j = CHOOSE i \in 0 .. b - p : Ends(i)
  OBVIOUS
<1>8. j \in 0 .. b - p /\ Ends(j)
  <2> HIDE DEF Ends
  <2> QED
    BY <1>3, <1>5, <1>7
<1>9. j = n - 1
  <2> HIDE DEF Ends
  <2> QED
    BY <1>6, <1>8
<1>10. VarintLength(bytes, p) = 1 + j
  BY <1>1, <1>7, Zenon DEF VarintLength
<1> QED
  BY <1>1, <1>9, <1>10

\* An integer of several bytes: the first one, then an integer.
LEMMA VarintHeld ==
    ASSUME NEW bytes \in Seq(Byte), NEW p, NEW v \in Nat, Holds(bytes, p, Varint(v))
    PROVE  /\ v < 128 => Len(Varint(v)) = 1 /\ bytes[p] = v
           /\ v >= 128 => /\ bytes[p] = 128 + (v % 128)
                          /\ Len(Varint(v)) = Len(Varint(v \div 128)) + 1
                          /\ Holds(bytes, p + 1, Varint(v \div 128))
<1>1. PICK e, n : e = Varint(v) /\ n = Len(e) /\ n \in Nat
  <2>1. SevenBits(Varint(v))
    BY VarintSevenBits
  <2> QED
    BY <2>1, LenProperties DEF SevenBits
<1>2. /\ p \in Nat \ {0} /\ p + n - 1 <= Len(bytes)
      /\ \A k \in 1 .. n : bytes[p + k - 1] = e[k]
  BY <1>1 DEF Holds
<1>3. CASE v < 128
  <2>1. e = <<v>>
    BY <1>1, <1>3, VarintSteps
  <2>2. n = 1 /\ e[1] = v
    BY <2>1, <1>1
  <2>3. bytes[p + 1 - 1] = e[1] /\ p + 1 - 1 = p
    BY <2>2, <1>2
  <2> QED
    BY <2>2, <2>3, <1>1, <1>3
<1>4. CASE v >= 128
  <2>1. PICK d, x : d = v \div 128 /\ x = 128 + (v % 128)
    OBVIOUS
  <2>2. d \in Nat /\ x \in Byte
    BY <2>1, <1>4, Shorter DEF Byte
  <2>3. PICK s, m : s = Varint(d) /\ m = Len(s)
    OBVIOUS
  <2>4. s \in Seq(Byte) /\ m \in Nat
    BY <2>2, <2>3, VarintSevenBits, LenProperties DEF SevenBits
  <2>5. e = <<x>> \o s
    BY <2>1, <2>3, <1>1, <1>4, VarintSteps
  <2>6. n = m + 1 /\ e[1] = x /\ \A k \in 1 .. m : e[k + 1] = s[k]
    BY <2>2, <2>3, <2>4, <2>5, <1>1, BytePrefixed
  <2>7. bytes[p + 1 - 1] = e[1] /\ p + 1 - 1 = p
    BY <2>4, <2>6, <1>2
  <2>8. \A k \in 1 .. m : bytes[(p + 1) + k - 1] = s[k]
    <3> TAKE k \in 1 .. m
    <3>1. k + 1 \in 1 .. n /\ p + (k + 1) - 1 = (p + 1) + k - 1
      BY <2>4, <2>6, <1>2
    <3>2. bytes[p + (k + 1) - 1] = e[k + 1]
      BY <3>1, <1>2
    <3> QED
      BY <3>1, <3>2, <2>6
  <2>9. Holds(bytes, p + 1, s)
    <3>1. p + 1 \in Nat \ {0} /\ (p + 1) + m - 1 <= Len(bytes)
      BY <2>4, <2>6, <1>2
    <3> QED
      BY <3>1, <2>3, <2>8 DEF Holds
  <2> QED
    BY <2>1, <2>3, <2>6, <2>7, <2>9, <1>1, <1>4
<1> QED
  BY <1>3, <1>4

\* The states of the loop of GetVarint, which reads e bytes from q on.
GetUpTo(f, bytes, q, e, m) ==
    f = [k \in 0 .. m |-> IF k = 0 THEN 0 ELSE f[k - 1] * 128 + (bytes[q + e - k] % 128)]

LEMMA GetUpToExists ==
    ASSUME NEW bytes, NEW q, NEW e, NEW n \in Nat
    PROVE  \E f : GetUpTo(f, bytes, q, e, n)
<1> DEFINE Bad == {m \in Nat : ~ \E f : GetUpTo(f, bytes, q, e, m)}
<1>1. SUFFICES ASSUME Bad # {} PROVE FALSE
  BY <1>1
<1>2. PICK m \in Bad : \A j \in Bad : m <= j
  BY <1>1, LeastElement
<1>3. m \in Nat /\ ~ \E f : GetUpTo(f, bytes, q, e, m)
  BY <1>2
<1> HIDE DEF Bad
<1>4. m # 0
  <2>1. GetUpTo([k \in 0 .. 0 |-> 0], bytes, q, e, 0)
    BY DEF GetUpTo
  <2> QED
    BY <2>1, <1>3
<1>5. PICK f : GetUpTo(f, bytes, q, e, m - 1)
  <2>1. m - 1 \in Nat /\ ~ (m <= m - 1)
    BY <1>3, <1>4
  <2> QED
    BY <2>1, <1>2 DEF Bad
<1> DEFINE g == [k \in 0 .. m |-> IF k = m THEN f[m - 1] * 128 + (bytes[q + e - m] % 128) ELSE f[k]]
<1>6. GetUpTo(g, bytes, q, e, m)
  <2>1. \A k \in 0 .. m - 1 :
           f[k] = IF k = 0 THEN 0 ELSE f[k - 1] * 128 + (bytes[q + e - k] % 128)
    BY <1>3, <1>4, <1>5 DEF GetUpTo
  <2>2. \A k \in 0 .. m :
           g[k] = IF k = 0 THEN 0 ELSE g[k - 1] * 128 + (bytes[q + e - k] % 128)
    <3> TAKE k \in 0 .. m
    <3>1. CASE k = m
      BY <3>1, <1>3, <1>4
    <3>2. CASE k # m
      BY <3>2, <1>3, <1>4, <2>1
    <3> QED
      BY <3>1, <3>2
  <2> QED
    BY <2>2 DEF GetUpTo
<1> QED
  BY <1>6, <1>3

\* All the states of the loop that read the bytes of v give v.
LEMMA VarintSum ==
    ASSUME NEW bytes \in Seq(Byte), NEW v \in Nat, NEW p, Holds(bytes, p, Varint(v)),
           NEW f, GetUpTo(f, bytes, p, Len(Varint(v)), Len(Varint(v)))
    PROVE  f[Len(Varint(v))] = v
<1> DEFINE Wrong(w, q, g) ==
             /\ Holds(bytes, q, Varint(w))
             /\ GetUpTo(g, bytes, q, Len(Varint(w)), Len(Varint(w)))
             /\ g[Len(Varint(w))] # w
           Bad == {w \in Nat : \E q, g : Wrong(w, q, g)}
<1>1. SUFFICES ASSUME Bad # {} PROVE FALSE
  BY <1>1
<1>2. PICK w \in Bad : \A j \in Bad : w <= j
  BY <1>1, LeastElement
<1>3. w \in Nat
  OBVIOUS
<1>4. PICK q, g : Wrong(w, q, g)
  OBVIOUS
<1>5. \A j \in Nat : \A r, h : Wrong(j, r, h) => w <= j
  BY <1>2
<1>6. PICK n : n = Len(Varint(w)) /\ n \in Nat /\ n > 0
  <2>1. SevenBits(Varint(w))
    BY <1>3, VarintSevenBits
  <2> QED
    BY <2>1, LenProperties DEF SevenBits
<1>7. Holds(bytes, q, Varint(w)) /\ q \in Nat
  BY <1>4 DEF Holds
<1>8. \A k \in 0 .. n : g[k] = IF k = 0 THEN 0 ELSE g[k - 1] * 128 + (bytes[q + n - k] % 128)
  BY <1>4, <1>6 DEF GetUpTo
<1>9. g[n] # w
  BY <1>4, <1>6
<1> HIDE DEF Bad, Wrong
<1>10. g[0] = 0 /\ g[n] = g[n - 1] * 128 + (bytes[q] % 128)
  <2>1. n \in 0 .. n /\ 0 \in 0 .. n /\ n # 0 /\ q + n - n = q
    BY <1>6, <1>7
  <2> QED
    BY ONLY <2>1, <1>8
<1>11. CASE w < 128
  <2>1. w < 128 => Len(Varint(w)) = 1 /\ bytes[q] = w
    BY <1>3, <1>7, VarintHeld
  <2>2. n = 1 /\ bytes[q] = w
    BY <2>1, <1>6, <1>11
  <2> QED
    BY <2>2, <1>3, <1>9, <1>10, <1>11
<1>12. CASE w >= 128
  <2>1. PICK d : d = w \div 128 /\ d \in Nat /\ ~ (w <= d)
    BY <1>3, <1>12, Shorter
  <2>2. bytes[q] = 128 + (w % 128) /\ n = Len(Varint(d)) + 1 /\ Holds(bytes, q + 1, Varint(d))
    BY <2>1, <1>3, <1>6, <1>7, <1>12, VarintHeld
  <2>3. PICK m : m = Len(Varint(d)) /\ m \in Nat /\ n = m + 1
    <3>1. SevenBits(Varint(d))
      BY <2>1, VarintSevenBits
    <3> QED
      BY <3>1, <2>2, LenProperties DEF SevenBits
  <2>4. PICK h : h = [k \in 0 .. m |-> g[k]]
    OBVIOUS
  <2>5. \A k \in 0 .. m : h[k] = IF k = 0 THEN 0 ELSE h[k - 1] * 128 + (bytes[q + 1 + m - k] % 128)
    <3> TAKE k \in 0 .. m
    <3>1. k \in 0 .. n /\ q + n - k = q + 1 + m - k
      BY <2>3, <1>7
    <3>2. h[k] = g[k]
      BY <2>4
    <3>3. k # 0 => h[k - 1] = g[k - 1]
      <4>1. k # 0 => k - 1 \in 0 .. m
        BY <2>3
      <4> QED
        BY <4>1, <2>4
    <3>4. g[k] = IF k = 0 THEN 0 ELSE g[k - 1] * 128 + (bytes[q + n - k] % 128)
      BY <3>1, <1>8
    <3> QED
      BY <3>1, <3>2, <3>3, <3>4
  <2>6. GetUpTo(h, bytes, q + 1, m, m)
    <3>1. h = [k \in 0 .. m |-> h[k]]
      BY <2>4
    <3> QED
      BY <3>1, <2>5 DEF GetUpTo
  <2>7. ~Wrong(d, q + 1, h)
    BY <2>1, <1>5
  <2>8. h[m] = d
    BY <2>2, <2>3, <2>6, <2>7 DEF Wrong
  <2>9. g[n - 1] = d
    <3>1. n - 1 = m /\ m \in 0 .. m
      BY <2>3
    <3> QED
      BY <3>1, <2>4, <2>8
  <2>10. (128 + (w % 128)) % 128 = w % 128 /\ d * 128 + (w % 128) = w
    BY <2>1, <1>3
  <2> QED
    BY <2>2, <2>9, <2>10, <1>9, <1>10
<1> QED
  BY <1>3, <1>11, <1>12

\* A variable length integer is read back: wherever its bytes are and whatever
\* is around them, the reader finds its end and its value.
THEOREM IntegersReadBack ==
    ASSUME NEW bytes \in Seq(Byte), NEW v \in Nat, NEW p, Holds(bytes, p, Varint(v))
    PROVE  /\ GetVarint(bytes, p) = v
           /\ VarintLength(bytes, p) = Len(Varint(v))
           /\ ReadVarint(bytes, p) = [val |-> v, skip |-> Len(Varint(v))]
<1>1. SevenBits(Varint(v))
  BY VarintSevenBits
<1>2. PICK n : n = Len(Varint(v)) /\ n \in Nat /\ n > 0
  BY <1>1, LenProperties DEF SevenBits
<1>3. VarintLength(bytes, p) = n
  BY <1>1, <1>2, VarintLengthRead
<1> DEFINE f == CHOOSE f : GetUpTo(f, bytes, p, VarintLength(bytes, p), VarintLength(bytes, p))
<1>4. GetVarint(bytes, p) = f[VarintLength(bytes, p)]
  BY DEF GetVarint, Repeat, GetUpTo
<1>5. GetUpTo(f, bytes, p, VarintLength(bytes, p), VarintLength(bytes, p))
  BY <1>2, <1>3, GetUpToExists
<1> HIDE DEF f
<1>6. GetUpTo(f, bytes, p, Len(Varint(v)), Len(Varint(v)))
  BY <1>2, <1>3, <1>5
<1>7. f[Len(Varint(v))] = v
  BY <1>6, VarintSum
<1> QED
  BY <1>2, <1>3, <1>4, <1>7 DEF ReadVarint

\* The code of a value is in front of what follows it.
LEMMA HoldsParts ==
    ASSUME NEW bytes \in Seq(Byte), NEW p, NEW a \in Seq(Byte), NEW b \in Seq(Byte),
           Holds(bytes, p, a \o b)
    PROVE  /\ Holds(bytes, p, a) /\ Holds(bytes, p + Len(a), b)
           /\ Len(a \o b) = Len(a) + Len(b)
<1>0. PICK e : e = a \o b
  OBVIOUS
<1>1. PICK m, n : m = Len(a) /\ m \in Nat /\ n = Len(b) /\ n \in Nat
  BY LenProperties
<1>2. /\ Len(e) = m + n
      /\ \A k \in 1 .. m + n : e[k] = IF k <= m THEN a[k] ELSE b[k - m]
  BY <1>0, <1>1, ConcatProperties
<1>3. /\ p \in Nat \ {0} /\ p + Len(e) - 1 <= Len(bytes)
      /\ \A k \in 1 .. Len(e) : bytes[p + k - 1] = e[k]
  BY <1>0 DEF Holds
<1>4. Len(bytes) \in Nat
  BY LenProperties
<1>5. Holds(bytes, p, a)
  <2>1. ASSUME NEW k \in 1 .. m PROVE bytes[p + k - 1] = a[k]
    <3>1. k \in 1 .. m + n /\ k <= m
      BY <1>1
    <3>2. e[k] = a[k] /\ bytes[p + k - 1] = e[k]
      BY <3>1, <1>2, <1>3
    <3> QED
      BY <3>2
  <2>2. p + m - 1 <= Len(bytes)
    BY <1>1, <1>2, <1>3, <1>4
  <2> QED
    BY <2>1, <2>2, <1>1, <1>3 DEF Holds
<1>6. Holds(bytes, p + m, b)
  <2>1. ASSUME NEW k \in 1 .. n PROVE bytes[(p + m) + k - 1] = b[k]
    <3>1. m + k \in 1 .. m + n /\ ~(m + k <= m) /\ (m + k) - m = k
      BY <1>1
    <3>2. p + (m + k) - 1 = (p + m) + k - 1
      BY <1>1, <1>3
    <3>3. bytes[p + (m + k) - 1] = e[m + k] /\ e[m + k] = b[k]
      BY <3>1, <1>2, <1>3
    <3> QED
      BY <3>2, <3>3
  <2>2. (p + m) + n - 1 <= Len(bytes) /\ p + m \in Nat \ {0}
    BY <1>1, <1>2, <1>3, <1>4
  <2> QED
    BY <2>1, <2>2, <1>1 DEF Holds
<1> QED
  BY <1>0, <1>1, <1>2, <1>5, <1>6

\* What is copied from where it is held.
LEMMA HeldCopied ==
    ASSUME NEW bytes \in Seq(Byte), NEW p, NEW v \in Seq(Byte), Holds(bytes, p, v)
    PROVE  SubSeq(bytes, p, p + Len(v) - 1) = v
<1>1. PICK n : n = Len(v) /\ n \in Nat
  BY LenProperties
<1>2. p \in Nat \ {0} /\ \A k \in 1 .. n : bytes[p + k - 1] = v[k]
  BY <1>1 DEF Holds
<1>3. \A i \in p .. p + n - 1 : bytes[i] \in Byte
  <2> TAKE i \in p .. p + n - 1
  <2>1. i - p + 1 \in 1 .. n /\ p + (i - p + 1) - 1 = i
    BY <1>1, <1>2
  <2>2. bytes[i] = v[i - p + 1]
    BY <2>1, <1>2
  <2> QED
    BY <2>1, <2>2, <1>1
<1>4. PICK c : c = SubSeq(bytes, p, p + n - 1)
  OBVIOUS
<1>5. /\ c \in Seq(Byte) /\ Len(c) = n
      /\ \A i \in 1 .. n : c[i] = bytes[p + i - 1]
  <2>1. /\ p \in Int /\ p + n - 1 \in Int /\ (p + n - 1) - p + 1 = n
        /\ (IF p <= p + n - 1 THEN n ELSE 0) = n
    BY <1>1, <1>2
  <2> QED
    BY <2>1, <1>3, <1>4, SubSeqProperties
<1>6. c = v
  BY <1>1, <1>2, <1>5, SeqEqual
<1> QED
  BY <1>1, <1>4, <1>6

LEMMA VarintBytes ==
    ASSUME NEW v \in Nat
    PROVE  Varint(v) \in Seq(Byte) /\ Len(Varint(v)) \in Nat \ {0}
<1>1. SevenBits(Varint(v))
  BY VarintSevenBits
<1> QED
  BY <1>1, LenProperties DEF SevenBits

\* A character of a scalar has one place in the alphabet of the format.
LEMMA Alphabet ==
    ASSUME NEW c \in Byte, c \notin Binary
    PROVE  LET k == CHOOSE k \in 0 .. 7 : RcvStr[1 + k] = Canonical(c)
           IN  k \in 0 .. 7 /\ RcvStr[1 + k] = Canonical(c)
<1>1. \E k \in 0 .. 7 : RcvStr[1 + k] = Canonical(c)
  <2>1. Canonical(c) = 45 \/ \E j \in 1 .. 6 : RcvStr[j] = Canonical(c)
    BY DEF Canonical
  <2>2. ASSUME NEW j \in 1 .. 6, RcvStr[j] = Canonical(c)
        PROVE  \E k \in 0 .. 7 : RcvStr[1 + k] = Canonical(c)
    <3>1. j - 1 \in 0 .. 7 /\ 1 + (j - 1) = j
      OBVIOUS
    <3> QED
      BY <3>1, <2>2
  <2>3. 6 \in 0 .. 7 /\ RcvStr[1 + 6] = 45
    BY DEF RcvStr
  <2> QED
    BY <2>1, <2>2, <2>3
<1> QED
  BY <1>1

\* A scalar packs its value and the delta in one integer.
LEMMA ScalarUnpacked ==
    ASSUME NEW c \in Byte, NEW delta \in Nat
    PROVE  /\ ScalarChange(delta, c) \in Nat
           /\ ScalarDelta(ScalarChange(delta, c)) = delta
           /\ ScalarValue(ScalarChange(delta, c)) = Canonical(c)
<1>1. CASE c \in Binary
  <2>1. PICK w : w = ScalarChange(delta, c) /\ w = ((c % 2) * 2) + delta * 4
    BY <1>1 DEF ScalarChange
  <2>2. Canonical(c) = c /\ c \in {48, 49}
    BY <1>1 DEF Canonical, Lower, Binary
  <2>3. w \in Nat /\ w % 2 = 0 /\ w \div 4 = delta /\ (w \div 2) % 2 = c % 2
    BY <2>1, <2>2
  <2>4. 48 + (c % 2) = c
    BY <2>2
  <2> QED
    BY <2>1, <2>2, <2>3, <2>4 DEF ScalarDelta, ScalarValue
<1>2. CASE c \notin Binary
  <2>1. PICK k \in 0 .. 7 : /\ ScalarChange(delta, c) = 1 + 2 * k + delta * 16
                            /\ RcvStr[1 + k] = Canonical(c)
    BY <1>2, Alphabet DEF ScalarChange
  <2>2. PICK w : w = ScalarChange(delta, c) /\ w = 1 + 2 * k + delta * 16
    BY <2>1
  <2>3. w \in Nat /\ w % 2 # 0 /\ w \div 16 = delta /\ (w \div 2) % 8 = k
    BY <2>2
  <2> QED
    BY <2>1, <2>2, <2>3 DEF ScalarDelta, ScalarValue
<1> QED
  BY <1>1, <1>2

\* The states of the loop that packs eight digits.
PackUpTo(f, v, b, m) ==
    f = [k \in 0 .. m |-> IF k = 0 THEN 0 ELSE f[k - 1] * 2 + BitOf(v, 8 * (b - 1) + k)]

LEMMA PackExists ==
    ASSUME NEW v, NEW b, NEW n \in Nat
    PROVE  \E f : PackUpTo(f, v, b, n)
<1> DEFINE Bad == {m \in Nat : ~ \E f : PackUpTo(f, v, b, m)}
<1>1. SUFFICES ASSUME Bad # {} PROVE FALSE
  BY <1>1
<1>2. PICK m \in Bad : \A j \in Bad : m <= j
  BY <1>1, LeastElement
<1>3. m \in Nat /\ ~ \E f : PackUpTo(f, v, b, m)
  BY <1>2
<1> HIDE DEF Bad
<1>4. m # 0
  <2>1. PackUpTo([k \in 0 .. 0 |-> 0], v, b, 0)
    BY DEF PackUpTo
  <2> QED
    BY <2>1, <1>3
<1>5. PICK f : PackUpTo(f, v, b, m - 1)
  <2>1. m - 1 \in Nat /\ ~ (m <= m - 1)
    BY <1>3, <1>4
  <2> QED
    BY <2>1, <1>2 DEF Bad
<1> DEFINE g == [k \in 0 .. m |-> IF k = m THEN f[m - 1] * 2 + BitOf(v, 8 * (b - 1) + m) ELSE f[k]]
<1>6. PackUpTo(g, v, b, m)
  <2>1. \A k \in 0 .. m - 1 :
           f[k] = IF k = 0 THEN 0 ELSE f[k - 1] * 2 + BitOf(v, 8 * (b - 1) + k)
    BY <1>3, <1>4, <1>5 DEF PackUpTo
  <2>2. \A k \in 0 .. m :
           g[k] = IF k = 0 THEN 0 ELSE g[k - 1] * 2 + BitOf(v, 8 * (b - 1) + k)
    <3> TAKE k \in 0 .. m
    <3>1. CASE k = m
      BY <3>1, <1>3, <1>4
    <3>2. CASE k # m
      BY <3>2, <1>3, <1>4, <2>1
    <3> QED
      BY <3>1, <3>2
  <2> QED
    BY <2>2 DEF PackUpTo
<1> QED
  BY <1>6, <1>3

LEMMA BitRange ==
    ASSUME NEW v \in Seq(Byte), NEW k \in Nat \ {0}
    PROVE  BitOf(v, k) \in {0, 1} /\ (k <= Len(v) => BitOf(v, k) = v[k] % 2)
<1>1. Len(v) \in Nat
  BY LenProperties
<1>2. CASE k <= Len(v)
  <2>1. v[k] \in Byte
    BY <1>1, <1>2, ElementOfSeq
  <2>2. \A x \in Byte : x % 2 \in {0, 1}
    BY DEF Byte
  <2> QED
    BY <1>2, <2>1, <2>2 DEF BitOf
<1>3. CASE ~(k <= Len(v))
  BY <1>3 DEF BitOf
<1> QED
  BY <1>2, <1>3

\* Eight digits in a byte, each at its place.
LEMMA PackedByte ==
    ASSUME NEW v \in Seq(Byte), NEW b \in 1 .. PackedLength(Len(v))
    PROVE  /\ PackBits(v)[b] \in Byte
           /\ \A k \in 1 .. 8 : (PackBits(v)[b] \div Weight[k]) % 2 = BitOf(v, 8 * (b - 1) + k)
<1>0. b \in Nat \ {0}
  BY LenProperties DEF PackedLength
<1> DEFINE f == CHOOSE f : PackUpTo(f, v, b, 8)
<1>1. PackUpTo(f, v, b, 8)
  BY PackExists
<1>2. PackBits(v)[b] = f[8]
  BY DEF PackBits, Repeat, PackUpTo
<1>3. \A k \in 0 .. 8 : f[k] = IF k = 0 THEN 0 ELSE f[k - 1] * 2 + BitOf(v, 8 * (b - 1) + k)
  BY <1>1 DEF PackUpTo
<1> HIDE DEF f
<1> DEFINE x(k) == BitOf(v, 8 * (b - 1) + k)
<1>4. \A k \in 1 .. 8 : x(k) \in {0, 1}
  BY <1>0, BitRange
<1>5. f[0] = 0 /\ \A k \in 1 .. 8 : f[k] = f[k - 1] * 2 + x(k)
  BY <1>3
<1> HIDE DEF x
<1>6. PICK x1, x2, x3, x4, x5, x6, x7, x8 :
         /\ x1 = x(1) /\ x2 = x(2) /\ x3 = x(3) /\ x4 = x(4)
         /\ x5 = x(5) /\ x6 = x(6) /\ x7 = x(7) /\ x8 = x(8)
  OBVIOUS
<1>7. /\ x1 \in {0, 1} /\ x2 \in {0, 1} /\ x3 \in {0, 1} /\ x4 \in {0, 1}
      /\ x5 \in {0, 1} /\ x6 \in {0, 1} /\ x7 \in {0, 1} /\ x8 \in {0, 1}
  BY <1>4, <1>6
<1>8. PICK s : s = f[8] /\ s = 128 * x1 + 64 * x2 + 32 * x3 + 16 * x4 + 8 * x5 + 4 * x6 + 2 * x7 + x8
  <2>1. f[1] = x1
    <3>1. f[1] = f[0] * 2 + x1 /\ f[0] = 0
      BY <1>5, <1>6
    <3> QED
      BY ONLY <3>1, <1>7
  <2>2. f[2] = 2 * x1 + x2
    <3>1. f[2] = f[1] * 2 + x2
      BY <1>5, <1>6
    <3> QED
      BY ONLY <2>1, <3>1, <1>7
  <2>3. f[3] = 4 * x1 + 2 * x2 + x3
    <3>1. f[3] = f[2] * 2 + x3
      BY <1>5, <1>6
    <3> QED
      BY ONLY <2>2, <3>1, <1>7
  <2>4. f[4] = 8 * x1 + 4 * x2 + 2 * x3 + x4
    <3>1. f[4] = f[3] * 2 + x4
      BY <1>5, <1>6
    <3> QED
      BY ONLY <2>3, <3>1, <1>7
  <2>5. f[5] = 16 * x1 + 8 * x2 + 4 * x3 + 2 * x4 + x5
    <3>1. f[5] = f[4] * 2 + x5
      BY <1>5, <1>6
    <3> QED
      BY ONLY <2>4, <3>1, <1>7
  <2>6. f[6] = 32 * x1 + 16 * x2 + 8 * x3 + 4 * x4 + 2 * x5 + x6
    <3>1. f[6] = f[5] * 2 + x6
      BY <1>5, <1>6
    <3> QED
      BY ONLY <2>5, <3>1, <1>7
  <2>7. f[7] = 64 * x1 + 32 * x2 + 16 * x3 + 8 * x4 + 4 * x5 + 2 * x6 + x7
    <3>1. f[7] = f[6] * 2 + x7
      BY <1>5, <1>6
    <3> QED
      BY ONLY <2>6, <3>1, <1>7
  <2>8. f[8] = 128 * x1 + 64 * x2 + 32 * x3 + 16 * x4 + 8 * x5 + 4 * x6 + 2 * x7 + x8
    <3>1. f[8] = f[7] * 2 + x8
      BY <1>5, <1>6
    <3> QED
      BY ONLY <2>7, <3>1, <1>7
  <2> QED
    BY <2>8
<1>9. /\ s \in Byte
      /\ (s \div 128) % 2 = x1
      /\ (s \div 64) % 2 = x2
      /\ (s \div 32) % 2 = x3
      /\ (s \div 16) % 2 = x4
      /\ (s \div 8) % 2 = x5
      /\ (s \div 4) % 2 = x6
      /\ (s \div 2) % 2 = x7
      /\ (s \div 1) % 2 = x8
  <2>1. s \in Byte
    BY <1>7, <1>8 DEF Byte
  <2>2. (s \div 128) % 2 = x1
    <3>1. PICK y, z, r : /\ y = x1
                         /\ z = 0
                         /\ r = 64 * x2 + 32 * x3 + 16 * x4 + 8 * x5 + 4 * x6 + 2 * x7 + x8
      OBVIOUS
    <3>2. y \in Nat /\ z \in Nat /\ r \in 0 .. 127
        BY <3>1, <1>7
    <3>3. s = 128 * y + r /\ y = 2 * z + x1
        BY <3>1, <1>7, <1>8
    <3>4. y % 2 = x1
      BY ONLY <3>2, <3>3, <1>7
    <3>5. s \div 128 = y
      BY ONLY <3>2, <3>3, <1>7
    <3> QED
      BY <3>4, <3>5
  <2>3. (s \div 64) % 2 = x2
    <3>1. PICK y, z, r : /\ y = 2 * x1 + x2
                         /\ z = x1
                         /\ r = 32 * x3 + 16 * x4 + 8 * x5 + 4 * x6 + 2 * x7 + x8
      OBVIOUS
    <3>2. y \in Nat /\ z \in Nat /\ r \in 0 .. 63
        BY <3>1, <1>7
    <3>3. s = 64 * y + r /\ y = 2 * z + x2
        BY <3>1, <1>7, <1>8
    <3>4. y % 2 = x2
      BY ONLY <3>2, <3>3, <1>7
    <3>5. s \div 64 = y
      BY ONLY <3>2, <3>3, <1>7
    <3> QED
      BY <3>4, <3>5
  <2>4. (s \div 32) % 2 = x3
    <3>1. PICK y, z, r : /\ y = 4 * x1 + 2 * x2 + x3
                         /\ z = 2 * x1 + x2
                         /\ r = 16 * x4 + 8 * x5 + 4 * x6 + 2 * x7 + x8
      OBVIOUS
    <3>2. y \in Nat /\ z \in Nat /\ r \in 0 .. 31
        BY <3>1, <1>7
    <3>3. s = 32 * y + r /\ y = 2 * z + x3
        BY <3>1, <1>7, <1>8
    <3>4. y % 2 = x3
      BY ONLY <3>2, <3>3, <1>7
    <3>5. s \div 32 = y
      BY ONLY <3>2, <3>3, <1>7
    <3> QED
      BY <3>4, <3>5
  <2>5. (s \div 16) % 2 = x4
    <3>1. PICK y, z, r : /\ y = 8 * x1 + 4 * x2 + 2 * x3 + x4
                         /\ z = 4 * x1 + 2 * x2 + x3
                         /\ r = 8 * x5 + 4 * x6 + 2 * x7 + x8
      OBVIOUS
    <3>2. y \in Nat /\ z \in Nat /\ r \in 0 .. 15
        BY <3>1, <1>7
    <3>3. s = 16 * y + r /\ y = 2 * z + x4
        BY <3>1, <1>7, <1>8
    <3>4. y % 2 = x4
      BY ONLY <3>2, <3>3, <1>7
    <3>5. s \div 16 = y
      BY ONLY <3>2, <3>3, <1>7
    <3> QED
      BY <3>4, <3>5
  <2>6. (s \div 8) % 2 = x5
    <3>1. PICK y, z, r : /\ y = 16 * x1 + 8 * x2 + 4 * x3 + 2 * x4 + x5
                         /\ z = 8 * x1 + 4 * x2 + 2 * x3 + x4
                         /\ r = 4 * x6 + 2 * x7 + x8
      OBVIOUS
    <3>2. y \in Nat /\ z \in Nat /\ r \in 0 .. 7
        BY <3>1, <1>7
    <3>3. s = 8 * y + r /\ y = 2 * z + x5
        BY <3>1, <1>7, <1>8
    <3>4. y % 2 = x5
      BY ONLY <3>2, <3>3, <1>7
    <3>5. s \div 8 = y
      BY ONLY <3>2, <3>3, <1>7
    <3> QED
      BY <3>4, <3>5
  <2>7. (s \div 4) % 2 = x6
    <3>1. PICK y, z, r : /\ y = 32 * x1 + 16 * x2 + 8 * x3 + 4 * x4 + 2 * x5 + x6
                         /\ z = 16 * x1 + 8 * x2 + 4 * x3 + 2 * x4 + x5
                         /\ r = 2 * x7 + x8
      OBVIOUS
    <3>2. y \in Nat /\ z \in Nat /\ r \in 0 .. 3
        BY <3>1, <1>7
    <3>3. s = 4 * y + r /\ y = 2 * z + x6
        BY <3>1, <1>7, <1>8
    <3>4. y % 2 = x6
      BY ONLY <3>2, <3>3, <1>7
    <3>5. s \div 4 = y
      BY ONLY <3>2, <3>3, <1>7
    <3> QED
      BY <3>4, <3>5
  <2>8. (s \div 2) % 2 = x7
    <3>1. PICK y, z, r : /\ y = 64 * x1 + 32 * x2 + 16 * x3 + 8 * x4 + 4 * x5 + 2 * x6 + x7
                         /\ z = 32 * x1 + 16 * x2 + 8 * x3 + 4 * x4 + 2 * x5 + x6
                         /\ r = x8
      OBVIOUS
    <3>2. y \in Nat /\ z \in Nat /\ r \in 0 .. 1
        BY <3>1, <1>7
    <3>3. s = 2 * y + r /\ y = 2 * z + x7
        BY <3>1, <1>7, <1>8
    <3>4. y % 2 = x7
      BY ONLY <3>2, <3>3, <1>7
    <3>5. s \div 2 = y
      BY ONLY <3>2, <3>3, <1>7
    <3> QED
      BY <3>4, <3>5
  <2>9. (s \div 1) % 2 = x8
    <3>1. PICK y, z, r : /\ y = 128 * x1 + 64 * x2 + 32 * x3 + 16 * x4 + 8 * x5 + 4 * x6 + 2 * x7 + x8
                         /\ z = 64 * x1 + 32 * x2 + 16 * x3 + 8 * x4 + 4 * x5 + 2 * x6 + x7
                         /\ r = 0
      OBVIOUS
    <3>2. y \in Nat /\ z \in Nat /\ r \in 0 .. 0
        BY <3>1, <1>7
    <3>3. s = 1 * y + r /\ y = 2 * z + x8
        BY <3>1, <1>7, <1>8
    <3>4. y % 2 = x8
      BY ONLY <3>2, <3>3, <1>7
    <3>5. s \div 1 = y
      BY ONLY <3>2, <3>3, <1>7
    <3> QED
      BY <3>4, <3>5
  <2> QED
    BY <2>1, <2>2, <2>3, <2>4, <2>5, <2>6, <2>7, <2>8, <2>9
<1>10. ASSUME NEW k \in 1 .. 8 PROVE (s \div Weight[k]) % 2 = x(k)
  <2>1. CASE k = 1
    <3>1. Weight[1] = 128
      BY DEF Weight
    <3> QED
      BY <2>1, <3>1, <1>6, <1>9
  <2>2. CASE k = 2
    <3>1. Weight[2] = 64
      BY DEF Weight
    <3> QED
      BY <2>2, <3>1, <1>6, <1>9
  <2>3. CASE k = 3
    <3>1. Weight[3] = 32
      BY DEF Weight
    <3> QED
      BY <2>3, <3>1, <1>6, <1>9
  <2>4. CASE k = 4
    <3>1. Weight[4] = 16
      BY DEF Weight
    <3> QED
      BY <2>4, <3>1, <1>6, <1>9
  <2>5. CASE k = 5
    <3>1. Weight[5] = 8
      BY DEF Weight
    <3> QED
      BY <2>5, <3>1, <1>6, <1>9
  <2>6. CASE k = 6
    <3>1. Weight[6] = 4
      BY DEF Weight
    <3> QED
      BY <2>6, <3>1, <1>6, <1>9
  <2>7. CASE k = 7
    <3>1. Weight[7] = 2
      BY DEF Weight
    <3> QED
      BY <2>7, <3>1, <1>6, <1>9
  <2>8. CASE k = 8
    <3>1. Weight[8] = 1
      BY DEF Weight
    <3> QED
      BY <2>8, <3>1, <1>6, <1>9
  <2> QED
    BY <2>1, <2>2, <2>3, <2>4, <2>5, <2>6, <2>7, <2>8
<1> QED
  BY <1>2, <1>8, <1>9, <1>10 DEF x

LEMMA PackedSequence ==
    ASSUME NEW v \in Seq(Byte)
    PROVE  PackBits(v) \in Seq(Byte) /\ Len(PackBits(v)) = PackedLength(Len(v))
<1>1. PICK n : n = PackedLength(Len(v)) /\ n \in Nat
  BY LenProperties DEF PackedLength
<1>2. DOMAIN PackBits(v) = 1 .. n /\ PackBits(v) = [b \in 1 .. n |-> PackBits(v)[b]]
  <2> DEFINE e(b) == Repeat(LAMBDA acc, k : acc * 2 + BitOf(v, 8 * (b - 1) + k), 0, 8)
  <2>1. PackBits(v) = [b \in 1 .. PackedLength(Len(v)) |-> e(b)]
    BY DEF PackBits, Repeat
  <2> HIDE DEF e
  <2> QED
    BY <1>1, <2>1
<1>3. \A b \in 1 .. n : PackBits(v)[b] \in Byte
  BY <1>1, PackedByte
<1>4. PackBits(v) \in [1 .. n -> Byte]
  BY <1>2, <1>3
<1> QED
  BY <1>1, <1>4

\* The digits of a vector are unpacked as they were packed.
LEMMA DigitsRead ==
    ASSUME NEW bytes \in Seq(Byte), NEW p, NEW v \in Seq(Byte), IsBinary(v),
           Holds(bytes, p, PackBits(v))
    PROVE  UnpackBits(bytes, p, Len(v)) = v
<1>1. PICK n : n = Len(v) /\ n \in Nat
  BY LenProperties
<1>2. Len(PackBits(v)) = PackedLength(n)
  BY <1>1, PackedSequence
<1>3. ASSUME NEW k \in 1 .. n
      PROVE  48 + ((bytes[p + ((k - 1) \div 8)] \div Weight[1 + ((k - 1) % 8)]) % 2) = v[k]
  <2>1. PICK b, j : b = 1 + ((k - 1) \div 8) /\ j = 1 + ((k - 1) % 8)
    OBVIOUS
  <2>2. b \in 1 .. PackedLength(n) /\ j \in 1 .. 8 /\ 8 * (b - 1) + j = k
    BY <1>1, <2>1 DEF PackedLength
  <2>3. p + b - 1 = p + ((k - 1) \div 8)
    BY <2>1, <1>1 DEF Holds
  <2>4. bytes[p + b - 1] = PackBits(v)[b]
    BY <1>2, <2>2 DEF Holds
  <2>5. (PackBits(v)[b] \div Weight[j]) % 2 = BitOf(v, k)
    <3>1. (PackBits(v)[b] \div Weight[j]) % 2 = BitOf(v, 8 * (b - 1) + j)
      BY <1>1, <2>2, PackedByte
    <3> QED
      BY <2>2, <3>1
  <2>6. BitOf(v, k) = v[k] % 2
    BY <1>1 DEF BitOf
  <2>7. v[k] = 48 \/ v[k] = 49
    BY <1>1, LenProperties DEF IsBinary, Binary
  <2>8. 48 + (v[k] % 2) = v[k]
    BY <2>7
  <2> QED
    BY <2>1, <2>3, <2>4, <2>5, <2>6, <2>8
<1>4. UnpackBits(bytes, p, n) = [k \in 1 .. n |-> v[k]]
  BY <1>3 DEF UnpackBits
<1>5. v = [k \in 1 .. n |-> v[k]]
  BY <1>1
<1> QED
  BY <1>1, <1>4, <1>5

\* A character of a scalar is read back in the alphabet of the format.
LEMMA ScalarRead ==
    ASSUME NEW bytes \in Seq(Byte), NEW p, NEW c \in Byte, NEW delta \in Nat,
           Holds(bytes, p, Varint(ScalarChange(delta, c)))
    PROVE  /\ ScalarDelta(GetVarint(bytes, p)) = delta
           /\ DecodeScalar(bytes, p) = [val |-> <<Canonical(c)>>,
                                        next |-> p + Len(Varint(ScalarChange(delta, c)))]
<1>1. PICK w \in Nat : /\ w = ScalarChange(delta, c)
                       /\ ScalarDelta(w) = delta /\ ScalarValue(w) = Canonical(c)
  BY ScalarUnpacked
<1>2. GetVarint(bytes, p) = w /\ VarintLength(bytes, p) = Len(Varint(w))
  BY <1>1, IntegersReadBack
<1> QED
  BY <1>1, <1>2 DEF DecodeScalar

\* A string is read back, whatever is after it.
LEMMA StringRead ==
    ASSUME NEW bytes \in Seq(Byte), NEW p, NEW v \in Seq(Byte), NEW delta \in Nat,
           Holds(bytes, p, StringChange(delta, v))
    PROVE  /\ GetVarint(bytes, p) \div 2 = delta
           /\ DecodeString(bytes, p) = [val |-> v, next |-> p + Len(StringChange(delta, v))]
<1>1. PICK n : n = Len(v) /\ n \in Nat
  BY LenProperties
<1>2. PICK d, size : d = Varint(delta * 2) /\ size = Varint(n)
  OBVIOUS
<1>3. /\ d \in Seq(Byte) /\ Len(d) \in Nat \ {0}
      /\ size \in Seq(Byte) /\ Len(size) \in Nat \ {0}
  <2>1. delta * 2 \in Nat
    OBVIOUS
  <2> QED
    BY <1>1, <1>2, <2>1, VarintBytes
<1>4. PICK tail : tail = size \o v
  OBVIOUS
<1>5. tail \in Seq(Byte) /\ StringChange(delta, v) = d \o tail
  BY <1>1, <1>2, <1>3, <1>4, ConcatProperties DEF StringChange, VarintToLeft
<1>6. /\ Holds(bytes, p, d) /\ Holds(bytes, p + Len(d), tail)
      /\ Len(StringChange(delta, v)) = Len(d) + Len(tail)
  BY <1>3, <1>5, HoldsParts
<1>7. PICK q, r : q = p + Len(d) /\ r = q + Len(size)
  OBVIOUS
<1>8. Holds(bytes, q, size) /\ Holds(bytes, r, v) /\ Len(tail) = Len(size) + n
  BY <1>1, <1>3, <1>4, <1>6, <1>7, HoldsParts
<1>9. GetVarint(bytes, p) = delta * 2 /\ VarintLength(bytes, p) = Len(d)
  <2>1. delta * 2 \in Nat
    OBVIOUS
  <2> QED
    BY <2>1, <1>2, <1>6, IntegersReadBack
<1>10. ReadVarint(bytes, q) = [val |-> n, skip |-> Len(size)]
  BY <1>1, <1>2, <1>8, IntegersReadBack
<1>11. SubSeq(bytes, r, r + n - 1) = v
  BY <1>1, <1>8, HeldCopied
<1>12. DecodeString(bytes, p) = [val |-> v, next |-> r + n]
  <2>1. p + VarintLength(bytes, p) = q
    BY <1>7, <1>9
  <2>2. ReadVarint(bytes, q).skip = Len(size) /\ ReadVarint(bytes, q).val = n
    BY <1>10
  <2> QED
    BY <2>1, <2>2, <1>7, <1>11 DEF DecodeString
<1>13. r + n = p + (Len(d) + Len(tail))
  <2>1. p \in Nat
    BY <1>6 DEF Holds
  <2> QED
    BY <2>1, <1>1, <1>3, <1>7, <1>8
<1> QED
  BY <1>6, <1>9, <1>12, <1>13

\* A vector is read back, packed when it has only binary digits.
LEMMA VectorRead ==
    ASSUME NEW bytes \in Seq(Byte), NEW p, NEW v \in Seq(Byte), NEW delta \in Nat,
           Holds(bytes, p, VectorChange(delta, v))
    PROVE  /\ GetVarint(bytes, p) \div 2 = delta
           /\ DecodeVector(Len(v), bytes, p) =
                  [val |-> v, next |-> p + Len(VectorChange(delta, v))]
<1>1. PICK n : n = Len(v) /\ n \in Nat
  BY LenProperties
<1>2. CASE IsBinary(v)
  <2>1. PICK w, d : w = delta * 2 /\ w \in Nat /\ d = Varint(w)
    OBVIOUS
  <2>2. d \in Seq(Byte) /\ Len(d) \in Nat \ {0}
    BY <2>1, VarintBytes
  <2>3. VectorChange(delta, v) = d \o PackBits(v)
    BY <1>2, <2>1 DEF VectorChange, VarintToLeft
  <2>4. PackBits(v) \in Seq(Byte) /\ Len(PackBits(v)) = PackedLength(n)
    BY <1>1, PackedSequence
  <2>5. /\ Holds(bytes, p, d) /\ Holds(bytes, p + Len(d), PackBits(v))
        /\ Len(VectorChange(delta, v)) = Len(d) + PackedLength(n)
    <3>1. PICK e : e = PackBits(v) /\ e \in Seq(Byte) /\ Len(e) = PackedLength(n)
      BY <2>4
    <3>2. VectorChange(delta, v) = d \o e /\ Holds(bytes, p, d \o e)
      BY <2>3, <3>1
    <3>3. /\ Holds(bytes, p, d) /\ Holds(bytes, p + Len(d), e)
          /\ Len(d \o e) = Len(d) + Len(e)
      BY <2>2, <3>1, <3>2, HoldsParts
    <3> QED
      BY <3>1, <3>2, <3>3
  <2>6. GetVarint(bytes, p) = w /\ VarintLength(bytes, p) = Len(d)
    BY <2>1, <2>5, IntegersReadBack
  <2>7. w % 2 = 0 /\ w \div 2 = delta
    BY <2>1
  <2>8. UnpackBits(bytes, p + Len(d), n) = v
    BY <1>1, <1>2, <2>5, DigitsRead
  <2>9. DecodeVector(n, bytes, p) = [val |-> v, next |-> (p + Len(d)) + PackedLength(n)]
    BY <2>6, <2>7, <2>8 DEF DecodeVector
  <2>10. (p + Len(d)) + PackedLength(n) = p + (Len(d) + PackedLength(n))
    <3>1. p \in Nat /\ PackedLength(n) \in Nat
      BY <1>1, <2>5 DEF Holds, PackedLength
    <3> QED
      BY <3>1, <2>2
  <2> QED
    BY <1>1, <2>5, <2>6, <2>7, <2>9, <2>10
<1>3. CASE ~IsBinary(v)
  <2>1. PICK w, d : w = delta * 2 + 1 /\ w \in Nat /\ d = Varint(w)
    OBVIOUS
  <2>2. d \in Seq(Byte) /\ Len(d) \in Nat \ {0}
    BY <2>1, VarintBytes
  <2>3. VectorChange(delta, v) = d \o v
    BY <1>3, <2>1 DEF VectorChange, VarintToLeft
  <2>4. /\ Holds(bytes, p, d) /\ Holds(bytes, p + Len(d), v)
        /\ Len(VectorChange(delta, v)) = Len(d) + n
    BY <1>1, <2>2, <2>3, HoldsParts
  <2>5. GetVarint(bytes, p) = w /\ VarintLength(bytes, p) = Len(d)
    BY <2>1, <2>4, IntegersReadBack
  <2>6. w % 2 # 0 /\ w \div 2 = delta
    BY <2>1
  <2>7. SubSeq(bytes, p + Len(d), (p + Len(d)) + n - 1) = v
    BY <1>1, <2>4, HeldCopied
  <2>8. DecodeVector(n, bytes, p) = [val |-> v, next |-> (p + Len(d)) + n]
    BY <2>5, <2>6, <2>7 DEF DecodeVector
  <2>9. (p + Len(d)) + n = p + (Len(d) + n)
    <3>1. p \in Nat
      BY <2>4 DEF Holds
    <3> QED
      BY <3>1, <2>2, <1>1
  <2> QED
    BY <1>1, <2>4, <2>5, <2>6, <2>8, <2>9
<1> QED
  BY <1>2, <1>3

\* A value for a signal of length len: a signal of length 0 has strings.
FitsLength(len, v) == v \in Seq(Byte) /\ (len = 0 \/ Len(v) = len)

\* A value change is read back: wherever the record of a change is in a chain and
\* whatever is around it, the reader finds the number of time steps since the
\* change before it, the value that was emitted (a single character in the
\* alphabet of the format) and the place of the next record.
THEOREM ChangesReadBack ==
    ASSUME NEW bytes \in Seq(Byte), NEW p, NEW len \in Nat, NEW delta \in Nat,
           NEW v, FitsLength(len, v), Holds(bytes, p, EncodeChange(len, delta, v))
    PROVE  /\ ChangeDelta(len, bytes, p) = delta
           /\ DecodeChange(len, bytes, p) =
                  [val |-> Shown(len, v), next |-> p + Len(EncodeChange(len, delta, v))]
<1>1. CASE len = 1
  <2>1. v[1] \in Byte
    <3>1. v \in Seq(Byte) /\ Len(v) = 1
      BY <1>1 DEF FitsLength
    <3>2. 1 \in 1 .. Len(v)
      BY <3>1
    <3> QED
      BY ONLY <3>1, <3>2, ElementOfSeq
  <2>2. EncodeChange(len, delta, v) = Varint(ScalarChange(delta, v[1]))
    BY <1>1 DEF EncodeChange
  <2>3. Shown(len, v) = <<Canonical(v[1])>>
    BY <1>1 DEF Shown
  <2>4. /\ ChangeDelta(len, bytes, p) = ScalarDelta(GetVarint(bytes, p))
        /\ DecodeChange(len, bytes, p) = DecodeScalar(bytes, p)
    BY <1>1 DEF ChangeDelta, DecodeChange
  <2> QED
    BY <2>1, <2>2, <2>3, <2>4, ScalarRead
<1>2. CASE len = 0
  <2>1. v \in Seq(Byte) /\ Shown(len, v) = v
    BY <1>2 DEF FitsLength, Shown
  <2>2. EncodeChange(len, delta, v) = StringChange(delta, v)
    BY <1>2 DEF EncodeChange
  <2>3. /\ ChangeDelta(len, bytes, p) = GetVarint(bytes, p) \div 2
        /\ DecodeChange(len, bytes, p) = DecodeString(bytes, p)
    BY <1>2 DEF ChangeDelta, DecodeChange
  <2> QED
    BY <2>1, <2>2, <2>3, StringRead
<1>3. CASE len # 0 /\ len # 1
  <2>1. v \in Seq(Byte) /\ Len(v) = len /\ Shown(len, v) = v
    BY <1>3 DEF FitsLength, Shown
  <2>2. EncodeChange(len, delta, v) = VectorChange(delta, v)
    BY <1>3 DEF EncodeChange
  <2>3. /\ ChangeDelta(len, bytes, p) = GetVarint(bytes, p) \div 2
        /\ DecodeChange(len, bytes, p) = DecodeVector(len, bytes, p)
    BY <1>3 DEF ChangeDelta, DecodeChange
  <2> QED
    BY <2>1, <2>2, <2>3, VectorRead
<1> QED
  BY <1>1, <1>2, <1>3

-----------------------------------------------------------------------------
(* The section in memory: the linked lists of the signals.                 *)

\* Among the first n changes of s after the place d, the last one of signal h is
\* at p; it has none when p is 0.
Latest(p, h, s, d, n) ==
    /\ p \in 0 .. n
    /\ p # 0 => s[d + p].handle = h
    /\ \A k \in p + 1 .. n : s[d + k].handle # h

\* The change in memory at k is the one emitted at d + k, at the time number
\* at[k] of the section; it is linked to the one before of the same signal.
Stands(x, s, d, at, k) ==
    /\ x.vchg[k].data = s[d + k].val
    /\ Sums(x.tchn)[at[k] + 1] = s[d + k].time
    /\ Latest(x.vchg[k].next, s[d + k].handle, s, d, k - 1)
    /\ x.vchg[k].delta = at[k] - (IF x.vchg[k].next = 0 THEN 0 ELSE at[x.vchg[k].next])
    /\ x.vchg[k].delta \in Nat

\* A signal starts at its last change, and knows the number of its time.
Ends(x, s, d, at, h) ==
    /\ Latest(x.vals[h].vchg, h, s, d, Len(x.vchg))
    /\ x.vals[h].tidx = IF x.vals[h].vchg = 0 THEN 0 ELSE at[x.vals[h].vchg]

\* The changes in memory are those of s after the place d.
InMemory(x, s, d) ==
    /\ x.tchn_idx \in Nat /\ Len(x.tchn) = x.tchn_idx + 1
    /\ IsList(x.vchg) /\ IsList(s) /\ d \in Nat /\ Len(s) = d + Len(x.vchg)
    /\ \E at \in [1 .. Len(x.vchg) -> 0 .. x.tchn_idx] :
          /\ \A k \in 1 .. Len(x.vchg) : Stands(x, s, d, at, k)
          /\ \A h \in 1 .. Len(x.vals) : Ends(x, s, d, at, h)

ValFields == {"len", "vchg", "tidx"}
Valued(x) == \A h \in 1 .. Len(x.vals) : DOMAIN x.vals[h] = ValFields

LEMMA LatestAppend ==
    ASSUME NEW s, NEW e, NEW t, LongerBy(t, s, e), NEW d \in Nat, NEW n \in Nat, Len(s) = d + n,
           NEW h, NEW p
    PROVE  /\ \A m \in 0 .. n : Latest(p, h, s, d, m) => Latest(p, h, t, d, m)
           /\ Latest(p, h, s, d, n) /\ e.handle # h => Latest(p, h, t, d, n + 1)
           /\ e.handle = h => Latest(n + 1, h, t, d, n + 1)
<1>1. /\ \A k \in 1 .. n : t[d + k] = s[d + k]
      /\ t[d + (n + 1)] = e
  <2>1. \A k \in 1 .. n : d + k \in 1 .. Len(s)
    OBVIOUS
  <2>2. d + (n + 1) = Len(s) + 1
    OBVIOUS
  <2> QED
    BY <2>1, <2>2 DEF LongerBy
<1>2. ASSUME NEW m \in 0 .. n, Latest(p, h, s, d, m) PROVE Latest(p, h, t, d, m)
  <2>1. p \in 0 .. m /\ (p # 0 => p \in 1 .. n) /\ \A k \in p + 1 .. m : k \in 1 .. n
    BY <1>2 DEF Latest
  <2> QED
    BY <2>1, <1>1, <1>2 DEF Latest
<1>3. ASSUME Latest(p, h, s, d, n), e.handle # h PROVE Latest(p, h, t, d, n + 1)
  <2>1. Latest(p, h, t, d, n)
    BY <1>2, <1>3
  <2>2. p \in 0 .. n + 1
    BY <2>1 DEF Latest
  <2>3. ASSUME NEW k \in p + 1 .. n + 1 PROVE t[d + k].handle # h
    <3>1. CASE k = n + 1
      BY <3>1, <1>1, <1>3
    <3>2. CASE k # n + 1
      <4>1. k \in p + 1 .. n
        BY <3>2, <2>2
      <4> QED
        BY <4>1, <2>1 DEF Latest
    <3> QED
      BY <3>1, <3>2
  <2> QED
    BY <2>1, <2>2, <2>3 DEF Latest
<1>4. ASSUME e.handle = h PROVE Latest(n + 1, h, t, d, n + 1)
  <2>1. n + 1 \in 0 .. n + 1 /\ (n + 1) + 1 .. n + 1 = {}
    OBVIOUS
  <2> QED
    BY <2>1, <1>1, <1>4 DEF Latest
<1> QED
  BY <1>2, <1>3, <1>4

\* The change e of signal h is recorded in memory, and emitted after those of s.
Recorded(x, y, h, v, s, t, e) ==
    /\ y = Change(x, h, v)
    /\ e.time = x.curtime /\ e.handle = h /\ e.val = v
    /\ t = Append(s, e)

\* A change is added to the list of its signal.
LEMMA ChangeInMemory ==
    ASSUME NEW x, DOMAIN x = ContextFields, IsList(x.vals), Valued(x),
           NEW s, NEW d, InMemory(x, s, d), Sums(x.tchn)[Len(x.tchn)] = x.curtime,
           NEW h \in 1 .. Len(x.vals), NEW v, NEW y, NEW e, NEW t, Recorded(x, y, h, v, s, t, e)
    PROVE  InMemory(y, t, d) /\ Valued(y) /\ Len(y.vals) = Len(x.vals)
<1>0. y = Change(x, h, v) /\ e.time = x.curtime /\ e.handle = h /\ e.val = v /\ t = Append(s, e)
  BY DEF Recorded
<1>1. PICK n, T, c : /\ n = Len(x.vchg) /\ T = x.tchn_idx
                     /\ c = [next |-> x.vals[h].vchg, delta |-> T - x.vals[h].tidx, data |-> v]
  OBVIOUS
<1>2. /\ T \in Nat /\ Len(x.tchn) = T + 1 /\ IsList(x.vchg) /\ IsList(s) /\ d \in Nat /\ Len(s) = d + n
  BY <1>1 DEF InMemory
<1>3. n \in Nat
  BY <1>1, <1>2, ListLength
<1>4. PICK at \in [1 .. n -> 0 .. T] : /\ \A k \in 1 .. n : Stands(x, s, d, at, k)
                                       /\ \A g \in 1 .. Len(x.vals) : Ends(x, s, d, at, g)
  BY <1>1 DEF InMemory
<1>5. /\ LongerBy(t, s, e) /\ LongerBy(y.vchg, x.vchg, c)
      /\ y.tchn = x.tchn /\ y.tchn_idx = T
  <2>1. y.vchg = Append(x.vchg, c) /\ y.tchn = x.tchn /\ y.tchn_idx = T
    BY <1>0, <1>1 DEF Change, ContextFields
  <2> QED
    BY <2>1, <1>0, <1>2, ListAppend
<1>6. /\ IsList(y.vchg) /\ Len(y.vchg) = n + 1 /\ y.vchg[n + 1] = c
      /\ \A k \in 1 .. n : y.vchg[k] = x.vchg[k]
      /\ IsList(t) /\ Len(t) = d + (n + 1) /\ t[d + (n + 1)] = e
      /\ \A k \in 1 .. n : t[d + k] = s[d + k]
  <2>1. \A k \in 1 .. n : d + k \in 1 .. Len(s)
    BY <1>2, <1>3
  <2>2. d + (n + 1) = Len(s) + 1 /\ Len(s) + 1 = d + (n + 1)
    BY <1>2, <1>3
  <2> QED
    BY <2>1, <2>2, <1>1, <1>5 DEF LongerBy
<1>7. /\ DOMAIN y.vals = DOMAIN x.vals
      /\ \A g \in DOMAIN x.vals : g # h => y.vals[g] = x.vals[g]
      /\ DOMAIN x.vals[h] = ValFields => /\ DOMAIN y.vals[h] = ValFields
                                         /\ y.vals[h].vchg = n + 1 /\ y.vals[h].tidx = T
  <2>1. PICK w : w = [x.vals[h] EXCEPT !.vchg = n + 1, !.tidx = T]
    OBVIOUS
  <2>2. h \in DOMAIN x.vals
    BY ListLength
  <2>3. y.vals = [x.vals EXCEPT ![h] = w]
    BY <2>1, <2>2, <1>0, <1>1 DEF Change, ContextFields
  <2>4. DOMAIN x.vals[h] = ValFields => DOMAIN w = ValFields /\ w.vchg = n + 1 /\ w.tidx = T
    BY <2>1 DEF ValFields
  <2> QED
    BY <2>2, <2>3, <2>4
<1>8. DOMAIN x.vals = 1 .. Len(x.vals) /\ DOMAIN y.vals = 1 .. Len(y.vals) /\ Len(y.vals) = Len(x.vals)
  <2>1. y.vals = [g \in DOMAIN x.vals |-> y.vals[g]]
    BY <1>0 DEF Change, ContextFields
  <2>2. IsList(y.vals)
    BY <2>1, ListMap
  <2>3. PICK p, q : p = Len(x.vals) /\ q = Len(y.vals) /\ p \in Nat /\ q \in Nat
                    /\ DOMAIN x.vals = 1 .. p /\ DOMAIN y.vals = 1 .. q
    BY <2>2, ListLength
  <2>4. p = q
    BY <2>3, <1>7
  <2> QED
    BY <2>3, <2>4
<1>9. Valued(y)
  BY <1>7, <1>8 DEF Valued
<1>10. y.vals[h].vchg = n + 1 /\ y.vals[h].tidx = T
  BY <1>7 DEF Valued
<1> DEFINE bt == [k \in 1 .. n + 1 |-> IF k = n + 1 THEN T ELSE at[k]]
<1>11. /\ bt \in [1 .. n + 1 -> 0 .. T] /\ bt[n + 1] = T
       /\ \A k \in 1 .. n : bt[k] = at[k]
  <2>1. /\ n + 1 \in 1 .. n + 1 /\ T \in 0 .. T
        /\ \A k \in 1 .. n : k \in 1 .. n + 1 /\ k # n + 1
        /\ \A k \in 1 .. n + 1 : k = n + 1 \/ k \in 1 .. n
    BY <1>2, <1>3
  <2>2. \A k \in 1 .. n : at[k] \in 0 .. T
    OBVIOUS
  <2>3. \A k \in 1 .. n + 1 : (IF k = n + 1 THEN T ELSE at[k]) \in 0 .. T
    BY <2>1, <2>2
  <2> QED
    BY <2>1, <2>3
<1> HIDE DEF bt
<1>12. ASSUME NEW k \in 1 .. n PROVE Stands(y, t, d, bt, k)
  <2>1. Stands(x, s, d, at, k)
    BY <1>4
  <2>2. bt[k] = at[k] /\ y.vchg[k] = x.vchg[k] /\ t[d + k] = s[d + k]
    BY <1>6, <1>11
  <2>7. PICK m : m = k - 1 /\ m \in 0 .. n
    BY <1>3
  <2>3. PICK g, p : g = s[d + k].handle /\ p = x.vchg[k].next
    OBVIOUS
  <2>4. Latest(p, g, s, d, k - 1)
    BY <2>1, <2>3 DEF Stands
  <2>5. Latest(p, g, t, d, k - 1)
    <3>1. Latest(p, g, s, d, m) => Latest(p, g, t, d, m)
      BY ONLY <2>7, <1>2, <1>3, <1>5, LatestAppend
    <3> QED
      BY <3>1, <2>4, <2>7
  <2>6. p # 0 => bt[p] = at[p]
    <3>1. p # 0 => p \in 1 .. n
      BY <2>4, <1>3 DEF Latest
    <3> QED
      BY <3>1, <1>11
  <2> QED
    BY <2>1, <2>2, <2>3, <2>5, <2>6, <1>5 DEF Stands
<1>13. Ends(x, s, d, at, h)
  BY <1>4
<1>14. Stands(y, t, d, bt, n + 1)
  <2>1. PICK p, i : p = x.vals[h].vchg /\ i = x.vals[h].tidx
    OBVIOUS
  <2>2. Latest(p, h, s, d, n) /\ i = IF p = 0 THEN 0 ELSE at[p]
    BY <2>1, <1>1, <1>13 DEF Ends
  <2>3. Latest(p, h, t, d, n) /\ (n + 1) - 1 = n
    BY <2>2, <1>2, <1>3, <1>5, LatestAppend
  <2>4. p # 0 => p \in 1 .. n
    BY <2>2, <1>3 DEF Latest
  <2>5. i = (IF p = 0 THEN 0 ELSE bt[p]) /\ i \in 0 .. T
    BY <2>2, <2>4, <1>2, <1>11
  <2>6. c.next = p /\ c.delta = T - i /\ c.data = v
    BY <2>1, <1>1
  <2>7. T - i \in Nat
    BY <2>5, <1>2
  <2>8. e.time = x.curtime /\ e.handle = h /\ e.val = v
    BY <1>0
  <2>9. Sums(y.tchn)[T + 1] = x.curtime
    BY <1>2, <1>5
  <2> QED
    BY <2>3, <2>5, <2>6, <2>7, <2>8, <2>9, <1>6, <1>11 DEF Stands
<1>15. \A k \in 1 .. n + 1 : Stands(y, t, d, bt, k)
  <2>1. \A k \in 1 .. n + 1 : k = n + 1 \/ k \in 1 .. n
    BY <1>3
  <2> QED
    BY <2>1, <1>12, <1>14
<1>16. ASSUME NEW g \in 1 .. Len(y.vals) PROVE Ends(y, t, d, bt, g)
  <2>1. CASE g = h
    <3>1. Latest(n + 1, h, t, d, n + 1)
      <4>1. e.handle = h
        BY <1>0
      <4>2. PICK p : p = 0
        OBVIOUS
      <4> QED
        BY ONLY <4>1, <4>2, <1>2, <1>3, <1>5, LatestAppend
    <3> QED
      BY <2>1, <3>1, <1>3, <1>6, <1>10, <1>11 DEF Ends
  <2>2. CASE g # h
    <3>1. y.vals[g] = x.vals[g] /\ Ends(x, s, d, at, g)
      BY <2>2, <1>4, <1>7, <1>8
    <3>2. PICK p : p = x.vals[g].vchg
      OBVIOUS
    <3>3. Latest(p, g, s, d, n) /\ x.vals[g].tidx = IF p = 0 THEN 0 ELSE at[p]
      BY <3>1, <3>2, <1>1 DEF Ends
    <3>4. Latest(p, g, t, d, n + 1)
      <4>1. e.handle # g
        BY <2>2, <1>0
      <4> QED
        BY ONLY <4>1, <3>3, <1>2, <1>3, <1>5, LatestAppend
    <3>5. p # 0 => bt[p] = at[p]
      <4>1. p # 0 => p \in 1 .. n
        BY <3>3, <1>3 DEF Latest
      <4> QED
        BY <4>1, <1>11
    <3> QED
      BY <3>1, <3>2, <3>3, <3>4, <3>5, <1>6 DEF Ends
  <2> QED
    BY <2>1, <2>2
<1>17. InMemory(y, t, d)
  BY <1>2, <1>5, <1>6, <1>11, <1>15, <1>16 DEF InMemory
<1> QED
  BY <1>8, <1>9, <1>17

\* A time is added to the list of times.
LEMMA TimeInMemory ==
    ASSUME NEW x, NEW s, NEW d, InMemory(x, s, d), x.tchn \in Seq(Nat),
           NEW D \in Nat, NEW y, y.tchn = Append(x.tchn, D), y.tchn_idx = x.tchn_idx + 1,
           y.vchg = x.vchg, y.vals = x.vals
    PROVE  InMemory(y, s, d)
<1>1. PICK n, T : n = Len(x.vchg) /\ T = x.tchn_idx
  OBVIOUS
<1>2. T \in Nat /\ Len(x.tchn) = T + 1
  BY <1>1 DEF InMemory
<1>3. PICK at \in [1 .. n -> 0 .. T] : /\ \A k \in 1 .. n : Stands(x, s, d, at, k)
                                       /\ \A g \in 1 .. Len(x.vals) : Ends(x, s, d, at, g)
  BY <1>1 DEF InMemory
<1>4. PICK a, b : a = x.tchn /\ b = y.tchn
  OBVIOUS
<1>5. Len(b) = T + 2 /\ \A k \in 1 .. T + 1 : Sums(b)[k] = Sums(a)[k]
  <2>1. a \in Seq(Nat) /\ b = Append(a, D) /\ Len(a) = T + 1
    BY <1>2, <1>4
  <2>2. Len(b) = Len(a) + 1 /\ \A k \in 1 .. Len(a) : Sums(b)[k] = Sums(a)[k]
    <3>1. PICK u \in Nat : u = D
      OBVIOUS
    <3>2. PICK f \in Seq(Nat) : f = a
      BY <2>1
    <3>3. b = Append(f, u)
      BY <2>1, <3>1, <3>2
    <3>4. Len(b) = Len(f) + 1
      BY <3>3, AppendProperties
    <3>5. ASSUME NEW k \in 1 .. Len(f) PROVE Sums(b)[k] = Sums(f)[k]
      BY <3>3, SumsKept
    <3> QED
      BY <3>2, <3>4, <3>5
  <2> QED
    BY <2>1, <2>2, <1>2
<1>6. at \in [1 .. n -> 0 .. T + 1] /\ \A k \in 1 .. n : at[k] + 1 \in 1 .. T + 1
  <2>1. \A k \in 1 .. n : at[k] \in 0 .. T
    OBVIOUS
  <2>2. \A i \in 0 .. T : i \in 0 .. T + 1 /\ i + 1 \in 1 .. T + 1
    BY <1>2
  <2> QED
    BY <2>1, <2>2
<1>7. ASSUME NEW k \in 1 .. n PROVE Stands(y, s, d, at, k)
  <2>1. Stands(x, s, d, at, k)
    BY <1>3
  <2>2. at[k] + 1 \in 1 .. T + 1
    BY <1>6
  <2>3. Sums(y.tchn)[at[k] + 1] = Sums(x.tchn)[at[k] + 1]
    BY <2>2, <1>4, <1>5
  <2> QED
    BY <2>1, <2>3 DEF Stands
<1>8. \A g \in 1 .. Len(y.vals) : Ends(y, s, d, at, g)
  BY <1>3 DEF Ends
<1>9. y.tchn_idx = T + 1 /\ Len(y.tchn) = (T + 1) + 1
  BY <1>1, <1>2, <1>4, <1>5
<1>10. /\ IsList(y.vchg) /\ IsList(s) /\ d \in Nat /\ Len(s) = d + Len(y.vchg)
       /\ Len(y.vchg) = n /\ y.tchn_idx \in Nat /\ Len(y.tchn) = y.tchn_idx + 1
  BY <1>1, <1>2, <1>9 DEF InMemory
<1>11. at \in [1 .. Len(y.vchg) -> 0 .. y.tchn_idx] /\ \A k \in 1 .. Len(y.vchg) : Stands(y, s, d, at, k)
  BY <1>6, <1>7, <1>9, <1>10
<1> QED
  BY <1>8, <1>10, <1>11, Zenon DEF InMemory

\* Nothing was recorded in this section yet.
Emptied(x) ==
    /\ x.vchg = <<>>
    /\ \A h \in 1 .. Len(x.vals) : x.vals[h].vchg = 0 /\ x.vals[h].tidx = 0

LEMMA EmptyInMemory ==
    ASSUME NEW x, Emptied(x), x.tchn_idx \in Nat, Len(x.tchn) = x.tchn_idx + 1,
           NEW s, IsList(s), NEW d, d = Len(s)
    PROVE  InMemory(x, s, d)
<1>1. Len(x.vchg) = 0 /\ IsList(x.vchg) /\ d \in Nat /\ Len(s) = d + 0
  <2>1. <<>> \in Seq({}) /\ Len(<<>>) = 0
    OBVIOUS
  <2>2. d \in Nat
    BY ListLength
  <2> QED
    BY <2>1, <2>2 DEF Emptied, IsList
<1> DEFINE at == [k \in 1 .. 0 |-> 0]
<1>2. at \in [1 .. 0 -> 0 .. x.tchn_idx]
  OBVIOUS
<1> HIDE DEF at
<1>3. ASSUME NEW h \in 1 .. Len(x.vals) PROVE Ends(x, s, d, at, h)
  BY <1>1, <1>3 DEF Ends, Emptied, Latest
<1>4. \A k \in 1 .. 0 : Stands(x, s, d, at, k)
  OBVIOUS
<1>5. Len(s) = d + Len(x.vchg)
  BY <1>1
<1> QED
  BY <1>1, <1>2, <1>3, <1>4, <1>5, Zenon DEF InMemory

\* Until the trace is closed, the client goes through the signals, and the
\* changes in memory are those that were emitted since the last section.
Live(here, x) ==
    here \in {"declare", "run", "time"} \/ (here \in {"flush_tag", "flush_next"} /\ ~x.skip_header)
Memory(here, x, s, d) ==
    /\ here = "declare" \/ (here = "run" /\ x.initial /\ ~x.locked) =>
          x.mapped = FALSE /\ s = <<>> /\ d = 0
    /\ here = "run" /\ ~x.initial => InMemory(x, s, d)
    /\ here = "time" \/ (here \in {"flush_tag", "flush_next"} /\ ~x.skip_header) =>
          Emptied(x) /\ IsList(s) /\ (here # "flush_tag" => d = Len(s))
MemoryInv ==
    /\ Live(pc, xc) => todo \in 0 .. Len(xc.vals) /\ Valued(xc)
    /\ Memory(pc, xc, emitted, flushed)

\* The phases in which nothing is said.
LEMMA MemoryClosed ==
    ASSUME pc' \in ClosePhases \/ (pc' = "flush_tag" /\ xc'.skip_header = TRUE)
    PROVE  MemoryInv'
BY DEF MemoryInv, Memory, Live, ClosePhases, LatePhases

LEMMA SameMemory ==
    ASSUME NEW x, NEW y, y.vchg = x.vchg, y.vals = x.vals, y.tchn = x.tchn, y.tchn_idx = x.tchn_idx,
           NEW s, NEW d, InMemory(x, s, d)
    PROVE  InMemory(y, s, d)
<1>1. \A at, k : Stands(x, s, d, at, k) => Stands(y, s, d, at, k)
  BY DEF Stands
<1>2. \A at, h : Ends(x, s, d, at, h) => Ends(y, s, d, at, h)
  BY DEF Ends
<1> QED
  BY <1>1, <1>2, Zenon DEF InMemory

\* A declaration adds at most a signal without a change.
LEMMA CalledValued ==
    ASSUME NEW x, DOMAIN x = ContextFields, IsList(x.vals), Valued(x),
           NEW c, c.call \in Calls, NEW y, y = Called(x, c)
    PROVE  Valued(y) /\ Len(y.vals) >= Len(x.vals) /\ Len(y.vals) \in Nat /\ y.mapped = x.mapped
<1>1. Len(x.vals) \in Nat
  BY ListLength
<1>2. CASE c.call # "var"
  <2>1. y.vals = x.vals /\ y.mapped = x.mapped
    <3>1. CASE c.call = "stem"
      <4>1. \E p, h : y = [x EXCEPT !.paths = p, !.hier = h]
        BY <3>1, Zenon DEF Called, AddStem
      <4> QED
        BY <4>1 DEF ContextFields
    <3>2. CASE c.call # "stem"
      BY <1>2, <3>2 DEF Called, Calls, ContextFields
    <3> QED
      BY <3>1, <3>2
  <2> QED
    BY <2>1, <1>1 DEF Valued
<1>3. CASE c.call = "var"
  <2>1. PICK v : DOMAIN v = ValFields /\ y.mapped = x.mapped /\ (y.vals = x.vals \/ y.vals = Append(x.vals, v))
    <3> DEFINE alias == IF c.alias > Len(x.vals) THEN 0 ELSE c.alias
               h == PutVar(PutMisc(x.hier, c.type, SupVar, c.svt * 1024 + c.sdt),
                           c.vt, c.dir, c.len, c.name, alias)
               z == [x EXCEPT !.hier = h, !.numsigs = @ + 1]
               u == [len |-> VarLength(c.vt, c.len), vchg |-> 0, tidx |-> 0]
               w == [z EXCEPT !.geom = Append(@, GeomLength(c.vt, c.len)), !.vals = Append(@, u),
                              !.curval = Append(@, InitialValue(c.vt, c.len))]
    <3>1. y = IF alias # 0 THEN z ELSE w
      BY <1>3 DEF Called, AddVar
    <3>2. DOMAIN u = ValFields
      BY DEF ValFields
    <3> HIDE DEF h, u, alias
    <3>3. z.vals = x.vals /\ z.mapped = x.mapped /\ DOMAIN z = ContextFields
      BY DEF ContextFields
    <3> HIDE DEF z
    <3>4. w.vals = Append(z.vals, u) /\ w.mapped = z.mapped
      BY <3>3 DEF ContextFields
    <3> HIDE DEF w
    <3> QED
      BY <3>1, <3>2, <3>3, <3>4
  <2>2. CASE y.vals = x.vals
    BY <2>1, <2>2, <1>1 DEF Valued
  <2>3. CASE y.vals = Append(x.vals, v)
    <3>1. PICK a, b : a = x.vals /\ b = y.vals
      OBVIOUS
    <3>2. b = Append(a, v) /\ IsList(a)
      BY <3>1, <2>3
    <3>3. LongerBy(b, a, v)
      BY ONLY <3>2, ListAppend
    <3>4. PICK n \in Nat : Len(a) = n /\ Len(b) = n + 1 /\ b[n + 1] = v /\ \A k \in 1 .. n : b[k] = a[k]
      BY <3>1, <3>3, <1>1 DEF LongerBy
    <3>5. ASSUME NEW k \in 1 .. n + 1 PROVE DOMAIN b[k] = ValFields
      <4>1. CASE k = n + 1
        BY <4>1, <3>4, <2>1
      <4>2. CASE k # n + 1
        <5>1. k \in 1 .. n /\ b[k] = a[k]
          BY <4>2, <3>4
        <5> QED
          BY <5>1, <3>1, <3>4 DEF Valued
      <4> QED
        BY <4>1, <4>2
    <3> QED
      BY <3>1, <3>4, <3>5, <2>1 DEF Valued
  <2> QED
    BY <2>1, <2>2, <2>3
<1> QED
  BY <1>2, <1>3

LEMMA DeclareMemory ==
    ASSUME BlocksInv, MemoryInv, Declare, UNCHANGED todo
    PROVE  MemoryInv'
<1>1. conf.calls[tim + 1].call \in Calls
  <2>1. PICK n : n = Len(conf.calls)
    OBVIOUS
  <2>2. n \in Nat /\ \A k \in 1 .. n : conf.calls[k].call \in Calls
    BY <2>1, ConfigsAssumption DEF BlocksInv
  <2>3. tim + 1 \in 1 .. n
    BY <2>1, <2>2 DEF BlocksInv, Declare
  <2> QED
    BY <2>2, <2>3
<1>2. PICK c : c = conf.calls[tim + 1]
  OBVIOUS
<1>3. xc' = Called(xc, c) /\ c.call \in Calls /\ pc = "declare" /\ UNCHANGED <<pc, emitted, flushed>>
  BY <1>1, <1>2 DEF Declare
<1>4. DOMAIN xc = ContextFields /\ IsList(xc.vals) /\ Valued(xc) /\ todo \in 0 .. Len(xc.vals)
      /\ xc.mapped = FALSE /\ emitted = <<>> /\ flushed = 0
  BY <1>3 DEF BlocksInv, Context, MemoryInv, Memory, Live
<1>5. Valued(xc') /\ Len(xc'.vals) >= Len(xc.vals) /\ Len(xc'.vals) \in Nat /\ xc'.mapped = xc.mapped
  BY <1>3, <1>4, CalledValued
<1>6. todo' \in 0 .. Len(xc'.vals)
  <2>1. Len(xc.vals) \in Nat
    BY <1>4, ListLength
  <2> QED
    BY <2>1, <1>4, <1>5
<1> QED
  BY <1>3, <1>4, <1>5, <1>6 DEF MemoryInv, Memory

LEMMA DeclaredMemory ==
    ASSUME BlocksInv, MemoryInv, Declared, UNCHANGED todo
    PROVE  MemoryInv'
<1>1. xc.initial = TRUE
  BY DEF BlocksInv, Declared, Phase, Starting
<1> QED
  BY <1>1 DEF Declared, MemoryInv, Memory, Live

LEMMA FlushTagMemory ==
    ASSUME MemoryInv, FlushTag, UNCHANGED todo
    PROVE  MemoryInv'
BY DEF FlushTag, MemoryInv, Memory, Live

LEMMA FlushNextMemory ==
    ASSUME BlocksInv, MemoryInv, FlushNext, UNCHANGED todo
    PROVE  MemoryInv'
<1>1. CASE xc.skip_header
  BY <1>1, MemoryClosed DEF FlushNext, ClosePhases
<1>2. CASE ~xc.skip_header
  <2>1. /\ pc = "flush_next" /\ pc' = "time" /\ UNCHANGED <<emitted, flushed>>
        /\ \E a, b, c, d, e : xc' = [xc EXCEPT !.truncpos = a, !.skip_header = b, !.locked = c,
                                               !.initial = d, !.header_only = e]
    BY <1>2, Zenon DEF FlushNext
  <2>2. xc'.vals = xc.vals /\ xc'.vchg = xc.vchg
    BY <2>1 DEF BlocksInv, Context, ContextFields
  <2> QED
    BY <1>2, <2>1, <2>2 DEF MemoryInv, Memory, Live, Valued, Emptied
<1> QED
  BY <1>1, <1>2

LEMMA TimeAfterFlushMemory ==
    ASSUME BlocksInv, MemoryInv, TimeAfterFlush, UNCHANGED todo
    PROVE  MemoryInv'
<1>1. PICK z, a, b : z = [xc EXCEPT !.tchn = <<xc.curtime>>] /\ a = xc.curtime /\ b = tim - z.curtime
  OBVIOUS
<1>2. pc = "time" /\ pc' = "run" /\ xc' = AddTime(z, tim, 1) /\ UNCHANGED <<emitted, flushed>>
      /\ DOMAIN xc = ContextFields
  BY <1>1 DEF TimeAfterFlush, BlocksInv, Context
<1>3. DOMAIN z = ContextFields /\ z.tchn = <<a>> /\ z.vals = xc.vals /\ z.vchg = xc.vchg /\ z.initial = xc.initial
      /\ z.locked = xc.locked
  BY <1>1, <1>2 DEF ContextFields
<1>4. xc'.tchn = Append(<<a>>, b) /\ xc'.tchn_idx = 1 /\ xc'.vals = xc.vals /\ xc'.vchg = xc.vchg
      /\ xc'.initial = xc.initial /\ xc'.locked = xc.locked
  BY <1>1, <1>2, <1>3 DEF AddTime, ContextFields
<1>5. Len(xc'.tchn) = 2
  BY <1>4
<1>6. Emptied(xc') /\ IsList(emitted) /\ flushed = Len(emitted) /\ todo \in 0 .. Len(xc.vals) /\ Valued(xc)
  BY <1>2, <1>4 DEF MemoryInv, Memory, Live, Emptied
<1>7. InMemory(xc', emitted, flushed)
  <2>1. PICK x, s, d : x = xc' /\ s = emitted /\ d = flushed
    OBVIOUS
  <2>2. Emptied(x) /\ IsList(s) /\ d = Len(s) /\ x.tchn_idx \in Nat /\ Len(x.tchn) = x.tchn_idx + 1
    BY <2>1, <1>4, <1>5, <1>6
  <2> QED
    BY <2>1, <2>2, EmptyInMemory
<1>8. xc'.initial => xc'.locked
  <2>1. Headed(xc, file.blocks, xc.curtime) \/ Stopped(xc, file.blocks)
    BY <1>2 DEF BlocksInv, Phase
  <2> QED
    BY <2>1, <1>4 DEF Headed, Stopped
<1> QED
  BY <1>2, <1>4, <1>6, <1>7, <1>8 DEF MemoryInv, Memory, Live, Valued

\* As many signals, none of which has a change.
Cleared(y, x) == Valued(y) /\ Emptied(y) /\ Len(y.vals) = Len(x.vals)

LEMMA ClearedMap ==
    ASSUME NEW x, IsList(x.vals), NEW y, y.vchg = <<>>,
           y.vals = [h \in DOMAIN x.vals |-> y.vals[h]],
           \A h \in DOMAIN x.vals : /\ DOMAIN y.vals[h] = ValFields
                                    /\ y.vals[h].vchg = 0 /\ y.vals[h].tidx = 0
    PROVE  Cleared(y, x)
<1>1. IsList(y.vals)
  BY ListMap
<1>2. PICK p, q : p = Len(x.vals) /\ q = Len(y.vals) /\ p \in Nat /\ q \in Nat
                  /\ DOMAIN x.vals = 1 .. p /\ DOMAIN y.vals = 1 .. q
  BY <1>1, ListLength
<1>3. DOMAIN y.vals = DOMAIN x.vals
  OBVIOUS
<1>4. p = q
  BY <1>2, <1>3
<1> QED
  BY <1>2, <1>4 DEF Cleared, Valued, Emptied

Unlinked(v) == [v EXCEPT !.vchg = 0, !.tidx = 0]
LEMMA UnlinkedFields ==
    ASSUME NEW v, DOMAIN v = ValFields, NEW w, w = Unlinked(v)
    PROVE  DOMAIN w = ValFields /\ w.vchg = 0 /\ w.tidx = 0
BY DEF Unlinked, ValFields

LEMMA FlushedCleared ==
    ASSUME NEW x, DOMAIN x = ContextFields, IsList(x.vals), Valued(x),
           \A h \in 1 .. Len(x.vals) : x.vals[h].vchg = 0 => x.vals[h].tidx = 0,
           NEW y, y = AfterFlush(x)
    PROVE  Cleared(y, x)
<1>1. DOMAIN x.vals = 1 .. Len(x.vals)
  BY ListLength
<1>2. y.vchg = <<>>
  BY DEF AfterFlush, ContextFields
<1>3. y.vals = [h \in DOMAIN x.vals |->
                   IF x.vals[h].vchg = 0 THEN x.vals[h]
                   ELSE Unlinked(x.vals[h])]
  BY DEF AfterFlush, ContextFields, Unlinked
<1>4. ASSUME NEW h \in DOMAIN x.vals
      PROVE  DOMAIN y.vals[h] = ValFields /\ y.vals[h].vchg = 0 /\ y.vals[h].tidx = 0
  <2>1. PICK v, w : v = x.vals[h] /\ w = y.vals[h]
    OBVIOUS
  <2>2. DOMAIN v = ValFields /\ (v.vchg = 0 => v.tidx = 0)
    BY <2>1, <1>1 DEF Valued
  <2>3. w = IF v.vchg = 0 THEN v ELSE Unlinked(v)
    BY <2>1, <1>3
  <2>4. DOMAIN w = ValFields /\ w.vchg = 0 /\ w.tidx = 0
    BY <2>2, <2>3, UnlinkedFields
  <2> QED
    BY <2>1, <2>4
<1>5. y.vals = [h \in DOMAIN x.vals |-> y.vals[h]]
  BY <1>3
<1> QED
  BY <1>2, <1>4, <1>5, ClearedMap

LEMMA FirstTimeCleared ==
    ASSUME NEW x, DOMAIN x = ContextFields, IsList(x.vals), Valued(x), NEW t, NEW y, y = FirstTime(x, t)
    PROVE  Cleared(y, x)
<1>1. DOMAIN x.vals = 1 .. Len(x.vals)
  BY ListLength
<1>2. y.vchg = <<>>
  BY DEF FirstTime, ContextFields
<1>3. y.vals = [h \in DOMAIN x.vals |-> Unlinked(x.vals[h])]
  BY DEF FirstTime, ContextFields, Unlinked
<1>4. ASSUME NEW h \in DOMAIN x.vals
      PROVE  DOMAIN y.vals[h] = ValFields /\ y.vals[h].vchg = 0 /\ y.vals[h].tidx = 0
  <2>1. PICK v, w : v = x.vals[h] /\ w = y.vals[h]
    OBVIOUS
  <2>2. DOMAIN v = ValFields
    BY <2>1, <1>1 DEF Valued
  <2>3. w = Unlinked(v)
    BY <2>1, <1>3
  <2>4. DOMAIN w = ValFields /\ w.vchg = 0 /\ w.tidx = 0
    BY <2>2, <2>3, UnlinkedFields
  <2> QED
    BY <2>1, <2>4
<1>5. y.vals = [h \in DOMAIN x.vals |-> y.vals[h]]
  BY <1>3
<1> QED
  BY <1>2, <1>4, <1>5, ClearedMap

LEMMA ChangeValued ==
    ASSUME NEW x, DOMAIN x = ContextFields, IsList(x.vals), Valued(x),
           NEW h \in 1 .. Len(x.vals), NEW v, NEW y, y = Change(x, h, v)
    PROVE  Valued(y) /\ Len(y.vals) = Len(x.vals)
<1>0. PICK c, i : c = Len(x.vchg) + 1 /\ i = x.tchn_idx
  OBVIOUS
<1>1. PICK w : c = Len(x.vchg) + 1 /\ i = x.tchn_idx /\ w = [x.vals[h] EXCEPT !.vchg = c, !.tidx = i]
  BY <1>0
<1>2. DOMAIN x.vals = 1 .. Len(x.vals) /\ Len(x.vals) \in Nat
  BY ListLength
<1>3. y.vals = [x.vals EXCEPT ![h] = w]
  BY <1>1, <1>2 DEF Change, ContextFields
<1>4. DOMAIN w = ValFields
  BY <1>1 DEF ValFields, Valued
<1>5. y.vals = [g \in DOMAIN x.vals |-> y.vals[g]]
  BY <1>3
<1>6. IsList(y.vals)
  BY <1>5, ListMap
<1>7. DOMAIN y.vals = 1 .. Len(y.vals) /\ Len(y.vals) \in Nat
  BY <1>6, ListLength
<1>8. Len(y.vals) = Len(x.vals)
  <2>1. DOMAIN y.vals = DOMAIN x.vals
    BY <1>5
  <2>2. PICK p, q : p = Len(x.vals) /\ q = Len(y.vals)
    OBVIOUS
  <2> QED
    BY <2>1, <2>2, <1>2, <1>7
<1> QED
  BY <1>2, <1>3, <1>4, <1>8 DEF Valued

LEMMA MockupContext ==
    ASSUME NEW x, Context(x), NEW y, y = (IF x.initial /\ ~x.locked THEN Mockup(x) ELSE x)
    PROVE  DOMAIN y = ContextFields
<1>1. CASE y = x
  BY <1>1 DEF Context
<1>2. CASE y = Mockup(x)
  <2>1. Alike(y, MockupStart(x))
    BY <1>2, MockupAlike
  <2> QED
    BY <2>1 DEF Alike
<1> QED
  BY <1>1, <1>2

LEMMA BeginCycleMemory ==
    ASSUME BlocksInv, MemoryInv, BeginCycle
    PROVE  MemoryInv'
<1>1. PICK T, w : T = (now + 1) * conf.step /\ w = CycleTime(conf, now)
  OBVIOUS
<1>2. T \in Nat /\ w \in Nat /\ w <= T
  BY <1>1, CycleTimes DEF BlocksInv, BeginCycle
<1>3. /\ pc = "run" /\ EmitTimeChange(T) /\ DOMAIN xc = ContextFields /\ IsList(xc.vals)
      /\ xc.curtime \in Nat /\ xc.curtime <= w /\ xc.tchn \in Seq(Nat)
      /\ Valued(xc) /\ Memory("run", xc, emitted, flushed)
      /\ Starting(xc, file.blocks) \/ Recording(xc, file.blocks) \/ Stopped(xc, file.blocks)
  BY <1>1 DEF BeginCycle, EmitTimeChange, BlocksInv, Context, Phase, Timed, MemoryInv, Live
<1>4. todo' = (IF Len(xc.vals) = 0 THEN 0 ELSE 1) /\ Len(xc.vals) \in Nat
  BY <1>3, ListLength DEF BeginCycle, maxhandle
<1>5. todo' \in 0 .. Len(xc.vals)
  BY <1>4
<1>6. CASE EmitFirstTime(T)
  <2>1. PICK z : z = FirstTime(xc, T)
    OBVIOUS
  <2>2. xc' = AddTime(z, T, 0) /\ xc.initial /\ ~xc.locked /\ UNCHANGED <<pc, emitted, flushed>>
    BY <2>1, <1>6 DEF EmitFirstTime
  <2>3. Cleared(z, xc)
    BY <2>1, <1>3, FirstTimeCleared
  <2>4. /\ DOMAIN z = ContextFields /\ z.initial = FALSE /\ z.tchn = xc.tchn
    BY <2>1, <1>3 DEF FirstTime, ContextFields
  <2>5. xc.tchn = <<>>
    BY <2>2, <1>3, Zenon DEF Starting, Recording, Headed, Stopped
  <2>6. PICK b : b = T - z.curtime
    OBVIOUS
  <2>7. /\ xc'.tchn = Append(<<>>, b) /\ xc'.tchn_idx = 0 /\ xc'.initial = FALSE
        /\ xc'.vals = z.vals /\ xc'.vchg = z.vchg
    BY <2>2, <2>4, <2>5, <2>6 DEF AddTime, ContextFields
  <2>8. Len(xc'.tchn) = 1
    BY <2>7
  <2>9. emitted = <<>> /\ flushed = 0
    BY <2>2, <1>3 DEF Memory
  <2>10. InMemory(xc', emitted, flushed)
    <3>1. PICK x, s, d : x = xc' /\ s = emitted /\ d = flushed
      OBVIOUS
    <3>2. IsList(s) /\ d = Len(s)
      <4>1. <<>> \in Seq({}) /\ Len(<<>>) = 0
        OBVIOUS
      <4> QED
        BY <4>1, <3>1, <2>9 DEF IsList
    <3>3. Emptied(x) /\ x.tchn_idx \in Nat /\ Len(x.tchn) = x.tchn_idx + 1
      BY <3>1, <2>3, <2>7, <2>8 DEF Cleared, Emptied
    <3> QED
      BY <3>1, <3>2, <3>3, EmptyInMemory
  <2>11. Valued(xc') /\ Len(xc'.vals) = Len(xc.vals)
    BY <2>3, <2>7 DEF Cleared, Valued
  <2> QED
    BY <2>2, <2>7, <2>10, <2>11, <1>3, <1>5 DEF MemoryInv, Memory
<1>7. CASE EmitNextTime(T)
  <2>1. ~xc.initial /\ UNCHANGED <<emitted, flushed>>
    BY <1>7 DEF EmitNextTime
  <2>2. InMemory(xc, emitted, flushed)
    BY <2>1, <1>3 DEF Memory
  <2>3. CASE xc' = AddTime(xc, T, xc.tchn_idx + 1) /\ UNCHANGED <<file, pc, tim>>
    <3>1. PICK D : D = T - xc.curtime
      OBVIOUS
    <3>2. D \in Nat
      BY <3>1, <1>2, <1>3
    <3>3. /\ xc'.tchn = Append(xc.tchn, D) /\ xc'.tchn_idx = xc.tchn_idx + 1
          /\ xc'.vals = xc.vals /\ xc'.vchg = xc.vchg /\ xc'.initial = xc.initial
      BY <3>1, <2>3, <1>3 DEF AddTime, ContextFields
    <3>4. PICK x, y, s, d : x = xc /\ y = xc' /\ s = emitted /\ d = flushed
      OBVIOUS
    <3>5. InMemory(y, s, d)
      BY <3>2, <3>3, <3>4, <2>2, <1>3, TimeInMemory
    <3> QED
      BY <3>3, <3>4, <3>5, <2>1, <2>3, <1>3, <1>5 DEF MemoryInv, Memory, Valued
  <2>4. CASE FlushBody(xc, file) /\ tim' = T
    <3>1. xc' = AfterFlush(xc) /\ pc' = "flush_tag"
      BY <2>4 DEF FlushBody
    <3>2. \A h \in 1 .. Len(xc.vals) : xc.vals[h].vchg = 0 => xc.vals[h].tidx = 0
      BY <2>2 DEF InMemory, Ends
    <3>3. Cleared(xc', xc)
      BY <3>1, <3>2, <1>3, FlushedCleared
    <3>4. IsList(emitted)
      BY <2>2 DEF InMemory
    <3> QED
      BY <3>1, <3>3, <3>4, <2>1, <1>5 DEF MemoryInv, Memory, Cleared
  <2> QED
    BY <2>3, <2>4, <1>7 DEF EmitNextTime
<1>8. CASE xc.locked /\ UNCHANGED wvars
  BY <1>3, <1>5, <1>8 DEF MemoryInv, wvars
<1> QED
  BY <1>3, <1>6, <1>7, <1>8 DEF EmitTimeChange

LEMMA NextVarInRange ==
    ASSUME IsList(xc.vals), todo \in 0 .. Len(xc.vals), todo # 0, NextVar
    PROVE  todo' \in 0 .. Len(xc.vals) /\ todo \in 1 .. Len(xc.vals)
<1>1. Len(xc.vals) \in Nat
  BY ListLength
<1> QED
  BY <1>1 DEF NextVar, maxhandle

LEMMA EmitVarMemory ==
    ASSUME BlocksInv, MemoryInv, EmitVar
    PROVE  MemoryInv'
<1>1. PICK v : EmitValueChange(todo, v)
  BY DEF EmitVar
<1>2. /\ pc = "run" /\ pc' = "run" /\ xc.mapped /\ xc' = Emitted(xc, todo, v) /\ flushed' = flushed
      /\ emitted' = Append(emitted, [time |-> xc.curtime, handle |-> todo, val |-> v])
  BY <1>1 DEF EmitValueChange
<1>3. /\ DOMAIN xc = ContextFields /\ IsList(xc.vals)
      /\ Valued(xc) /\ Memory("run", xc, emitted, flushed)
      /\ Starting(xc, file.blocks) \/ Recording(xc, file.blocks) \/ Stopped(xc, file.blocks)
      /\ todo \in 0 .. Len(xc.vals)
  BY <1>2 DEF BlocksInv, Context, Phase, MemoryInv, Live
<1>4. todo' \in 0 .. Len(xc.vals) /\ todo \in 1 .. Len(xc.vals)
  BY <1>3, NextVarInRange DEF EmitVar
<1>5. CASE xc.initial
  <2>1. xc.locked /\ xc.initial = TRUE
    BY <1>2, <1>3, <1>5, Zenon DEF Memory, Starting, Recording, Headed, Stopped
  <2>2. PICK h : h = todo
    OBVIOUS
  <2>3. Alike(xc', xc)
    BY <1>2, <1>3, <2>2, EmittedAlike
  <2>4. xc'.locked /\ xc'.initial = TRUE
    BY <2>1, <2>3 DEF Alike
  <2>5. Valued(xc') /\ Len(xc'.vals) = Len(xc.vals)
    <3>1. CASE xc' = [xc EXCEPT !.curval[h] = v]
      <4>1. xc'.vals = xc.vals
        BY <3>1, <1>3 DEF ContextFields
      <4> QED
        BY <4>1, <1>3 DEF Valued
    <3>2. CASE xc' = Change(xc, h, v)
      BY <3>2, <2>2, <1>3, <1>4, ChangeValued
    <3> QED
      BY <3>1, <3>2, <1>2, <2>2 DEF Emitted
  <2> QED
    BY <1>2, <1>4, <2>4, <2>5 DEF MemoryInv, Memory
<1>6. CASE ~xc.initial
  <2>1. InMemory(xc, emitted, flushed) /\ Sums(xc.tchn)[Len(xc.tchn)] = xc.curtime
    BY <1>3, <1>6, Zenon DEF Memory, Starting, Stopped, Recording
  <2>2. xc' = Change(xc, todo, v)
    BY <1>2, <1>6 DEF Emitted
  <2>3. PICK x, y, s, t, d, h, e : /\ x = xc /\ y = xc' /\ s = emitted /\ t = emitted' /\ d = flushed /\ h = todo
                                   /\ e = [time |-> x.curtime, handle |-> h, val |-> v]
    OBVIOUS
  <2>4. InMemory(y, t, d) /\ Valued(y) /\ Len(y.vals) = Len(x.vals)
    <3>1. /\ DOMAIN x = ContextFields /\ IsList(x.vals) /\ Valued(x) /\ InMemory(x, s, d)
          /\ Sums(x.tchn)[Len(x.tchn)] = x.curtime
          /\ h \in 1 .. Len(x.vals) /\ Recorded(x, y, h, v, s, t, e)
      BY <2>1, <2>2, <2>3, <1>2, <1>3, <1>4 DEF Recorded
    <3> QED
      BY ONLY <3>1, ChangeInMemory
  <2>5. y.initial = x.initial
    <3>1. Alike(y, x)
      BY <2>2, <2>3, <1>3, ChangeAlike
    <3> QED
      BY <3>1 DEF Alike
  <2> QED
    BY <2>3, <2>4, <2>5, <1>2, <1>4, <1>6 DEF MemoryInv, Memory
<1> QED
  BY <1>5, <1>6

LEMMA PassVarMemory ==
    ASSUME BlocksInv, MemoryInv, PassVar
    PROVE  MemoryInv'
<1>1. pc = "run" /\ todo # 0 /\ NextVar /\ UNCHANGED <<xc, pc, emitted, flushed>>
  BY DEF PassVar, wvars
<1>2. IsList(xc.vals) /\ todo \in 0 .. Len(xc.vals)
  BY <1>1 DEF BlocksInv, Context, MemoryInv, Live
<1>3. todo' \in 0 .. Len(xc.vals)
  BY <1>1, <1>2, NextVarInRange
<1> QED
  BY <1>1, <1>3 DEF MemoryInv, Live

LEMMA SuspendMemory ==
    ASSUME BlocksInv, MemoryInv, Suspend
    PROVE  MemoryInv'
<1>1. pc = "run" /\ UNCHANGED <<pc, todo, emitted, flushed>> /\ \E a : xc' = [xc EXCEPT !.blackouts = a]
  BY Zenon DEF Suspend, EmitDumpActive
<1>2. DOMAIN xc = ContextFields
  BY DEF BlocksInv, Context
<1>3. /\ xc'.vals = xc.vals /\ xc'.vchg = xc.vchg /\ xc'.tchn = xc.tchn /\ xc'.tchn_idx = xc.tchn_idx
      /\ xc'.initial = xc.initial /\ xc'.locked = xc.locked /\ xc'.mapped = xc.mapped
  BY <1>1, <1>2 DEF ContextFields
<1>4. PICK x, y, s, d : x = xc /\ y = xc' /\ s = emitted /\ d = flushed
  OBVIOUS
<1>5. InMemory(x, s, d) => InMemory(y, s, d)
  BY <1>3, <1>4, SameMemory
<1> QED
  BY <1>1, <1>3, <1>4, <1>5 DEF MemoryInv, Memory, Live, Valued

LEMMA EndTraceMemory ==
    ASSUME BlocksInv, EndTrace
    PROVE  MemoryInv'
<1>1. CASE CloseTruncate
  BY <1>1, MemoryClosed DEF CloseTruncate, ClosePhases
<1>2. CASE CloseFlush
  <2>1. PICK z : z = (IF xc.initial /\ ~xc.locked THEN Mockup(xc) ELSE xc)
    OBVIOUS
  <2>2. PICK x, f : /\ x = [z EXCEPT !.skip_header = TRUE]
                    /\ (xc' = x /\ pc' = "geom") \/ FlushBody(x, f)
    BY <2>1, <1>2, Zenon DEF CloseFlush
  <2>3. CASE pc' = "geom"
    BY <2>3, MemoryClosed DEF ClosePhases
  <2>4. CASE FlushBody(x, f)
    <3>1. DOMAIN z = ContextFields
      BY <2>1, MockupContext DEF BlocksInv
    <3>2. x.skip_header = TRUE /\ DOMAIN x = ContextFields
      BY <3>1, <2>2 DEF ContextFields
    <3>3. xc' = AfterFlush(x) /\ pc' = "flush_tag"
      BY <2>4 DEF FlushBody
    <3>4. xc'.skip_header = TRUE
      BY <3>2, <3>3 DEF AfterFlush, ContextFields
    <3> QED
      BY <3>3, <3>4, MemoryClosed
  <2> QED
    BY <2>2, <2>3, <2>4
<1> QED
  BY <1>1, <1>2 DEF EndTrace, Close

LEMMA WriterStepMemory ==
    ASSUME BlocksInv, MemoryInv, WriterStep, UNCHANGED todo
    PROVE  MemoryInv'
<1>1. CASE Declare
  BY <1>1, DeclareMemory
<1>2. CASE Declared
  BY <1>2, DeclaredMemory
<1>3. CASE FlushTag
  BY <1>3, FlushTagMemory
<1>4. CASE FlushNext
  BY <1>4, FlushNextMemory
<1>5. CASE TimeAfterFlush
  BY <1>5, TimeAfterFlushMemory
<1>6. CASE CloseGeom \/ CloseGeomTag \/ CloseBlackout \/ CloseBlackoutTag
  <2>1. pc' \in {"geom_tag", "blackout", "hier", "header", "blackout_tag"}
    BY <1>6 DEF CloseGeom, CloseGeomTag, CloseBlackout, CloseBlackoutTag, AppendBlock, TagBlock
  <2> QED
    BY <2>1, MemoryClosed DEF ClosePhases, LatePhases
<1>7. CASE CloseHierBegin \/ CloseHier \/ CloseHierTag \/ CloseUnlinkHier \/ CloseHeader
  <2>1. pc' \in {"hier_length", "hier_tag", "unlink_hier", "header", "pak", "closed"}
    BY <1>7 DEF CloseHierBegin, CloseHier, CloseHierTag, CloseUnlinkHier, CloseHeader, AppendBlock, TagBlock
  <2> QED
    BY <2>1, MemoryClosed DEF ClosePhases, LatePhases
<1>8. CASE ClosePak \/ CloseUnlink \/ CloseRename
  <2>1. pc' \in {"unlink", "rename", "closed"}
    BY <1>8 DEF ClosePak, CloseUnlink, CloseRename
  <2> QED
    BY <2>1, MemoryClosed DEF ClosePhases, LatePhases
<1> QED
  BY <1>1, <1>2, <1>3, <1>4, <1>5, <1>6, <1>7, <1>8 DEF WriterStep

LEMMA MemoryInvInit ==
    ASSUME Init
    PROVE  MemoryInv
<1>1. pc = "declare" /\ emitted = <<>> /\ flushed = 0 /\ todo = 0 /\ xc = NewContext
  BY DEF Init, WriterInit
<1>2. xc.vals = <<>> /\ xc.mapped = FALSE
  BY <1>1 DEF NewContext
<1>3. Len(xc.vals) = 0
  BY <1>2
<1> QED
  BY <1>1, <1>2, <1>3 DEF MemoryInv, Memory, Valued

LEMMA MemoryInvNext ==
    ASSUME BlocksInv, MemoryInv, [Next]_vars
    PROVE  MemoryInv'
<1>1. CASE BeginCycle
  BY <1>1, BeginCycleMemory
<1>2. CASE EmitVar
  BY <1>2, EmitVarMemory
<1>3. CASE PassVar
  BY <1>3, PassVarMemory
<1>4. CASE Suspend
  BY <1>4, SuspendMemory
<1>5. CASE EndTrace
  BY <1>5, EndTraceMemory
<1>6. CASE WriterStep /\ UNCHANGED <<todo, now, last>>
  BY <1>6, WriterStepMemory
<1>7. CASE Finished \/ UNCHANGED vars
  BY <1>7 DEF Finished, vars, wvars, MemoryInv
<1> QED
  BY <1>1, <1>2, <1>3, <1>4, <1>5, <1>6, <1>7 DEF Next

\* While the trace goes on, the section in memory is exactly what the client
\* emitted since the last complete one: each change with its value, at the place
\* of its time in the list of times, linked to the one before of its signal.
THEOREM MemoryAlwaysExact ==
    Spec => [](pc = "run" /\ ~xc.initial => InMemory(xc, emitted, flushed))
<1>1. MemoryInv => (pc = "run" /\ ~xc.initial => InMemory(xc, emitted, flushed))
  BY DEF MemoryInv, Memory
<1> QED
  BY <1>1, BlocksInvInit, BlocksInvNext, MemoryInvInit, MemoryInvNext, PTL DEF Spec

-----------------------------------------------------------------------------
(* The chain of a signal gives back the changes of its linked list.        *)

LEMMA ChangeBytes ==
    ASSUME NEW len \in Nat, NEW delta \in Nat, NEW v, FitsLength(len, v)
    PROVE  EncodeChange(len, delta, v) \in Seq(Byte)
<1>1. v \in Seq(Byte) /\ Len(v) \in Nat
  BY LenProperties DEF FitsLength
<1>2. CASE len = 1
  <2>1. 1 \in 1 .. Len(v)
    <3>1. Len(v) = 1
      BY <1>2 DEF FitsLength
    <3> QED
      BY <3>1
  <2>2. PICK c : c = v[1] /\ c \in Byte
    BY <1>1, <2>1, ElementOfSeq
  <2>3. ScalarChange(delta, c) \in Nat
    BY <2>2, ScalarUnpacked
  <2> QED
    BY <1>2, <2>2, <2>3, VarintBytes DEF EncodeChange
<1>3. CASE len # 1
  <2>1. PICK a, b, e : a = delta * 2 /\ b = delta * 2 + 1 /\ e = Len(v) /\ a \in Nat /\ b \in Nat /\ e \in Nat
    BY <1>1
  <2>2. Varint(a) \in Seq(Byte) /\ Varint(b) \in Seq(Byte) /\ Varint(e) \in Seq(Byte)
    BY <2>1, VarintBytes
  <2>3. StringChange(delta, v) \in Seq(Byte)
    BY <2>1, <2>2, <1>1, ConcatProperties DEF StringChange, VarintToLeft
  <2>4. PackBits(v) \in Seq(Byte)
    BY <1>1, PackedSequence
  <2>5. VectorChange(delta, v) \in Seq(Byte)
    BY <2>1, <2>2, <2>4, <1>1, ConcatProperties DEF VectorChange, VarintToLeft
  <2> QED
    BY <1>3, <2>3, <2>5 DEF EncodeChange
<1> QED
  BY <1>2, <1>3

\* The bytes of the changes up to each one, and the record of one.
Encoded(vchg, len, k) == EncodeChange(len, vchg[k].delta, vchg[k].data)
ChainUpTo(f, vchg, len, m) ==
    f = [p \in 0 .. m |-> IF p = 0 THEN <<>> ELSE f[vchg[p].next] \o Encoded(vchg, len, p)]

LEMMA ChainExists ==
    ASSUME NEW vchg, NEW len, NEW n \in Nat, \A k \in 1 .. n : vchg[k].next \in 0 .. k - 1
    PROVE  \E f : ChainUpTo(f, vchg, len, n)
<1> DEFINE Bad == {m \in 0 .. n : ~ \E f : ChainUpTo(f, vchg, len, m)}
<1>1. SUFFICES ASSUME Bad # {} PROVE FALSE
  BY <1>1
<1>2. PICK m \in Bad : \A j \in Bad : m <= j
  <2>1. Bad \in SUBSET Nat
    OBVIOUS
  <2> HIDE DEF Bad
  <2> QED
    BY <1>1, <2>1, LeastElement
<1>3. m \in 0 .. n /\ ~ \E f : ChainUpTo(f, vchg, len, m)
  BY <1>2
<1>4. m # 0
  <2>1. ChainUpTo([p \in 0 .. 0 |-> <<>>], vchg, len, 0)
    BY DEF ChainUpTo
  <2> QED
    BY <2>1, <1>3
<1>5. PICK f : ChainUpTo(f, vchg, len, m - 1)
  <2>1. m - 1 \in 0 .. n /\ ~ (m <= m - 1)
    BY <1>3, <1>4
  <2> QED
    BY <2>1, <1>2
<1> HIDE DEF Bad
<1> DEFINE e(p) == f[vchg[p].next] \o Encoded(vchg, len, p)
           g == [p \in 0 .. m |-> IF p = m THEN e(m) ELSE f[p]]
<1>6. \A p \in 0 .. m - 1 : f[p] = IF p = 0 THEN <<>> ELSE e(p)
  BY <1>5 DEF ChainUpTo
<1> HIDE DEF e
<1>7. \A p \in 0 .. m : p # 0 => g[vchg[p].next] = f[vchg[p].next]
  <2>1. ASSUME NEW p \in 1 .. m PROVE vchg[p].next \in 0 .. m /\ vchg[p].next # m
    <3>1. vchg[p].next \in 0 .. p - 1
      BY <1>3
    <3> QED
      BY <3>1, <1>3
  <2>2. \A p \in 0 .. m : p # 0 => p \in 1 .. m
    OBVIOUS
  <2> QED
    BY <2>1, <2>2
<1>8. ChainUpTo(g, vchg, len, m)
  <2>1. ASSUME NEW p \in 0 .. m PROVE g[p] = IF p = 0 THEN <<>> ELSE e(p)
    <3>1. CASE p = m
      BY <3>1, <1>4
    <3>2. CASE p # m
      <4>1. p \in 0 .. m - 1
        BY <3>2, <1>3
      <4> QED
        BY <3>2, <4>1, <1>6
    <3> QED
      BY <3>1, <3>2
  <2>2. ASSUME NEW p \in 0 .. m, p # 0 PROVE e(p) = g[vchg[p].next] \o Encoded(vchg, len, p)
    BY <1>7, <2>2 DEF e
  <2>3. g = [p \in 0 .. m |-> g[p]]
    OBVIOUS
  <2> HIDE DEF g
  <2>4. \A p \in 0 .. m : g[p] = IF p = 0 THEN <<>> ELSE g[vchg[p].next] \o Encoded(vchg, len, p)
    BY <2>1, <2>2
  <2> QED
    BY <2>3, <2>4 DEF ChainUpTo
<1> QED
  BY <1>8, <1>3

\* The chains of the changes in memory: each is the chain of the change before and
\* a record.
LEMMA ChainSteps ==
    ASSUME NEW vchg, NEW len, NEW n \in Nat, n = Len(vchg), \A k \in 1 .. n : vchg[k].next \in 0 .. k - 1
    PROVE  /\ Chain(vchg, len, 0) = <<>>
           /\ \A k \in 1 .. n :
                 Chain(vchg, len, k) = Chain(vchg, len, vchg[k].next) \o Encoded(vchg, len, k)
<1> DEFINE f == CHOOSE f : ChainUpTo(f, vchg, len, n)
<1>1. ChainUpTo(f, vchg, len, n)
  BY ChainExists
<1>2. \A k : Chain(vchg, len, k) = f[k]
  BY DEF Chain, ChainUpTo, Encoded
<1> HIDE DEF f
<1>3. f[0] = <<>> /\ \A k \in 1 .. n : f[k] = f[vchg[k].next] \o Encoded(vchg, len, k)
  <2> DEFINE e(p) == f[vchg[p].next] \o Encoded(vchg, len, p)
  <2>1. f = [p \in 0 .. n |-> IF p = 0 THEN <<>> ELSE e(p)]
    BY <1>1 DEF ChainUpTo
  <2> HIDE DEF e
  <2>2. \A p \in 0 .. n : f[p] = IF p = 0 THEN <<>> ELSE e(p)
    BY ONLY <2>1
  <2>3. f[0] = <<>> /\ \A k \in 1 .. n : f[k] = e(k)
    <3>1. 0 \in 0 .. n /\ \A k \in 1 .. n : k \in 0 .. n /\ k # 0
      OBVIOUS
    <3> QED
      BY <3>1, <2>2
  <2> QED
    BY <2>3 DEF e
<1> QED
  BY <1>2, <1>3

\* At the place end[p], after the change p of signal h, the reader finds its next
\* change: the one at k.
ReadsNext(x, s, d, h, len, chain, end, at, p, k) ==
    /\ Latest(p, h, s, d, k - 1)
    /\ at[k] = at[p] + ChangeDelta(len, chain, end[p])
    /\ Sums(x.tchn)[at[k] + 1] = s[d + k].time
    /\ DecodeChange(len, chain, end[p]) = [val |-> Shown(len, s[d + k].val), next |-> end[k]]

\* What a section has of a signal is read back: the chain that is made of the changes
\* in memory, read from its first byte to its last one, gives every change that was
\* emitted for the signal since the section was begun and no other one, in their
\* order, each with its value and with the number of its time in the section.
THEOREM ChainsReadBack ==
    ASSUME NEW x, NEW s, NEW d, InMemory(x, s, d), NEW h \in 1 .. Len(x.vals), NEW len \in Nat,
           \A k \in 1 .. Len(x.vchg) : s[d + k].handle = h => FitsLength(len, s[d + k].val),
           NEW chain, chain = Chain(x.vchg, len, x.vals[h].vchg)
    PROVE  \E end \in [0 .. Len(x.vchg) -> Nat] :
           \E at \in [0 .. Len(x.vchg) -> 0 .. x.tchn_idx] :
              /\ end[0] = 1 /\ at[0] = 0
              /\ end[x.vals[h].vchg] = Len(chain) + 1
              /\ \A k \in 1 .. Len(x.vchg) :
                    s[d + k].handle = h =>
                        \E p \in 0 .. k - 1 : ReadsNext(x, s, d, h, len, chain, end, at, p, k)
<1>1. PICK n, V, T : n = Len(x.vchg) /\ V = x.vchg /\ T = x.tchn_idx
  OBVIOUS
<1>2. n \in Nat /\ d \in Nat /\ T \in Nat /\ n = Len(V)
  BY <1>1, ListLength DEF InMemory
<1>3. PICK bt \in [1 .. n -> 0 .. T] : /\ \A k \in 1 .. n : Stands(x, s, d, bt, k)
                                       /\ Ends(x, s, d, bt, h)
  BY <1>1 DEF InMemory
<1>4. PICK L : L = x.vals[h].vchg /\ Latest(L, h, s, d, n)
  BY <1>1, <1>3 DEF Ends
<1>5. ASSUME NEW k \in 1 .. n
      PROVE  /\ V[k].next \in 0 .. k - 1 /\ V[k].delta \in Nat /\ V[k].data = s[d + k].val
             /\ Latest(V[k].next, s[d + k].handle, s, d, k - 1)
             /\ V[k].delta = bt[k] - (IF V[k].next = 0 THEN 0 ELSE bt[V[k].next])
             /\ Sums(x.tchn)[bt[k] + 1] = s[d + k].time
  <2>1. Stands(x, s, d, bt, k)
    BY <1>3
  <2> QED
    BY <2>1, <1>1 DEF Stands, Latest
<1>6. PICK c : c = [k \in 0 .. n |-> Chain(V, len, k)]
  OBVIOUS
<1>7. /\ c[0] = <<>>
      /\ \A k \in 1 .. n : c[k] = c[V[k].next] \o Encoded(V, len, k)
      /\ L \in 0 .. n /\ c[L] = chain
  <2>1. \A k \in 1 .. n : V[k].next \in 0 .. k - 1
    BY <1>5
  <2>2. /\ Chain(V, len, 0) = <<>>
        /\ \A k \in 1 .. n : Chain(V, len, k) = Chain(V, len, V[k].next) \o Encoded(V, len, k)
    BY <2>1, <1>2, ChainSteps
  <2>3. 0 \in 0 .. n /\ \A k \in 1 .. n : k \in 0 .. n /\ V[k].next \in 0 .. n
    BY <2>1, <1>2
  <2>4. L \in 0 .. n
    BY <1>4 DEF Latest
  <2>5. chain = Chain(V, len, L)
    BY <1>1, <1>4
  <2> QED
    BY <2>2, <2>3, <2>4, <2>5, <1>6
<1> DEFINE Mine(k) == k = 0 \/ (k \in 1 .. n /\ s[d + k].handle = h)
<1>8. ASSUME NEW k \in 1 .. n, s[d + k].handle = h
      PROVE  /\ V[k].next \in 0 .. k - 1 /\ Mine(V[k].next) /\ Latest(V[k].next, h, s, d, k - 1)
             /\ FitsLength(len, s[d + k].val)
             /\ Encoded(V, len, k) = EncodeChange(len, V[k].delta, s[d + k].val)
             /\ Encoded(V, len, k) \in Seq(Byte)
  <2>1. V[k].next \in 0 .. k - 1 /\ Latest(V[k].next, h, s, d, k - 1)
    BY <1>5, <1>8
  <2>2. Mine(V[k].next)
    BY <2>1, <1>2 DEF Latest
  <2>3. FitsLength(len, s[d + k].val)
    BY <1>1, <1>8
  <2>4. Encoded(V, len, k) = EncodeChange(len, V[k].delta, s[d + k].val) /\ V[k].delta \in Nat
    BY <1>5 DEF Encoded
  <2>5. Encoded(V, len, k) \in Seq(Byte)
    BY <2>3, <2>4, ChangeBytes
  <2> QED
    BY <2>1, <2>2, <2>3, <2>4, <2>5
<1>9. \A k \in 0 .. n : Mine(k) => c[k] \in Seq(Byte)
  <2> DEFINE Bad == {k \in 0 .. n : Mine(k) /\ c[k] \notin Seq(Byte)}
  <2> SUFFICES ASSUME Bad # {} PROVE FALSE
    OBVIOUS
  <2>1. PICK m \in Bad : \A j \in Bad : m <= j
    <3>1. Bad \in SUBSET Nat
      OBVIOUS
    <3> HIDE DEF Bad
    <3> QED
      BY <3>1, LeastElement
  <2>2. m \in 0 .. n /\ Mine(m) /\ c[m] \notin Seq(Byte)
    BY <2>1
  <2>3. m # 0
    <3>1. <<>> \in Seq(Byte)
      OBVIOUS
    <3> QED
      BY <3>1, <2>2, <1>7
  <2>4. m \in 1 .. n /\ s[d + m].handle = h
    BY <2>2, <2>3
  <2>5. PICK p : p = V[m].next /\ p \in 0 .. m - 1 /\ Mine(p)
    BY <2>4, <1>8
  <2>6. p \in 0 .. n /\ ~ (m <= p)
    BY <2>4, <2>5, <1>2
  <2>7. c[p] \in Seq(Byte)
    BY <2>1, <2>5, <2>6
  <2>8. c[m] = c[p] \o Encoded(V, len, m) /\ Encoded(V, len, m) \in Seq(Byte)
    BY <2>4, <2>5, <1>7, <1>8
  <2> QED
    BY <2>2, <2>7, <2>8, ConcatProperties
<1>10. Mine(L) /\ chain \in Seq(Byte) /\ Len(chain) \in Nat
  <2>1. Mine(L)
    BY <1>4, <1>7 DEF Latest
  <2>2. chain \in Seq(Byte)
    BY <2>1, <1>7, <1>9
  <2> QED
    BY <2>1, <2>2, LenProperties
\* The chain begins with the chains of all these changes: the last one of which it
\* would not be true has a successor, of which it is true.
<1>11. \A k \in 0 .. n : Mine(k) => Holds(chain, 1, c[k])
  <2> DEFINE Bad == {i \in 0 .. n : Mine(n - i) /\ ~Holds(chain, 1, c[n - i])}
  <2>1. ASSUME Bad # {} PROVE FALSE
    <3>1. PICK m \in Bad : \A j \in Bad : m <= j
      <4>1. Bad \in SUBSET Nat
        OBVIOUS
      <4> HIDE DEF Bad
      <4> QED
        BY <4>1, <2>1, LeastElement
    <3>2. PICK k : k = n - m /\ k \in 0 .. n /\ m \in 0 .. n /\ Mine(k) /\ ~Holds(chain, 1, c[k])
      BY <3>1, <1>2
    <3>3. \A i \in 0 .. n : Mine(i) /\ i > k => Holds(chain, 1, c[i])
      <4>1. ASSUME NEW i \in 0 .. n, Mine(i), i > k, ~Holds(chain, 1, c[i]) PROVE FALSE
        <5>0. i \in 0 .. n /\ i > k /\ k = n - m /\ m \in 0 .. n /\ n \in Nat
          BY <4>1, <3>2, <1>2
        <5>1. n - i \in 0 .. n /\ n - (n - i) = i /\ ~ (m <= n - i)
          BY ONLY <5>0
        <5>2. n - i \in Bad
          BY <5>1, <4>1
        <5> QED
          BY <5>1, <5>2, <3>1
      <4> QED
        BY <4>1
    <3> HIDE DEF Bad
    <3>4. k # L
      <4>1. Holds(chain, 1, chain)
        BY <1>10 DEF Holds
      <4> QED
        BY <4>1, <3>2, <1>7
    <3>5. k < L
      <4>1. L \in 0 .. n /\ \A j \in L + 1 .. n : s[d + j].handle # h
        BY <1>4 DEF Latest
      <4>2. CASE k = 0
        BY <4>1, <4>2, <3>4
      <4>3. CASE k # 0
        <5>1. k \in 1 .. n /\ s[d + k].handle = h
          BY <4>3, <3>2
        <5> QED
          BY <5>1, <4>1, <3>4
      <4> QED
        BY <4>2, <4>3
    <3>6. PICK j \in k + 1 .. n : s[d + j].handle = h /\ \A i \in k + 1 .. n : s[d + i].handle = h => j <= i
      <4> DEFINE After == {i \in k + 1 .. n : s[d + i].handle = h}
      <4>1. After \in SUBSET Nat /\ L \in After
        BY <3>2, <3>5, <1>7, <1>10
      <4> HIDE DEF After
      <4>2. PICK j \in After : \A i \in After : j <= i
        BY <4>1, LeastElement
      <4> QED
        BY <4>2 DEF After
    <3>7. j \in 1 .. n /\ j \in 0 .. n /\ j > k
      BY <3>2, <3>6
    <3>8. PICK q : q = V[j].next /\ q \in 0 .. j - 1 /\ Latest(q, h, s, d, j - 1) /\ Encoded(V, len, j) \in Seq(Byte)
      BY <3>6, <3>7, <1>8
    <3>13. k \in Nat /\ j \in Nat /\ q \in Nat /\ k < j /\ q < j /\ j <= n
      BY <3>2, <3>6, <3>7, <3>8, <1>2
    <3>9. q = k
      <4>1. ~ (q < k)
        <5>1. ASSUME q < k PROVE FALSE
          <6>1. k \in q + 1 .. j - 1 /\ k # 0
            BY ONLY <5>1, <3>13
          <6>2. s[d + k].handle = h
            BY <6>1, <3>2
          <6> QED
            BY <6>1, <6>2, <3>8 DEF Latest
        <5> QED
          BY <5>1
      <4>2. ~ (q > k)
        <5>1. ASSUME q > k PROVE FALSE
          <6>1. q \in k + 1 .. n /\ q # 0 /\ ~ (j <= q)
            BY ONLY <5>1, <3>13, <1>2
          <6>2. s[d + q].handle = h
            BY <6>1, <3>8 DEF Latest
          <6> QED
            BY <6>1, <6>2, <3>6
        <5> QED
          BY <5>1
      <4> QED
        BY <4>1, <4>2, <3>2, <3>8
    <3>10. c[j] = c[k] \o Encoded(V, len, j) /\ c[k] \in Seq(Byte) /\ Holds(chain, 1, c[j])
      BY <3>2, <3>3, <3>6, <3>7, <3>8, <3>9, <1>7, <1>9
    <3>11. PICK a, b : a = c[k] /\ b = Encoded(V, len, j) /\ Holds(chain, 1, a \o b)
      BY <3>10
    <3>12. Holds(chain, 1, a)
      <4>1. a \in Seq(Byte) /\ b \in Seq(Byte)
        BY <3>8, <3>10, <3>11
      <4> QED
        BY ONLY <4>1, <3>11, <1>10, HoldsParts
    <3> QED
      BY <3>2, <3>11, <3>12
  <2>2. ASSUME NEW k \in 0 .. n, Mine(k) PROVE Holds(chain, 1, c[k])
    <3>1. n - k \in 0 .. n /\ n - (n - k) = k
      BY <1>2
    <3>2. n - k \notin Bad
      BY <2>1
    <3> QED
      BY <3>1, <3>2, <2>2
  <2> QED
    BY <2>2
<1> DEFINE end == [k \in 0 .. n |-> IF Mine(k) THEN 1 + Len(c[k]) ELSE 0]
           at == [k \in 0 .. n |-> IF k = 0 THEN 0 ELSE bt[k]]
<1>12. end \in [0 .. n -> Nat]
  <2>1. ASSUME NEW k \in 0 .. n, Mine(k) PROVE 1 + Len(c[k]) \in Nat
    <3>1. c[k] \in Seq(Byte)
      BY <2>1, <1>9
    <3> QED
      BY <3>1, LenProperties
  <2> QED
    BY <2>1
<1>13. /\ \A k \in 0 .. n : Mine(k) => end[k] = 1 + Len(c[k])
       /\ at[0] = 0 /\ \A k \in 1 .. n : at[k] = bt[k]
  BY <1>2
<1>14. at \in [0 .. n -> 0 .. T]
  <2>1. \A k \in 1 .. n : bt[k] \in 0 .. T
    OBVIOUS
  <2>2. 0 \in 0 .. T /\ \A k \in 0 .. n : k # 0 => k \in 1 .. n
    BY <1>2
  <2> QED
    BY <2>1, <2>2
<1> HIDE DEF end, at
<1>15. end[0] = 1 /\ end[L] = Len(chain) + 1
  <2>1. 0 \in 0 .. n /\ Len(<<>>) = 0
    BY <1>2
  <2> QED
    BY <2>1, <1>7, <1>10, <1>13
<1>16. ASSUME NEW k \in 1 .. n, s[d + k].handle = h
       PROVE  \E p \in 0 .. k - 1 : ReadsNext(x, s, d, h, len, chain, end, at, p, k)
  <2>1. PICK p, v, e, w : p = V[k].next /\ v = V[k].delta /\ e = Encoded(V, len, k) /\ w = s[d + k].val
    OBVIOUS
  <2>2. /\ p \in 0 .. k - 1 /\ Mine(p) /\ Latest(p, h, s, d, k - 1) /\ FitsLength(len, w)
        /\ e = EncodeChange(len, v, w) /\ e \in Seq(Byte) /\ v \in Nat
    BY <2>1, <1>5, <1>8, <1>16
  <2>0. k \in 0 .. n /\ p \in 0 .. n /\ Mine(k)
    BY <2>2, <1>2, <1>16
  <2>3. PICK a : a = c[p] /\ a \in Seq(Byte) /\ c[k] = a \o e
    BY <2>0, <2>1, <2>2, <1>7, <1>9
  <2>4. PICK z : z = 1 /\ Holds(chain, z, a \o e)
    BY <2>0, <2>3, <1>11
  <2>5. Holds(chain, z + Len(a), e) /\ Len(a \o e) = Len(a) + Len(e)
    <3>1. chain \in Seq(Byte) /\ a \in Seq(Byte) /\ e \in Seq(Byte) /\ Holds(chain, z, a \o e)
      BY <2>2, <2>3, <2>4, <1>10
    <3> QED
      BY ONLY <3>1, HoldsParts
  <2>6. PICK i : i = z + Len(a) /\ i = 1 + Len(a) /\ i \in Nat /\ i + Len(e) = 1 + Len(c[k])
    <3>1. Len(a) \in Nat /\ Len(e) \in Nat
      BY <2>2, <2>3, LenProperties
    <3>2. Len(c[k]) = Len(a) + Len(e)
      BY <2>3, <2>5
    <3>3. PICK i : i = z + Len(a)
      OBVIOUS
    <3>4. i = 1 + Len(a) /\ i \in Nat
      BY <3>1, <3>3, <2>4
    <3>5. i + Len(e) = 1 + Len(c[k])
      BY <3>1, <3>2, <3>4
    <3> QED
      BY <3>3, <3>4, <3>5
  <2>7. end[p] = i /\ end[k] = i + Len(e)
    BY <2>0, <2>2, <2>3, <2>6, <1>13
  <2>8. /\ ChangeDelta(len, chain, i) = v
        /\ DecodeChange(len, chain, i) = [val |-> Shown(len, w), next |-> i + Len(e)]
    <3>1. Holds(chain, i, EncodeChange(len, v, w))
      BY <2>2, <2>5, <2>6
    <3>2. /\ ChangeDelta(len, chain, i) = v
          /\ DecodeChange(len, chain, i) =
                 [val |-> Shown(len, w), next |-> i + Len(EncodeChange(len, v, w))]
      BY <3>1, <2>2, <1>10, ChangesReadBack
    <3> QED
      BY <3>2, <2>2
  <2>9. at[k] = at[p] + v
    <3>1. v = bt[k] - (IF p = 0 THEN 0 ELSE bt[p])
      BY <2>1, <1>5
    <3>2. at[p] = (IF p = 0 THEN 0 ELSE bt[p]) /\ at[k] = bt[k]
      BY <2>2, <1>13
    <3>3. bt[k] \in 0 .. T /\ (p # 0 => bt[p] \in 0 .. T)
      BY <2>2
    <3> QED
      BY <3>1, <3>2, <3>3, <1>2
  <2>10. Sums(x.tchn)[at[k] + 1] = s[d + k].time
    BY <1>5, <1>13
  <2>11. ReadsNext(x, s, d, h, len, chain, end, at, p, k)
    BY <2>1, <2>2, <2>7, <2>8, <2>9, <2>10 DEF ReadsNext
  <2> QED
    BY <2>2, <2>11
<1> QED
  BY <1>1, <1>4, <1>12, <1>13, <1>14, <1>15, <1>16

=============================================================================
