---------------------------- MODULE Subsequences ----------------------------
(***************************************************************************)
(* Parts of a sequence, in their order, and a function of each element.    *)
(***************************************************************************)
EXTENDS Integers, Sequences, FiniteSets

\* The rank of the index i in the set of indices I.
Rank(I, i) == Cardinality({j \in I : j <= i})

Nth(I, k) == CHOOSE i \in I : Rank(I, i) = k

\* The elements of s at the indices of I, in their order.
At(s, I) == [k \in 1 .. Cardinality(I) |-> s[Nth(I, k)]]

\* The elements of s that belong to S.
Only(s, S) == At(s, {i \in DOMAIN s : s[i] \in S})

\* f applied to each element of s.
Each(f, s) == [i \in DOMAIN s |-> f[s[i]]]
=============================================================================
