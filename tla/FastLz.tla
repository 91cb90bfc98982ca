------------------------------- MODULE FastLz -------------------------------
(***************************************************************************)
(* FastLZ (src/src/grt/fst/fastlz.c), the other packing of the chains of   *)
(* an FST file: level 1, which fastlz_compress uses for every block below  *)
(* 65536 bytes.  Positions are counted from 0 as in the code.              *)
(*                                                                         *)
(* The hash table is abstracted as in Lz4: the last position put with the  *)
(* same three bytes, position 0 when there is none.                        *)
(***************************************************************************)
EXTENDS Integers, SequencesExt

MaxCopy == 32
MaxLen == 264
MaxMatchDistance == 8192

LOCAL At(s, p) == s[p + 1]
LOCAL Slice(s, p, n) == SubSeq(s, p + 1, p + n)
LOCAL MinOf(a, b) == IF a < b THEN a ELSE b
LOCAL MaxOf(S) == CHOOSE x \in S : \A y \in S : y <= x

\* Literals, in runs of at most MaxCopy: a count, biased by one, then bytes.
RECURSIVE Literals(_)
Literals(lits) ==
    IF lits = <<>> THEN <<>>
    ELSE LET n == MinOf(Len(lits), MaxCopy)
         IN  <<n - 1>> \o SubSeq(lits, 1, n) \o Literals(SubSeq(lits, n + 1, Len(lits)))

\* A match; len is biased (1 is three bytes), distance too (0 is the byte
\* before).  A long match is cut.
RECURSIVE Match(_, _)
Match(len, distance) ==
    LET hi == distance \div 256
        lo == distance % 256
    IN  CASE len > MaxLen - 2 ->
                <<7 * 32 + hi, MaxLen - 2 - 7 - 2, lo>> \o Match(len - (MaxLen - 2), distance)
          [] len < 7 -> <<len * 32 + hi, lo>>
          [] OTHER   -> <<7 * 32 + hi, len - 7, lo>>

Candidate(src, put, p) ==
    LET same == {q \in put : Slice(src, q, 3) = Slice(src, p, 3)}
    IN  IF same = {} THEN 0 ELSE MaxOf(same)

IsMatch(src, ref, p) ==
    /\ ref # p
    /\ p - ref < MaxMatchDistance
    /\ Slice(src, ref, 3) = Slice(src, p, 3)

\* Where the comparison stops: one beyond the first other byte, since the
\* pointers have moved, and never beyond the bound.
MatchEnd(src, ref, p) ==
    LET bound == Len(src) - 2
        differ == {n \in 3 .. bound - p - 1 : At(src, p + n) # At(src, ref + n)}
    IN  IF differ = {} THEN bound
        ELSE p + 1 + CHOOSE n \in differ : \A m \in differ : n <= m

RECURSIVE Loop(_, _, _, _)
Loop(src, put, anchor, ip) ==
    LET ref == Candidate(src, put, ip)
        end == MatchEnd(src, ref, ip) - 3
    IN  IF ip >= Len(src) - 12
        THEN Literals(Slice(src, anchor, Len(src) - anchor))
        ELSE IF ~IsMatch(src, ref, ip)
        THEN Loop(src, put \cup {ip}, anchor, ip + 1)
        ELSE Literals(Slice(src, anchor, ip - anchor))
                \o Match(end - ip, ip - ref - 1)
                \o Loop(src, put \cup {ip, end, end + 1}, end + 2, end + 2)

\* fastlz1_compress; the first two bytes are always literals.
FastLzCompress(src) ==
    IF Len(src) < 4 THEN Literals(src) ELSE Loop(src, {}, 0, 2)

-----------------------------------------------------------------------------
(* fastlz1_decompress, with its checks of the output and of the input.     *)

CopyMatch(out, distance, n) ==
    out \o [k \in 1 .. n |-> out[Len(out) - distance + ((k - 1) % (distance + 1))]]

\* At ctrl the code has read the control byte before position ip.
RECURSIVE Decode(_, _, _, _, _)
Decode(src, size, ctrl, ip, out) ==
    LET long == ctrl \div 32 = 7
        len == ctrl \div 32 - 1 + (IF long THEN At(src, ip) ELSE 0)
        p == IF long THEN ip + 1 ELSE ip
        distance == (ctrl % 32) * 256 + At(src, p)
        copied == CopyMatch(out, distance, len + 3)
        lits == out \o Slice(src, ip, ctrl + 1)
    IN  IF ctrl >= 32
        THEN IF Len(out) + len + 3 > size \/ distance >= Len(out) THEN out
             ELSE IF p + 1 < Len(src)
             THEN Decode(src, size, At(src, p + 1), p + 2, copied)
             ELSE copied
        ELSE IF Len(out) + ctrl + 1 > size \/ ip + ctrl + 1 > Len(src) THEN out
             ELSE IF ip + ctrl + 1 < Len(src)
             THEN Decode(src, size, At(src, ip + ctrl + 1), ip + ctrl + 2, lits)
             ELSE lits

\* The caller ignores the result and takes what was put in the output.
FastLzDecompress(src, size) == Decode(src, size, At(src, 0) % 32, 1, <<>>)
=============================================================================
