--------------------------------- MODULE Lz4 ---------------------------------
(***************************************************************************)
(* LZ4 blocks (src/src/grt/fst/lz4.c): LZ4_compress, as the FST writer     *)
(* calls it (one block, byU16 table, no dictionary, acceleration 1) and    *)
(* LZ4_decompress_safe_partial, as the FST reader calls it.  A block is a  *)
(* sequence of bytes; positions are counted from 0 as in the code.         *)
(*                                                                         *)
(* The hash table is abstracted: it maps the five bytes at a position to   *)
(* the last position put with these bytes, and to position 0 when there is *)
(* none.  A collision of the real hash only hides an older position.       *)
(***************************************************************************)
EXTENDS Integers, SequencesExt

MINMATCH == 4
MFLIMIT == 12            \* no match starts in the last twelve bytes
LASTLITERALS == 5        \* the last five bytes are literals
RUN_MASK == 15
ML_MASK == 15
SkipTrigger == 6
MaxDistance == 65535

LOCAL At(s, p) == s[p + 1]
LOCAL Slice(s, p, n) == SubSeq(s, p + 1, p + n)
LOCAL MinOf(a, b) == IF a < b THEN a ELSE b
LOCAL MaxOf(S) == CHOOSE x \in S : \A y \in S : y <= x

\* A length that does not fit its half of the token goes on in bytes of 255.
RECURSIVE ExtraLength(_)
ExtraLength(n) == IF n >= 255 THEN <<255>> \o ExtraLength(n - 255) ELSE <<n>>

Token(lit, ml) == 16 * MinOf(lit, RUN_MASK) + MinOf(ml, ML_MASK)
LengthBytes(n) == IF n >= 15 THEN ExtraLength(n - 15) ELSE <<>>

\* Mutant: the offset is written with its high byte first.
Mut_Sequence(lits, offset, ml) ==
    <<Token(Len(lits), ml)>> \o LengthBytes(Len(lits)) \o lits
        \o <<offset \div 256, offset % 256>> \o LengthBytes(ml)

Sequence(lits, offset, ml) ==
    <<Token(Len(lits), ml)>> \o LengthBytes(Len(lits)) \o lits
        \o <<offset % 256, offset \div 256>> \o LengthBytes(ml)

LastLiterals(lits) ==
    <<Token(Len(lits), 0)>> \o LengthBytes(Len(lits)) \o lits

\* LZ4_count: the bytes in common from two positions, up to limit.
CommonBytes(src, p, q, limit) ==
    LET differ == {n \in 0 .. limit - p - 1 : At(src, p + n) # At(src, q + n)}
    IN  IF p >= limit THEN 0
        ELSE IF differ = {} THEN limit - p
        ELSE CHOOSE n \in differ : \A m \in differ : n <= m

Same4(src, p, q) == Slice(src, p, 4) = Slice(src, q, 4)

\* LZ4_getPositionOnHash after the positions in put were put.
Candidate(src, put, p) ==
    LET same == {q \in put : Slice(src, q, 5) = Slice(src, p, 5)}
    IN  IF same = {} THEN 0 ELSE MaxOf(same)

\* The search of the main loop: the next position that has a match, or a
\* position beyond the limit.  The step grows every 64 failures.
RECURSIVE FindMatch(_, _, _, _, _)
FindMatch(src, put, ip, step, tries) ==
    LET next == ip + step
        match == Candidate(src, put, ip)
    IN  IF next > Len(src) - MFLIMIT
        THEN [found |-> FALSE, ip |-> ip, match |-> 0, put |-> put]
        ELSE IF Same4(src, match, ip)
        THEN [found |-> TRUE, ip |-> ip, match |-> match, put |-> put \cup {ip}]
        ELSE FindMatch(src, put \cup {ip}, next, tries \div 2 ^ SkipTrigger, tries + 1)

\* "Catch up": the match is extended backwards over the literals.
RECURSIVE CatchUp(_, _, _, _)
CatchUp(src, anchor, ip, match) ==
    IF ip > anchor /\ match > 0 /\ At(src, ip - 1) = At(src, match - 1)
    THEN CatchUp(src, anchor, ip - 1, match - 1)
    ELSE [ip |-> ip, match |-> match]

RECURSIVE MainLoop(_, _, _, _), NextMatch(_, _, _, _, _)

\* A match at ip is encoded; the next position is tried before a new search.
NextMatch(src, put, anchor, ip, match) ==
    LET ml == CommonBytes(src, ip + MINMATCH, match + MINMATCH, Len(src) - LASTLITERALS)
        seq == Sequence(Slice(src, anchor, ip - anchor), ip - match, ml)
        end == ip + MINMATCH + ml
        filled == put \cup {end - 2}
        next == Candidate(src, filled, end)
    IN  IF end > Len(src) - MFLIMIT
        THEN seq \o LastLiterals(Slice(src, end, Len(src) - end))
        ELSE IF next + MaxDistance >= end /\ Same4(src, next, end)
        THEN seq \o NextMatch(src, filled \cup {end}, end, end, next)
        ELSE seq \o MainLoop(src, filled \cup {end}, end, end + 1)

MainLoop(src, put, anchor, ip) ==
    LET m == FindMatch(src, put, ip, 1, 2 ^ SkipTrigger)
        c == CatchUp(src, anchor, m.ip, m.match)
    IN  IF m.found
        THEN NextMatch(src, m.put, anchor, c.ip, c.match)
        ELSE LastLiterals(Slice(src, anchor, Len(src) - anchor))

\* LZ4_compress
Lz4Compress(src) ==
    IF Len(src) < MFLIMIT + 1 THEN LastLiterals(src) ELSE MainLoop(src, {0}, 0, 1)

-----------------------------------------------------------------------------
(* Decompression.  size is both the target and the size of the output; the *)
(* block may be followed by other bytes.  An error is <<>>; an offset of   *)
(* zero, which no encoder writes, is taken for one.                        *)

Error == <<>>

\* The bytes of a length: until one is not 255 (and, for literals, until the
\* input is about to end).
RECURSIVE ReadLength(_, _, _)
ReadLength(src, p, limit) ==
    IF At(src, p) = 255 /\ p + 1 < limit
    THEN LET r == ReadLength(src, p + 1, limit)
         IN  [len |-> r.len + 255, next |-> r.next]
    ELSE [len |-> At(src, p), next |-> p + 1]

LiteralLength(src, p) ==
    IF At(src, p) \div 16 = RUN_MASK
    THEN LET r == ReadLength(src, p + 1, Len(src) - RUN_MASK)
         IN  [len |-> RUN_MASK + r.len, next |-> r.next]
    ELSE [len |-> At(src, p) \div 16, next |-> p + 1]

MatchLength(src, token, p) ==
    IF token % 16 = ML_MASK
    THEN LET r == ReadLength(src, p, Len(src))
         IN  [len |-> MINMATCH + ML_MASK + r.len, next |-> r.next]
    ELSE [len |-> MINMATCH + (token % 16), next |-> p]

\* A match may overlap what it produces: the bytes repeat.
CopyMatch(out, offset, n) ==
    out \o [k \in 1 .. n |-> out[Len(out) - offset + 1 + ((k - 1) % offset)]]

RECURSIVE Decode(_, _, _, _)
Decode(src, size, ip, out) ==
    LET lit == LiteralLength(src, ip)
        with == out \o Slice(src, lit.next, lit.len)
        p == lit.next + lit.len
    IN  IF p > Len(src) \/ Len(out) + lit.len > size THEN Error
        ELSE IF Len(with) > size - MFLIMIT \/ p > Len(src) - (2 + 1 + LASTLITERALS)
        THEN with
        ELSE LET offset == At(src, p) + 256 * At(src, p + 1)
                 ml == MatchLength(src, At(src, ip), p + 2)
             IN  IF \/ offset \notin 1 .. Len(with)
                    \/ At(src, ip) % 16 = ML_MASK /\ ml.next > Len(src) - LASTLITERALS + 1
                    \/ Len(with) + ml.len > size - LASTLITERALS
                 THEN Error
                 ELSE Decode(src, size, ml.next, CopyMatch(with, offset, ml.len))

Lz4DecompressPartial(src, size) == Decode(src, size, 0, <<>>)
=============================================================================
