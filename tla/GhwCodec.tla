------------------------------- MODULE GhwCodec -------------------------------
(***************************************************************************)
(* The encodings of a GHW wave file: what the writer of the simulator      *)
(* (src/src/grt/grt-waves.adb) puts and what the reader of the tools       *)
(* (src/src/grt/ghwlib.c) makes of it.  A file is a sequence of bytes; a   *)
(* name is a sequence of its characters, <<>> the name of what has none.   *)
(*                                                                         *)
(* A read goes from [p, ok, v], the position, whether every read before it *)
(* succeeded and the value of the last one, to the same after it.  Reading *)
(* past the end fails, and so does every read that follows.                *)
(***************************************************************************)
EXTENDS Integers, SequencesExt

\* The elements of a set from the first to the last.
Sorted(S, Before(_, _)) ==
    [k \in 1 .. Cardinality(S) |->
        CHOOSE x \in S : Cardinality({y \in S : Before(y, x)}) = k - 1]
InOrder(S) == Sorted(S, <)

At(p) == [p |-> p, ok |-> TRUE, v |-> 0]
Fail(s) == [s EXCEPT !.ok = FALSE]
Found(s, n, value) == [p |-> s.p + n, ok |-> TRUE, v |-> value]

ReadByte(b, s) == IF s.ok /\ s.p <= Len(b) THEN Found(s, 1, b[s.p]) ELSE Fail(s)
ReadBytes(b, s, n) ==
    IF s.ok /\ s.p + n - 1 <= Len(b) THEN Found(s, n, SubSeq(b, s.p, s.p + n - 1)) ELSE Fail(s)

\* What is read after a read that succeeded, what is made of its value, and
\* the same for any value, computed once.
Then(s, Read(_)) == IF s.ok THEN Read(s) ELSE s
Mapped(s, F(_)) == IF s.ok THEN [s EXCEPT !.v = F(@)] ELSE s
With(x, F(_)) == F(x)

\* Bytes that have to be these; the value is kept.
Expect(b, s, bytes) ==
    Then(ReadBytes(b, s, Len(bytes)),
         LAMBDA r : IF r.v = bytes THEN [r EXCEPT !.v = s.v] ELSE Fail(r))

\* A header of n bytes that starts with four zeros, and what comes after it.
AfterHeader(b, s, n, Read(_)) ==
    Then(ReadBytes(b, s, n),
         LAMBDA hdr : IF SubSeq(hdr.v, 1, 4) = <<0, 0, 0, 0>> THEN Read(hdr) ELSE Fail(s))

-----------------------------------------------------------------------------
(* Words, in the order of bytes of the machine that writes: be when the    *)
(* highest byte is first.  Times are within 31 bits here.                  *)

Wave_Put_I32(be, v) ==
    LET le == [k \in 1 .. 4 |-> (v \div 256 ^ (k - 1)) % 256]
    IN  IF be THEN Reverse(le) ELSE le

Wave_Put_I64(be, v) ==
    LET sign == [k \in 1 .. 4 |-> IF v < 0 THEN 255 ELSE 0]
    IN  IF be THEN sign \o Wave_Put_I32(be, v) ELSE Wave_Put_I32(be, v) \o sign

ghw_get_i32(be, w) ==
    LET x == IF be THEN Reverse(w) ELSE w
    IN  x[1] + 256 * x[2] + 65536 * x[3] + 16777216 * (IF x[4] >= 128 THEN x[4] - 256 ELSE x[4])

\* The low word is extended with its sign.
ghw_get_i64(be, w) ==
    LET first == ghw_get_i32(be, SubSeq(w, 1, 4))
        second == ghw_get_i32(be, SubSeq(w, 5, 8))
        l == IF be THEN second ELSE first
        h == IF be THEN first ELSE second
    IN  IF l < 0 \/ h = 0 THEN l ELSE h * 2 ^ 32 + l

-----------------------------------------------------------------------------
(* LEB128: seven bits per byte, the lowest first.                          *)

RECURSIVE Wave_Put_ULEB128(_)
Wave_Put_ULEB128(v) ==
    IF v < 128 THEN <<v>> ELSE <<128 + (v % 128)>> \o Wave_Put_ULEB128(v \div 128)

RECURSIVE Wave_Put_SLEB128(_)
Wave_Put_SLEB128(v) ==
    LET r == v % 128
        rest == v \div 128
    IN  IF (rest = 0 /\ r < 64) \/ (rest = -1 /\ r >= 64) THEN <<r>>
        ELSE <<128 + r>> \o Wave_Put_SLEB128(rest)

Wave_Put_LSLEB128(v) == Wave_Put_SLEB128(v)

\* Bytes of the number at position p: at most 5 for 32 bits, 0 when it is cut.
LebLength(b, p) ==
    LET ends == {n \in 1 .. 5 : /\ p + n - 1 <= Len(b) /\ b[p + n - 1] < 128
                                /\ \A m \in 1 .. n - 1 : b[p + m - 1] >= 128}
    IN  IF ends = {} THEN 0 ELSE CHOOSE n \in ends : TRUE
LebBits(b, p, n) ==
    FoldLeft(LAMBDA r, k : r * 128 + (b[p + n - k] % 128), 0, [k \in 1 .. n |-> k])

ghw_read_uleb128(b, s) ==
    LET n == LebLength(b, s.p)
    IN  IF ~s.ok \/ n = 0 THEN Fail(s) ELSE Found(s, n, LebBits(b, s.p, n))

ghw_read_sleb128(b, s) ==
    LET n == LebLength(b, s.p)
        r == LebBits(b, s.p, n)
    IN  IF ~s.ok \/ n = 0 THEN Fail(s)
        ELSE Found(s, n, IF b[s.p + n - 1] >= 64 THEN r - 128 ^ n ELSE r)

ghw_read_lsleb128(b, s) == ghw_read_sleb128(b, s)

\* A real is written as it is in memory; only its first byte is told apart.
Wave_Put_F64(v) == <<v, 0, 0, 0, 0, 0, 0, 0>>
ghw_read_f64(b, s) ==
    LET r == ReadBytes(b, s, 8) IN IF r.ok THEN [r EXCEPT !.v = @[1]] ELSE r

-----------------------------------------------------------------------------
(* The strings: sorted, each without what it has in common with the one    *)
(* before it.  What ends a string is the length of this part for the next. *)

\* strcmp
Less(x, y) ==
    \E n \in 0 .. Len(x) :
        /\ n < Len(y) /\ SubSeq(x, 1, n) = SubSeq(y, 1, n)
        /\ (n = Len(x) \/ x[n + 1] < y[n + 1])

Freeze_Strings(strs) == Sorted(strs, Less)

RECURSIVE Search(_, _, _, _)
Search(table, str, l, h) ==
    LET m == (l + h) \div 2
    IN  IF l > h THEN 0
        ELSE IF table[m] = str THEN m
        ELSE IF Less(str, table[m]) THEN Search(table, str, l, m - 1)
        ELSE Search(table, str, m + 1, h)

Get_String(table, str) == Search(table, str, 1, Len(table))

Write_String_Id(table, str) ==
    IF str = <<>> THEN <<0>> ELSE Wave_Put_ULEB128(Get_String(table, str))

\* Mutant: a long prefix is cut to five bits.
Mut_PrefixLength(l) == <<l % 32>>

RECURSIVE PrefixLength(_)
PrefixLength(l) == IF l < 32 THEN <<l>> ELSE <<128 + (l % 32)>> \o PrefixLength(l \div 32)

Common(x, y) ==
    CHOOSE n \in 0 .. Len(x) : /\ n <= Len(y) /\ SubSeq(x, 1, n) = SubSeq(y, 1, n)
                               /\ n = Len(x) \/ n = Len(y) \/ x[n + 1] # y[n + 1]

StringEntry(table, i) ==
    IF i = 1 THEN table[1]
    ELSE LET n == Common(table[i], table[i - 1])
         IN  PrefixLength(n) \o SubSeq(table[i], n + 1, Len(table[i]))

EOS == <<69, 79, 83, 0>>

Write_Strings_Compress(be, table) ==
    <<0, 0, 0, 0>>
    \o Wave_Put_I32(be, Len(table))
    \o Wave_Put_I32(be, Len(FlattenSeq(table)))
    \o FlattenSeq([i \in DOMAIN table |-> StringEntry(table, i)])
    \o <<0>> \o EOS

\* What is not a character of a string.
Separator(c) == c \in 0 .. 31 \/ c \in 128 .. 159

\* The length of the prefix: five bits per byte, the lowest first.
RECURSIVE ReadPrefix(_, _)
ReadPrefix(b, s) ==
    Then(ReadByte(b, s),
         LAMBDA r : IF r.v < 128 THEN [r EXCEPT !.v = @ % 32]
                    ELSE Mapped(ReadPrefix(b, r), LAMBDA more : (r.v % 32) + 32 * more))

RECURSIVE StringEnd(_, _)
StringEnd(b, p) == IF p > Len(b) \/ Separator(b[p]) THEN p ELSE StringEnd(b, p + 1)

ReadString(b, s, table, prev_len) ==
    LET q == StringEnd(b, s.p)
        prefix == IF table = <<>> THEN <<>> ELSE SubSeq(Last(table), 1, prev_len)
    IN  IF q > Len(b) THEN Fail(s) ELSE Found(s, q - s.p, prefix \o SubSeq(b, s.p, q - 1))

RECURSIVE ReadStrings(_, _, _, _, _)
ReadStrings(b, s, n, table, prev_len) ==
    IF n = 0 \/ ~s.ok THEN [s EXCEPT !.v = table]
    ELSE Then(ReadString(b, s, table, prev_len), LAMBDA str :
         With(ReadPrefix(b, str), LAMBDA len :
              ReadStrings(b, len, n - 1, Append(table, str.v), len.v)))

ghw_read_str(b, be, s) ==
    AfterHeader(b, s, 12, LAMBDA hdr :
        Expect(b, ReadStrings(b, hdr, ghw_get_i32(be, SubSeq(hdr.v, 5, 8)), <<>>, 0), EOS))
=============================================================================
