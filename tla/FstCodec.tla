------------------------------ MODULE FstCodec ------------------------------
(***************************************************************************)
(* The encodings of an FST file (src/src/grt/fst/fstapi.c), on bytes: the  *)
(* variable length integers, the value changes of one signal (a chain) and *)
(* the table of the chains of a section.  A string of bytes is a sequence  *)
(* of 0..255.  Values are the characters the writer is given.              *)
(***************************************************************************)
EXTENDS Integers, SequencesExt

\* A loop: the state after n rounds, from the state first.
Repeat(Round(_, _), first, n) ==
    LET state[k \in 0 .. n] == IF k = 0 THEN first ELSE Round(state[k - 1], k)
    IN  state[n]

-----------------------------------------------------------------------------
(* Variable length integers: seven bits per byte, the lowest first; the    *)
(* last byte is below 128.                                                 *)

Varint(v) ==
    LET bytes[n \in Nat] == IF n < 128 THEN <<n>> ELSE <<128 + (n % 128)>> \o bytes[n \div 128]
    IN  bytes[v]

\* The same bytes, put in front of what a chain already has.
VarintToLeft(bytes, v) == Varint(v) \o bytes

\* A string of an attribute: the bytes of the integer, ended by a zero unless
\* the integer is zero (its only byte then ends the string).
VarintString(v) == IF v = 0 THEN <<>> ELSE Varint(v)

\* Length of the integer at position p of a string of bytes.
VarintLength(bytes, p) ==
    1 + CHOOSE n \in 0 .. Len(bytes) - p :
            /\ bytes[p + n] < 128
            /\ \A m \in 0 .. n - 1 : bytes[p + m] >= 128

\* Its value, from the last byte to the first.
GetVarint(bytes, p) ==
    LET len == VarintLength(bytes, p)
    IN  Repeat(LAMBDA rc, n : rc * 128 + (bytes[p + len - n] % 128), 0, len)

\* The same through fgetc, which also counts what it has read.
ReadVarint(bytes, p) == [val |-> GetVarint(bytes, p), skip |-> VarintLength(bytes, p)]

\* Signed integers: the last byte holds the sign in its bit 6.
SVarint(v) ==
    LET bytes[n \in Int] ==
            LET byt == n % 128
                rest == n \div 128
            IN  IF (rest = 0 /\ byt < 64) \/ (rest = -1 /\ byt >= 64)
                THEN <<byt>>
                ELSE <<128 + byt>> \o bytes[rest]
    IN  bytes[v]

\* Mutant: the sign is looked for in the first byte.
Mut_GetSVarint(bytes, p) ==
    LET n == VarintLength(bytes, p)
        rc == GetVarint(bytes, p)
    IN  IF bytes[p] % 128 >= 64 THEN rc - 128 ^ n ELSE rc

GetSVarint(bytes, p) ==
    LET n == VarintLength(bytes, p)
        last == bytes[p + n - 1]
        rc == GetVarint(bytes, p)
    IN  IF last >= 64 THEN rc - 128 ^ n ELSE rc

-----------------------------------------------------------------------------
(* One value change.  A scalar packs its value with the time delta, with   *)
(* one bit of tag for 0 and 1 and four for the other characters; a vector  *)
(* of binary digits is packed eight to a byte, left aligned.               *)

Binary == {48, 49}                         \* '0' and '1'
RcvStr == <<120, 122, 104, 117, 119, 108, 45, 63>>     \* "xzhuwl-?"
Lower(c) == IF c \in 65 .. 90 THEN c + 32 ELSE c
IsBinary(v) == \A k \in DOMAIN v : v[k] \in Binary

\* The character a scalar is shown as: anything unknown is a '-'.
Canonical(c) ==
    IF c \in Binary \/ Lower(c) \in {RcvStr[k] : k \in 1 .. 6} THEN Lower(c) ELSE 45

ScalarChange(delta, c) ==
    IF c \in Binary
    THEN ((c % 2) * 2) + delta * 4
    ELSE 1 + 2 * (CHOOSE k \in 0 .. 7 : RcvStr[1 + k] = Canonical(c)) + delta * 16

ScalarDelta(vli) == vli \div (IF vli % 2 = 0 THEN 4 ELSE 16)
ScalarValue(vli) ==
    IF vli % 2 = 0 THEN 48 + ((vli \div 2) % 2) ELSE RcvStr[1 + ((vli \div 2) % 8)]

PackedLength(len) == (len + 7) \div 8
\* The bits of a byte, from the left; none is behind the end of the vector.
Weight == <<128, 64, 32, 16, 8, 4, 2, 1>>
BitOf(v, k) == IF k <= Len(v) THEN v[k] % 2 ELSE 0
PackBits(v) ==
    [b \in 1 .. PackedLength(Len(v)) |->
        Repeat(LAMBDA acc, k : acc * 2 + BitOf(v, 8 * (b - 1) + k), 0, 8)]
UnpackBits(bytes, p, len) ==
    [k \in 1 .. len |->
        48 + ((bytes[p + ((k - 1) \div 8)] \div Weight[1 + ((k - 1) % 8)]) % 2)]

VectorChange(delta, v) ==
    IF IsBinary(v) THEN VarintToLeft(PackBits(v), delta * 2)
                   ELSE VarintToLeft(v, delta * 2 + 1)

StringChange(delta, v) == VarintToLeft(VarintToLeft(v, Len(v)), delta * 2)

\* A record of the chain of a signal of length len (0 is variable length).
EncodeChange(len, delta, v) ==
    CASE len = 1 -> Varint(ScalarChange(delta, v[1]))
      [] len = 0 -> StringChange(delta, v)
      [] OTHER   -> VectorChange(delta, v)

\* The record at position p of a chain: its value and the position after it.
ChangeDelta(len, bytes, p) ==
    LET vli == GetVarint(bytes, p)
    IN  IF len = 1 THEN ScalarDelta(vli) ELSE vli \div 2

DecodeScalar(bytes, p) ==
    [val |-> <<ScalarValue(GetVarint(bytes, p))>>, next |-> p + VarintLength(bytes, p)]
DecodeString(bytes, p) ==
    LET q == p + VarintLength(bytes, p)
        n == ReadVarint(bytes, q)
        r == q + n.skip
    IN  [val |-> SubSeq(bytes, r, r + n.val - 1), next |-> r + n.val]
DecodeVector(len, bytes, p) ==
    LET q == p + VarintLength(bytes, p)
    IN  IF GetVarint(bytes, p) % 2 = 0
        THEN [val |-> UnpackBits(bytes, q, len), next |-> q + PackedLength(len)]
        ELSE [val |-> SubSeq(bytes, q, q + len - 1), next |-> q + len]
DecodeChange(len, bytes, p) ==
    CASE len = 1 -> DecodeScalar(bytes, p)
      [] len = 0 -> DecodeString(bytes, p)
      [] OTHER   -> DecodeVector(len, bytes, p)

-----------------------------------------------------------------------------
(* The table of the chains, one entry per signal with changes: the         *)
(* distance to the previous chain, or minus the number of the signal whose *)
(* chain is the same (0 when it is the same as for the previous alias).    *)
(* The lowest bit separates these from the runs of signals without change. *)

FlushZeros(st) ==
    IF st.zeros = 0 THEN st
    ELSE [st EXCEPT !.out = Append(@, 2 * st.zeros), !.zeros = 0]

IndexEntry(st, off) ==
    IF off = 0 THEN [st EXCEPT !.zeros = @ + 1]
    ELSE LET s == FlushZeros(st)
         IN  IF off < 0
             THEN IF off # s.prev_alias
                  THEN [s EXCEPT !.out = Append(@, 2 * off + 1), !.prev_alias = off]
                  ELSE [s EXCEPT !.out = Append(@, 1)]
             ELSE [s EXCEPT !.out = Append(@, 2 * (off - s.prevpos) + 1),
                            !.prevpos = off]

ChainIndex(offs) ==
    FlushZeros(FoldLeft(IndexEntry,
                        [out |-> <<>>, zeros |-> 0, prevpos |-> 0, prev_alias |-> 0],
                        offs)).out

\* Reading it back.  tab holds the offsets, lengths and last position filled by
\* the previous section: the reader does not clear them.
ReadEntry(st, e) ==
    LET shval == e \div 2
        i == st.idx
    IN  IF e % 2 = 0
        THEN [st EXCEPT !.chain = [k \in DOMAIN @ |->
                                      IF k \in i .. i + shval - 1 THEN 0 ELSE @[k]],
                        !.idx = i + shval]
        ELSE IF shval > 0
        THEN LET pval == st.pval + shval
                 chain == [st.chain EXCEPT ![i] = pval]
             IN  [st EXCEPT !.pval = pval, !.chain = chain,
                            !.length = IF i = 0 THEN @
                                       ELSE [@ EXCEPT ![st.pidx] = pval - chain[st.pidx]],
                            !.pidx = i, !.idx = i + 1]
        ELSE LET alias == IF shval < 0 THEN shval ELSE st.prev_alias
             IN  [st EXCEPT !.chain[i] = 0, !.length[i] = alias,
                            !.prev_alias = alias, !.idx = i + 1]

ResolveAlias(st, i) ==
    LET target == -st.length[i] - 1
    IN  IF st.length[i] < 0 /\ st.chain[i] = 0 /\ target < i
        THEN [st EXCEPT !.chain[i] = st.chain[target], !.length[i] = st.length[target]]
        ELSE st

ReadIndex(tab, index, endpos) ==
    LET st == FoldLeft(ReadEntry,
                       [chain |-> tab.chain, length |-> tab.length, pidx |-> tab.pidx,
                        idx |-> 0, pval |-> 0, prev_alias |-> 0], index)
        chain == [st.chain EXCEPT ![st.idx] = endpos]
        closed == [st EXCEPT !.chain = chain, !.length[st.pidx] = endpos - chain[st.pidx]]
    IN  FoldLeft(ResolveAlias, closed, [k \in 1 .. st.idx |-> k - 1])

\* The tables before the first section, for n signals.
NoTable(n) == [chain |-> [i \in 0 .. n |-> 0], length |-> [i \in 0 .. n |-> 0], pidx |-> 0]

-----------------------------------------------------------------------------
(* The text side of the reader: the identifier of a handle in a VCD file,  *)
(* and the escapes of a string in it.                                      *)

VcdID(value) ==
    LET id[n \in Nat] ==
            IF n = 0 THEN <<>> ELSE <<33 + ((n - 1) % 94)>> \o id[(n - 1) \div 94]
    IN  id[value]

Backslash == 92
\* a b f n r t v ' " \ ? and what they stand for.
Named == {<<97, 7>>, <<98, 8>>, <<102, 12>>, <<110, 10>>, <<114, 13>>, <<116, 9>>, <<118, 11>>,
          <<39, 39>>, <<34, 34>>, <<92, 92>>, <<63, 63>>}

EscByte(b) ==
    LET names == {e[1] : e \in {n \in Named : n[2] = b}}
    IN  IF names # {} THEN <<Backslash, CHOOSE c \in names : TRUE>>
        ELSE IF b \in 33 .. 126 THEN <<b>>
        ELSE <<Backslash, 48 + b \div 64, 48 + (b % 64) \div 8, 48 + (b % 8)>>

BinToEsc(bytes) == FlattenSeq([k \in DOMAIN bytes |-> EscByte(bytes[k])])

HexDigit(c) == IF c \in 97 .. 102 THEN c - 87 ELSE IF c \in 65 .. 70 THEN c - 55 ELSE c - 48

Meant(c) ==
    LET meant == {n[2] : n \in {e \in Named : e[1] = c}}
    IN  IF meant = {} THEN c ELSE CHOOSE b \in meant : TRUE

EscToBin(s) ==
    LET from[p \in Nat] ==
            IF p > Len(s) THEN <<>>
            ELSE IF s[p] # Backslash THEN <<s[p]>> \o from[p + 1]
            ELSE IF s[p + 1] \in 48 .. 55
            THEN <<(s[p + 1] - 48) * 64 + (s[p + 2] - 48) * 8 + (s[p + 3] - 48)>> \o from[p + 4]
            ELSE IF s[p + 1] = 120
            THEN <<HexDigit(s[p + 2]) * 16 + HexDigit(s[p + 3])>> \o from[p + 4]
            ELSE <<Meant(s[p + 1])>> \o from[p + 2]
    IN  from[1]
=============================================================================
