------------------------------- MODULE FstHier -------------------------------
(***************************************************************************)
(* The hierarchy of an FST file (src/src/grt/fst/fstapi.c): the bytes the  *)
(* declarations write to the ".hier" file, and what fstReaderIterateHier   *)
(* and fstReaderProcessHier make of them.  A name is a sequence of bytes   *)
(* other than zero.                                                        *)
(***************************************************************************)
EXTENDS FstCodec

\* Tags and types of fstapi.h.
AttrBegin == 252
AttrEnd == 253
Scope == 254
Upscope == 255
GenString == 21
RealTypes == {3, 4, 20, 29}
MiscAttr == 0
SupVar == 2
PathName == 3
SourceStem == 4
SourceIStem == 5
MaxScopeType == 21
MaxAttrType == 3
PortType == 18
\* The greatest subtype of an array, an enumeration and a pack.
MaxSubtype(typ) == CASE typ = 1 -> 3 [] typ = 2 -> 13 [] typ = 3 -> 3

\* A hierarchy being written: the bytes, and the length the writer counts.
NoHier == [bytes |-> <<>>, file_len |-> 0]
Put(h, bytes, counted) == [bytes |-> h.bytes \o bytes, file_len |-> h.file_len + counted]

PutScope(h, typ, name, comp) ==
    Put(h, <<Scope, IF typ > MaxScopeType THEN 0 ELSE typ>> \o name \o <<0>> \o comp \o <<0>>,
        Len(name) + Len(comp) + 4)

PutUpscope(h) == Put(h, <<Upscope>>, 1)

\* A type of attribute the format does not know becomes MISC/UNKNOWN, a subtype
\* it does not know the first one.
KnownSubtype(typ, subtype) ==
    CASE typ > MaxAttrType -> 7
      [] typ = MiscAttr    -> subtype
      [] OTHER             -> IF subtype > MaxSubtype(typ) THEN 0 ELSE subtype

PutAttrBegin(h, typ, subtype, name, arg) ==
    Put(h, <<AttrBegin, IF typ > MaxAttrType THEN MiscAttr ELSE typ, KnownSubtype(typ, subtype)>>
               \o name \o <<0>> \o Varint(arg),
        Len(name) + 4 + Len(Varint(arg)))

PutAttrEnd(h) == Put(h, <<AttrEnd>>, 1)

\* fstWriterSetAttrGeneric: end of lines become spaces.
OneLine(name) == [k \in DOMAIN name |-> IF name[k] \in {10, 13} THEN 32 ELSE name[k]]
PutMisc(h, name, subtype, arg) == PutAttrBegin(h, MiscAttr, subtype, OneLine(name), arg)

\* fstWriterSetAttrDoubleArgGeneric: the first number takes the place of the name.
PutDoubleArg(h, subtype, arg1, arg2) ==
    PutAttrBegin(h, MiscAttr, subtype, VarintString(arg1), arg2)

VarLength(vt, len) ==
    CASE vt \in RealTypes -> 8
      [] vt = GenString   -> 0
      [] OTHER            -> len

PutVar(h, vt, dir, len, name, alias) ==
    LET l == Varint(VarLength(vt, len))
        a == Varint(alias)
    IN  Put(h, <<vt, dir>> \o name \o <<0>> \o l \o a, Len(name) + 3 + Len(l) + Len(a))

-----------------------------------------------------------------------------
(* Reading.  Entries are read one after the other; a variable that is not  *)
(* an alias takes the next handle.                                         *)

StringLength(bytes, p) ==
    CHOOSE n \in 0 .. Len(bytes) - p :
        bytes[p + n] = 0 /\ \A m \in 0 .. n - 1 : bytes[p + m] # 0
StringAt(bytes, p) == SubSeq(bytes, p, p + StringLength(bytes, p) - 1)
AfterString(bytes, p) == p + StringLength(bytes, p) + 1

ReadScope(bytes, p) ==
    LET q == AfterString(bytes, p + 2)
    IN  [entry |-> [htyp |-> "scope", typ |-> bytes[p + 1], name |-> StringAt(bytes, p + 2),
                    component |-> StringAt(bytes, q)],
         next |-> AfterString(bytes, q)]

\* The name of a source stem is a number.
ReadAttr(bytes, p) ==
    LET typ == bytes[p + 1]
        subtype == bytes[p + 2]
        name == StringAt(bytes, p + 3)
        q == AfterString(bytes, p + 3)
        arg == ReadVarint(bytes, q)
        stem == typ = MiscAttr /\ subtype \in {SourceStem, SourceIStem}
    IN  [entry |-> [htyp |-> "attr", typ |-> typ, subtype |-> subtype, arg |-> arg.val,
                    name |-> name,
                    number |-> IF stem THEN GetVarint(name \o <<0>>, 1) ELSE 0],
         next |-> q + arg.skip]

\* A port counts three characters for a value and two spaces around them.
ReadVar(bytes, p, handle) ==
    LET q == AfterString(bytes, p + 2)
        len == ReadVarint(bytes, q)
        alias == ReadVarint(bytes, q + len.skip)
    IN  [entry |-> [htyp |-> "var", typ |-> bytes[p], dir |-> bytes[p + 1],
                    name |-> StringAt(bytes, p + 2), stored |-> len.val,
                    length |-> IF bytes[p] = PortType THEN (len.val - 2) \div 3 ELSE len.val,
                    handle |-> IF alias.val = 0 THEN handle + 1 ELSE alias.val,
                    is_alias |-> alias.val # 0],
         next |-> q + len.skip + alias.skip]

ReadEntryAt(bytes, p, handle) ==
    CASE bytes[p] = Scope     -> ReadScope(bytes, p)
      [] bytes[p] = Upscope   -> [entry |-> [htyp |-> "upscope"], next |-> p + 1]
      [] bytes[p] = AttrBegin -> ReadAttr(bytes, p)
      [] bytes[p] = AttrEnd   -> [entry |-> [htyp |-> "attrend"], next |-> p + 1]
      [] OTHER                -> ReadVar(bytes, p, handle)

IsNewVar(entry) == entry.htyp = "var" /\ ~entry.is_alias

IterateHier(bytes, start, first) ==
    LET from[p \in Nat, handle \in Nat] ==
            IF p > Len(bytes) THEN <<>>
            ELSE LET r == ReadEntryAt(bytes, p, handle)
                 IN  <<r.entry>> \o
                     from[r.next, IF IsNewVar(r.entry) THEN handle + 1 ELSE handle]
    IN  from[start, first]

Entries(bytes) == IterateHier(bytes, 1, 0)

\* fstReaderProcessHier: the lengths and types of the handles, in order.
HandlesOf(entries) ==
    LET vars == SelectSeq(entries, IsNewVar)
        aliases == SelectSeq(entries, LAMBDA e : e.htyp = "var" /\ e.is_alias)
    IN  [maxhandle |-> Len(vars), num_alias |-> Len(aliases),
         lens |-> [k \in DOMAIN vars |-> vars[k].stored]]
ProcessHier(bytes) == HandlesOf(Entries(bytes))

-----------------------------------------------------------------------------
(* The geometry, the other record of the lengths: zero is a real, all ones *)
(* a variable length.                                                      *)

AllOnes == 2147483647          \* 0xFFFFFFFF in the code; TLC's integers are shorter
GeomLength(vt, len) ==
    CASE vt \in RealTypes       -> 0
      [] VarLength(vt, len) = 0 -> AllOnes
      [] OTHER                  -> len

ReadGeom(geom) ==
    [k \in DOMAIN geom |->
        CASE geom[k] = 0       -> 8
          [] geom[k] = AllOnes -> 0
          [] OTHER             -> geom[k]]
=============================================================================
