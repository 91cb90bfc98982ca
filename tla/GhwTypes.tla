------------------------------- MODULE GhwTypes -------------------------------
(***************************************************************************)
(* The types of a GHW file: how the writer (src/src/grt/grt-waves.adb)     *)
(* collects and puts them, what the reader (src/src/grt/ghwlib.c) builds   *)
(* from the bytes and how it prints it.                                    *)
(*                                                                         *)
(* T is the run-time information of a design: a function from the types to *)
(* records, whose fields depend on .kind (Kinds) and name other types of   *)
(* T.  A context is the path of instances of a declaration, and .depth the *)
(* length of the contexts a type depends on.  The bounds of a subtype are  *)
(* a function of the context (a generic may be part of them).              *)
(***************************************************************************)
EXTENDS GhwCodec

Kinds == [b2 |-> 22, e8 |-> 23, i32 |-> 25, i64 |-> 26, f64 |-> 27, p32 |-> 28, p64 |-> 29,
          array |-> 31, record |-> 32, sub |-> 34, subarray |-> 35, subrecord |-> 38]
KindNames == DOMAIN Kinds
Enums == {"b2", "e8"}
Numbers == {"i32", "i64", "f64"}
Physicals == {"p32", "p64"}
Scalars == Enums \cup Numbers \cup Physicals

\* Ghdl_Rtik_To_Ghw_Rtik: a record with unbounded elements is not told apart.
Ghw_Rtik(kind) == Kinds[IF kind = "urecord" THEN "record" ELSE kind]

-----------------------------------------------------------------------------
(* The table of types: pairs of a type and its context.                    *)

\* The context a type depends on, whatever the scope it is used from.  An
\* object that has the bounds of its own type keeps its context.
Canonical(T, tid, ctx) ==
    CASE T[tid].kind \in Enums    -> <<>>
      [] T[tid].kind = "object"   -> ctx
      [] OTHER -> SubSeq(ctx, 1, IF T[tid].depth < Len(ctx) THEN T[tid].depth ELSE Len(ctx))

\* Mutant: the bounds of one instance serve for all.
Mut_Find_Type(T, table, tid, ctx) ==
    LET ids == {k \in DOMAIN table : table[k][1] = tid}
    IN  IF ids = {} THEN 0 ELSE CHOOSE k \in ids : TRUE

Find_Type(T, table, tid, ctx) ==
    LET ids == {k \in DOMAIN table : table[k] = <<tid, Canonical(T, tid, ctx)>>}
    IN  IF ids = {} THEN 0 ELSE CHOOSE k \in ids : TRUE

\* The names a type brings, and the types it is made of, in the order they are
\* created.
NamesOf(t) ==
    {t.name} \cup CASE t.kind \in Enums                  -> ToSet(t.lits)
                    [] t.kind \in Physicals              -> {u.name : u \in ToSet(t.units)}
                    [] t.kind \in {"record", "urecord"}  -> {e.name : e \in ToSet(t.els)}
                    [] OTHER                             -> {}
PartsOf(t) ==
    CASE t.kind = "array"                              -> <<t.el>> \o t.idx
      [] t.kind \in {"record", "urecord"}              -> [k \in DOMAIN t.els |-> t.els[k].type]
      [] t.kind \in {"sub", "subarray", "subrecord"}   -> <<t.base>>
      [] OTHER                                         -> <<>>

\* w: the strings and the table so far.  Parts come before what they are part of.
RECURSIVE Create_Type(_, _, _, _)
Create_Type(T, w, tid, ctx) ==
    LET c == Canonical(T, tid, ctx)
        parts == FoldLeft(LAMBDA x, part : Create_Type(T, x, part, c),
                          [w EXCEPT !.strs = @ \cup (NamesOf(T[tid]) \ {<<>>})], PartsOf(T[tid]))
    IN  IF Find_Type(T, w.types, tid, ctx) # 0 THEN w
        ELSE [parts EXCEPT !.types = Append(@, <<tid, c>>)]

\* An object of an unbounded type also goes to the table, as a subtype.
Create_Object_Type(T, w, tid, ctx) ==
    IF T[tid].kind = "object"
    THEN LET x == Create_Type(T, w, T[tid].type, ctx)
         IN  [x EXCEPT !.types = Append(@, <<tid, ctx>>)]
    ELSE Create_Type(T, w, tid, ctx)

Write_Type_Id(T, table, tid, ctx) == Wave_Put_ULEB128(Find_Type(T, table, tid, ctx))

Write_Value(kind, v) ==
    CASE kind \in Enums          -> <<v>>
      [] kind \in {"i32", "p32"} -> Wave_Put_SLEB128(v)
      [] kind \in {"i64", "p64"} -> Wave_Put_LSLEB128(v)
      [] kind = "f64"            -> Wave_Put_F64(v)

\* A range r has a kind, the one of its base type.
Write_Range(r) ==
    <<Ghw_Rtik(r.kind) + (IF r.down THEN 128 ELSE 0)>>
    \o Write_Value(r.kind, r.left) \o Write_Value(r.kind, r.right)
Write_Ranges(rngs) == FlattenSeq([k \in DOMAIN rngs |-> Write_Range(rngs[k])])

\* The bounds of a record: of each element that has none in its type.
RECURSIVE Write_Record_Bounds(_, _, _)
Write_Record_Bounds(T, t, bounds) ==
    LET element(k) ==
            CASE T[t.els[k].type].kind = "array"   -> Write_Ranges(bounds[k])
              [] T[t.els[k].type].kind = "urecord" ->
                     Write_Record_Bounds(T, T[t.els[k].type], bounds[k])
              [] OTHER                             -> <<>>
    IN  FlattenSeq([k \in DOMAIN t.els |-> element(k)])

\* One type; w has the sorted strings and the table.
Write_Type(T, w, tid, ctx) ==
    LET t == T[tid]
        str(name) == Write_String_Id(w.strs, name)
        id(part) == Write_Type_Id(T, w.types, part, ctx)
        head == <<Ghw_Rtik(t.kind)>> \o str(t.name)
        all(list, Put(_)) == FlattenSeq([k \in DOMAIN list |-> Put(list[k])])
        counted(list, Put(_)) == Wave_Put_ULEB128(Len(list)) \o all(list, Put)
    IN  CASE t.kind = "object" ->
                 <<Kinds["subarray"]>> \o str(<<>>) \o id(t.type) \o Write_Ranges(t.rngs[ctx])
          [] t.kind \in Enums -> head \o counted(t.lits, str)
          [] t.kind \in Numbers -> head
          [] t.kind \in Physicals ->
                 head \o counted(t.units, LAMBDA u : str(u.name) \o Wave_Put_LSLEB128(u.val))
          [] t.kind = "array" -> head \o id(t.el) \o counted(t.idx, id)
          [] t.kind \in {"record", "urecord"} ->
                 head \o counted(t.els, LAMBDA e : str(e.name) \o id(e.type))
          [] t.kind = "sub" -> head \o id(t.base) \o Write_Range(t.rng[ctx])
          [] t.kind = "subarray" -> head \o id(t.base) \o Write_Ranges(t.rngs[ctx])
          [] t.kind = "subrecord" ->
                 head \o id(t.base)
                 \o IF T[t.base].kind = "urecord"
                    THEN Write_Record_Bounds(T, T[t.base], t.rngs[ctx]) ELSE <<>>

Write_Types(T, be, w) ==
    <<0, 0, 0, 0>> \o Wave_Put_I32(be, Len(w.types))
    \o FlattenSeq([k \in DOMAIN w.types |-> Write_Type(T, w, w.types[k][1], w.types[k][2])])
    \o <<0>>

\* known: for each well-known type (boolean, bit, std_ulogic) its name in T.
Write_Known_Types(T, w, known) ==
    <<0, 0, 0, 0>>
    \o FlattenSeq([k \in DOMAIN known |->
           IF Find_Type(T, w.types, known[k], <<>>) = 0 THEN <<>>
           ELSE <<k>> \o Write_Type_Id(T, w.types, known[k], <<>>)])
    \o <<0>>

-----------------------------------------------------------------------------
(* Reading.  A type holds the types it refers to.                          *)

\* A read for each element of a list, from where the one before stopped.
ReadEach(s, list, Read(_, _)) ==
    FoldLeft(LAMBDA acc, e : With(Read(acc, e), LAMBDA r : [r EXCEPT !.v = Append(acc.v, @)]),
             [s EXCEPT !.v = <<>>], list)
ReadList(s, n, Read(_)) == ReadEach(s, [k \in 1 .. n |-> k], LAMBDA r, k : Read(r))
CountedList(b, s, Read(_)) == Then(ghw_read_uleb128(b, s), LAMBDA n : ReadList(n, n.v, Read))

Entry(s, table, id) == IF s.ok /\ id \in DOMAIN table THEN [s EXCEPT !.v = table[id]] ELSE Fail(s)
ghw_read_strid(b, strs, s) ==
    LET r == ghw_read_uleb128(b, s) IN IF r.ok /\ r.v = 0 THEN [r EXCEPT !.v = <<>>] ELSE Entry(r, strs, r.v)
ghw_read_typeid(b, types, s) == LET r == ghw_read_uleb128(b, s) IN Entry(r, types, r.v)

KindOf(byte) == CHOOSE k \in KindNames : Kinds[k] = byte
IsKind(byte) == \E k \in KindNames : Kinds[k] = byte

\* The bounds are read as values of their kind.
ReadScalar(b, s, kind) ==
    CASE kind \in Enums          -> ReadByte(b, s)
      [] kind \in {"i32", "p32"} -> ghw_read_sleb128(b, s)
      [] kind \in {"i64", "p64"} -> ghw_read_lsleb128(b, s)
      [] kind = "f64"            -> ghw_read_f64(b, s)

ghw_read_range(b, s) ==
    Then(ReadByte(b, s), LAMBDA t :
        LET kind == KindOf(t.v % 128)
        IN  IF ~IsKind(t.v % 128) \/ kind \notin Scalars THEN Fail(t)
            ELSE Mapped(ReadList(t, 2, LAMBDA r : ReadScalar(b, r, kind)),
                        LAMBDA bounds : [kind |-> kind, down |-> t.v >= 128,
                                         left |-> bounds[1], right |-> bounds[2]]))

ghw_get_base_type(t) == IF t.kind \in {"sub", "subarray"} THEN t.base ELSE t

\* -1 for an unbounded type.
get_nbr_elements(t) ==
    CASE t.kind \in Scalars \cup {"sub"} -> 1
      [] t.kind = "array"                -> -1
      [] OTHER                           -> t.nbr

\* Of an index.  The program aborts on the other kinds, a 64-bit integer included.
Indexes == Enums \cup {"i32"}
ghw_get_range_length(r) == IF r.down THEN r.left - r.right + 1 ELSE r.right - r.left + 1

Total(rngs, n) == FoldLeft(LAMBDA acc, r : acc * ghw_get_range_length(r), n, rngs)

ghw_read_array_subtype(b, s, base, name) ==
    Then(ReadList(s, Len(base.dims), LAMBDA r : ghw_read_range(b, r)), LAMBDA rngs :
        IF \E k \in DOMAIN rngs.v : rngs.v[k].kind \notin Indexes THEN Fail(rngs)
        ELSE [rngs EXCEPT !.v = [kind |-> "subarray", name |-> name, base |-> base, rngs |-> @,
                                 nbr |-> Total(@, get_nbr_elements(base.el))]])

SumElements(els) ==
    IF \E k \in DOMAIN els : get_nbr_elements(els[k].type) = -1 THEN -1
    ELSE FoldLeft(LAMBDA acc, e : acc + get_nbr_elements(e.type), 0, els)

\* The elements with bounds of their own are read again with the base type.
RECURSIVE ghw_read_record_subtype(_, _, _, _)
ghw_read_record_subtype(b, s, base, name) ==
    LET subrecord(els, nbr) == [kind |-> "subrecord", name |-> name, base |-> base,
                                els |-> els, nbr |-> nbr]
        type(r, t) ==
            CASE get_nbr_elements(t) >= 0 -> [r EXCEPT !.v = t]
              [] t.kind = "array"  -> ghw_read_array_subtype(b, r, t, <<>>)
              [] t.kind = "record" -> ghw_read_record_subtype(b, r, t, <<>>)
        element(r, e) == Mapped(type(r, e.type), LAMBDA t : [name |-> e.name, type |-> t])
    IN  IF base.nbr >= 0 THEN [s EXCEPT !.v = subrecord(base.els, base.nbr)]
        ELSE Mapped(ReadEach(s, base.els, element),
                    LAMBDA els : subrecord(els, SumElements(els)))

\* What follows the name of a type that refers to another one.
ReadBased(b, types, s, kind, name) ==
    LET id(r) == ghw_read_typeid(b, types, r)
    IN  Then(id(s), LAMBDA base :
            CASE kind = "sub" ->
                     Mapped(ghw_read_range(b, base),
                            LAMBDA rng : [kind |-> kind, name |-> name, base |-> base.v, rng |-> rng])
              [] kind = "array" ->
                     Mapped(CountedList(b, base, id),
                            LAMBDA dims : [kind |-> kind, name |-> name, el |-> base.v, dims |-> dims])
              [] kind = "subarray"  -> ghw_read_array_subtype(b, base, base.v, name)
              [] kind = "subrecord" -> ghw_read_record_subtype(b, base, base.v, name))

\* What follows the kind of a type.
ReadNamed(b, strs, types, s, kind) ==
    LET str(r) == ghw_read_strid(b, strs, r)
        unit(r) == Then(str(r), LAMBDA n : Mapped(ghw_read_lsleb128(b, n),
                                                  LAMBDA v : [name |-> n.v, val |-> v]))
        element(r) == Then(str(r), LAMBDA n : Mapped(ghw_read_typeid(b, types, n),
                                                     LAMBDA t : [name |-> n.v, type |-> t]))
    IN  Then(str(s), LAMBDA name :
            CASE kind \in Enums ->
                     Mapped(CountedList(b, name, str),
                            LAMBDA lits : [kind |-> kind, name |-> name.v, lits |-> lits])
              [] kind \in Numbers -> [name EXCEPT !.v = [kind |-> kind, name |-> @]]
              [] kind \in Physicals ->
                     Mapped(CountedList(b, name, unit),
                            LAMBDA units : [kind |-> kind, name |-> name.v, units |-> units])
              [] kind = "record" ->
                     Mapped(CountedList(b, name, element),
                            LAMBDA els : [kind |-> kind, name |-> name.v, els |-> els,
                                          nbr |-> SumElements(els)])
              [] OTHER -> ReadBased(b, types, name, kind, name.v))

ReadType(b, strs, types, s) ==
    Then(ReadByte(b, s), LAMBDA kind :
        IF IsKind(kind.v) THEN ReadNamed(b, strs, types, kind, KindOf(kind.v)) ELSE Fail(kind))

ghw_read_type(b, be, strs, s) ==
    AfterHeader(b, s, 8, LAMBDA hdr :
        Then(FoldLeft(LAMBDA acc, k : Then(acc, LAMBDA types :
                          Mapped(ReadType(b, strs, types.v, types), LAMBDA t : Append(types.v, t))),
                      [hdr EXCEPT !.v = <<>>],
                      [k \in 1 .. ghw_get_i32(be, SubSeq(hdr.v, 5, 8)) |-> k]),
             LAMBDA types : Expect(b, types, <<0>>)))

\* The well-known types: pairs of their number and the place of the type.
RECURSIVE ReadKnown(_, _)
ReadKnown(b, s) ==
    Then(ReadByte(b, s), LAMBDA wkt :
        IF wkt.v = 0 THEN [wkt EXCEPT !.v = {}]
        ELSE Then(ghw_read_uleb128(b, wkt), LAMBDA id :
             Mapped(ReadKnown(b, id), LAMBDA rest : rest \cup {<<wkt.v, id.v>>})))

ghw_read_wk_types(b, types, s) ==
    Mapped(AfterHeader(b, s, 4, LAMBDA hdr : ReadKnown(b, hdr)),
           LAMBDA known : {w \in known : w[2] \in DOMAIN types /\ types[w[2]].kind \in Enums})

-----------------------------------------------------------------------------
(* What is displayed, as a sequence of names, numbers and marks.           *)

\* A subtype of an enumeration has no literals where they are looked for: what
\* is displayed then is not determined.
Unlisted == <<"??">>
Undetermined == <<"undetermined">>
ghw_get_lit(t, e) ==
    CASE t.kind \notin Enums       -> Undetermined
      [] e + 1 \in DOMAIN t.lits   -> t.lits[e + 1]
      [] OTHER                     -> Unlisted

\* The tool aborts on the other kinds.
Shown == {"i32", "p64", "f64"}
ghw_disp_value(t, v) ==
    LET kind == ghw_get_base_type(t).kind
    IN  CASE kind \in Enums -> <<"lit", ghw_get_lit(t, v), v>>
          [] kind \in Shown -> <<"number", v>>
          [] OTHER          -> <<"abort">>

\* The same for other programs; one literal too many is looked up.
ghw_get_value(t, v) ==
    LET base == ghw_get_base_type(t)
        nbr == IF base.kind = "b2" THEN 1 ELSE Len(base.lits)
    IN  CASE base.kind \in Enums /\ v + 1 \in DOMAIN base.lits -> base.lits[v + 1]
          [] base.kind \in Enums /\ v <= nbr -> Undetermined
          [] base.kind \in Shown -> v
          [] OTHER -> Unlisted

\* The bounds of an enumeration are looked up in the type.
ghw_disp_range(t, r) ==
    LET bound(v) == IF r.kind \in Enums THEN ghw_get_lit(t, v) ELSE v
    IN  <<bound(r.left), IF r.down THEN "downto" ELSE "to", bound(r.right)>>

ghw_disp_array_subtype_bounds(t) ==
    [k \in DOMAIN t.rngs |-> ghw_disp_range(t.base.dims[k], t.rngs[k])]

RECURSIVE ghw_disp_record_subtype_bounds(_)
ghw_disp_record_subtype_bounds(t) ==
    LET own == {k \in DOMAIN t.els : t.els[k].type # t.base.els[k].type}
        shown(e) == <<e.name, IF e.type.kind = "subarray" THEN ghw_disp_array_subtype_bounds(e.type)
                              ELSE ghw_disp_record_subtype_bounds(e.type)>>
    IN  [k \in 1 .. Cardinality(own) |-> shown(t.els[InOrder(own)[k]])]

ghw_disp_subtype_definition(t) ==
    CASE t.kind = "sub"       -> <<t.base.name, "range", ghw_disp_range(t.base, t.rng)>>
      [] t.kind = "subarray"  -> <<t.base.name, ghw_disp_array_subtype_bounds(t)>>
      [] t.kind = "subrecord" -> <<t.base.name, ghw_disp_record_subtype_bounds(t)>>

ghw_is_anonymous_type(t) == t.name = <<>>
ghw_disp_subtype_indication(t) ==
    IF ghw_is_anonymous_type(t) THEN ghw_disp_subtype_definition(t) ELSE t.name

\* A 64-bit integer is one of the kinds that are not handled: its name is not
\* displayed.
ghw_disp_type(t) ==
    CASE t.kind \in Enums     -> <<"type", t.name, t.lits>>
      [] t.kind \in {"i32", "f64"} -> <<"type", t.name, "range">>
      [] t.kind = "i64"       -> <<"unhandled type kind", Kinds[t.kind]>>
      [] t.kind \in Physicals -> <<"type", t.name, [k \in DOMAIN t.units |->
                                       <<t.units[k].name, t.units[k].val, t.units[1].name>>]>>
      [] t.kind = "array"     -> <<"type", t.name, [k \in DOMAIN t.dims |-> t.dims[k].name],
                                   ghw_disp_subtype_indication(t.el)>>
      [] t.kind = "record"    -> <<"type", t.name, [k \in DOMAIN t.els |->
                                       <<t.els[k].name, ghw_disp_subtype_indication(t.els[k].type)>>]>>
      [] OTHER                -> <<"subtype", t.name, ghw_disp_subtype_definition(t)>>

\* Those with a name, unless everything is asked for.
ghw_disp_types(types, verbose) ==
    LET shown == SelectSeq(types, LAMBDA t : verbose \/ ~ghw_is_anonymous_type(t))
    IN  [k \in DOMAIN shown |-> ghw_disp_type(shown[k])]
=============================================================================
