------------------------------- MODULE GhwHier -------------------------------
(***************************************************************************)
(* The hierarchy of a GHW file: the two walks of the writer over a design  *)
(* (src/src/grt/grt-waves.adb), the tree the reader builds and how it is   *)
(* displayed (src/src/grt/ghwlib.c).                                       *)
(*                                                                         *)
(* A design D has types (GhwTypes), packages and a root.  A scope has a    *)
(* kind, a name, objects, sub-scopes (subs), the iterator of a for-        *)
(* generate (iter) and whether the user asked for it (shown).  An object   *)
(* has a kind, a name, a type, the scalar signals it stands for (sigs) and *)
(* .shown.  Signals are shared: a port and what it is connected to may be  *)
(* the same.                                                               *)
(***************************************************************************)
EXTENDS GhwTypes

HieKinds == [design |-> 1, block |-> 3, generate_if |-> 4, generate_for |-> 5, instance |-> 6,
             package |-> 7, process |-> 13, generic |-> 14, eos |-> 15, signal |-> 16,
             port_in |-> 17, port_out |-> 18, port_inout |-> 19, port_buffer |-> 20,
             port_linkage |-> 21]
BlockKinds == {"block", "generate_if", "generate_for", "instance", "generic", "package"}
SignalKinds == {"signal", "port_in", "port_out", "port_inout", "port_buffer", "port_linkage"}
HieKind(byte) == CHOOSE k \in DOMAIN HieKinds : HieKinds[k] = byte
IsHieKind(byte) == \E k \in DOMAIN HieKinds : HieKinds[k] = byte

-----------------------------------------------------------------------------
(* The walk of both steps: the items of a design in the order of the code. *)

\* A package has no context of its own.
Inside(scope, ctx) ==
    CASE scope.kind = "package"      -> ctx
      [] scope.kind = "generate_for" -> Append(ctx, <<scope.name, scope.iter.value>>)
      [] OTHER                       -> Append(ctx, <<scope.name, 0>>)

RECURSIVE Wave_Put_Hierarchy_Block(_, _)
Wave_Put_Hierarchy_Block(scope, ctx) ==
    LET c == Inside(scope, ctx)
        objects == SelectSeq(scope.objects, LAMBDA o : o.shown)
        sub(s) == <<[item |-> "region"]>>
                  \o CASE ~s.shown           -> <<>>
                       [] s.kind = "process" -> <<[item |-> "process", scope |-> s]>>
                       [] OTHER              -> Wave_Put_Hierarchy_Block(s, c)
    IN  <<[item |-> "scope", scope |-> scope, ctx |-> c]>>
        \o [k \in DOMAIN objects |-> [item |-> "object", object |-> objects[k], ctx |-> c]]
        \o (IF scope.kind = "package" THEN <<>>
            ELSE FlattenSeq([k \in DOMAIN scope.subs |-> sub(scope.subs[k])]))
        \o <<[item |-> "eos"]>>

\* The packages, then the top entity.
Wave_Put_Hierarchy(D) ==
    LET tops == SelectSeq(Append(D.packages, D.root), LAMBDA s : s.shown)
    IN  FlattenSeq([k \in DOMAIN tops |-> Wave_Put_Hierarchy_Block(tops[k], <<>>)])

Count(items, what) == Len(SelectSeq(items, LAMBDA i : i.item = what))

\* Step_Name: strings and types.  Regions that are not shown are counted too.
Step_Name(D) ==
    LET named(w, name) == [w EXCEPT !.strs = @ \cup {name}]
        step(w, i) ==
            CASE i.item = "process" -> named(w, i.scope.name)
              [] i.item = "object"  -> Create_Object_Type(D.types, named(w, i.object.name),
                                                          i.object.type, i.ctx)
              [] i.item = "scope" /\ i.scope.kind = "generate_for" ->
                     Create_Object_Type(D.types, named(w, i.scope.name), i.scope.iter.type, i.ctx)
              [] i.item = "scope"   -> named(w, i.scope.name)
              [] OTHER              -> w
        w == FoldLeft(step, [strs |-> {}, types |-> <<>>], Wave_Put_Hierarchy(D))
    IN  [w EXCEPT !.strs = Freeze_Strings(@)]

-----------------------------------------------------------------------------
(* Step_Hierarchy.  The signals get their numbers when they are first met. *)

\* x: the bytes so far and the signals that have a number, in this order.
Write_Signal_Number(x, sig) ==
    LET known == {n \in DOMAIN x.numbered : x.numbered[n] = sig}
        num == IF known = {} THEN Len(x.numbered) + 1 ELSE CHOOSE n \in known : TRUE
    IN  [bytes |-> x.bytes \o Wave_Put_ULEB128(num),
         numbered |-> IF known = {} THEN Append(x.numbered, sig) ELSE x.numbered]

BaseKind(T, tid) == IF T[tid].kind = "sub" THEN T[T[tid].base].kind ELSE T[tid].kind

Write_Hierarchy_El(D, w, x, i) ==
    LET el == IF i.item = "object" THEN i.object ELSE i.scope
        head == <<HieKinds[el.kind]>> \o Write_String_Id(w.strs, el.name)
        id(tid) == Write_Type_Id(D.types, w.types, tid, i.ctx)
    IN  CASE i.item = "object" ->
                 FoldLeft(Write_Signal_Number, [x EXCEPT !.bytes = @ \o head \o id(el.type)], el.sigs)
          [] el.kind = "generate_for" ->
                 [x EXCEPT !.bytes = @ \o head \o id(el.iter.type)
                                     \o Write_Value(BaseKind(D.types, el.iter.type), el.iter.value)]
          [] OTHER -> [x EXCEPT !.bytes = @ \o head]

Step_Hierarchy(D, w) ==
    FoldLeft(LAMBDA x, i : CASE i.item = "eos"    -> [x EXCEPT !.bytes = Append(@, HieKinds["eos"])]
                             [] i.item = "region" -> x
                             [] OTHER             -> Write_Hierarchy_El(D, w, x, i),
             [bytes |-> <<>>, numbered |-> <<>>], Wave_Put_Hierarchy(D))

\* hie: what the second walk gave.
Write_Hierarchy(D, be, hie) ==
    LET items == Wave_Put_Hierarchy(D)
    IN  <<0, 0, 0, 0>> \o Wave_Put_I32(be, Count(items, "region"))
        \o Wave_Put_I32(be, Count(items, "object")) \o Wave_Put_I32(be, Len(D.sigs))
        \o hie.bytes \o <<0>>

\* The table of signals to be dumped.
Dump_Table(hie) == hie.numbered

-----------------------------------------------------------------------------
(* Reading: a sequence of nodes linked by their places, 0 for none.        *)

NoType == [kind |-> "none"]

\* The numbers of the signals of a type, and the type of those met for the
\* first time.  s.v has both.
RECURSIVE ghw_read_signal(_, _, _)
ghw_read_signal(b, s, t) ==
    LET r == ghw_read_uleb128(b, s)
        ok == r.ok /\ r.v \in DOMAIN s.v.types
        one == [list |-> Append(s.v.list, r.v),
                types |-> IF s.v.types[r.v] # NoType THEN s.v.types
                          ELSE [s.v.types EXCEPT ![r.v] = ghw_get_base_type(t)]]
        stride == get_nbr_elements(t.base.el)
    IN  CASE t.kind \in Enums \cup {"sub"} -> IF ok THEN [r EXCEPT !.v = one] ELSE Fail(s)
          [] t.kind = "subarray" -> FoldLeft(LAMBDA acc, k : ghw_read_signal(b, acc, t.base.el), s,
                                             [k \in 1 .. (t.nbr + stride - 1) \div stride |-> k])
          [] t.kind \in {"record", "subrecord"} ->
                 FoldLeft(LAMBDA acc, e : ghw_read_signal(b, acc, e.type), s, t.els)
          [] OTHER -> Fail(s)

ghw_read_value(b, s, t) ==
    LET kind == ghw_get_base_type(t).kind
    IN  IF kind = "i64" THEN Fail(s) ELSE ReadScalar(b, s, kind)

\* What nothing initialises: the memory of a new node is taken to be clear.
Cleared == 0

Node(kind, parent) ==
    [kind |-> kind, name |-> <<>>, parent |-> parent, brother |-> 0, child |-> Cleared,
     type |-> NoType, iter |-> 0, sigs |-> <<>>]

\* Where the next node is linked: the brother or the child of node n.
Link(nodes, last, n) ==
    IF last.brother THEN [nodes EXCEPT ![last.of].brother = n]
    ELSE [nodes EXCEPT ![last.of].child = n]

RECURSIVE LastBrother(_, _)
LastBrother(nodes, n) == IF nodes[n].brother = 0 THEN n ELSE LastBrother(nodes, nodes[n].brother)

\* Mutant: the children that follow a scope are linked to its first brother.
Mut_EndOfScope(h) ==
    LET blk == h.nodes[h.blk].parent
    IN  [h EXCEPT !.blk = blk, !.last = [brother |-> TRUE, of |-> h.nodes[blk].child]]

\* The end of a scope: back to its parent, after its last child.
EndOfScope(h) ==
    LET blk == h.nodes[h.blk].parent
        child == h.nodes[blk].child
    IN  [h EXCEPT !.blk = blk,
                  !.last = IF child = 0 THEN [brother |-> FALSE, of |-> blk]
                           ELSE [brother |-> TRUE, of |-> LastBrother(h.nodes, child)]]

\* One entry of kind t, after its byte.  h: the nodes, the current block, where
\* to link, the types of the signals.
HieEntry(b, strs, types, s, h, t) ==
    LET n == Len(h.nodes) + 1
        node(name) == [Node(t, h.blk) EXCEPT !.name = name]
        with(el) == Link(Append(h.nodes, el), h.last, n)
        block(el) == [h EXCEPT !.nodes = with(el), !.blk = n,
                               !.last = [brother |-> FALSE, of |-> n]]
        leaf(el) == [h EXCEPT !.nodes = with(el), !.last = [brother |-> TRUE, of |-> n]]
        loop(name, id) ==
            Mapped(ghw_read_value(b, id, id.v),
                   LAMBDA v : block([node(name) EXCEPT !.type = id.v, !.iter = v]))
        object(name, id) ==
            IF get_nbr_elements(id.v) < 0 THEN Fail(id)
            ELSE Mapped(ghw_read_signal(b, [id EXCEPT !.v = [list |-> <<>>, types |-> h.sigs]], id.v),
                        LAMBDA v : [leaf([node(name) EXCEPT !.type = id.v, !.sigs = v.list])
                                        EXCEPT !.sigs = v.types])
    IN  Then(ghw_read_strid(b, strs, s), LAMBDA name :
            CASE t = "process" -> [name EXCEPT !.v = leaf(node(@))]
              [] t \in BlockKinds \ {"generate_for"} -> [name EXCEPT !.v = block(node(@))]
              [] OTHER -> Then(ghw_read_typeid(b, types, name), LAMBDA id :
                              IF t = "generate_for" THEN loop(name.v, id) ELSE object(name.v, id)))

RECURSIVE ReadHie(_, _, _, _, _)
ReadHie(b, strs, types, s, h) ==
    Then(ReadByte(b, s), LAMBDA t :
        LET kind == HieKind(t.v)
        IN  IF t.v = 0 THEN [t EXCEPT !.v = h]
            ELSE IF ~IsHieKind(t.v) \/ kind = "design" THEN Fail(t)
            ELSE IF kind = "eos" THEN ReadHie(b, strs, types, t, EndOfScope(h))
            ELSE Then(HieEntry(b, strs, types, t, h, kind),
                      LAMBDA r : ReadHie(b, strs, types, r, r.v)))

\* The result: the nodes, the first one the design, and the types of the signals.
ghw_read_hie(b, be, strs, types, s) ==
    AfterHeader(b, s, 16, LAMBDA hdr :
        ReadHie(b, strs, types, hdr,
                [nodes |-> <<Node("design", 0)>>, blk |-> 1,
                 last |-> [brother |-> FALSE, of |-> 1],
                 sigs |-> [n \in 1 .. ghw_get_i32(be, SubSeq(hdr.v, 13, 16)) |-> NoType]]))

-----------------------------------------------------------------------------
(* Displaying the tree: one line per node.                                 *)

\* The path of a node, from the design down, which has no name.
RECURSIVE Path(_, _)
Path(nodes, n) ==
    IF n = 0 \/ nodes[n].name = <<>> THEN <<>>
    ELSE Append(Path(nodes, nodes[n].parent),
                IF nodes[n].kind = "generate_for"
                THEN <<nodes[n].name, ghw_disp_value(nodes[n].type, nodes[n].iter)>>
                ELSE <<nodes[n].name>>)

\* Consecutive signals are grouped: pairs of the first and the last.
RECURSIVE Runs(_)
Runs(sigs) ==
    LET ends == {k \in DOMAIN sigs : /\ k = Len(sigs) \/ sigs[k + 1] # sigs[k] + 1
                                     /\ \A j \in 1 .. k - 1 : sigs[j + 1] = sigs[j] + 1}
        num == CHOOSE k \in ends : TRUE
    IN  IF sigs = <<>> THEN <<>>
        ELSE <<<<sigs[1], sigs[num]>>>> \o Runs(SubSeq(sigs, num + 1, Len(sigs)))

HieLine(nodes, n, indent, full_names) ==
    LET node == nodes[n]
        name == IF full_names THEN Path(nodes, n) ELSE <<indent, node.name>>
    IN  [kind |-> node.kind, name |-> name,
         rest |-> CASE node.kind = "generate_for" -> <<ghw_disp_value(node.type, node.iter)>>
                    [] node.kind \in SignalKinds  -> <<ghw_disp_subtype_indication(node.type),
                                                       Runs(node.sigs)>>
                    [] OTHER                      -> <<>>]

\* Up to the first ancestor with a brother: <<node, indent>>, 0 at the end.
RECURSIVE Up(_, _, _)
Up(nodes, n, indent) ==
    CASE nodes[n].brother # 0 -> <<nodes[n].brother, indent>>
      [] nodes[n].parent = 0  -> <<0, 0>>
      [] OTHER                -> Up(nodes, nodes[n].parent, indent - 1)

RECURSIVE DispHie(_, _, _, _)
DispHie(nodes, n, indent, full_names) ==
    LET next == IF nodes[n].child # 0 /\ nodes[n].kind \notin SignalKinds
                THEN <<nodes[n].child, indent + 1>> ELSE Up(nodes, n, indent)
    IN  IF n = 0 THEN <<>>
        ELSE <<HieLine(nodes, n, indent, full_names)>>
             \o DispHie(nodes, next[1], next[2], full_names)

ghw_disp_hie(nodes, full_names) == DispHie(nodes, 1, 0, full_names)
=============================================================================
