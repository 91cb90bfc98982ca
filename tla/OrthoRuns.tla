------------------------------ MODULE OrthoRuns ------------------------------
(* What the client of module Ortho gets: the trees that were built, run beside *)
(* the text of what was asked for; the blocks, operators, conversions and      *)
(* aggregates.                                                                 *)
EXTENDS Ortho

CONSTANTS
    StreamLength,   \* number of conditions and selectors evaluated by a run
    RunLength       \* number of effects compared in a run

ASSUME OrthoBounds == StreamLength \in Nat /\ RunLength \in Nat \ {0}

(*--------------------------- running the results ----------------------------*)
(* A run reads conditions and selectors from a stream and stops when there are *)
(* none left, or after RunLength effects: assignments, calls, iterations. "sp" *)
(* counts what alloca has allocated; out says how the statement was left.      *)

Start(stream) == [out |-> "next", arg |-> NULL, stream |-> stream, effects |-> <<>>, sp |-> 0, sps |-> <<>>]

Effect(st, e) ==
    [st EXCEPT !.effects = Append(@, e), !.sps = Append(@, st.sp),
               !.out = IF Len(st.effects) + 1 = RunLength THEN "stop" ELSE "next"]

Leave(st, out, arg) == [st EXCEPT !.out = out, !.arg = arg]
Stop(st) == [st EXCEPT !.out = "stop"]
Read(st) == [st EXCEPT !.stream = Tail(@)]
Released(st, sp) == IF st.out = "stop" THEN st ELSE [st EXCEPT !.sp = sp]

(* The statements of GCC: a goto is looked for in the list it is in, then in   *)
(* the lists around it; a protected body restores the stack however it is left.*)
RECURSIVE RunList(_, _, _), RunStmt(_, _)

RunList(l, i, st) ==
    LET list == o.stmts[l]
        targets == {j \in DOMAIN list : list[j].k = "label" /\ list[j].label = st.arg}
    IN  IF st.out = "goto" /\ targets # {} THEN RunList(l, Min(targets), Leave(st, "next", NULL))
        ELSE IF st.out # "next" \/ i > Len(list) THEN st
        ELSE RunList(l, i + 1, RunStmt(list[i], st))

RunStmt(s, st) ==
    CASE s.k = "assign" -> Effect(IF s.alloca THEN [st EXCEPT !.sp = @ + 1] ELSE st, <<"assign", s.value>>)
      [] s.k = "call" -> Effect(st, <<"call", s.func, s.args>>)
      [] s.k = "return" -> Leave(st, "return", NULL)
      [] s.k = "goto" -> Leave(st, "goto", s.label)
      [] s.k = "label" -> IF o.labels[s.label].iterates THEN Effect(st, <<"loop">>) ELSE st
      [] s.k = "case" -> st
      [] s.k = "bind" ->
           LET r == RunList(o.binds[s.bind].body, 1, st)
           IN  IF o.binds[s.bind].save = NULL THEN r ELSE Released(r, st.sp)
      [] s.k = "if" ->
           IF st.stream = <<>> THEN Stop(st)
           ELSE LET branch == IF Head(st.stream) = 0 THEN s.then ELSE s.else
                IN  IF branch = NULL THEN Read(st) ELSE RunList(branch, 1, Read(st))
      [] s.k = "switch" ->
           IF st.stream = <<>> THEN Stop(st)
           ELSE LET list == o.stmts[s.body]
                    labels == {j \in DOMAIN list : list[j].k = "case"}
                    chosen == {j \in labels : Covers(list[j].choice, Head(st.stream))}
                    others == {j \in labels : list[j].choice = <<>>}
                IN  CASE chosen # {} -> RunList(s.body, Min(chosen), Read(st))
                      [] chosen = {} /\ others # {} -> RunList(s.body, Min(others), Read(st))
                      [] OTHER -> Read(st)

(* The text: what the interface says of each statement. *)
RECURSIVE RunText(_, _, _), RunNode(_, _), Iterate(_, _)

RunText(body, i, st) ==
    IF st.out # "next" \/ i > Len(body) THEN st ELSE RunText(body, i + 1, RunNode(body[i], st))

Iterate(s, st) ==
    LET r == RunText(s.body, 1, Effect(st, <<"loop">>))
    IN  CASE r.out = "next" -> Iterate(s, r)
          [] r.out = "continue" /\ r.arg = s.loop -> Iterate(s, Leave(r, "next", NULL))
          [] r.out = "exit" /\ r.arg = s.loop -> Leave(r, "next", NULL)
          [] OTHER -> r

RunNode(s, st) ==
    CASE s.k = "assign" -> Effect(st, <<"assign", s.value>>)
      [] s.k = "alloca" -> Effect([st EXCEPT !.sp = @ + 1], <<"assign", s.value>>)
      [] s.k = "call" -> Effect(st, <<"call", s.func, s.args>>)
      [] s.k = "return" -> Leave(st, "return", NULL)
      [] s.k = "exit" -> Leave(st, "exit", s.loop)
      [] s.k = "next" -> Leave(st, "continue", s.loop)
      [] s.k = "loop" -> Iterate(s, st)
      [] s.k = "declare" -> Released(RunText(s.body, 1, st), st.sp)
      [] s.k = "if" ->
           IF st.stream = <<>> THEN Stop(st)
           ELSE RunText(IF Head(st.stream) = 0 THEN s.then ELSE s.else, 1, Read(st))
      [] s.k = "case" ->
           IF st.stream = <<>> THEN Stop(st)
           ELSE LET chosen == {i \in DOMAIN s.choices : \E c \in ToSet(s.choices[i]) : Covers(c, Head(st.stream))}
                    others == {i \in DOMAIN s.choices : <<>> \in ToSet(s.choices[i])}
                    taken == IF chosen # {} THEN chosen ELSE others
                IN  IF taken = {} THEN Read(st) ELSE RunText(s.bodies[Min(taken)], 1, Read(st))

Ending(st) == CASE st.out \in {"next", "return"} -> "end" [] st.out = "stop" -> "stop" [] OTHER -> "lost"
Streams == [1 .. StreamLength -> client.selectors]
Built(d, stream) == RunList(o.binds[o.decls[d.func].saved].body, 1, Start(stream))
Asked(d, stream) == RunText(d.text, 1, Start(stream))
(*------------------------------- properties ---------------------------------*)

(* The statements that were built, once GCC follows their jumps, have the       *)
(* effects of the statements that were asked for, in their order, for every     *)
(* outcome of the conditions: no branch of a case falls into the next, an exit  *)
(* or a next from within any nest of ifs, cases and regions reaches its loop,   *)
(* and the body of a nested subprogram leaves the list it interrupts alone.     *)
CodeExact ==
    UnitComplete => \A i \in DOMAIN done, stream \in Streams :
        LET built == Built(done[i], stream)
            asked == Asked(done[i], stream)
        IN  Ending(built) = Ending(asked) /\ built.effects = asked.effects

(* What is allocated in a region is released when the region is left, by its    *)
(* end or by a jump, and what is allocated at the level of the subprogram stays:*)
(* a loop does not eat the stack and no pointer outlives what it points to      *)
(* (new_alloca marks a level, pop_binding acts on it).                          *)
StackExact ==
    UnitComplete => \A i \in DOMAIN done, stream \in Streams :
        Built(done[i], stream).sps = Asked(done[i], stream).sps

(* The variables and sub-blocks a debugger is told of for each region are those *)
(* declared in it, in their order, whatever levels were recycled to build it;   *)
(* every declaration has the subprogram it is in as its context, and the chain  *)
(* of the parameters of a subprogram is its own.                                *)
RECURSIVE BlockOf(_), BlocksFrom(_, _)
BlocksFrom(b, super) ==
    IF b = NULL THEN <<>>
    ELSE <<[block |-> BlockOf(b), nested |-> o.binds[b].super = super]>> \o BlocksFrom(o.binds[b].chain, super)
BlockOf(b) == [vars |-> SelectSeq(ChainFrom(o, o.binds[b].vars), LAMBDA d : o.decls[d].kind # "save"),
               subs |-> BlocksFrom(o.binds[b].subs, b)]

RECURSIVE BlockAsked(_)
BlockAsked(r) == [vars |-> r.vars, subs |-> [i \in DOMAIN r.subs |-> [block |-> BlockAsked(r.subs[i]), nested |-> TRUE]]]

BlocksExact ==
    /\ UnitComplete => \A i \in DOMAIN done :
         LET b == o.decls[done[i].func].saved
         IN  BlockOf(b) = BlockAsked(done[i].region) /\ o.binds[b].of = done[i].func
    /\ \A d \in DOMAIN known :
         /\ o.decls[d].context = known[d].home
         /\ known[d].k = "func" =>
              /\ ChainFrom(o, o.decls[d].args) = known[d].parms
              /\ o.decls[d].types = [i \in DOMAIN known[d].parms |-> i]
              /\ \A p \in ToSet(known[d].parms) : o.decls[p].context = d

(* What the operators and conversions compute depends on no state: it is looked *)
(* at before the first call.                                                    *)
Fresh == open = <<>> /\ DOMAIN known = {}

SameSign(r, a) == r = 0 \/ (r < 0) = (a < 0)
Means(kind, a, b, r) ==
    CASE kind = "ON_Add_Ov" -> r = a + b
      [] kind = "ON_Sub_Ov" -> r = a - b
      [] kind = "ON_Mul_Ov" -> r = a * b
      [] kind = "ON_Div_Ov" -> Magnitude(a - b * r) < Magnitude(b) /\ SameSign(a - b * r, a)
      [] kind = "ON_Rem_Ov" -> Magnitude(r) < Magnitude(b) /\ SameSign(r, a) /\ (\E q \in -9 .. 9 : a = b * q + r)
      [] kind = "ON_Mod_Ov" -> Magnitude(r) < Magnitude(b) /\ SameSign(r, b) /\ (\E q \in -9 .. 9 : a = b * q + r)
      [] kind = "ON_Neg_Ov" -> r + a = 0
      [] kind = "ON_Abs_Ov" -> r >= 0 /\ r * r = a * a
      [] kind = "ON_Eq" -> (r = 1) = (a = b)
      [] kind = "ON_Neq" -> (r = 1) = (a # b)
      [] kind = "ON_Le" -> (r = 1) = (a <= b)
      [] kind = "ON_Lt" -> (r = 1) = (a < b)
      [] kind = "ON_Ge" -> (r = 1) = (a >= b)
      [] kind = "ON_Gt" -> (r = 1) = (a > b)
MeansBits(kind, a, b, r) ==
    CASE kind = "ON_And" -> (r = 1) = (a = 1 /\ b = 1)
      [] kind = "ON_Or" -> (r = 1) = (a = 1 \/ b = 1)
      [] kind = "ON_Xor" -> (r = 1) = ((a = 1) # (b = 1))
      [] kind = "ON_Not" -> (r = 1) = (a = 0)

Sent(kind, junk) == Position(kind) + 256 * junk
CodeOf(kind, junk) ==
    IF kind \in {"ON_Not", "ON_Neg_Ov", "ON_Abs_Ov"} THEN new_monadic_op(Sent(kind, junk))
    ELSE IF kind \in {"ON_Eq", "ON_Neq", "ON_Le", "ON_Lt", "ON_Ge", "ON_Gt"} THEN new_compare_op(Sent(kind, junk))
    ELSE new_dyadic_op(Sent(kind, junk), "integer")
Logical == {"ON_And", "ON_Or", "ON_Xor", "ON_Not"}
OperatorsExact ==
    \A kind \in ToSet(Tail(ON_Op_Kind)), junk \in {0, 3} :
        IF kind \in Logical
        THEN \A a, b \in {0, 1} : MeansBits(kind, a, b, Compute(CodeOf(kind, junk), a, b))
        ELSE \A a \in -4 .. 4, b \in (-4 .. 4) \ {0} : Means(kind, a, b, Compute(CodeOf(kind, junk), a, b))

Nearest(x) == Signed(x < 0, (Magnitude(x) + Half) \div One)
OffByOne == {Half - 1} \cup {n * One : n \in {m \in 2 ^ (Mantissa - 1) .. 2 ^ Mantissa - 1 : m % 2 = 1}}
ConversionsExact ==
    /\ \A x \in Reals : (ToInteger(x) = Nearest(x)) = (Magnitude(x) \notin OffByOne)
    /\ \A r \in Reals : new_float_literal(r) = r
    /\ \A v \in -(2 ^ (Word - 1)) .. 2 ^ (Word - 1) - 1 : new_signed_literal(v) = v
    /\ \A v \in 0 .. 2 ^ Word - 1 : new_unsigned_literal(v) = v

(* The operation that a name of the Ada enumeration denotes, and whose position *)
(* alone is passed, is the one GCC is told to do: the two enumerations and the  *)
(* table of codes agree, the division of integers truncates and its remainder   *)
(* and modulus take the signs VHDL gives them. A real becomes the nearest       *)
(* integer, away from zero when there are two, with the exceptions of the sum   *)
(* that is rounded before it is truncated, and no other: the predecessor of one *)
(* half, and the odd integers of the last binade in which every integer is a    *)
(* real. Literals keep their values in two words, also the negative ones and the*)
(* unsigned ones past the signed range, and in the scaled integer a real is     *)
(* made from.                                                                   *)
ExpressionsExact == Fresh => OperatorsExact /\ ConversionsExact

(* However the fields of two record types are interleaved, one of them announced*)
(* before, each type has its own fields in their order, an aggregate gives each *)
(* value to the field it is for and the offsets follow; a null array has room,  *)
(* every other one has as many elements as its length.                          *)
Building ==
    LET announced == new_uncomplete_record_type([o |-> ortho_init, types |-> <<>>])
        first == start_record_type(announced)
        second == start_uncomplete_record_type(first.t, 1)
    IN  [t |-> first.t, lists |-> <<first.list, second.list>>, fields |-> << <<>>, <<>> >>]
AddField(b, n) ==
    LET f == new_record_field(b.t, b.lists[n])
    IN  [t |-> f.t, lists |-> [b.lists EXCEPT ![n] = f.list],
         fields |-> [b.fields EXCEPT ![n] = Append(@, Len(f.t.o.decls))]]
Aggregate(t, type, n) ==
    finish_record_aggr(FoldLeft(LAMBDA l, v : new_record_aggr_el(t, l, v), start_record_aggr(t, type), [i \in 1 .. n |-> 100 + i]))
AggregatesExact ==
    Fresh =>
      /\ \A order \in UNION {[1 .. n -> {1, 2}] : n \in 0 .. 5} :
           LET b == FoldLeft(AddField, Building, order)
               t == FoldLeft(finish_record_type, b.t, b.lists)
           IN  \A n \in {1, 2} :
                 LET type == b.lists[n].res
                     fs == b.fields[n]
                 IN  /\ t.types[type].complete
                     /\ Aggregate(t, type, Len(fs)) = [i \in DOMAIN fs |-> <<fs[i], 100 + i>>]
                     /\ \A i \in DOMAIN fs : new_offsetof(t, type, fs[i]) = i - 1 /\ t.o.decls[fs[i]].context = type
      /\ \A length \in 0 .. 2 ^ Word - 1 : ArrayRoom(length) = IF length = 0 THEN 1 ELSE length
      /\ LET e == FoldLeft(LAMBDA l, i : new_enum_literal(l), start_enum_type, <<1, 2, 3>>)
         IN  \A i \in 1 .. 3 : e.chain[i] = i - 1
=============================================================================
