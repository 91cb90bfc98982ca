----------------------------- MODULE Ortho_proofs -----------------------------
(* Proofs about Ortho, for any clients: whatever is nested in whatever, the    *)
(* levels in use and the recycled ones stay two lists that share nothing, a    *)
(* popped subprogram gives back the statement list it interrupted, and every   *)
(* declaration is the symbol it was asked to be.                               *)
EXTENDS Ortho, SubsequenceLemmas

(*------------------------------ the back end --------------------------------*)

(* A sequence, whatever its elements are. *)
IsList(s) == Len(s) \in Nat /\ s = [i \in 1 .. Len(s) |-> s[i]]

Fields == {"cur_level", "old_levels", "cur_stmts", "fn", "levels", "stmts", "binds", "decls", "labels"}
LevelFields == {"bind", "first_decl", "last_decl", "save_stack", "first_block", "last_block",
                "prev", "prev_stmts"}
DeclFields == {"kind", "storage", "context", "chain", "external", "public", "static", "initial",
               "compiled", "args", "types", "saved", "finalized"}

(* The type of the back end, as far as its levels and declarations go. *)
UnitOK(u) ==
    /\ DOMAIN u = Fields
    /\ u.cur_level \in Nat /\ u.old_levels \in Nat /\ u.cur_stmts \in Nat
    /\ IsList(u.levels) /\ \A l \in 1 .. Len(u.levels) : DOMAIN u.levels[l] = LevelFields
    /\ IsList(u.decls) /\ \A d \in 1 .. Len(u.decls) : DOMAIN u.decls[d] = DeclFields
    /\ IsList(u.stmts)

(* What tells where a level belongs. *)
SameLevel(x, y) == y.prev = x.prev /\ y.prev_stmts = x.prev_stmts

SameLevels(u, v) ==
    /\ v.cur_level = u.cur_level /\ v.old_levels = u.old_levels
    /\ Len(v.levels) = Len(u.levels)
    /\ \A l \in 1 .. Len(u.levels) : SameLevel(u.levels[l], v.levels[l])

(* What tells which symbol a declaration is. *)
SameDecl(x, y) ==
    /\ y.context = x.context /\ y.compiled = x.compiled /\ y.external = x.external
    /\ y.public = x.public /\ y.static = x.static /\ y.finalized = x.finalized

KeepsDecls(u, v) ==
    /\ Len(u.decls) <= Len(v.decls)
    /\ \A d \in 1 .. Len(u.decls) : SameDecl(u.decls[d], v.decls[d])

(* Lists of statements are only added; a new one may become the current one. *)
KeepsLists(u, v) == Len(u.stmts) <= Len(v.stmts)
OpensList(u, v) == v.cur_stmts \in Len(u.stmts) + 1 .. Len(v.stmts)

(* From u to v the levels stay where they are and the declarations what they are. *)
Quiet(u, v) == UnitOK(v) /\ v.fn = u.fn /\ SameLevels(u, v) /\ KeepsDecls(u, v) /\ KeepsLists(u, v)

LEMMA QuietTwice ==
    ASSUME NEW u, NEW v, NEW w, UnitOK(u), Quiet(u, v), Quiet(v, w)
    PROVE  Quiet(u, w)
<1>1. Len(u.decls) \in Nat /\ Len(v.decls) \in Nat /\ Len(w.decls) \in Nat
  BY DEF Quiet, UnitOK, IsList
<1>2. KeepsDecls(u, w)
  BY <1>1 DEF Quiet, KeepsDecls, SameDecl
<1>3. SameLevels(u, w)
  BY DEF Quiet, SameLevels, SameLevel
<1>4. KeepsLists(u, w)
  BY DEF Quiet, KeepsLists, UnitOK, IsList
<1> QED
  BY <1>2, <1>3, <1>4 DEF Quiet

(* Steps that leave the lists as they are. *)
LEMMA ListsKept ==
    ASSUME NEW u, NEW v, UnitOK(u), Len(v.stmts) = Len(u.stmts)
    PROVE  KeepsLists(u, v)
BY DEF UnitOK, IsList, KeepsLists

(* The list opened before or after steps that only add some. *)
LEMMA OpensLater ==
    ASSUME NEW u, NEW v, NEW w, UnitOK(u), UnitOK(v), UnitOK(w), KeepsLists(u, v), KeepsLists(v, w),
           (w.cur_stmts = v.cur_stmts /\ OpensList(u, v)) \/ OpensList(v, w)
    PROVE  OpensList(u, w)
BY DEF KeepsLists, OpensList, UnitOK, IsList

(* When levels and declarations are the same. *)
LEMMA Elsewhere ==
    ASSUME NEW u, NEW v, UnitOK(u), DOMAIN v = Fields,
           v.cur_level = u.cur_level, v.old_levels = u.old_levels, v.fn = u.fn,
           v.levels = u.levels, v.decls = u.decls, v.cur_stmts \in Nat, IsList(v.stmts), KeepsLists(u, v)
    PROVE  Quiet(u, v)
BY DEF UnitOK, Quiet, SameLevels, SameLevel, KeepsDecls, SameDecl, IsList

(* What an element appended to a sequence leaves alone. *)
LEMMA ListAppend ==
    ASSUME NEW s, IsList(s), NEW x
    PROVE  /\ IsList(Append(s, x)) /\ Len(Append(s, x)) = Len(s) + 1
           /\ Append(s, x)[Len(s) + 1] = x
           /\ \A i \in 1 .. Len(s) : Append(s, x)[i] = s[i]
<1> DEFINE R == {s[i] : i \in 1 .. Len(s)} \cup {x}
<1>1. s \in Seq(R)
  BY DEF IsList
<1>2. x \in R
  OBVIOUS
<1> HIDE DEF R
<1> DEFINE t == Append(s, x)
<1>3. /\ t \in Seq(R) /\ Len(t) = Len(s) + 1 /\ t[Len(s) + 1] = x
      /\ \A i \in 1 .. Len(s) : t[i] = s[i]
  BY <1>1, <1>2, AppendProperties
<1>4. t = [i \in 1 .. Len(t) |-> t[i]] /\ Len(t) \in Nat
  <2> HIDE DEF t
  <2> QED
    BY <1>3, LenProperties
<1> QED
  BY <1>3, <1>4 DEF IsList

(* A sequence with an element replaced. *)
LEMMA ListExcept ==
    ASSUME NEW s, IsList(s), NEW i, NEW x
    PROVE  /\ IsList([s EXCEPT ![i] = x]) /\ Len([s EXCEPT ![i] = x]) = Len(s)
           /\ \A j \in 1 .. Len(s) : [s EXCEPT ![i] = x][j] = IF j = i THEN x ELSE s[j]
<1> DEFINE R == {s[j] : j \in 1 .. Len(s)} \cup {x}
           t == [s EXCEPT ![i] = x]
<1>1. DOMAIN t = 1 .. Len(s) /\ \A j \in 1 .. Len(s) : t[j] \in R
  BY DEF IsList
<1>2. t = [j \in 1 .. Len(s) |-> t[j]]
  BY DEF IsList
<1> HIDE DEF t, R
<1>3. t \in Seq(R) /\ Len(t) = Len(s)
  BY <1>1, <1>2 DEF IsList
<1>4. \A j \in 1 .. Len(s) : t[j] = IF j = i THEN x ELSE s[j]
  BY DEF t, IsList
<1> QED
  BY <1>2, <1>3, <1>4 DEF IsList, t

(* t is s with x as element number i, or with x after its last element. *)
ReplacedAt(s, t, i, x) ==
    /\ IsList(t) /\ Len(t) = Len(s)
    /\ \A j \in 1 .. Len(s) : t[j] = IF j = i THEN x ELSE s[j]

Lengthened(s, t, x) ==
    /\ IsList(t) /\ Len(t) = Len(s) + 1 /\ t[Len(s) + 1] = x
    /\ \A j \in 1 .. Len(s) : t[j] = s[j]

LEMMA Replaced ==
    ASSUME NEW s, IsList(s), NEW i, NEW x, NEW t, t = [s EXCEPT ![i] = x]
    PROVE  ReplacedAt(s, t, i, x)
<1>1. IsList([s EXCEPT ![i] = x])
  BY ListExcept
<1>2. Len([s EXCEPT ![i] = x]) = Len(s)
  BY ListExcept
<1>3. \A j \in 1 .. Len(s) : t[j] = IF j = i THEN x ELSE s[j]
  BY DEF IsList
<1> QED
  BY <1>1, <1>2, <1>3 DEF ReplacedAt

LEMMA Longer ==
    ASSUME NEW s, IsList(s), NEW x, NEW t, t = Append(s, x)
    PROVE  Lengthened(s, t, x)
BY ListAppend DEF Lengthened

(*------------------------------ statements ----------------------------------*)

(* A statement more in the current list. *)
LEMMA AppendStmt ==
    ASSUME NEW u, UnitOK(u), NEW s
    PROVE  Quiet(u, append_stmt(u, s)) /\ append_stmt(u, s).cur_stmts = u.cur_stmts
<1> DEFINE t == [u.stmts EXCEPT ![u.cur_stmts] = Append(u.stmts[u.cur_stmts], s)]
<1>1. append_stmt(u, s) = [u EXCEPT !.stmts = t]
  BY DEF append_stmt
<1>2. IsList(t) /\ Len(t) = Len(u.stmts)
  <2>1. PICK x : x = Append(u.stmts[u.cur_stmts], s)
    OBVIOUS
  <2>2. t = [u.stmts EXCEPT ![u.cur_stmts] = x]
    BY <2>1
  <2> HIDE DEF t
  <2>3. IsList(u.stmts)
    BY DEF UnitOK
  <2>4. ReplacedAt(u.stmts, t, u.cur_stmts, x)
    BY ONLY <2>2, <2>3, Replaced
  <2> QED
    BY <2>4 DEF ReplacedAt
<1> HIDE DEF t
<1> DEFINE v == [u EXCEPT !.stmts = t]
<1>3. /\ DOMAIN v = Fields /\ v.cur_level = u.cur_level /\ v.old_levels = u.old_levels
      /\ v.fn = u.fn /\ v.levels = u.levels /\ v.decls = u.decls
      /\ v.cur_stmts = u.cur_stmts /\ v.stmts = t
  BY DEF UnitOK, Fields
<1>4. u.cur_stmts \in Nat
  BY DEF UnitOK
<1> HIDE DEF v
<1>5. Quiet(u, v)
  BY <1>2, <1>3, <1>4, ListsKept, Elsewhere
<1> QED
  BY <1>1, <1>3, <1>5 DEF v

(* A list of statements more. *)
LEMMA AllocStmtList ==
    ASSUME NEW u, UnitOK(u)
    PROVE  /\ Quiet(u, alloc_stmt_list(u))
           /\ alloc_stmt_list(u).cur_stmts = u.cur_stmts
           /\ LastList(alloc_stmt_list(u)) = LastList(u) + 1
           /\ LastList(alloc_stmt_list(u)) \in Len(u.stmts) + 1 .. Len(alloc_stmt_list(u).stmts)
<1> DEFINE t == Append(u.stmts, <<>>)
<1>1. alloc_stmt_list(u) = [u EXCEPT !.stmts = t]
  BY DEF alloc_stmt_list
<1>2. IsList(t) /\ Len(t) = Len(u.stmts) + 1 /\ Len(u.stmts) \in Nat
  BY ListAppend DEF UnitOK, IsList
<1> HIDE DEF t
<1> DEFINE v == [u EXCEPT !.stmts = t]
<1>3. /\ DOMAIN v = Fields /\ v.cur_level = u.cur_level /\ v.old_levels = u.old_levels
      /\ v.fn = u.fn /\ v.levels = u.levels /\ v.decls = u.decls
      /\ v.cur_stmts = u.cur_stmts /\ v.stmts = t
  BY DEF UnitOK, Fields
<1>4. u.cur_stmts \in Nat
  BY DEF UnitOK
<1> HIDE DEF v
<1>5. Quiet(u, v)
  BY <1>2, <1>3, <1>4, Elsewhere DEF KeepsLists
<1> QED
  BY <1>1, <1>2, <1>3, <1>5 DEF LastList, v

(* Statements go to another list. *)
LEMMA SetCurStmts ==
    ASSUME NEW u, UnitOK(u), NEW c \in Nat
    PROVE  /\ Quiet(u, [u EXCEPT !.cur_stmts = c])
           /\ [u EXCEPT !.cur_stmts = c].cur_stmts = c
           /\ [u EXCEPT !.cur_stmts = c].stmts = u.stmts
<1> DEFINE v == [u EXCEPT !.cur_stmts = c]
<1>1. /\ DOMAIN v = Fields /\ v.cur_level = u.cur_level /\ v.old_levels = u.old_levels
      /\ v.fn = u.fn /\ v.levels = u.levels /\ v.decls = u.decls
      /\ v.cur_stmts = c /\ v.stmts = u.stmts /\ IsList(u.stmts)
  BY DEF UnitOK, Fields
<1> HIDE DEF v
<1>2. Quiet(u, v)
  BY <1>1, Elsewhere DEF KeepsLists, IsList
<1> QED
  BY <1>1, <1>2 DEF v

(* Labels are not looked at. *)
LEMMA AnyLabels ==
    ASSUME NEW u, UnitOK(u), NEW x
    PROVE  /\ Quiet(u, [u EXCEPT !.labels = x])
           /\ [u EXCEPT !.labels = x].cur_stmts = u.cur_stmts
<1> DEFINE v == [u EXCEPT !.labels = x]
<1>1. /\ DOMAIN v = Fields /\ v.cur_level = u.cur_level /\ v.old_levels = u.old_levels
      /\ v.fn = u.fn /\ v.levels = u.levels /\ v.decls = u.decls
      /\ v.cur_stmts = u.cur_stmts /\ v.stmts = u.stmts /\ IsList(u.stmts) /\ u.cur_stmts \in Nat
  BY DEF UnitOK, Fields
<1> HIDE DEF v
<1>2. Quiet(u, v)
  BY <1>1, Elsewhere DEF KeepsLists, IsList
<1> QED
  BY <1>1, <1>2 DEF v

(* The statements that are a node of their own. *)
LEMMA SimpleStatement ==
    ASSUME NEW u, UnitOK(u), NEW x, NEW y
    PROVE  /\ Quiet(u, new_assign_stmt(u, x, y)) /\ new_assign_stmt(u, x, y).cur_stmts = u.cur_stmts
           /\ Quiet(u, new_procedure_call(u, x, y)) /\ new_procedure_call(u, x, y).cur_stmts = u.cur_stmts
           /\ Quiet(u, new_return_stmt(u)) /\ new_return_stmt(u).cur_stmts = u.cur_stmts
           /\ Quiet(u, new_choice(u, x)) /\ new_choice(u, x).cur_stmts = u.cur_stmts
BY AppendStmt DEF new_assign_stmt, new_procedure_call, new_return_stmt, new_choice

(* Jumps and labels. *)
LEMMA JumpStatement ==
    ASSUME NEW u, UnitOK(u), NEW l
    PROVE  Quiet(u, Goto(u, l)) /\ Goto(u, l).cur_stmts = u.cur_stmts
<1> DEFINE x == [u.labels EXCEPT ![l].used = TRUE]
           v == [u EXCEPT !.labels = x]
           w == append_stmt(v, [k |-> "goto", label |-> l])
<1>1. Goto(u, l) = w
  BY DEF Goto
<1> HIDE DEF x
<1>2. Quiet(u, v) /\ v.cur_stmts = u.cur_stmts
  BY AnyLabels
<1>3. Quiet(v, w) /\ w.cur_stmts = v.cur_stmts
  <2> HIDE DEF v
  <2> QED
    BY <1>2, AppendStmt DEF Quiet
<1> HIDE DEF v, w
<1> QED
  BY <1>1, <1>2, <1>3, QuietTwice

LEMMA LabelBuilt ==
    ASSUME NEW u, UnitOK(u), NEW x
    PROVE  Quiet(u, build_label(u, x)) /\ build_label(u, x).cur_stmts = u.cur_stmts
<1> DEFINE y == Append(u.labels, [context |-> u.fn, used |-> FALSE, iterates |-> x])
<1>1. build_label(u, x) = [u EXCEPT !.labels = y]
  BY DEF build_label
<1> HIDE DEF y
<1> QED
  BY <1>1, AnyLabels

(* new_exit_stmt and new_next_stmt. *)
LEMMA LoopJumpStatement ==
    ASSUME NEW u, UnitOK(u), NEW label
    PROVE  /\ Quiet(u, new_exit_stmt(u, label)) /\ new_exit_stmt(u, label).cur_stmts = u.cur_stmts
           /\ Quiet(u, new_next_stmt(u, label)) /\ new_next_stmt(u, label).cur_stmts = u.cur_stmts
BY JumpStatement DEF new_exit_stmt, new_next_stmt

(* A conditional statement: its branches are filled, then the list that holds  *)
(* it is the current one again.                                                *)
LEMMA IfStatement ==
    ASSUME NEW u, UnitOK(u)
    PROVE  /\ Quiet(u, start_if_stmt(u).o)
           /\ OpensList(u, start_if_stmt(u).o)
           /\ start_if_stmt(u).block.prev_stmts = u.cur_stmts
<1> DEFINE a == alloc_stmt_list(u)
           n == LastList(u) + 1
           s == append_stmt(a, [k |-> "if", then |-> n, else |-> NULL])
           v == [s EXCEPT !.cur_stmts = n]
<1>1. /\ start_if_stmt(u).o = v
      /\ start_if_stmt(u).block.prev_stmts = u.cur_stmts
  BY DEF start_if_stmt
<1>2. Quiet(u, a) /\ n \in Len(u.stmts) + 1 .. Len(a.stmts)
  BY AllocStmtList
<1> HIDE DEF a, n
<1>3. Quiet(a, s)
  BY <1>2, AppendStmt DEF Quiet
<1> HIDE DEF s
<1>n. n \in Nat
  BY <1>2 DEF UnitOK, IsList
<1>4. Quiet(s, v) /\ v.cur_stmts = n
  BY <1>n, <1>3, SetCurStmts DEF Quiet
<1>5. UnitOK(a) /\ UnitOK(s)
  BY <1>2, <1>3 DEF Quiet
<1> HIDE DEF v
<1>6. Quiet(u, s)
  BY <1>2, <1>3, <1>5, QuietTwice
<1>7. OpensList(u, v)
  BY <1>2, <1>3, <1>4, <1>5 DEF OpensList, Quiet, KeepsLists, UnitOK, IsList
<1> QED
  BY <1>1, <1>2, <1>4, <1>5, <1>6, <1>7, QuietTwice

(* The other branch, and the end. *)
LEMMA ElseStatement ==
    ASSUME NEW u, UnitOK(u), NEW block
    PROVE  /\ Quiet(u, new_else_stmt(u, block))
           /\ OpensList(u, new_else_stmt(u, block))
<1> DEFINE a == alloc_stmt_list(u)
           n == LastList(a)
           b == [a EXCEPT !.cur_stmts = n]
           x == [b.stmts[block.prev_stmts] EXCEPT ![block.if_stmt].else = n]
           t == [b.stmts EXCEPT ![block.prev_stmts] = x]
           v == [b EXCEPT !.stmts = t]
<1>1. Quiet(u, a) /\ n \in Len(u.stmts) + 1 .. Len(a.stmts)
  BY AllocStmtList
<1>2. new_else_stmt(u, block) = v
  BY DEF new_else_stmt
<1> HIDE DEF a, n
<1>n. n \in Nat
  BY <1>1 DEF UnitOK, IsList
<1>3. Quiet(a, b) /\ b.cur_stmts = n
  BY <1>1, <1>n, SetCurStmts DEF Quiet
<1>4. UnitOK(a) /\ UnitOK(b)
  BY <1>1, <1>3 DEF Quiet
<1> HIDE DEF b, x
<1>5. IsList(t) /\ Len(t) = Len(b.stmts)
  BY <1>4, ListExcept DEF UnitOK
<1> HIDE DEF t
<1>6. /\ DOMAIN v = Fields /\ v.cur_level = b.cur_level /\ v.old_levels = b.old_levels
      /\ v.fn = b.fn /\ v.levels = b.levels /\ v.decls = b.decls
      /\ v.cur_stmts = b.cur_stmts /\ v.stmts = t
  BY <1>4 DEF UnitOK, Fields
<1> HIDE DEF v
<1>7. Quiet(b, v)
  BY <1>n, <1>3, <1>4, <1>5, <1>6, ListsKept, Elsewhere
<1>8. Quiet(u, b)
  BY <1>1, <1>3, <1>4, QuietTwice
<1>9. OpensList(u, v)
  BY <1>1, <1>3, <1>4, <1>6, <1>7 DEF OpensList, Quiet, KeepsLists, UnitOK, IsList
<1> QED
  BY <1>1, <1>2, <1>7, <1>8, <1>9, QuietTwice

LEMMA IfFinished ==
    ASSUME NEW u, UnitOK(u), NEW block, block.prev_stmts \in Nat
    PROVE  /\ Quiet(u, finish_if_stmt(u, block))
           /\ finish_if_stmt(u, block).cur_stmts = block.prev_stmts
BY SetCurStmts DEF finish_if_stmt

(* A loop is two labels and the jumps to them. *)
LEMMA LoopStatement ==
    ASSUME NEW u, UnitOK(u)
    PROVE  Quiet(u, start_loop_stmt(u).o) /\ start_loop_stmt(u).o.cur_stmts = u.cur_stmts
<1> DEFINE a == build_label(u, TRUE)
           b == append_stmt(a, [k |-> "label", label |-> Len(u.labels) + 1])
           c == build_label(b, FALSE)
<1>1. start_loop_stmt(u).o = c
  BY DEF start_loop_stmt
<1>2. Quiet(u, a) /\ a.cur_stmts = u.cur_stmts
  BY LabelBuilt
<1> HIDE DEF a
<1>3. Quiet(a, b) /\ b.cur_stmts = a.cur_stmts
  BY <1>2, AppendStmt DEF Quiet
<1> HIDE DEF b
<1>4. Quiet(b, c) /\ c.cur_stmts = b.cur_stmts
  BY <1>3, LabelBuilt DEF Quiet
<1> HIDE DEF c
<1>5. Quiet(u, b)
  BY <1>2, <1>3, QuietTwice
<1> QED
  BY <1>1, <1>2, <1>3, <1>4, <1>5, QuietTwice

LEMMA LoopFinished ==
    ASSUME NEW u, UnitOK(u), NEW label
    PROVE  /\ Quiet(u, finish_loop_stmt(u, label))
           /\ finish_loop_stmt(u, label).cur_stmts = u.cur_stmts
<1> DEFINE a == Goto(u, label.beg_label)
           b == append_stmt(a, [k |-> "label", label |-> label.end_label])
<1>1. finish_loop_stmt(u, label) \in {a, b}
  BY DEF finish_loop_stmt
<1>2. Quiet(u, a) /\ a.cur_stmts = u.cur_stmts
  BY JumpStatement
<1> HIDE DEF a
<1>3. Quiet(a, b) /\ b.cur_stmts = a.cur_stmts
  BY <1>2, AppendStmt DEF Quiet
<1> HIDE DEF b
<1>4. Quiet(u, b)
  BY <1>2, <1>3, QuietTwice
<1> QED
  BY <1>1, <1>2, <1>3, <1>4

(* A case statement, whose list is not the one around it. *)
LEMMA CaseStatement ==
    ASSUME NEW u, UnitOK(u)
    PROVE  /\ Quiet(u, start_case_stmt(u).o)
           /\ OpensList(u, start_case_stmt(u).o)
           /\ start_case_stmt(u).block = [prev_stmts |-> u.cur_stmts, end_label |-> Len(u.labels) + 1,
                                          add_break |-> FALSE]
<1> DEFINE l == build_label(u, FALSE)
           a == alloc_stmt_list(l)
           n == LastList(a)
           s == append_stmt(a, [k |-> "switch", body |-> n])
           v == [s EXCEPT !.cur_stmts = n]
<1>1. /\ start_case_stmt(u).o = v
      /\ start_case_stmt(u).block = [prev_stmts |-> u.cur_stmts, end_label |-> Len(u.labels) + 1,
                                     add_break |-> FALSE]
  BY DEF start_case_stmt
<1>2. Quiet(u, l)
  BY LabelBuilt
<1> HIDE DEF l
<1>3. Quiet(l, a) /\ n \in Len(l.stmts) + 1 .. Len(a.stmts)
  BY <1>2, AllocStmtList DEF Quiet
<1> HIDE DEF a, n
<1>n. n \in Nat
  BY <1>2, <1>3 DEF Quiet, UnitOK, IsList
<1>4. Quiet(a, s)
  BY <1>3, AppendStmt DEF Quiet
<1> HIDE DEF s
<1>5. Quiet(s, v) /\ v.cur_stmts = n
  BY <1>n, <1>4, SetCurStmts DEF Quiet
<1> HIDE DEF v
<1>6. Quiet(u, a)
  BY <1>2, <1>3, QuietTwice
<1>7. Quiet(u, s)
  BY <1>4, <1>6, QuietTwice
<1>8. Quiet(u, v)
  BY <1>5, <1>7, QuietTwice
<1>9. OpensList(u, v)
  <2>1. Len(u.stmts) <= Len(l.stmts) /\ Len(a.stmts) <= Len(v.stmts)
    BY <1>2, <1>3, <1>4, <1>5, QuietTwice DEF Quiet, KeepsLists
  <2>2. Len(u.stmts) \in Nat /\ Len(l.stmts) \in Nat /\ Len(a.stmts) \in Nat /\ Len(v.stmts) \in Nat
    BY <1>2, <1>3, <1>8 DEF Quiet, UnitOK, IsList
  <2> QED
    BY <1>3, <1>5, <2>1, <2>2 DEF OpensList
<1> QED
  BY <1>1, <1>8, <1>9

LEMMA CaseFinished ==
    ASSUME NEW u, UnitOK(u), NEW block, block.prev_stmts \in Nat
    PROVE  /\ Quiet(u, finish_case_stmt(u, block))
           /\ finish_case_stmt(u, block).cur_stmts = block.prev_stmts
<1> DEFINE a == [u EXCEPT !.cur_stmts = block.prev_stmts]
           b == append_stmt(a, [k |-> "label", label |-> block.end_label])
<1>1. finish_case_stmt(u, block) = b
  BY DEF finish_case_stmt
<1>2. Quiet(u, a) /\ a.cur_stmts = block.prev_stmts
  BY SetCurStmts
<1> HIDE DEF a
<1>3. Quiet(a, b) /\ b.cur_stmts = a.cur_stmts
  BY <1>2, AppendStmt DEF Quiet
<1> HIDE DEF b
<1> QED
  BY <1>1, <1>2, <1>3, QuietTwice

(* The block of a case statement. *)
IsCaseBlock(block) ==
    /\ DOMAIN block = {"prev_stmts", "end_label", "add_break"}
    /\ block.prev_stmts \in Nat

LEMMA ChoiceStarted ==
    ASSUME NEW u, UnitOK(u), NEW block, IsCaseBlock(block)
    PROVE  /\ Quiet(u, start_choice(u, block).o)
           /\ start_choice(u, block).o.cur_stmts = u.cur_stmts
           /\ IsCaseBlock(finish_choice(start_choice(u, block).block))
           /\ finish_choice(start_choice(u, block).block).prev_stmts = block.prev_stmts
<1> DEFINE a == append_stmt(u, [k |-> "goto", label |-> block.end_label])
           b == [block EXCEPT !.add_break = FALSE]
<1>1. /\ start_choice(u, block).o \in {a, u}
      /\ start_choice(u, block).block \in {b, block}
  BY DEF start_choice
<1>2. Quiet(u, a) /\ a.cur_stmts = u.cur_stmts
  BY AppendStmt
<1>3. Quiet(u, u)
  BY ListsKept, Elsewhere DEF UnitOK
<1>4. IsCaseBlock(b) /\ b.prev_stmts = block.prev_stmts
  BY DEF IsCaseBlock
<1> HIDE DEF a, b
<1>5. ASSUME NEW x, IsCaseBlock(x)
      PROVE  IsCaseBlock(finish_choice(x)) /\ finish_choice(x).prev_stmts = x.prev_stmts
  BY <1>5 DEF IsCaseBlock, finish_choice
<1> QED
  BY <1>1, <1>2, <1>3, <1>4, <1>5

(* The stack pointer will be saved: the levels stay where they are. *)
LEMMA Alloca ==
    ASSUME NEW u, UnitOK(u)
    PROVE  Quiet(u, new_alloca(u)) /\ new_alloca(u).cur_stmts = u.cur_stmts
<1> DEFINE c == u.cur_level
           y == [u.levels[c] EXCEPT !.save_stack = TRUE]
           t == [u.levels EXCEPT ![c] = y]
           v == [u EXCEPT !.levels = t]
<1>1. new_alloca(u) \in {u, v}
  BY DEF new_alloca
<1>2. IsList(t) /\ Len(t) = Len(u.levels) /\ \A j \in 1 .. Len(u.levels) : t[j] = IF j = c THEN y ELSE u.levels[j]
  <2>1. IsList(u.levels) /\ t = [u.levels EXCEPT ![c] = y]
    BY DEF UnitOK
  <2> HIDE DEF y, c, t
  <2>2. ReplacedAt(u.levels, t, c, y)
    BY <2>1, Replaced
  <2> QED
    BY <2>2 DEF ReplacedAt
<1>3. c \in 1 .. Len(u.levels) => /\ DOMAIN y = LevelFields /\ SameLevel(u.levels[c], y)
  BY DEF UnitOK, LevelFields, SameLevel
<1> HIDE DEF t, y
<1>4. /\ DOMAIN v = Fields /\ v.cur_level = u.cur_level /\ v.old_levels = u.old_levels
      /\ v.fn = u.fn /\ v.levels = t /\ v.decls = u.decls
      /\ v.cur_stmts = u.cur_stmts /\ v.stmts = u.stmts
  BY DEF UnitOK, Fields
<1> HIDE DEF v
<1>5. \A j \in 1 .. Len(t) : DOMAIN t[j] = LevelFields /\ SameLevel(u.levels[j], t[j])
  BY <1>2, <1>3 DEF UnitOK, SameLevel
<1>6. UnitOK(v)
  BY <1>2, <1>4, <1>5 DEF UnitOK
<1>7. SameLevels(u, v)
  BY <1>2, <1>4, <1>5 DEF SameLevels
<1>8. KeepsDecls(u, v)
  BY <1>4 DEF KeepsDecls, SameDecl, UnitOK, IsList
<1>9. Quiet(u, u)
  BY ListsKept, Elsewhere DEF UnitOK
<1> QED
  BY <1>1, <1>4, <1>6, <1>7, <1>8, <1>9, ListsKept DEF Quiet

(* The choices of a branch, one after the other. *)
LEMMA BranchBuilt ==
    ASSUME NEW u, UnitOK(u), NEW block, IsCaseBlock(block), NEW choices, Len(choices) \in Nat
    PROVE  /\ Quiet(u, Branch(u, block, choices).o)
           /\ Branch(u, block, choices).o.cur_stmts = u.cur_stmts
           /\ IsCaseBlock(Branch(u, block, choices).block)
           /\ Branch(u, block, choices).block.prev_stmts = block.prev_stmts
<1> DEFINE s == start_choice(u, block)
           n == Len(choices)
           Step(f, k) == [i \in 0 .. k |-> IF i = 0 THEN s.o ELSE new_choice(f[i - 1], choices[i])]
           r == CHOOSE f : f = Step(f, n)
<1>1. Branch(u, block, choices).o = r[n] /\ Branch(u, block, choices).block = finish_choice(s.block)
  BY DEF Branch
<1>2. /\ Quiet(u, s.o) /\ s.o.cur_stmts = u.cur_stmts /\ IsCaseBlock(finish_choice(s.block))
      /\ finish_choice(s.block).prev_stmts = block.prev_stmts
  BY ChoiceStarted
<1> HIDE DEF s
<1>3. \A k \in 0 .. n : \E f : f = Step(f, k)
  <2> DEFINE bad == {k \in 0 .. n : ~\E f : f = Step(f, k)}
  <2> SUFFICES ASSUME bad # {} PROVE FALSE
    OBVIOUS
  <2> DEFINE m == Min(bad)
  <2>1. m \in bad /\ \A k \in bad : m <= k
    <3>1. bad \in SUBSET Nat
      OBVIOUS
    <3> HIDE DEF bad
    <3> QED
      BY <3>1, LeastElement
  <2> HIDE DEF m
  <2>2. m \in 0 .. n /\ ~\E f : f = Step(f, m)
    BY <2>1
  <2>3. CASE m = 0
    <3> DEFINE g == [i \in 0 .. 0 |-> s.o]
    <3>1. g = Step(g, 0)
      OBVIOUS
    <3> QED
      BY <2>2, <2>3, <3>1
  <2>4. CASE m # 0
    <3>1. m - 1 \in 0 .. n /\ ~(m <= m - 1)
      BY <2>2, <2>4
    <3>2. m - 1 \notin bad
      BY <2>1, <3>1
    <3>3. PICK f : f = Step(f, m - 1)
      BY <3>1, <3>2
    <3> DEFINE g == [i \in 0 .. m |-> IF i = m THEN new_choice(f[m - 1], choices[m]) ELSE f[i]]
    <3>4. g = Step(g, m)
      <4> SUFFICES ASSUME NEW i \in 0 .. m
                   PROVE  g[i] = IF i = 0 THEN s.o ELSE new_choice(g[i - 1], choices[i])
        OBVIOUS
      <4>1. CASE i = m
        <5>1. g[m - 1] = f[m - 1]
          BY <2>2, <2>4
        <5> QED
          BY <2>2, <2>4, <4>1, <5>1
      <4>2. CASE i # m
        <5>1. i \in 0 .. m - 1
          BY <2>2, <4>2
        <5>2. f[i] = IF i = 0 THEN s.o ELSE new_choice(f[i - 1], choices[i])
          BY <3>3, <5>1
        <5>3. i # 0 => i - 1 \in 0 .. m /\ i - 1 # m
          BY <2>2, <5>1
        <5> QED
          BY <4>2, <5>2, <5>3
      <4> QED
        BY <4>1, <4>2
    <3> HIDE DEF Step, g
    <3> QED
      BY <2>2, <3>4
  <2> QED
    BY <2>3, <2>4
<1>4. r = Step(r, n)
  <2>1. \E f : f = Step(f, n)
    BY <1>3
  <2> HIDE DEF Step
  <2> QED
    BY <2>1
<1> HIDE DEF r
<1>5. r[0] = s.o /\ \A i \in 1 .. n : r[i] = new_choice(r[i - 1], choices[i])
  BY <1>4
<1>6. \A i \in 0 .. n : Quiet(u, r[i]) /\ r[i].cur_stmts = u.cur_stmts
  <2> DEFINE bad == {i \in 0 .. n : ~(Quiet(u, r[i]) /\ r[i].cur_stmts = u.cur_stmts)}
  <2> SUFFICES ASSUME bad # {} PROVE FALSE
    OBVIOUS
  <2> DEFINE m == Min(bad)
  <2>1. m \in bad /\ \A k \in bad : m <= k
    <3>1. bad \in SUBSET Nat
      OBVIOUS
    <3> HIDE DEF bad
    <3> QED
      BY <3>1, LeastElement
  <2> HIDE DEF m
  <2>2. m \in 0 .. n /\ ~(Quiet(u, r[m]) /\ r[m].cur_stmts = u.cur_stmts)
    BY <2>1
  <2>3. m # 0
    BY <1>2, <1>5, <2>2
  <2>4. m - 1 \in 0 .. n /\ ~(m <= m - 1) /\ m \in 1 .. n
    BY <2>2, <2>3
  <2>5. Quiet(u, r[m - 1]) /\ r[m - 1].cur_stmts = u.cur_stmts
    BY <2>1, <2>4
  <2>6. r[m] = new_choice(r[m - 1], choices[m])
    BY <1>5, <2>4
  <2>7. Quiet(r[m - 1], r[m]) /\ r[m].cur_stmts = r[m - 1].cur_stmts
    <3>1. UnitOK(r[m - 1])
      BY <2>5 DEF Quiet
    <3> QED
      BY <2>6, <3>1, SimpleStatement
  <2> QED
    BY <2>2, <2>5, <2>7, QuietTwice
<1> QED
  BY <1>1, <1>2, <1>6

(*----------------------------- declarations ---------------------------------*)

(* From u to v only declarations change. *)
OnlyDecls(u, v) ==
    UnitOK(v) /\ v.fn = u.fn /\ SameLevels(u, v) /\ v.cur_stmts = u.cur_stmts /\ v.stmts = u.stmts

(* A level gets its first or its last declaration. *)
LEMMA LevelTouched ==
    ASSUME NEW u, UnitOK(u), NEW l, NEW y, NEW v,
           l \in 1 .. Len(u.levels) => DOMAIN y = LevelFields /\ SameLevel(u.levels[l], y),
           v = [u EXCEPT !.levels = [u.levels EXCEPT ![l] = y]]
    PROVE  OnlyDecls(u, v) /\ v.decls = u.decls
<1>1. PICK t : t = [u.levels EXCEPT ![l] = y]
  OBVIOUS
<1>2. IsList(u.levels)
  BY DEF UnitOK
<1>3. ReplacedAt(u.levels, t, l, y)
  BY ONLY <1>1, <1>2, Replaced
<1>4. v = [u EXCEPT !.levels = t]
  BY <1>1
<1>5. /\ DOMAIN v = Fields /\ v.cur_level = u.cur_level /\ v.old_levels = u.old_levels
      /\ v.fn = u.fn /\ v.levels = t /\ v.decls = u.decls
      /\ v.cur_stmts = u.cur_stmts /\ v.stmts = u.stmts
  BY ONLY <1>4, UnitOK(u) DEF UnitOK, Fields
<1>6. \A j \in 1 .. Len(t) : DOMAIN t[j] = LevelFields /\ SameLevel(u.levels[j], t[j])
  BY <1>3 DEF ReplacedAt, UnitOK, SameLevel
<1>7. IsList(t) /\ Len(t) = Len(u.levels)
  BY <1>3 DEF ReplacedAt
<1>8. UnitOK(v)
  BY ONLY <1>5, <1>6, <1>7, UnitOK(u) DEF UnitOK
<1>9. SameLevels(u, v)
  BY ONLY <1>5, <1>6, <1>7 DEF SameLevels
<1> QED
  BY <1>5, <1>8, <1>9 DEF OnlyDecls

(* A declaration is changed. *)
LEMMA DeclTouched ==
    ASSUME NEW u, UnitOK(u), NEW d, NEW y, NEW v,
           d \in 1 .. Len(u.decls) => DOMAIN y = DeclFields,
           v = [u EXCEPT !.decls = [u.decls EXCEPT ![d] = y]]
    PROVE  OnlyDecls(u, v) /\ v.levels = u.levels /\ ReplacedAt(u.decls, v.decls, d, y)
<1>1. PICK t : t = [u.decls EXCEPT ![d] = y]
  OBVIOUS
<1>2. IsList(u.decls)
  BY DEF UnitOK
<1>3. ReplacedAt(u.decls, t, d, y)
  BY ONLY <1>1, <1>2, Replaced
<1>4. v = [u EXCEPT !.decls = t]
  BY <1>1
<1>5. /\ DOMAIN v = Fields /\ v.cur_level = u.cur_level /\ v.old_levels = u.old_levels
      /\ v.fn = u.fn /\ v.levels = u.levels /\ v.decls = t
      /\ v.cur_stmts = u.cur_stmts /\ v.stmts = u.stmts
  BY ONLY <1>4, UnitOK(u) DEF UnitOK, Fields
<1>6. \A j \in 1 .. Len(t) : DOMAIN t[j] = DeclFields
  BY <1>3 DEF ReplacedAt, UnitOK
<1>7. UnitOK(v)
  BY ONLY <1>3, <1>5, <1>6, UnitOK(u) DEF UnitOK, ReplacedAt
<1>8. SameLevels(u, v)
  BY ONLY <1>5 DEF SameLevels, SameLevel
<1> QED
  BY <1>3, <1>5, <1>7, <1>8 DEF OnlyDecls

(* A declaration is made. *)
LEMMA DeclMade ==
    ASSUME NEW u, UnitOK(u), NEW x, DOMAIN x = DeclFields, NEW v, v = NewDecl(u, x)
    PROVE  OnlyDecls(u, v) /\ v.levels = u.levels /\ Lengthened(u.decls, v.decls, x)
<1>1. PICK t : t = Append(u.decls, x)
  OBVIOUS
<1>2. IsList(u.decls)
  BY DEF UnitOK
<1>3. Lengthened(u.decls, t, x)
  BY ONLY <1>1, <1>2, Longer
<1>4. v = [u EXCEPT !.decls = t]
  BY <1>1 DEF NewDecl
<1>5. /\ DOMAIN v = Fields /\ v.cur_level = u.cur_level /\ v.old_levels = u.old_levels
      /\ v.fn = u.fn /\ v.levels = u.levels /\ v.decls = t
      /\ v.cur_stmts = u.cur_stmts /\ v.stmts = u.stmts
  BY ONLY <1>4, UnitOK(u) DEF UnitOK, Fields
<1>6. \A j \in 1 .. Len(t) : DOMAIN t[j] = DeclFields
  <2> SUFFICES ASSUME NEW j \in 1 .. Len(t) PROVE DOMAIN t[j] = DeclFields
    OBVIOUS
  <2>1. j = Len(u.decls) + 1 \/ j \in 1 .. Len(u.decls)
    BY <1>2, <1>3 DEF Lengthened, IsList
  <2> QED
    BY <1>3, <2>1 DEF Lengthened, UnitOK
<1>7. UnitOK(v)
  BY ONLY <1>3, <1>5, <1>6, UnitOK(u) DEF UnitOK, Lengthened
<1>8. SameLevels(u, v)
  BY ONLY <1>5 DEF SameLevels, SameLevel
<1> QED
  BY <1>3, <1>5, <1>7, <1>8 DEF OnlyDecls

(* y is the declaration x made in the context c. *)
IsDeclared(y, x, c) ==
    /\ y.context = c /\ y.compiled = x.compiled /\ y.external = x.external
    /\ y.public = x.public /\ y.static = x.static /\ y.finalized = x.finalized

(* v is u with the declaration x, in the context of the current function. *)
Declared(u, v, x) ==
    /\ Quiet(u, v) /\ v.cur_stmts = u.cur_stmts
    /\ Len(v.decls) = Len(u.decls) + 1
    /\ IsDeclared(v.decls[Len(u.decls) + 1], x, u.fn)

LEMMA DeclPushed ==
    ASSUME NEW u, UnitOK(u), NEW x, DOMAIN x = DeclFields, NEW v,
           v = pushdecl(NewDecl(u, x), Len(u.decls) + 1)
    PROVE  Declared(u, v, x)
<1> DEFINE d == Len(u.decls) + 1
<1>1. PICK a : a = NewDecl(u, x)
  OBVIOUS
<1>2. OnlyDecls(u, a) /\ Lengthened(u.decls, a.decls, x)
  BY ONLY <1>1, UnitOK(u), DOMAIN x = DeclFields, DeclMade
<1> DEFINE l == a.cur_level
           p == a.levels[l].last_decl
           b == IF a.levels[l].first_decl = NULL THEN [a EXCEPT !.levels[l].first_decl = d]
                                                 ELSE [a EXCEPT !.decls[p].chain = d]
<1>3. v = [b EXCEPT !.decls[d].context = a.fn, !.levels[l].last_decl = d]
  <2>1. v = pushdecl(a, d)
    BY <1>1
  <2> HIDE DEF d
  <2> QED
    BY ONLY <2>1 DEF pushdecl
<1>4. UnitOK(a)
  BY <1>2 DEF OnlyDecls
<1>5. OnlyDecls(a, b) /\ Len(b.decls) = Len(a.decls) /\ \A j \in 1 .. Len(a.decls) : SameDecl(a.decls[j], b.decls[j])
  <2> HIDE DEF d, l, p
  <2>1. CASE a.levels[l].first_decl = NULL
    <3> DEFINE y == [a.levels[l] EXCEPT !.first_decl = d]
    <3>1. l \in 1 .. Len(a.levels) => DOMAIN y = LevelFields /\ SameLevel(a.levels[l], y)
      BY <1>4 DEF UnitOK, LevelFields, SameLevel
    <3>2. b = [a EXCEPT !.levels = [a.levels EXCEPT ![l] = y]]
      BY <2>1
    <3> HIDE DEF y, b
    <3>3. OnlyDecls(a, b) /\ b.decls = a.decls
      BY ONLY <1>4, <3>1, <3>2, LevelTouched
    <3> QED
      BY ONLY <3>3 DEF SameDecl
  <2>2. CASE a.levels[l].first_decl # NULL
    <3> DEFINE y == [a.decls[p] EXCEPT !.chain = d]
    <3>1. p \in 1 .. Len(a.decls) => DOMAIN y = DeclFields /\ SameDecl(a.decls[p], y)
      <4>1. p \in 1 .. Len(a.decls) => DOMAIN a.decls[p] = DeclFields
        BY <1>4 DEF UnitOK
      <4> QED
        BY <4>1 DEF SameDecl, DeclFields
    <3>2. b = [a EXCEPT !.decls = [a.decls EXCEPT ![p] = y]]
      BY <2>2
    <3> HIDE DEF y, b
    <3>3. OnlyDecls(a, b) /\ ReplacedAt(a.decls, b.decls, p, y)
      BY ONLY <1>4, <3>1, <3>2, DeclTouched
    <3> QED
      BY ONLY <3>1, <3>3 DEF ReplacedAt, SameDecl
  <2> QED
    BY <2>1, <2>2
<1> HIDE DEF b
<1>6. UnitOK(b) /\ a.fn = u.fn
  BY <1>2, <1>5 DEF OnlyDecls
<1> DEFINE y == [b.decls[d] EXCEPT !.context = u.fn]
           c == [b EXCEPT !.decls = [b.decls EXCEPT ![d] = y]]
           w == [c.levels[l] EXCEPT !.last_decl = d]
<1>7. v = [c EXCEPT !.levels = [c.levels EXCEPT ![l] = w]]
  BY <1>3, <1>6 DEF UnitOK, Fields
<1>8. Len(b.decls) = d /\ d \in 1 .. Len(b.decls) /\ Len(u.decls) \in Nat
  BY <1>2, <1>5, UnitOK(u) DEF Lengthened, UnitOK, IsList
<1>9. DOMAIN y = DeclFields /\ y.context = u.fn /\ y.compiled = b.decls[d].compiled /\ y.external = b.decls[d].external
      /\ y.public = b.decls[d].public /\ y.static = b.decls[d].static /\ y.finalized = b.decls[d].finalized
  BY <1>6, <1>8 DEF UnitOK, DeclFields
<1>10. OnlyDecls(b, c) /\ ReplacedAt(b.decls, c.decls, d, y)
  <2> HIDE DEF y, c, d
  <2>1. c = [b EXCEPT !.decls = [b.decls EXCEPT ![d] = y]]
    BY DEF c
  <2> QED
    BY ONLY <1>6, <1>9, <2>1, DeclTouched
<1> HIDE DEF c
<1>11. UnitOK(c)
  BY <1>10 DEF OnlyDecls
<1>12. OnlyDecls(c, v) /\ v.decls = c.decls
  <2>1. l \in 1 .. Len(c.levels) => DOMAIN w = LevelFields /\ SameLevel(c.levels[l], w)
    BY <1>11 DEF UnitOK, LevelFields, SameLevel
  <2> HIDE DEF w, l
  <2> QED
    BY ONLY <1>7, <1>11, <2>1, LevelTouched
<1>13. /\ UnitOK(v) /\ v.fn = u.fn /\ v.cur_stmts = u.cur_stmts /\ SameLevels(u, v)
  BY ONLY <1>2, <1>5, <1>10, <1>12 DEF OnlyDecls, SameLevels, SameLevel
<1>14. Len(v.decls) = Len(u.decls) + 1
  BY <1>8, <1>10, <1>12 DEF ReplacedAt
<1>15. KeepsDecls(u, v)
  <2> SUFFICES ASSUME NEW j \in 1 .. Len(u.decls) PROVE SameDecl(u.decls[j], v.decls[j])
    BY <1>8, <1>14 DEF KeepsDecls
  <2>1. j # d /\ j \in 1 .. Len(a.decls) /\ j \in 1 .. Len(b.decls)
    BY <1>2, <1>8 DEF Lengthened
  <2>2. a.decls[j] = u.decls[j] /\ SameDecl(a.decls[j], b.decls[j])
    BY <1>2, <1>5, <2>1 DEF Lengthened
  <2>3. v.decls[j] = b.decls[j]
    BY <1>10, <1>12, <2>1 DEF ReplacedAt
  <2> QED
    BY <2>2, <2>3
<1>16. IsDeclared(v.decls[d], x, u.fn)
  <2>1. v.decls[d] = y
    BY <1>8, <1>10, <1>12 DEF ReplacedAt
  <2>2. a.decls[d] = x /\ d \in 1 .. Len(a.decls) /\ SameDecl(a.decls[d], b.decls[d])
    BY <1>2, <1>5, <1>8 DEF Lengthened
  <2> HIDE DEF y, d
  <2> QED
    BY ONLY <1>9, <2>1, <2>2 DEF IsDeclared, SameDecl
<1>17. KeepsLists(u, v)
  <2>1. v.stmts = u.stmts
    BY <1>2, <1>5, <1>10, <1>12 DEF OnlyDecls
  <2> QED
    BY <2>1, ListsKept
<1> QED
  BY <1>13, <1>14, <1>15, <1>16, <1>17 DEF Declared, Quiet

(* x is the symbol that the record r of the client asks for. *)
DeclExact(x, r) ==
    /\ x.context = r.home
    /\ x.compiled = (r.storage # "local" /\ (r.k = "const" => r.storage = "external" \/ r.value))
    /\ r.storage # "local" => /\ x.external = (r.storage = "external" /\ ~r.begun)
                              /\ x.public = (r.storage \in {"external", "public"})
    /\ r.storage \in {"public", "private"} => x.static

(* From u to v the declaration that r asks for is added. *)
Adds(u, v, r) ==
    /\ Quiet(u, v) /\ v.cur_stmts = u.cur_stmts
    /\ Len(v.decls) = Len(u.decls) + 1
    /\ DeclExact(v.decls[Len(u.decls) + 1], r)

(* v is u with the declaration d handed to GCC. *)
CompiledNow(u, v, d) ==
    /\ OnlyDecls(u, v) /\ Len(v.decls) = Len(u.decls)
    /\ \A j \in 1 .. Len(u.decls) : j # d => v.decls[j] = u.decls[j]
    /\ LET x == u.decls[d]
           y == v.decls[d]
       IN  /\ y.compiled = TRUE /\ y.context = x.context /\ y.external = x.external
           /\ y.public = x.public /\ y.static = x.static /\ y.finalized = x.finalized

LEMMA Compiled ==
    ASSUME NEW u, UnitOK(u), NEW d \in 1 .. Len(u.decls), NEW v, v = rest_of_decl_compilation(u, d)
    PROVE  CompiledNow(u, v, d)
<1> DEFINE y == [u.decls[d] EXCEPT !.compiled = TRUE]
<1>1. v = [u EXCEPT !.decls = [u.decls EXCEPT ![d] = y]]
  BY DEF rest_of_decl_compilation
<1>2. /\ DOMAIN y = DeclFields /\ y.compiled = TRUE
      /\ y.context = u.decls[d].context /\ y.external = u.decls[d].external
      /\ y.public = u.decls[d].public /\ y.static = u.decls[d].static /\ y.finalized = u.decls[d].finalized
  BY DEF UnitOK, DeclFields
<1> HIDE DEF y
<1>3. OnlyDecls(u, v) /\ ReplacedAt(u.decls, v.decls, d, y)
  BY ONLY UnitOK(u), <1>1, <1>2, DeclTouched
<1> QED
  BY ONLY <1>2, <1>3, d \in 1 .. Len(u.decls) DEF ReplacedAt, CompiledNow

(* A type. *)
LEMMA TypeDeclared ==
    ASSUME NEW u, UnitOK(u), NEW r, r.home = u.fn, r.storage = "local", NEW v, v = new_type_decl(u)
    PROVE  Adds(u, v, r)
<1> DEFINE x == Decl("type", "local", NULL)
<1>1. v = pushdecl(NewDecl(u, x), Len(u.decls) + 1)
  BY DEF new_type_decl
<1>2. DOMAIN x = DeclFields /\ x.compiled = FALSE
  BY DEF Decl, DeclFields
<1> HIDE DEF x
<1>3. Declared(u, v, x)
  BY ONLY UnitOK(u), <1>1, <1>2, DeclPushed
<1> QED
  BY <1>2, <1>3 DEF Declared, IsDeclared, Adds, DeclExact

(* v is u with the declaration x, which was handed to GCC as soon as it was made. *)
Completed(u, v, x) ==
    /\ Quiet(u, v) /\ v.cur_stmts = u.cur_stmts
    /\ Len(v.decls) = Len(u.decls) + 1
    /\ LET y == v.decls[Len(u.decls) + 1]
       IN  /\ y.compiled = TRUE /\ y.context = u.fn /\ y.external = x.external
           /\ y.public = x.public /\ y.static = x.static

LEMMA DeclaredAndCompiled ==
    ASSUME NEW u, UnitOK(u), NEW x, NEW p, Declared(u, p, x), NEW v,
           v = rest_of_decl_compilation(p, Len(u.decls) + 1)
    PROVE  Completed(u, v, x)
<1> DEFINE d == Len(u.decls) + 1
<1>1. UnitOK(p) /\ d \in 1 .. Len(p.decls) /\ Len(u.decls) \in Nat /\ Len(p.decls) = d
  BY DEF Declared, Quiet, UnitOK, IsList
<1> HIDE DEF d
<1>2. CompiledNow(p, v, d)
  <2>1. v = rest_of_decl_compilation(p, d)
    BY DEF d
  <2> QED
    BY ONLY <1>1, <2>1, Compiled
<1>3. UnitOK(v) /\ v.fn = u.fn /\ v.cur_stmts = u.cur_stmts /\ SameLevels(u, v)
  BY <1>2 DEF CompiledNow, OnlyDecls, Declared, Quiet, SameLevels, SameLevel
<1>4. KeepsDecls(u, v)
  <2>1. \A j \in 1 .. Len(u.decls) : j # d /\ j \in 1 .. Len(p.decls)
    BY <1>1 DEF d
  <2>2. \A j \in 1 .. Len(u.decls) : SameDecl(u.decls[j], p.decls[j])
    BY DEF Declared, Quiet, KeepsDecls
  <2> QED
    BY <1>1, <1>2, <2>1, <2>2 DEF CompiledNow, KeepsDecls, d
<1>5. KeepsLists(u, v)
  BY <1>2 DEF CompiledNow, OnlyDecls, Declared, Quiet, KeepsLists
<1> QED
  BY <1>1, <1>2, <1>3, <1>4, <1>5 DEF Declared, IsDeclared, Quiet, CompiledNow, Completed, d

(* A variable. *)
LEMMA VarDeclared ==
    ASSUME NEW u, UnitOK(u), NEW r, r.home = u.fn, r.k = "var", r.begun = FALSE,
           r.storage \in IF u.fn = NULL THEN {"external", "public", "private"} ELSE {"local"},
           NEW v, v = new_var_decl(u, r.storage)
    PROVE  Adds(u, v, r)
<1> DEFINE d == Decl("var", r.storage, NULL)
           x == IF u.fn # NULL THEN d ELSE set_storage(d, r.storage)
           n == Len(u.decls) + 1
<1>1. PICK p : p = pushdecl(NewDecl(u, x), n)
  OBVIOUS
<1>2. v = IF u.fn = NULL THEN rest_of_decl_compilation(p, n) ELSE p
  BY <1>1 DEF new_var_decl
<1>3. /\ DOMAIN x = DeclFields /\ x.compiled = FALSE
      /\ u.fn = NULL => /\ x.external = (r.storage = "external") /\ x.public = (r.storage \in {"external", "public"})
                        /\ x.static = (r.storage \in {"public", "private"})
  <2>1. CASE u.fn = NULL
    BY <2>1 DEF Decl, DeclFields, set_storage
  <2>2. CASE u.fn # NULL
    BY <2>2 DEF Decl, DeclFields, set_storage
  <2> QED
    BY <2>1, <2>2
<1> HIDE DEF x
<1>4. Declared(u, p, x)
  BY ONLY UnitOK(u), <1>1, <1>3, DeclPushed
<1>5. CASE u.fn = NULL
  <2>1. v = rest_of_decl_compilation(p, n)
    BY <1>2, <1>5
  <2>2. Completed(u, v, x)
    BY ONLY UnitOK(u), <1>4, <2>1, DeclaredAndCompiled
  <2>3. r.storage \in {"external", "public", "private"}
    BY <1>5
  <2>4. DeclExact(v.decls[n], r)
    <3> HIDE DEF n
    <3> QED
      BY <1>3, <1>5, <2>2, <2>3 DEF DeclExact, Completed, n
  <2> QED
    BY <2>2, <2>4 DEF Adds, Completed
<1>6. CASE u.fn # NULL
  <2>1. v = p /\ r.storage = "local"
    BY <1>2, <1>6
  <2> QED
    BY <1>3, <1>4, <2>1 DEF Declared, IsDeclared, Adds, DeclExact
<1> QED
  BY <1>5, <1>6

(* A constant. *)
LEMMA ConstDeclared ==
    ASSUME NEW u, UnitOK(u), NEW r, r.home = u.fn, r.k = "const", r.begun = FALSE, r.value = FALSE,
           r.storage \in {"external", "public", "private"},
           NEW v, v = new_const_decl(u, r.storage)
    PROVE  Adds(u, v, r)
<1> DEFINE x == set_storage(Decl("const", r.storage, NULL), r.storage)
           n == Len(u.decls) + 1
<1>1. PICK p : p = pushdecl(NewDecl(u, x), n)
  OBVIOUS
<1>2. v = IF r.storage = "external" THEN rest_of_decl_compilation(p, n) ELSE p
  BY <1>1 DEF new_const_decl
<1>3. /\ DOMAIN x = DeclFields /\ x.compiled = FALSE
      /\ x.external = (r.storage = "external") /\ x.public = (r.storage \in {"external", "public"})
      /\ x.static = (r.storage \in {"public", "private"})
  BY DEF Decl, DeclFields, set_storage
<1> HIDE DEF x
<1>4. Declared(u, p, x)
  BY ONLY UnitOK(u), <1>1, <1>3, DeclPushed
<1>5. CASE r.storage = "external"
  <2>1. v = rest_of_decl_compilation(p, n)
    BY <1>2, <1>5
  <2>2. Completed(u, v, x)
    BY ONLY UnitOK(u), <1>4, <2>1, DeclaredAndCompiled
  <2>3. DeclExact(v.decls[n], r)
    <3> HIDE DEF n
    <3> QED
      BY <1>3, <1>5, <2>2 DEF DeclExact, Completed, n
  <2> QED
    BY <2>2, <2>3 DEF Adds, Completed
<1>6. CASE r.storage # "external"
  <2>1. v = p
    BY <1>2, <1>6
  <2>2. DeclExact(p.decls[n], r)
    <3> HIDE DEF n
    <3>1. IsDeclared(p.decls[n], x, u.fn)
      BY <1>4 DEF Declared, n
    <3> QED
      BY <1>3, <1>6, <3>1 DEF IsDeclared, DeclExact
  <2> QED
    BY <1>4, <2>1, <2>2 DEF Declared, Adds
<1> QED
  BY <1>5, <1>6

(* A constant or a variable gets its value. *)
Valued(u, v, d) ==
    /\ OnlyDecls(u, v) /\ Len(v.decls) = Len(u.decls)
    /\ \A j \in 1 .. Len(u.decls) : j # d => v.decls[j] = u.decls[j]
    /\ LET x == u.decls[d]
           y == v.decls[d]
       IN  /\ y.compiled = TRUE /\ y.static = TRUE /\ y.context = x.context
           /\ y.external = x.external /\ y.public = x.public /\ y.finalized = x.finalized

LEMMA ValueGiven ==
    ASSUME NEW u, UnitOK(u), NEW d \in 1 .. Len(u.decls), NEW v, v = finish_init_value(u, d)
    PROVE  Valued(u, v, d)
<1> DEFINE y == [u.decls[d] EXCEPT !.initial = TRUE, !.static = TRUE]
           w == [u EXCEPT !.decls[d].initial = TRUE, !.decls[d].static = TRUE]
<1>1. v = rest_of_decl_compilation(w, d)
  BY DEF finish_init_value
<1>2. /\ DOMAIN y = DeclFields /\ y.static = TRUE
      /\ y.context = u.decls[d].context /\ y.external = u.decls[d].external
      /\ y.public = u.decls[d].public /\ y.finalized = u.decls[d].finalized
  BY DEF UnitOK, DeclFields
<1>3. w = [u EXCEPT !.decls = [u.decls EXCEPT ![d] = y]]
  BY DEF UnitOK, Fields, IsList
<1> HIDE DEF y, w
<1>4. OnlyDecls(u, w) /\ ReplacedAt(u.decls, w.decls, d, y)
  BY ONLY UnitOK(u), <1>2, <1>3, DeclTouched
<1>5. UnitOK(w) /\ d \in 1 .. Len(w.decls)
  BY <1>4 DEF OnlyDecls, ReplacedAt
<1>6. CompiledNow(w, v, d)
  BY ONLY <1>1, <1>5, Compiled
<1>7. OnlyDecls(u, v)
  BY ONLY <1>4, <1>6 DEF CompiledNow, OnlyDecls, SameLevels, SameLevel
<1>8. /\ Len(v.decls) = Len(u.decls)
      /\ \A j \in 1 .. Len(u.decls) : j # d => v.decls[j] = u.decls[j]
  BY ONLY <1>4, <1>6 DEF CompiledNow, ReplacedAt
<1>9. w.decls[d] = y
  BY <1>4 DEF ReplacedAt
<1> QED
  BY ONLY <1>2, <1>6, <1>7, <1>8, <1>9 DEF CompiledNow, Valued

(* The nodes of s are what one meets from c on. *)
IsPath(link, c, s) ==
    /\ IsList(s)
    /\ \A i \in 1 .. Len(s) : s[i] # NULL /\ (i < Len(s) => link[s[i]] = s[i + 1])
    /\ IF Len(s) = 0 THEN c = NULL ELSE c = s[1] /\ link[s[Len(s)]] = NULL

(* Linked finds them, when it may look at as many. *)
LEMMA LinkedPath ==
    ASSUME NEW link, NEW c, NEW s, IsPath(link, c, s), NEW most \in Nat, Len(s) <= most
    PROVE  Linked(link, c, most) = s
<1> DEFINE n == Len(s)
           Step(f) == [i \in 0 .. most |-> IF i = 0 THEN c
                                           ELSE IF f[i - 1] = NULL THEN NULL ELSE link[f[i - 1]]]
           g == [i \in 0 .. most |-> IF i < n THEN s[i + 1] ELSE NULL]
           r == Met(link, c, most)
<1>1. n \in 0 .. most /\ \A i \in 1 .. n : s[i] # NULL
  BY DEF IsPath, IsList
<1>2. g = Step(g)
  <2> SUFFICES ASSUME NEW i \in 0 .. most
               PROVE  g[i] = IF i = 0 THEN c ELSE IF g[i - 1] = NULL THEN NULL ELSE link[g[i - 1]]
    OBVIOUS
  <2>1. CASE i = 0
    BY <1>1, <2>1 DEF IsPath
  <2>2. CASE i # 0 /\ i <= n
    <3>1. i \in 1 .. n /\ i - 1 \in 0 .. most /\ i - 1 < n /\ (i - 1) + 1 = i
      BY <1>1, <2>2
    <3>2. g[i - 1] = s[i] /\ s[i] # NULL
      BY <1>1, <3>1
    <3>3. link[s[i]] = g[i]
      BY <1>1, <3>1 DEF IsPath
    <3> QED
      BY <2>2, <3>2, <3>3
  <2>3. CASE i # 0 /\ ~(i <= n)
    <3>1. i - 1 \in 0 .. most /\ ~(i - 1 < n) /\ ~(i < n)
      BY <1>1, <2>3
    <3>2. g[i - 1] = NULL /\ g[i] = NULL
      BY <3>1
    <3> QED
      BY <2>3, <3>2
  <2> QED
    BY <2>1, <2>2, <2>3
<1>3. r = Step(r)
  <2>1. r = CHOOSE f : f = Step(f)
    BY DEF Met
  <2> HIDE DEF Step, g, r
  <2> QED
    BY <1>2, <2>1
<1> HIDE DEF r
<1>4. r = g
  <2> DEFINE bad == {i \in 0 .. most : r[i] # g[i]}
  <2> SUFFICES ASSUME bad # {} PROVE FALSE
    <3>1. bad = {} => \A i \in 0 .. most : r[i] = g[i]
      OBVIOUS
    <3>2. r = [i \in 0 .. most |-> r[i]]
      <4>1. DOMAIN Step(r) = 0 .. most
        OBVIOUS
      <4> QED
        BY <1>3, <4>1
    <3> HIDE DEF bad
    <3> QED
      BY <3>1, <3>2
  <2> DEFINE m == Min(bad)
  <2>1. m \in bad /\ \A i \in bad : m <= i
    <3>1. bad \in SUBSET Nat
      OBVIOUS
    <3> HIDE DEF bad
    <3> QED
      BY <3>1, LeastElement
  <2> HIDE DEF m
  <2>2. m \in 0 .. most /\ r[m] # g[m] /\ \A i \in 0 .. most : r[i] # g[i] => m <= i
    BY <2>1
  <2> HIDE DEF bad, g
  <2>3. r[m] = IF m = 0 THEN c ELSE IF r[m - 1] = NULL THEN NULL ELSE link[r[m - 1]]
    BY <1>3, <2>2
  <2>4. g[m] = IF m = 0 THEN c ELSE IF g[m - 1] = NULL THEN NULL ELSE link[g[m - 1]]
    BY <1>2, <2>2
  <2>5. m # 0 => r[m - 1] = g[m - 1]
    <3>1. m # 0 => m - 1 \in 0 .. most /\ ~(m <= m - 1)
      BY <2>2
    <3> QED
      BY <2>2, <3>1
  <2> QED
    BY <2>2, <2>3, <2>4, <2>5
<1>5. DOMAIN g = 0 .. most /\ {i \in 0 .. most : g[i] # NULL} = 0 .. n - 1
  BY <1>1
<1>6. Cardinality(0 .. n - 1) = n
  <2>1. 0 \in Int /\ n - 1 \in Int
    BY <1>1
  <2>2. Cardinality(0 .. n - 1) = IF 0 > n - 1 THEN 0 ELSE n - 1 - 0 + 1
    BY <2>1, FS_Interval
  <2> QED
    BY <1>1, <2>2
<1>7. Linked(link, c, most) = [i \in 1 .. n |-> g[i - 1]]
  <2> HIDE DEF g, n
  <2> QED
    BY <1>4, <1>5, <1>6 DEF Linked, r
<1>8. \A i \in 1 .. n : g[i - 1] = s[i]
  <2> SUFFICES ASSUME NEW i \in 1 .. n PROVE g[i - 1] = s[i]
    OBVIOUS
  <2>1. i - 1 \in 0 .. most /\ i - 1 < n /\ (i - 1) + 1 = i
    BY <1>1
  <2> QED
    BY <2>1
<1>9. s = [i \in 1 .. n |-> s[i]]
  BY DEF IsPath, IsList
<1> HIDE DEF g, n
<1> QED
  BY <1>7, <1>8, <1>9

(* x holds u with n parameters more, linked to each other, for a subprogram. *)
Parameters(u, x, n, storage) ==
    LET base == Len(u.decls)
    IN  /\ OnlyDecls(u, x.o)
        /\ Len(x.o.decls) = base + n
        /\ \A d \in 1 .. base : x.o.decls[d] = u.decls[d]
        /\ \A i \in 1 .. n : x.o.decls[base + i].chain = IF i < n THEN base + i + 1 ELSE NULL
        /\ DOMAIN x.inter = {"storage", "param_chain", "param_list"}
        /\ x.inter.storage = storage
        /\ x.inter.param_chain.first = IF n = 0 THEN NULL ELSE base + 1
        /\ x.inter.param_chain.last = IF n = 0 THEN NULL ELSE base + n

(* A parameter more. *)
LEMMA ParameterAdded ==
    ASSUME NEW u, UnitOK(u), NEW x, NEW n \in Nat, NEW storage, Parameters(u, x, n, storage), NEW type,
           NEW y, y = new_interface_decl(x.o, x.inter, type)
    PROVE  Parameters(u, y, n + 1, storage)
<1> DEFINE base == Len(u.decls)
           q == Decl("parm", "local", NULL)
           p == x.inter.param_chain.last
           c == x.inter.param_chain
           d == Len(x.o.decls) + 1
<1>1. PICK a : a = NewDecl(x.o, q)
  OBVIOUS
<1>2. UnitOK(x.o) /\ base \in Nat /\ Len(x.o.decls) = base + n
  BY DEF Parameters, OnlyDecls, UnitOK, IsList
<1>3. DOMAIN q = DeclFields /\ q.chain = NULL
  BY DEF Decl, DeclFields
<1> HIDE DEF q
<1>4. OnlyDecls(x.o, a) /\ Lengthened(x.o.decls, a.decls, q)
  BY ONLY <1>1, <1>2, <1>3, DeclMade
<1>5. UnitOK(a) /\ Len(a.decls) = base + n + 1 /\ d = base + n + 1
  BY <1>2, <1>4 DEF OnlyDecls, Lengthened
<1> DEFINE z == [a.decls[p] EXCEPT !.chain = d]
<1>6. /\ y.o = IF c.first = NULL THEN a ELSE [a EXCEPT !.decls = [a.decls EXCEPT ![p] = z]]
      /\ y.inter = [x.inter EXCEPT !.param_chain = [first |-> IF c.first = NULL THEN d ELSE c.first, last |-> d],
                                   !.param_list = Append(@, type)]
  <2> HIDE DEF d, Parameters
  <2>1. y = LET s == chain_append(a, c, d)
            IN  [o |-> s.o, inter |-> [x.inter EXCEPT !.param_chain = s.constr, !.param_list = Append(@, type)]]
    BY ONLY <1>1, y = new_interface_decl(x.o, x.inter, type) DEF new_interface_decl, q, d
  <2> QED
    BY ONLY <2>1 DEF chain_append
<1>7. /\ c.first = IF n = 0 THEN NULL ELSE base + 1
      /\ p = IF n = 0 THEN NULL ELSE base + n
      /\ DOMAIN x.inter = {"storage", "param_chain", "param_list"} /\ x.inter.storage = storage
  BY DEF Parameters
<1>8. /\ DOMAIN y.inter = {"storage", "param_chain", "param_list"} /\ y.inter.storage = storage
      /\ y.inter.param_chain.first = (IF c.first = NULL THEN d ELSE c.first) /\ y.inter.param_chain.last = d
  <2> HIDE DEF c, d
  <2> QED
    BY ONLY <1>6, <1>7
<1>9. OnlyDecls(u, a)
  BY <1>4 DEF Parameters, OnlyDecls, SameLevels, SameLevel
<1>10. \A j \in 1 .. base + n : a.decls[j] = x.o.decls[j]
  BY <1>2, <1>4 DEF Lengthened
<1>11. a.decls[d] = q
  BY <1>2, <1>4 DEF Lengthened
<1>12. /\ \A j \in 1 .. base : x.o.decls[j] = u.decls[j]
       /\ \A i \in 1 .. n : x.o.decls[base + i].chain = IF i < n THEN base + i + 1 ELSE NULL
  BY DEF Parameters
<1> HIDE DEF base, d, c
<1>13. CASE n = 0
  <2>1. c.first = NULL /\ y.o = a
    BY <1>6, <1>7, <1>13
  <2>0. base + 1 = d
    BY <1>2, <1>5, <1>13
  <2>2. \A i \in 1 .. n + 1 : i = 1 /\ base + i = d /\ a.decls[d].chain = NULL
    BY <1>3, <1>11, <1>13, <2>0
  <2>3. \A j \in 1 .. base : a.decls[j] = u.decls[j]
    BY <1>2, <1>10, <1>12, <1>13
  <2>4. \A i \in 1 .. n + 1 : y.o.decls[base + i].chain = IF i < n + 1 THEN base + i + 1 ELSE NULL
    BY <1>13, <2>1, <2>2
  <2>5. y.inter.param_chain.first = base + 1 /\ y.inter.param_chain.last = base + 1
    BY <1>8, <2>0, <2>1
  <2> HIDE DEF base, d, c, p
  <2>6. n + 1 # 0 /\ base + (n + 1) = base + 1 /\ Len(y.o.decls) = base + (n + 1)
    BY <1>2, <1>5, <1>13, <2>1, <2>0 DEF d
  <2> QED
    BY ONLY <1>8, <1>9, <2>1, <2>3, <2>4, <2>5, <2>6 DEF Parameters, base
<1>14. CASE n # 0
  <2>0. c.first = base + 1 /\ p = base + n
    BY <1>7, <1>14
  <2>1. c.first # NULL /\ p = base + n /\ p \in 1 .. Len(a.decls) /\ p # d
    <3> HIDE DEF c, p, d, base
    <3> QED
      BY <1>2, <1>5, <1>14, <2>0 DEF NULL
  <2>2. DOMAIN z = DeclFields /\ z.chain = d
    BY <1>5, <2>1 DEF UnitOK, DeclFields
  <2> HIDE DEF z, p, d, c
  <2>3. OnlyDecls(a, y.o) /\ ReplacedAt(a.decls, y.o.decls, p, z)
    <3>1. PICK v : v = y.o
      OBVIOUS
    <3>2. v = [a EXCEPT !.decls = [a.decls EXCEPT ![p] = z]]
      BY <1>6, <2>1, <3>1
    <3>3. OnlyDecls(a, v) /\ ReplacedAt(a.decls, v.decls, p, z)
      BY ONLY <1>5, <2>2, <3>2, DeclTouched
    <3> QED
      BY <3>1, <3>3
  <2>4. \A j \in 1 .. base : y.o.decls[j] = u.decls[j]
    <3> SUFFICES ASSUME NEW j \in 1 .. base PROVE y.o.decls[j] = u.decls[j]
      OBVIOUS
    <3>1. j \in 1 .. base + n /\ j \in 1 .. Len(a.decls) /\ j # p
      BY <1>2, <1>5, <1>14, <2>1
    <3> QED
      BY <1>10, <1>12, <2>3, <3>1 DEF ReplacedAt
  <2>5. \A i \in 1 .. n + 1 : y.o.decls[base + i].chain = IF i < n + 1 THEN base + i + 1 ELSE NULL
    <3> SUFFICES ASSUME NEW i \in 1 .. n + 1
                 PROVE  y.o.decls[base + i].chain = IF i < n + 1 THEN base + i + 1 ELSE NULL
      OBVIOUS
    <3>0. base + i \in 1 .. Len(a.decls)
      BY <1>2, <1>5
    <3>1. CASE i = n + 1
      <4>1. base + i = d /\ d # p
        BY <1>2, <1>5, <2>1, <3>1
      <4>2. y.o.decls[d] = q
        BY <1>11, <2>3, <3>0, <4>1 DEF ReplacedAt
      <4>3. ~(i < n + 1)
        BY <3>1
      <4> QED
        BY <1>3, <4>1, <4>2, <4>3
    <3>2. CASE i = n
      <4>1. base + i = p /\ d = base + i + 1
        BY <1>5, <2>1, <3>2
      <4>2. y.o.decls[base + i] = z
        BY <2>3, <3>0, <4>1 DEF ReplacedAt
      <4> QED
        BY <2>2, <3>2, <4>1, <4>2
    <3>3. CASE i < n
      <4>1. base + i # p /\ i \in 1 .. n /\ base + i \in 1 .. base + n
        BY <1>2, <2>1, <3>3
      <4>2. y.o.decls[base + i] = x.o.decls[base + i]
        BY <1>10, <2>3, <3>0, <4>1 DEF ReplacedAt
      <4> QED
        BY <1>12, <3>3, <4>1, <4>2
    <3> QED
      BY <3>1, <3>2, <3>3
  <2>6. OnlyDecls(u, y.o)
    BY ONLY <1>9, <2>3 DEF OnlyDecls, SameLevels, SameLevel
  <2>7. Len(y.o.decls) = base + (n + 1)
    <3> HIDE DEF base
    <3>1. Len(y.o.decls) = Len(a.decls)
      BY ONLY <2>3 DEF ReplacedAt
    <3> QED
      BY <1>2, <1>5, <3>1
  <2>8. y.inter.param_chain.first = base + 1 /\ y.inter.param_chain.last = base + (n + 1) /\ n + 1 # 0
    <3>1. base + (n + 1) = base + n + 1 /\ n + 1 # 0
      BY <1>2
    <3> QED
      BY <1>5, <1>8, <2>0, <2>1, <3>1
  <2> HIDE DEF base
  <2> QED
    BY ONLY <1>8, <2>4, <2>5, <2>6, <2>7, <2>8 DEF Parameters, base
<1> QED
  BY <1>13, <1>14

(* The parameters of a subprogram, one after the other. *)
LEMMA InterfaceBuilt ==
    ASSUME UnitOK(o), NEW n \in Nat, NEW storage
    PROVE  Parameters(o, Interface_Decls(storage, n), n, storage)
<1> DEFINE s == [o |-> o, inter |-> start_function_decl(storage)]
           Step(f, k) == [i \in 0 .. k |-> IF i = 0 THEN s ELSE new_interface_decl(f[i - 1].o, f[i - 1].inter, i)]
           r == CHOOSE f : f = Step(f, n)
<1>1. Interface_Decls(storage, n) = r[n]
  BY DEF Interface_Decls
<1>2. Parameters(o, s, 0, storage)
  <2>1. OnlyDecls(o, o) /\ Len(o.decls) = Len(o.decls) + 0
    BY DEF UnitOK, IsList, OnlyDecls, SameLevels, SameLevel
  <2>2. /\ DOMAIN s.inter = {"storage", "param_chain", "param_list"}
        /\ s.inter.storage = storage
        /\ s.inter.param_chain.first = NULL /\ s.inter.param_chain.last = NULL
    BY DEF start_function_decl, chain_init
  <2>3. s.o = o
    OBVIOUS
  <2> HIDE DEF s
  <2> QED
    BY <2>1, <2>2, <2>3 DEF Parameters
<1> HIDE DEF s
<1>3. \A k \in 0 .. n : \E f : f = Step(f, k)
  <2> DEFINE bad == {k \in 0 .. n : ~\E f : f = Step(f, k)}
  <2> SUFFICES ASSUME bad # {} PROVE FALSE
    OBVIOUS
  <2> DEFINE m == Min(bad)
  <2>1. m \in bad /\ \A k \in bad : m <= k
    <3>1. bad \in SUBSET Nat
      OBVIOUS
    <3> HIDE DEF bad
    <3> QED
      BY <3>1, LeastElement
  <2> HIDE DEF m
  <2>2. m \in 0 .. n /\ ~\E f : f = Step(f, m)
    BY <2>1
  <2>3. CASE m = 0
    <3> DEFINE g == [i \in 0 .. 0 |-> s]
    <3>1. g = Step(g, 0)
      OBVIOUS
    <3> QED
      BY <2>2, <2>3, <3>1
  <2>4. CASE m # 0
    <3>1. m - 1 \in 0 .. n /\ ~(m <= m - 1)
      BY <2>2, <2>4
    <3>2. m - 1 \notin bad
      BY <2>1, <3>1
    <3>3. PICK f : f = Step(f, m - 1)
      BY <3>1, <3>2
    <3> DEFINE g == [i \in 0 .. m |-> IF i = m THEN new_interface_decl(f[m - 1].o, f[m - 1].inter, m) ELSE f[i]]
    <3>4. g = Step(g, m)
      <4> SUFFICES ASSUME NEW i \in 0 .. m
                   PROVE  g[i] = IF i = 0 THEN s ELSE new_interface_decl(g[i - 1].o, g[i - 1].inter, i)
        OBVIOUS
      <4>1. CASE i = m
        <5>1. g[m - 1] = f[m - 1]
          BY <2>2, <2>4
        <5> QED
          BY <2>2, <2>4, <4>1, <5>1
      <4>2. CASE i # m
        <5>1. i \in 0 .. m - 1
          BY <2>2, <4>2
        <5>2. f[i] = IF i = 0 THEN s ELSE new_interface_decl(f[i - 1].o, f[i - 1].inter, i)
          BY <3>3, <5>1
        <5>3. i # 0 => i - 1 \in 0 .. m /\ i - 1 # m
          BY <2>2, <5>1
        <5> QED
          BY <4>2, <5>2, <5>3
      <4> QED
        BY <4>1, <4>2
    <3> HIDE DEF Step, g
    <3> QED
      BY <2>2, <3>4
  <2> QED
    BY <2>3, <2>4
<1>4. r = Step(r, n)
  <2>1. \E f : f = Step(f, n)
    BY <1>3
  <2> HIDE DEF Step
  <2> QED
    BY <2>1
<1> HIDE DEF r
<1>5. r[0] = s /\ \A i \in 1 .. n : r[i] = new_interface_decl(r[i - 1].o, r[i - 1].inter, i)
  BY <1>4
<1>6. \A i \in 0 .. n : Parameters(o, r[i], i, storage)
  <2> DEFINE bad == {i \in 0 .. n : ~Parameters(o, r[i], i, storage)}
  <2> SUFFICES ASSUME bad # {} PROVE FALSE
    OBVIOUS
  <2> DEFINE m == Min(bad)
  <2>1. m \in bad /\ \A k \in bad : m <= k
    <3>1. bad \in SUBSET Nat
      OBVIOUS
    <3> HIDE DEF bad
    <3> QED
      BY <3>1, LeastElement
  <2> HIDE DEF m
  <2>2. m \in 0 .. n /\ ~Parameters(o, r[m], m, storage)
    BY <2>1
  <2>3. m # 0
    BY <1>2, <1>5, <2>2
  <2>4. m - 1 \in 0 .. n /\ ~(m <= m - 1) /\ m \in 1 .. n /\ m - 1 \in Nat
    BY <2>2, <2>3
  <2>5. Parameters(o, r[m - 1], m - 1, storage)
    BY <2>1, <2>4
  <2>6. PICK y : y = r[m]
    OBVIOUS
  <2>7. y = new_interface_decl(r[m - 1].o, r[m - 1].inter, m)
    BY <1>5, <2>4, <2>6
  <2>8. PICK u : u = o
    OBVIOUS
  <2>9. Parameters(u, y, (m - 1) + 1, storage)
    <3>1. UnitOK(u) /\ Parameters(u, r[m - 1], m - 1, storage)
      BY <2>5, <2>8
    <3> QED
      BY ONLY <2>4, <2>7, <3>1, ParameterAdded
  <2>10. (m - 1) + 1 = m
    BY <2>2
  <2> QED
    BY <2>2, <2>6, <2>8, <2>9, <2>10
<1> QED
  BY <1>1, <1>6

(* The list of the parameters is what was linked. *)
LEMMA ParametersFound ==
    ASSUME NEW u, UnitOK(u), NEW x, NEW n \in Nat, NEW storage, Parameters(u, x, n, storage)
    PROVE  ToSet(ChainFrom(x.o, x.inter.param_chain.first)) = Len(u.decls) + 1 .. Len(u.decls) + n
<1> DEFINE base == Len(u.decls)
           link == [i \in DOMAIN x.o.decls |-> x.o.decls[i].chain]
           c == x.inter.param_chain.first
           s == [i \in 1 .. n |-> base + i]
<1>1. /\ base \in Nat /\ Len(x.o.decls) = base + n /\ DOMAIN x.o.decls = 1 .. base + n
      /\ c = IF n = 0 THEN NULL ELSE base + 1
      /\ \A i \in 1 .. n : x.o.decls[base + i].chain = IF i < n THEN base + i + 1 ELSE NULL
  BY DEF Parameters, OnlyDecls, UnitOK, IsList
<1> HIDE DEF base
<1>2. \A i \in 1 .. n : s[i] = base + i /\ s[i] \in 1 .. base + n
  BY <1>1
<1>3. s \in Seq(Nat) /\ Len(s) = n
  BY <1>1
<1>4. IsList(s)
  BY <1>3 DEF IsList
<1>5. \A i \in 1 .. n : link[s[i]] = IF i < n THEN base + i + 1 ELSE NULL
  BY <1>1, <1>2
<1>6. \A i \in 1 .. n : i < n => s[i + 1] = base + i + 1
  BY <1>1
<1> HIDE DEF link, s
<1>7. IsPath(link, c, s)
  <2>1. \A i \in 1 .. Len(s) : s[i] # NULL /\ (i < Len(s) => link[s[i]] = s[i + 1])
    BY <1>2, <1>3, <1>5, <1>6 DEF NULL
  <2>2. CASE n = 0
    BY <1>1, <1>3, <1>4, <2>1, <2>2 DEF IsPath
  <2>3. CASE n # 0
    <3>1. 1 \in 1 .. n /\ n \in 1 .. n /\ ~(n < n)
      BY <2>3
    <3>2. c = s[1] /\ link[s[n]] = NULL
      BY <1>1, <1>2, <1>5, <2>3, <3>1
    <3> QED
      BY <1>3, <1>4, <2>1, <2>3, <3>2 DEF IsPath
  <2> QED
    BY <2>2, <2>3
<1>8. Linked(link, c, Len(x.o.decls)) = s
  <2>1. Len(x.o.decls) \in Nat /\ Len(s) <= Len(x.o.decls)
    BY <1>1, <1>3
  <2> QED
    BY ONLY <1>7, <2>1, LinkedPath
<1>9. ChainFrom(x.o, c) = s
  BY <1>8 DEF ChainFrom, link
<1>10. ToSet(s) = base + 1 .. base + n
  <2>1. DOMAIN s = 1 .. n
    BY DEF s
  <2>2. \A j \in base + 1 .. base + n : j - base \in 1 .. n /\ base + (j - base) = j
    BY <1>1
  <2>3. \A i \in 1 .. n : s[i] \in base + 1 .. base + n
    BY <1>1, <1>2
  <2>4. \A j \in base + 1 .. base + n : s[j - base] = j
    BY <1>2, <2>2
  <2> QED
    BY <2>1, <2>2, <2>3, <2>4 DEF ToSet
<1> QED
  BY <1>9, <1>10 DEF base

(* The parameters of a declaration belong to it. *)
OwnParameters(u, x, n, f) == SetContext(x.o, Len(u.decls) + 1 .. Len(u.decls) + n, f)

LEMMA ParametersOwned ==
    ASSUME NEW u, UnitOK(u), NEW x, NEW n \in Nat, NEW storage, Parameters(u, x, n, storage),
           NEW f, NEW w, w = OwnParameters(u, x, n, f)
    PROVE  Quiet(u, w) /\ w.cur_stmts = u.cur_stmts /\ Len(w.decls) = Len(u.decls) + n
<1> DEFINE base == Len(u.decls)
           v == x.o
           t == [p \in DOMAIN v.decls |-> IF p \in base + 1 .. base + n
                                          THEN [v.decls[p] EXCEPT !.context = f] ELSE v.decls[p]]
<1>1. w = [v EXCEPT !.decls = t]
  BY DEF SetContext, OwnParameters
<1>2. /\ OnlyDecls(u, v) /\ UnitOK(v) /\ base \in Nat /\ Len(v.decls) = base + n
      /\ DOMAIN v.decls = 1 .. base + n
      /\ \A d \in 1 .. base : v.decls[d] = u.decls[d]
      /\ v.stmts = u.stmts
  BY DEF Parameters, OnlyDecls, UnitOK, IsList
<1> HIDE DEF v
<1>3. \A p \in 1 .. base + n : DOMAIN t[p] = DeclFields
  <2> SUFFICES ASSUME NEW p \in 1 .. base + n PROVE DOMAIN t[p] = DeclFields
    OBVIOUS
  <2>1. DOMAIN v.decls[p] = DeclFields
    BY <1>2 DEF UnitOK
  <2> HIDE DEF base
  <2>2. t[p] = IF p \in base + 1 .. base + n THEN [v.decls[p] EXCEPT !.context = f] ELSE v.decls[p]
    BY <1>2
  <2> HIDE DEF t
  <2>3. CASE p \in base + 1 .. base + n
    BY <2>1, <2>2, <2>3
  <2>4. CASE p \notin base + 1 .. base + n
    BY <2>1, <2>2, <2>4
  <2> QED
    BY <2>3, <2>4
<1>4. \A p \in 1 .. base : t[p] = u.decls[p]
  <2> HIDE DEF base
  <2> QED
    BY <1>2
<1>5. IsList(t) /\ Len(t) = base + n
  <2> DEFINE R == {t[p] : p \in 1 .. base + n}
  <2> HIDE DEF base
  <2>0. PICK m \in Nat : m = base + n
    BY <1>2
  <2>1. t = [p \in 1 .. m |-> t[p]]
    BY <1>2, <2>0
  <2> HIDE DEF t
  <2>2. t \in [1 .. m -> R]
    BY <2>0, <2>1
  <2> HIDE DEF R
  <2>3. t \in Seq(R) /\ Len(t) = m
    BY <2>2
  <2> QED
    BY <2>0, <2>1, <2>3 DEF IsList
<1> HIDE DEF t
<1>6. /\ DOMAIN w = Fields /\ w.cur_level = v.cur_level /\ w.old_levels = v.old_levels
      /\ w.fn = v.fn /\ w.levels = v.levels /\ w.decls = t
      /\ w.cur_stmts = v.cur_stmts /\ w.stmts = v.stmts
  BY ONLY <1>1, <1>2 DEF UnitOK, Fields
<1>7. UnitOK(w)
  BY ONLY <1>2, <1>3, <1>5, <1>6 DEF UnitOK
<1>8. SameLevels(u, w) /\ w.fn = u.fn /\ w.cur_stmts = u.cur_stmts
  BY ONLY <1>2, <1>6 DEF OnlyDecls, SameLevels, SameLevel
<1>9. KeepsDecls(u, w)
  <2> HIDE DEF base
  <2>1. base <= Len(w.decls)
    BY <1>2, <1>5, <1>6
  <2>2. \A p \in 1 .. base : w.decls[p] = u.decls[p]
    BY <1>4, <1>6
  <2> QED
    BY ONLY <2>1, <2>2 DEF KeepsDecls, SameDecl, base
<1> QED
  BY <1>2, <1>5, <1>6, <1>7, <1>8, <1>9, ListsKept DEF Quiet

(* The last steps of finish_subprogram_decl: no context for an external subprogram, *)
(* and the subprograms of the file are handed to GCC.                          *)
LastSteps(x, pushed, f) ==
    LET alone == IF x.inter.storage = "external" THEN [pushed EXCEPT !.decls[f].context = NULL] ELSE pushed
    IN  IF x.o.fn = NULL \/ x.inter.storage = "external" THEN rest_of_decl_compilation(alone, f) ELSE alone

LEMMA SubprogramSteps ==
    ASSUME NEW x, NEW v, v = finish_subprogram_decl(x.o, x.inter), NEW f, f = Len(x.o.decls) + 1, NEW pushed,
           pushed = pushdecl(NewDecl(SetContext(x.o, ToSet(ChainFrom(x.o, x.inter.param_chain.first)), f),
                                     FunctionDecl(x.inter, x.o.fn = NULL \/ x.inter.storage = "external")), f)
    PROVE  v = LastSteps(x, pushed, f)
BY ZenonT(30) DEF finish_subprogram_decl, LastSteps

(* A subprogram, whose parameters were declared before. *)
AddsSubprogram(u, v, r, n) ==
    /\ Quiet(u, v) /\ v.cur_stmts = u.cur_stmts
    /\ Len(v.decls) = Len(u.decls) + n + 1
    /\ DeclExact(v.decls[Len(v.decls)], r)

LEMMA SubprogramDeclared ==
    ASSUME NEW u, UnitOK(u), NEW r, r.home = u.fn, r.k = "func", r.begun = FALSE,
           r.storage \in IF u.fn = NULL THEN {"external", "public", "private"} ELSE {"local"},
           NEW x, NEW n \in Nat, Parameters(u, x, n, r.storage),
           NEW v, v = finish_subprogram_decl(x.o, x.inter)
    PROVE  AddsSubprogram(u, v, r, n)
<1> DEFINE base == Len(u.decls)
           f == Len(x.o.decls) + 1
           st == r.storage
           is_global == x.o.fn = NULL \/ x.inter.storage = "external"
           d == FunctionDecl(x.inter, is_global)
           parms == ToSet(ChainFrom(x.o, x.inter.param_chain.first))
<1>1. PICK w : w = SetContext(x.o, parms, f)
  OBVIOUS
<1>2. PICK pushed : pushed = pushdecl(NewDecl(w, d), f)
  OBVIOUS
<1>3. PICK alone : alone = IF x.inter.storage = "external" THEN [pushed EXCEPT !.decls[f].context = NULL] ELSE pushed
  OBVIOUS
<1>4. v = IF is_global THEN rest_of_decl_compilation(alone, f) ELSE alone
  <2> HIDE DEF parms, f, d
  <2>1. f = Len(x.o.decls) + 1 /\ d = FunctionDecl(x.inter, is_global) /\ parms = ToSet(ChainFrom(x.o, x.inter.param_chain.first))
    BY DEF parms, f, d
  <2>2. pushed = pushdecl(NewDecl(SetContext(x.o, ToSet(ChainFrom(x.o, x.inter.param_chain.first)), f),
                                  FunctionDecl(x.inter, is_global)), f)
    BY ONLY <1>1, <1>2, <2>1
  <2>3. v = LastSteps(x, pushed, f)
    BY ONLY <2>1, <2>2, v = finish_subprogram_decl(x.o, x.inter), SubprogramSteps
  <2>4. CASE x.inter.storage = "external"
    BY ONLY <1>3, <2>3, <2>4 DEF LastSteps
  <2>5. CASE x.inter.storage # "external"
    BY ONLY <1>3, <2>3, <2>5 DEF LastSteps
  <2> QED
    BY <2>4, <2>5
<1>5. parms = base + 1 .. base + n
  BY ONLY UnitOK(u), n \in Nat, Parameters(u, x, n, r.storage), ParametersFound
<1>6. /\ x.o.fn = u.fn /\ x.inter.storage = st
      /\ Len(x.o.decls) = base + n /\ base \in Nat
  BY DEF Parameters, OnlyDecls, UnitOK, IsList
<1> HIDE DEF parms
<1>7. Quiet(u, w) /\ w.cur_stmts = u.cur_stmts /\ Len(w.decls) = base + n
  <2>1. w = OwnParameters(u, x, n, f)
    BY <1>1, <1>5 DEF OwnParameters
  <2> HIDE DEF f
  <2>2. PICK g : g = f
    OBVIOUS
  <2>3. w = OwnParameters(u, x, n, g)
    BY <2>1, <2>2
  <2>4. Quiet(u, w) /\ w.cur_stmts = u.cur_stmts /\ Len(w.decls) = Len(u.decls) + n
    BY ONLY UnitOK(u), n \in Nat, Parameters(u, x, n, r.storage), <2>3, ParametersOwned
  <2> QED
    BY <2>4
<1>8. UnitOK(w) /\ w.fn = u.fn /\ f = Len(w.decls) + 1
  BY <1>6, <1>7 DEF Quiet
<1>9. /\ DOMAIN d = DeclFields /\ d.compiled = FALSE /\ d.static = TRUE
      /\ st # "local" => /\ d.external = (st = "external") /\ d.public = (st \in {"external", "public"})
  <2>1. is_global <=> u.fn = NULL
    BY <1>6
  <2>2. CASE u.fn = NULL
    <3>1. d = [set_storage(Decl("func", st, NULL), st)
               EXCEPT !.static = TRUE, !.args = x.inter.param_chain.first, !.types = x.inter.param_list]
      BY <1>6, <2>1, <2>2 DEF FunctionDecl
    <3> HIDE DEF d
    <3> QED
      BY <3>1 DEF Decl, DeclFields, set_storage
  <2>3. CASE u.fn # NULL
    <3>1. /\ d = [Decl("func", st, NULL)
                  EXCEPT !.static = TRUE, !.args = x.inter.param_chain.first, !.types = x.inter.param_list]
          /\ st = "local"
      BY <1>6, <2>1, <2>3 DEF FunctionDecl
    <3> HIDE DEF d
    <3> QED
      BY <3>1 DEF Decl, DeclFields
  <2> QED
    BY <2>2, <2>3
<1> HIDE DEF d
<1>10. Declared(w, pushed, d)
  <2>1. pushed = pushdecl(NewDecl(w, d), Len(w.decls) + 1)
    BY <1>2, <1>8
  <2> QED
    BY ONLY <1>8, <1>9, <2>1, DeclPushed
<1> HIDE DEF f
<1>11. Declared(w, alone, d)
  <2>1. CASE x.inter.storage = "external"
    <3> DEFINE y == [pushed.decls[f] EXCEPT !.context = NULL]
    <3>1. alone = [pushed EXCEPT !.decls = [pushed.decls EXCEPT ![f] = y]]
      BY <1>3, <2>1
    <3>2. UnitOK(pushed) /\ Len(pushed.decls) = f /\ f \in 1 .. Len(pushed.decls) /\ Len(w.decls) \in Nat
      BY <1>6, <1>7, <1>8, <1>10 DEF Declared, Quiet
    <3>3. u.fn = NULL
      BY <1>6, <2>1
    <3>4. /\ DOMAIN y = DeclFields /\ y.context = NULL
          /\ y.compiled = pushed.decls[f].compiled /\ y.external = pushed.decls[f].external
          /\ y.public = pushed.decls[f].public /\ y.static = pushed.decls[f].static
          /\ y.finalized = pushed.decls[f].finalized
      BY <3>2 DEF UnitOK, DeclFields
    <3> HIDE DEF y
    <3>5. OnlyDecls(pushed, alone) /\ ReplacedAt(pushed.decls, alone.decls, f, y)
      BY ONLY <3>1, <3>2, <3>4, DeclTouched
    <3>6. alone.decls[f] = y /\ IsDeclared(pushed.decls[f], d, w.fn)
      BY <1>8, <1>10, <3>2, <3>5 DEF ReplacedAt, Declared
    <3>7. IsDeclared(alone.decls[f], d, w.fn)
      BY ONLY <1>8, <3>3, <3>4, <3>6 DEF IsDeclared
    <3>8. \A j \in 1 .. Len(w.decls) : j \in 1 .. Len(pushed.decls) /\ j # f
      BY <1>8, <3>2
    <3>9. KeepsDecls(w, alone)
      BY ONLY <1>10, <3>2, <3>5, <3>8 DEF Declared, Quiet, KeepsDecls, ReplacedAt, SameDecl
    <3>10. UnitOK(alone) /\ alone.fn = w.fn /\ SameLevels(w, alone) /\ alone.cur_stmts = w.cur_stmts
      BY ONLY <1>10, <3>5 DEF OnlyDecls, Declared, Quiet, SameLevels, SameLevel
    <3>11. KeepsLists(w, alone)
      BY ONLY <1>10, <3>5 DEF OnlyDecls, Declared, Quiet, KeepsLists
    <3> QED
      BY <1>8, <3>2, <3>5, <3>7, <3>9, <3>10, <3>11 DEF Declared, Quiet, ReplacedAt
  <2>2. CASE x.inter.storage # "external"
    BY <1>3, <1>10, <2>2
  <2> QED
    BY <2>1, <2>2
<1>12. CASE u.fn = NULL
  <2>1. v = rest_of_decl_compilation(alone, Len(w.decls) + 1)
    BY <1>4, <1>6, <1>8, <1>12
  <2>2. Completed(w, v, d)
    BY ONLY <1>8, <1>11, <2>1, DeclaredAndCompiled
  <2>3. Quiet(u, v)
    <3>1. Quiet(w, v)
      BY <2>2 DEF Completed
    <3> QED
      BY ONLY UnitOK(u), <1>7, <3>1, QuietTwice
  <2>4. st \in {"external", "public", "private"}
    BY <1>12
  <2>5. Len(v.decls) = f /\ f = base + n + 1
    BY <1>6, <1>7, <1>8, <2>2 DEF Completed
  <2>6. DeclExact(v.decls[f], r)
    <3> HIDE DEF base
    <3> QED
      BY <1>8, <1>9, <1>12, <2>2, <2>4 DEF DeclExact, Completed
  <2> QED
    BY <1>7, <2>2, <2>3, <2>5, <2>6 DEF AddsSubprogram, Completed
<1>13. CASE u.fn # NULL
  <2>1. st = "local" /\ v = alone
    BY <1>4, <1>6, <1>13
  <2>2. Quiet(u, v)
    <3>1. Quiet(w, v)
      BY <1>11, <2>1 DEF Declared
    <3> QED
      BY ONLY UnitOK(u), <1>7, <3>1, QuietTwice
  <2>3. Len(v.decls) = f /\ f = base + n + 1
    BY <1>6, <1>7, <1>8, <1>11, <2>1 DEF Declared
  <2>4. DeclExact(v.decls[f], r)
    BY <1>8, <1>9, <1>11, <2>1 DEF DeclExact, Declared, IsDeclared
  <2> QED
    BY <1>7, <1>11, <2>1, <2>2, <2>3, <2>4 DEF AddsSubprogram, Declared
<1> QED
  BY <1>12, <1>13

(*---------------------------- binding levels --------------------------------*)

(* From u to v a level is opened, recycled if there is one. *)
LevelOpened(u, v) ==
    LET l == v.cur_level
    IN  /\ UnitOK(v) /\ v.fn = u.fn /\ v.decls = u.decls /\ KeepsLists(u, v) /\ OpensList(u, v)
        /\ l = IF u.old_levels = NULL THEN Len(u.levels) + 1 ELSE u.old_levels
        /\ Len(v.levels) = IF u.old_levels = NULL THEN Len(u.levels) + 1 ELSE Len(u.levels)
        /\ v.old_levels = IF u.old_levels = NULL THEN NULL ELSE u.levels[l].prev
        /\ v.levels[l].prev = u.cur_level /\ v.levels[l].prev_stmts = u.cur_stmts
        /\ \A j \in 1 .. Len(u.levels) : j # l => SameLevel(u.levels[j], v.levels[j])

(* From u to v the current level is closed and recycled. *)
LevelClosed(u, v) ==
    LET l == u.cur_level
    IN  /\ UnitOK(v) /\ v.fn = u.fn /\ KeepsDecls(u, v) /\ KeepsLists(u, v)
        /\ v.cur_stmts = u.levels[l].prev_stmts
        /\ v.cur_level = u.levels[l].prev
        /\ v.old_levels = l /\ Len(v.levels) = Len(u.levels)
        /\ v.levels[l].prev = u.old_levels /\ v.levels[l].prev_stmts \in Nat
        /\ \A j \in 1 .. Len(u.levels) : j # l => SameLevel(u.levels[j], v.levels[j])

(* The recycled levels start with a level of the list. *)
HasRecycled(u) ==
    u.old_levels # NULL => /\ u.old_levels \in 1 .. Len(u.levels)
                           /\ u.levels[u.old_levels].prev \in Nat

(* From u to v a level is opened, and nothing else is done. *)
NewLevel(u, v) ==
    LET l == v.cur_level
    IN  /\ UnitOK(v) /\ v.fn = u.fn /\ v.decls = u.decls
        /\ v.stmts = u.stmts /\ v.cur_stmts = u.cur_stmts
        /\ l = IF u.old_levels = NULL THEN Len(u.levels) + 1 ELSE u.old_levels
        /\ Len(v.levels) = IF u.old_levels = NULL THEN Len(u.levels) + 1 ELSE Len(u.levels)
        /\ v.old_levels = IF u.old_levels = NULL THEN NULL ELSE u.levels[l].prev
        /\ v.levels[l].prev = u.cur_level /\ v.levels[l].prev_stmts = u.cur_stmts
        /\ \A j \in 1 .. Len(u.levels) : j # l => SameLevel(u.levels[j], v.levels[j])
        /\ l \in 1 .. Len(v.levels)

LEMMA LevelAllocated ==
    ASSUME NEW u, UnitOK(u), HasRecycled(u), NEW bind, NEW v, v = AllocLevel(u, bind)
    PROVE  NewLevel(u, v)
<1>1. IsList(u.levels) /\ Len(u.levels) \in Nat
  BY DEF UnitOK, IsList
<1>2. PICK fresh : fresh = (u.old_levels = NULL)
  OBVIOUS
<1>3. PICK l : l = IF u.old_levels = NULL THEN Len(u.levels) + 1 ELSE u.old_levels
  OBVIOUS
<1>4. PICK level : level = init_level(u, l, bind)
  OBVIOUS
<1>5. DOMAIN level = LevelFields /\ level.prev = u.cur_level /\ level.prev_stmts = u.cur_stmts
  BY <1>4 DEF init_level, LevelFields
<1>6. PICK t : t = IF u.old_levels = NULL THEN Append(u.levels, level) ELSE [u.levels EXCEPT ![l] = level]
  OBVIOUS
<1>7. PICK p : p = IF u.old_levels = NULL THEN NULL ELSE u.levels[l].prev
  OBVIOUS
<1>8. v = [u EXCEPT !.levels = t, !.old_levels = p, !.cur_level = l]
  BY ONLY v = AllocLevel(u, bind), <1>3, <1>4, <1>6, <1>7 DEF AllocLevel
<1>9. u.old_levels # NULL => l \in 1 .. Len(u.levels) /\ u.levels[l].prev \in Nat
  BY <1>3 DEF HasRecycled
<1>10. /\ IsList(t) /\ Len(t) = (IF u.old_levels = NULL THEN Len(u.levels) + 1 ELSE Len(u.levels))
       /\ t[l] = level /\ l \in 1 .. Len(t)
       /\ \A j \in 1 .. Len(u.levels) : j # l => t[j] = u.levels[j] /\ j \in 1 .. Len(t)
       /\ \A j \in 1 .. Len(t) : j = l \/ j \in 1 .. Len(u.levels)
  <2>1. CASE u.old_levels = NULL
    <3>1. Lengthened(u.levels, t, level)
      BY <1>1, <1>6, <2>1, Longer
    <3> QED
      BY <1>1, <1>3, <2>1, <3>1 DEF Lengthened
  <2>2. CASE u.old_levels # NULL
    <3>1. t = [u.levels EXCEPT ![l] = level]
      BY <1>6, <2>2
    <3>2. ReplacedAt(u.levels, t, l, level)
      BY ONLY <1>1, <3>1, Replaced
    <3> QED
      BY <1>1, <1>9, <2>2, <3>2 DEF ReplacedAt
  <2> QED
    BY <2>1, <2>2
<1>11. /\ DOMAIN v = Fields /\ v.cur_level = l /\ v.old_levels = p
       /\ v.fn = u.fn /\ v.levels = t /\ v.decls = u.decls
       /\ v.cur_stmts = u.cur_stmts /\ v.stmts = u.stmts
  BY ONLY <1>8, UnitOK(u) DEF UnitOK, Fields
<1>12. \A j \in 1 .. Len(t) : DOMAIN t[j] = LevelFields
  BY <1>5, <1>10 DEF UnitOK
<1>13. l \in Nat /\ p \in Nat
  BY <1>7, <1>9, <1>10 DEF NULL
<1>14. UnitOK(v)
  BY ONLY <1>10, <1>11, <1>12, <1>13, UnitOK(u) DEF UnitOK
<1> QED
  BY ONLY <1>3, <1>5, <1>7, <1>10, <1>11, <1>14 DEF NewLevel, SameLevel

(* A level gets its first or its last block. *)
LEMMA FirstBlock ==
    ASSUME NEW u, UnitOK(u), NEW c, NEW b, NEW v, v = [u EXCEPT !.levels[c].first_block = b]
    PROVE  OnlyDecls(u, v) /\ v.decls = u.decls
<1> DEFINE y == [u.levels[c] EXCEPT !.first_block = b]
<1>1. v = [u EXCEPT !.levels = [u.levels EXCEPT ![c] = y]]
  OBVIOUS
<1>2. c \in 1 .. Len(u.levels) => DOMAIN y = LevelFields /\ SameLevel(u.levels[c], y)
  BY DEF UnitOK, LevelFields, SameLevel
<1> HIDE DEF y
<1> QED
  BY ONLY UnitOK(u), <1>1, <1>2, LevelTouched

LEMMA LastBlock ==
    ASSUME NEW u, UnitOK(u), NEW c, NEW b, NEW v, v = [u EXCEPT !.levels[c].last_block = b]
    PROVE  OnlyDecls(u, v) /\ v.decls = u.decls
<1> DEFINE y == [u.levels[c] EXCEPT !.last_block = b]
<1>1. v = [u EXCEPT !.levels = [u.levels EXCEPT ![c] = y]]
  OBVIOUS
<1>2. c \in 1 .. Len(u.levels) => DOMAIN y = LevelFields /\ SameLevel(u.levels[c], y)
  BY DEF UnitOK, LevelFields, SameLevel
<1> HIDE DEF y
<1> QED
  BY ONLY UnitOK(u), <1>1, <1>2, LevelTouched

(* The bindings are not looked at. *)
LEMMA AnyBinds ==
    ASSUME NEW u, UnitOK(u), NEW x, NEW v, v = [u EXCEPT !.binds = x]
    PROVE  OnlyDecls(u, v) /\ v.decls = u.decls
<1>1. /\ DOMAIN v = Fields /\ v.cur_level = u.cur_level /\ v.old_levels = u.old_levels
      /\ v.fn = u.fn /\ v.levels = u.levels /\ v.decls = u.decls
      /\ v.cur_stmts = u.cur_stmts /\ v.stmts = u.stmts
  BY DEF UnitOK, Fields
<1> QED
  BY ONLY <1>1, UnitOK(u) DEF UnitOK, OnlyDecls, SameLevels, SameLevel

(* From u to v only the statements, and maybe the list of the current ones, change. *)
Inside(u, v) ==
    UnitOK(v) /\ v.fn = u.fn /\ SameLevels(u, v) /\ v.decls = u.decls /\ KeepsLists(u, v)

LEMMA BlockAppended ==
    ASSUME NEW u, UnitOK(u), NEW l, NEW b, NEW v, v = AppendBlock(u, l, b)
    PROVE  Inside(u, v) /\ v.cur_stmts = u.cur_stmts
<1>1. PICK w : w = IF u.levels[l].first_block = NULL
                   THEN [u EXCEPT !.levels[l].first_block = b]
                   ELSE [u EXCEPT !.binds[u.levels[l].last_block].chain = b]
  OBVIOUS
<1>2. v = [w EXCEPT !.levels[l].last_block = b]
  BY ONLY v = AppendBlock(u, l, b), <1>1 DEF AppendBlock
<1>3. OnlyDecls(u, w) /\ w.decls = u.decls
  <2>1. CASE u.levels[l].first_block = NULL
    <3>1. w = [u EXCEPT !.levels[l].first_block = b]
      BY <1>1, <2>1
    <3> QED
      BY ONLY UnitOK(u), <3>1, FirstBlock
  <2>2. CASE u.levels[l].first_block # NULL
    <3>1. PICK x : x = [u.binds EXCEPT ![u.levels[l].last_block].chain = b]
      OBVIOUS
    <3>2. w = [u EXCEPT !.binds = x]
      BY <1>1, <2>2, <3>1
    <3> QED
      BY ONLY UnitOK(u), <3>2, AnyBinds
  <2> QED
    BY <2>1, <2>2
<1>4. OnlyDecls(w, v) /\ v.decls = w.decls
  BY ONLY <1>2, <1>3, LastBlock DEF OnlyDecls
<1>5. KeepsLists(u, v)
  BY ONLY UnitOK(u), <1>3, <1>4, ListsKept DEF OnlyDecls
<1> QED
  BY ONLY <1>3, <1>4, <1>5 DEF OnlyDecls, Inside, SameLevels, SameLevel

LEMMA BlockMade ==
    ASSUME NEW u, UnitOK(u), NEW super, NEW fn, NEW v, v = NewBlock(u, super, fn)
    PROVE  Inside(u, v) /\ OpensList(u, v)
<1>1. PICK x : x = Append(u.binds, [body |-> NULL, save |-> NULL, vars |-> NULL, subs |-> NULL, chain |-> NULL,
                                    super |-> super, of |-> fn])
  OBVIOUS
<1>2. PICK t : t = Append(u.stmts, <<>>)
  OBVIOUS
<1>3. PICK n : n = Len(u.stmts) + 1
  OBVIOUS
<1>4. v = [u EXCEPT !.stmts = t, !.binds = x, !.cur_stmts = n]
  BY <1>1, <1>2, <1>3 DEF NewBlock, alloc_stmt_list, UnitOK, Fields
<1>5. IsList(u.stmts) /\ n \in Nat
  BY <1>3 DEF UnitOK, IsList
<1>6. IsList(t) /\ Len(t) = n
  BY <1>2, <1>3, <1>5, ListAppend
<1>7. /\ DOMAIN v = Fields /\ v.cur_level = u.cur_level /\ v.old_levels = u.old_levels
      /\ v.fn = u.fn /\ v.levels = u.levels /\ v.decls = u.decls
      /\ v.cur_stmts = n /\ v.stmts = t
  BY ONLY <1>4, UnitOK(u) DEF UnitOK, Fields
<1>8. KeepsLists(u, v) /\ OpensList(u, v)
  BY ONLY <1>3, <1>5, <1>6, <1>7 DEF KeepsLists, OpensList, IsList
<1> QED
  BY ONLY <1>3, <1>5, <1>6, <1>7, <1>8, UnitOK(u) DEF UnitOK, Inside, SameLevels, SameLevel

LEMMA BindingPushed ==
    ASSUME NEW u, UnitOK(u), HasRecycled(u), NEW kind \in {"function", "local"},
           NEW v, v = push_binding(u, kind)
    PROVE  LevelOpened(u, v)
<1>1. PICK b : b = Len(u.binds) + 1
  OBVIOUS
<1>2. PICK a : a = AllocLevel(u, b)
  OBVIOUS
<1>3. NewLevel(u, a)
  BY ONLY UnitOK(u), HasRecycled(u), <1>2, LevelAllocated
<1>4. UnitOK(a) /\ Len(a.stmts) \in Nat
  BY <1>3 DEF NewLevel, UnitOK, IsList
<1>5. Inside(a, v) /\ OpensList(a, v)
  <2>1. CASE kind = "function"
    <3>1. v = NewBlock(a, NULL, u.fn)
      BY ONLY <2>1, v = push_binding(u, kind), <1>1, <1>2 DEF push_binding
    <3> QED
      BY ONLY <1>4, <3>1, BlockMade
  <2>2. CASE kind = "local"
    <3>1. PICK c : c = NewBlock(a, u.levels[u.cur_level].bind, NULL)
      OBVIOUS
    <3>2. v = AppendBlock(c, u.cur_level, b)
      BY ONLY <2>2, v = push_binding(u, kind), <1>1, <1>2, <3>1 DEF push_binding
    <3>3. Inside(a, c) /\ OpensList(a, c)
      BY ONLY <1>4, <3>1, BlockMade
    <3>4. Inside(c, v) /\ v.cur_stmts = c.cur_stmts
      BY ONLY <3>2, <3>3, BlockAppended DEF Inside
    <3>5. KeepsLists(a, v) /\ OpensList(a, v)
      BY ONLY <1>4, <3>3, <3>4 DEF Inside, KeepsLists, OpensList, UnitOK, IsList
    <3> QED
      BY ONLY <3>3, <3>4, <3>5 DEF Inside, SameLevels, SameLevel
  <2> QED
    BY <2>1, <2>2
<1>6. KeepsLists(u, v) /\ OpensList(u, v)
  BY ONLY <1>3, <1>5 DEF NewLevel, Inside, KeepsLists, OpensList
<1>7. /\ UnitOK(v) /\ v.fn = u.fn /\ v.decls = u.decls
      /\ v.cur_level = a.cur_level /\ v.old_levels = a.old_levels /\ Len(v.levels) = Len(a.levels)
      /\ \A j \in 1 .. Len(a.levels) : SameLevel(a.levels[j], v.levels[j])
  BY ONLY <1>3, <1>5 DEF NewLevel, Inside, SameLevels
<1>8. \A j \in 1 .. Len(u.levels) : j # a.cur_level => SameLevel(u.levels[j], v.levels[j])
  <2> SUFFICES ASSUME NEW j \in 1 .. Len(u.levels), j # a.cur_level PROVE SameLevel(u.levels[j], v.levels[j])
    OBVIOUS
  <2>1. j \in 1 .. Len(a.levels)
    BY <1>3, UnitOK(u) DEF NewLevel, UnitOK, IsList
  <2> QED
    BY <1>3, <1>7, <2>1 DEF NewLevel, SameLevel
<1> QED
  BY ONLY <1>3, <1>6, <1>7, <1>8 DEF NewLevel, LevelOpened, SameLevel

(* The stack pointer is saved or not. *)
LEMMA StackSaved ==
    ASSUME NEW u, UnitOK(u), NEW v, v = SaveStack(u)
    PROVE  Quiet(u, v) /\ v.cur_stmts = u.cur_stmts
<1>1. CASE u.levels[u.cur_level].save_stack
  <2>1. PICK x : x = Decl("save", "local", u.fn)
    OBVIOUS
  <2>2. DOMAIN x = DeclFields
    BY <2>1 DEF Decl, DeclFields
  <2>3. v = pushdecl(NewDecl(u, x), Len(u.decls) + 1)
    BY <1>1, <2>1 DEF SaveStack
  <2>4. Declared(u, v, x)
    BY ONLY UnitOK(u), <2>2, <2>3, DeclPushed
  <2> QED
    BY <2>4 DEF Declared
<1>2. CASE ~u.levels[u.cur_level].save_stack
  <2>1. v = u
    BY <1>2 DEF SaveStack
  <2> QED
    BY <2>1, ListsKept, Elsewhere DEF UnitOK
<1> QED
  BY <1>1, <1>2

LEMMA BindingPopped ==
    ASSUME NEW u, UnitOK(u), u.cur_level \in 1 .. Len(u.levels),
           u.levels[u.cur_level].prev \in Nat, u.levels[u.cur_level].prev_stmts \in Nat,
           NEW v, v = pop_binding(u).o
    PROVE  LevelClosed(u, v)
<1>1. PICK s : s = SaveStack(u)
  OBVIOUS
<1>2. PICK l : l = u.cur_level
  OBVIOUS
<1>3. PICK save : save = IF u.levels[l].save_stack THEN Len(s.decls) ELSE NULL
  OBVIOUS
<1>4. PICK w : w = LeaveLevel(s, save)
  OBVIOUS
<1>5. v = recycle(w, l)
  BY ONLY v = pop_binding(u).o, <1>1, <1>2, <1>3, <1>4 DEF pop_binding
<1>6. Quiet(u, s) /\ s.cur_stmts = u.cur_stmts
  BY ONLY UnitOK(u), <1>1, StackSaved
<1>7. UnitOK(s) /\ s.cur_level = l /\ l \in 1 .. Len(s.levels) /\ Len(s.levels) = Len(u.levels)
      /\ SameLevel(u.levels[l], s.levels[l])
  BY <1>2, <1>6 DEF Quiet, SameLevels
<1>8. PICK p : p = u.levels[l].prev
  OBVIOUS
<1>9. PICK c : c = u.levels[l].prev_stmts
  OBVIOUS
<1>10. p \in Nat /\ c \in Nat /\ s.levels[l].prev = p /\ s.levels[l].prev_stmts = c
  BY <1>2, <1>7, <1>8, <1>9 DEF SameLevel
<1>11. PICK bind : bind = [s.binds[s.levels[l].bind] EXCEPT !.body = s.cur_stmts, !.save = save,
                              !.vars = s.levels[l].first_decl, !.subs = s.levels[l].first_block]
  OBVIOUS
<1>12. PICK x : x = [s.binds EXCEPT ![s.levels[l].bind] = bind]
  OBVIOUS
<1>13. w = [s EXCEPT !.binds = x, !.cur_stmts = c, !.cur_level = p]
  <2>1. w = [s EXCEPT !.binds[s.levels[l].bind] = bind, !.cur_stmts = s.levels[l].prev_stmts, !.cur_level = s.levels[l].prev]
    BY ONLY <1>4, <1>7, <1>11 DEF LeaveLevel
  <2> QED
    BY ONLY <1>10, <1>12, <2>1
<1>14. /\ DOMAIN w = Fields /\ w.cur_level = p /\ w.old_levels = s.old_levels
       /\ w.fn = s.fn /\ w.levels = s.levels /\ w.decls = s.decls
       /\ w.cur_stmts = c /\ w.stmts = s.stmts
  BY ONLY <1>7, <1>13 DEF UnitOK, Fields
<1>15. PICK y : y = [s.levels[l] EXCEPT !.prev = s.old_levels]
  OBVIOUS
<1>16. PICK t : t = [s.levels EXCEPT ![l] = y]
  OBVIOUS
<1>17. v = [w EXCEPT !.levels = t, !.old_levels = l]
  <2>1. v = [w EXCEPT !.levels[l].prev = w.old_levels, !.old_levels = l]
    BY ONLY <1>5 DEF recycle
  <2> QED
    BY ONLY <1>14, <1>15, <1>16, <2>1
<1>18. IsList(s.levels)
  BY <1>7 DEF UnitOK
<1>19. ReplacedAt(s.levels, t, l, y)
  BY ONLY <1>16, <1>18, Replaced
<1>20. DOMAIN y = LevelFields /\ y.prev = s.old_levels /\ y.prev_stmts = c
  BY <1>7, <1>10, <1>15 DEF UnitOK, LevelFields
<1>21. /\ DOMAIN v = Fields /\ v.cur_level = p /\ v.old_levels = l
       /\ v.fn = s.fn /\ v.levels = t /\ v.decls = s.decls
       /\ v.cur_stmts = c /\ v.stmts = s.stmts
  BY ONLY <1>14, <1>17 DEF Fields
<1>22. IsList(t) /\ Len(t) = Len(s.levels) /\ t[l] = y
       /\ \A j \in 1 .. Len(s.levels) : j # l => t[j] = s.levels[j]
  BY ONLY <1>7, <1>19 DEF ReplacedAt
<1>23. \A j \in 1 .. Len(t) : DOMAIN t[j] = LevelFields
  <2> SUFFICES ASSUME NEW j \in 1 .. Len(t) PROVE DOMAIN t[j] = LevelFields
    OBVIOUS
  <2> QED
    BY <1>7, <1>20, <1>22 DEF UnitOK
<1>24. l \in Nat
  BY <1>7 DEF UnitOK
<1>25. UnitOK(v)
  BY ONLY <1>7, <1>10, <1>21, <1>22, <1>23, <1>24 DEF UnitOK
<1>26. \A j \in 1 .. Len(u.levels) : j # l => SameLevel(u.levels[j], v.levels[j])
  BY ONLY <1>6, <1>7, <1>21, <1>22 DEF Quiet, SameLevels, SameLevel
<1>27. KeepsDecls(u, v)
  BY ONLY <1>6, <1>21 DEF Quiet, KeepsDecls
<1>28. s.old_levels = u.old_levels /\ s.fn = u.fn
  BY <1>6 DEF Quiet, SameLevels
<1>29. KeepsLists(u, v)
  BY ONLY <1>6, <1>21 DEF Quiet, KeepsLists
<1> QED
  BY ONLY <1>2, <1>7, <1>8, <1>9, <1>10, <1>20, <1>21, <1>22, <1>25, <1>26, <1>27, <1>28, <1>29 DEF LevelClosed

(*------------------------------ level lists ---------------------------------*)

LEMMA FunctionIsList ==
    ASSUME NEW n \in Nat, NEW f, f = [i \in 1 .. n |-> f[i]]
    PROVE  IsList(f) /\ Len(f) = n
<1> DEFINE R == {f[i] : i \in 1 .. n}
<1>1. f \in [1 .. n -> R]
  OBVIOUS
<1> HIDE DEF R
<1>2. Len(f) = n
  BY <1>1
<1> QED
  BY <1>2 DEF IsList

(* t is x followed by s. *)
IsCons(x, s, t) ==
    /\ IsList(s) /\ IsList(t) /\ Len(t) = Len(s) + 1 /\ t[1] = x
    /\ \A i \in 1 .. Len(s) : t[i + 1] = s[i]

LEMMA ConsExists ==
    ASSUME NEW s, IsList(s), NEW x
    PROVE  \E t : IsCons(x, s, t)
<1>1. PICK n \in Nat : n = Len(s)
  BY DEF IsList
<1>2. PICK t : t = [i \in 1 .. n + 1 |-> IF i = 1 THEN x ELSE s[i - 1]]
  OBVIOUS
<1>3. t = [i \in 1 .. n + 1 |-> t[i]]
  BY <1>2
<1>4. IsList(t) /\ Len(t) = n + 1
  BY ONLY <1>3, n + 1 \in Nat, FunctionIsList
<1>5. t[1] = x
  BY <1>2
<1>6. \A i \in 1 .. n : t[i + 1] = s[i]
  BY <1>2
<1> QED
  BY <1>1, <1>4, <1>5, <1>6 DEF IsCons

LEMMA RestExists ==
    ASSUME NEW t, IsList(t), Len(t) # 0
    PROVE  \E s : IsCons(t[1], s, t)
<1>0. PICK n : n = Len(t) - 1
  OBVIOUS
<1>1. n \in Nat /\ n + 1 = Len(t)
  BY <1>0 DEF IsList
<1>2. PICK s : s = [i \in 1 .. n |-> t[i + 1]]
  OBVIOUS
<1>3. s = [i \in 1 .. n |-> s[i]]
  BY <1>2
<1>4. IsList(s) /\ Len(s) = n
  BY ONLY <1>1, <1>3, FunctionIsList
<1> QED
  BY <1>1, <1>2, <1>4 DEF IsCons

(* The levels of s are linked by prev, from level c to the last one. *)
Chained(u, c, s) ==
    /\ IsList(s)
    /\ \A i \in 1 .. Len(s) : /\ s[i] \in 1 .. Len(u.levels)
                              /\ u.levels[s[i]].prev = IF i < Len(s) THEN s[i + 1] ELSE NULL
    /\ c = IF Len(s) = 0 THEN NULL ELSE s[1]

(* The levels of s are linked in v as they are in u. *)
SameLinks(u, v, s) ==
    \A i \in 1 .. Len(s) : s[i] \in 1 .. Len(v.levels) /\ v.levels[s[i]].prev = u.levels[s[i]].prev

LEMMA ChainKept ==
    ASSUME NEW u, NEW v, NEW c, NEW s, Chained(u, c, s), SameLinks(u, v, s)
    PROVE  Chained(v, c, s)
BY DEF Chained, SameLinks

LEMMA ChainLonger ==
    ASSUME NEW u, NEW v, NEW c, NEW s, Chained(u, c, s), SameLinks(u, v, s),
           NEW x \in 1 .. Len(v.levels), v.levels[x].prev = c, NEW t, IsCons(x, s, t)
    PROVE  Chained(v, x, t)
<1>1. Len(s) \in Nat /\ Len(t) = Len(s) + 1 /\ IsList(t) /\ t[1] = x
  BY DEF IsCons, IsList
<1>2. ASSUME NEW i \in 1 .. Len(t)
      PROVE  t[i] \in 1 .. Len(v.levels) /\ v.levels[t[i]].prev = IF i < Len(t) THEN t[i + 1] ELSE NULL
  <2>1. CASE i = 1
    <3>1. v.levels[t[i]].prev = c /\ t[i] \in 1 .. Len(v.levels)
      BY <1>1, <2>1
    <3>2. CASE Len(s) = 0
      BY <1>1, <2>1, <3>1, <3>2 DEF Chained
    <3>3. CASE Len(s) # 0
      <4>1. 1 \in 1 .. Len(s) /\ i < Len(t) /\ t[i + 1] = s[1] /\ c = s[1]
        BY <1>1, <2>1, <3>3 DEF IsCons, Chained
      <4> QED
        BY <3>1, <4>1
    <3> QED
      BY <3>2, <3>3
  <2>2. CASE i # 1
    <3>1. PICK j \in 1 .. Len(s) : i = j + 1
      <4>1. i - 1 \in 1 .. Len(s) /\ i = (i - 1) + 1
        BY <1>1, <2>2
      <4> QED
        BY <4>1
    <3>2. t[i] = s[j] /\ (i < Len(t) <=> j < Len(s))
      BY <1>1, <3>1 DEF IsCons
    <3>3. j < Len(s) => t[i + 1] = s[j + 1]
      <4>1. j < Len(s) => j + 1 \in 1 .. Len(s)
        BY <1>1
      <4>2. i + 1 = (j + 1) + 1
        BY <3>1
      <4> QED
        BY <4>1, <4>2 DEF IsCons
    <3>4. s[j] \in 1 .. Len(v.levels) /\ v.levels[s[j]].prev = IF j < Len(s) THEN s[j + 1] ELSE NULL
      BY <3>1 DEF Chained, SameLinks
    <3> QED
      BY <3>2, <3>3, <3>4
  <2> QED
    BY <2>1, <2>2
<1>3. Len(t) # 0
  BY <1>1
<1> QED
  BY <1>1, <1>2, <1>3 DEF Chained

LEMMA ChainShorter ==
    ASSUME NEW u, NEW v, NEW x, NEW t, Chained(u, x, t), NEW s, NEW y, IsCons(y, s, t), SameLinks(u, v, s)
    PROVE  y = x /\ x \in 1 .. Len(u.levels) /\ Chained(v, u.levels[x].prev, s)
<1>1. Len(s) \in Nat /\ Len(t) = Len(s) + 1 /\ IsList(s) /\ t[1] = y /\ 1 \in 1 .. Len(t)
  BY DEF IsCons, IsList
<1>2. x = t[1] /\ x \in 1 .. Len(u.levels) /\ u.levels[x].prev = IF 1 < Len(t) THEN t[1 + 1] ELSE NULL
  <2>1. Len(t) # 0
    BY <1>1
  <2>2. x = t[1]
    BY <2>1 DEF Chained
  <2>3. t[1] \in 1 .. Len(u.levels) /\ u.levels[t[1]].prev = IF 1 < Len(t) THEN t[1 + 1] ELSE NULL
    BY <1>1 DEF Chained
  <2> QED
    BY <2>2, <2>3
<1>3. ASSUME NEW i \in 1 .. Len(s)
      PROVE  s[i] \in 1 .. Len(v.levels) /\ v.levels[s[i]].prev = IF i < Len(s) THEN s[i + 1] ELSE NULL
  <2>1. s[i] = t[i + 1] /\ i + 1 \in 1 .. Len(t) /\ (i < Len(s) <=> i + 1 < Len(t))
    BY <1>1 DEF IsCons
  <2>2. i < Len(s) => s[i + 1] = t[(i + 1) + 1]
    BY <1>1 DEF IsCons
  <2>3. u.levels[t[i + 1]].prev = IF i + 1 < Len(t) THEN t[(i + 1) + 1] ELSE NULL
    BY <2>1 DEF Chained
  <2>4. s[i] \in 1 .. Len(v.levels) /\ v.levels[s[i]].prev = u.levels[s[i]].prev
    BY DEF SameLinks
  <2> QED
    BY <2>1, <2>2, <2>3, <2>4
<1>4. u.levels[x].prev = IF Len(s) = 0 THEN NULL ELSE s[1]
  <2>1. Len(s) # 0 => 1 \in 1 .. Len(s) /\ t[1 + 1] = s[1]
    BY <1>1 DEF IsCons
  <2> QED
    BY <1>1, <1>2, <2>1
<1> QED
  BY <1>1, <1>2, <1>3, <1>4 DEF Chained

LEMMA ConsElements ==
    ASSUME NEW x, NEW s, NEW t, IsCons(x, s, t)
    PROVE  /\ Len(s) \in Nat /\ Len(t) = Len(s) + 1
           /\ 1 \in 1 .. Len(t) /\ t[1] = x
           /\ \A i \in 1 .. Len(t) : i # 1 => i - 1 \in 1 .. Len(s) /\ t[i] = s[i - 1]
           /\ \A i \in 1 .. Len(s) : i + 1 \in 1 .. Len(t) /\ i + 1 # 1 /\ t[i + 1] = s[i]
<1>1. Len(s) \in Nat /\ Len(t) = Len(s) + 1 /\ t[1] = x
  BY DEF IsCons, IsList
<1>2. \A i \in 1 .. Len(t) : i # 1 => i - 1 \in 1 .. Len(s) /\ (i - 1) + 1 = i
  BY <1>1
<1>3. \A i \in 1 .. Len(s) : i + 1 \in 1 .. Len(t) /\ i + 1 # 1
  BY <1>1
<1>4. 1 \in 1 .. Len(t)
  BY <1>1
<1>5. \A i \in 1 .. Len(t) : i # 1 => t[i] = s[i - 1]
  BY <1>2 DEF IsCons
<1> QED
  BY <1>1, <1>2, <1>3, <1>4, <1>5 DEF IsCons

Distinct(s) == \A i, j \in 1 .. Len(s) : s[i] = s[j] => i = j
Disjoint(s, t) == \A i \in 1 .. Len(s), j \in 1 .. Len(t) : s[i] # t[j]
Among(l, s) == \E i \in 1 .. Len(s) : s[i] = l

(* The numbers from 1 to n, each in one of two lists. *)
Partition(n, s, t) ==
    /\ Distinct(s) /\ Distinct(t) /\ Disjoint(s, t)
    /\ \A l \in 1 .. n : Among(l, s) \/ Among(l, t)
    /\ Len(s) + Len(t) = n

LEMMA AmongCons ==
    ASSUME NEW x, NEW s, NEW t, IsCons(x, s, t), NEW l
    PROVE  Among(l, t) <=> l = x \/ Among(l, s)
<1>1. Among(l, t) => l = x \/ Among(l, s)
  <2> SUFFICES ASSUME NEW i \in 1 .. Len(t), t[i] = l, l # x PROVE Among(l, s)
    BY DEF Among
  <2>1. i # 1
    BY ConsElements
  <2>2. i - 1 \in 1 .. Len(s) /\ s[i - 1] = l
    BY <2>1, ConsElements
  <2> QED
    BY <2>2 DEF Among
<1>2. l = x => Among(l, t)
  BY ConsElements DEF Among
<1>3. Among(l, s) => Among(l, t)
  <2> SUFFICES ASSUME NEW i \in 1 .. Len(s), s[i] = l PROVE Among(l, t)
    BY DEF Among
  <2>1. i + 1 \in 1 .. Len(t) /\ t[i + 1] = l
    BY ConsElements
  <2> QED
    BY <2>1 DEF Among
<1> QED
  BY <1>1, <1>2, <1>3

LEMMA DistinctCons ==
    ASSUME NEW x, NEW s, NEW t, IsCons(x, s, t)
    PROVE  Distinct(t) <=> Distinct(s) /\ ~Among(x, s)
<1>1. ASSUME Distinct(t) PROVE Distinct(s)
  <2> SUFFICES ASSUME NEW i \in 1 .. Len(s), NEW j \in 1 .. Len(s), s[i] = s[j] PROVE i = j
    BY DEF Distinct
  <2>1. i + 1 \in 1 .. Len(t) /\ j + 1 \in 1 .. Len(t) /\ t[i + 1] = t[j + 1]
    BY ConsElements
  <2>2. i + 1 = j + 1
    BY <1>1, <2>1 DEF Distinct
  <2> QED
    BY <2>2
<1>2. ASSUME Distinct(t), Among(x, s) PROVE FALSE
  <2>1. PICK i \in 1 .. Len(s) : s[i] = x
    BY <1>2 DEF Among
  <2>2. i + 1 \in 1 .. Len(t) /\ t[i + 1] = t[1] /\ 1 \in 1 .. Len(t) /\ i + 1 # 1
    BY <2>1, ConsElements
  <2> QED
    BY <1>2, <2>2 DEF Distinct
<1>3. ASSUME Distinct(s), ~Among(x, s) PROVE Distinct(t)
  <2> SUFFICES ASSUME NEW i \in 1 .. Len(t), NEW j \in 1 .. Len(t), t[i] = t[j] PROVE i = j
    BY DEF Distinct
  <2>1. i # 1 => i - 1 \in 1 .. Len(s) /\ t[i] = s[i - 1]
    BY ConsElements
  <2>2. j # 1 => j - 1 \in 1 .. Len(s) /\ t[j] = s[j - 1]
    BY ConsElements
  <2>3. t[1] = x
    BY ConsElements
  <2>4. CASE i = 1 \/ j = 1
    BY <1>3, <2>1, <2>2, <2>3, <2>4 DEF Among
  <2>5. CASE i # 1 /\ j # 1
    <3>1. i - 1 = j - 1
      BY <1>3, <2>1, <2>2, <2>5 DEF Distinct
    <3> QED
      BY <3>1
  <2> QED
    BY <2>4, <2>5
<1> QED
  BY <1>1, <1>2, <1>3

LEMMA DisjointAmong ==
    ASSUME NEW s, NEW t
    PROVE  Disjoint(s, t) <=> \A l : ~(Among(l, s) /\ Among(l, t))
BY DEF Disjoint, Among

(* An element goes from a list to the other. *)
LEMMA ElementMoved ==
    ASSUME NEW n, NEW x, NEW s, NEW s2, NEW t, NEW t2, IsCons(x, s, s2), IsCons(x, t2, t), Partition(n, s, t)
    PROVE  Partition(n, s2, t2) /\ Partition(n, t2, s2)
<1>1. Distinct(t2) /\ ~Among(x, t2)
  BY DistinctCons DEF Partition
<1>2. ~Among(x, s)
  <2>1. Among(x, t)
    BY AmongCons
  <2> QED
    BY <2>1, DisjointAmong DEF Partition
<1>3. Distinct(s2)
  BY <1>2, DistinctCons DEF Partition
<1>4. \A l : ~(Among(l, s2) /\ Among(l, t2))
  <2> SUFFICES ASSUME NEW l, Among(l, s2), Among(l, t2) PROVE FALSE
    OBVIOUS
  <2>1. Among(l, t)
    BY AmongCons
  <2>2. l # x
    BY <1>1
  <2>3. Among(l, s)
    BY <2>2, AmongCons
  <2> QED
    BY <2>1, <2>3, DisjointAmong DEF Partition
<1>5. \A l \in 1 .. n : Among(l, s2) \/ Among(l, t2)
  <2> SUFFICES ASSUME NEW l \in 1 .. n PROVE Among(l, s2) \/ Among(l, t2)
    OBVIOUS
  <2>1. Among(l, s) \/ Among(l, t)
    BY DEF Partition
  <2>2. Among(l, t) => l = x \/ Among(l, t2)
    BY AmongCons
  <2>3. l = x \/ Among(l, s) => Among(l, s2)
    BY AmongCons
  <2> QED
    BY <2>1, <2>2, <2>3
<1>6. Len(s2) + Len(t2) = n /\ Len(t2) + Len(s2) = n
  <2>1. Len(s) \in Nat /\ Len(t2) \in Nat /\ Len(s2) = Len(s) + 1 /\ Len(t) = Len(t2) + 1
    BY ConsElements
  <2> QED
    BY <2>1 DEF Partition
<1>7. Disjoint(s2, t2) /\ Disjoint(t2, s2)
  BY <1>4, DisjointAmong
<1> QED
  BY <1>1, <1>3, <1>5, <1>6, <1>7 DEF Partition

(* A new number in the first list. *)
LEMMA ElementAdded ==
    ASSUME NEW n \in Nat, NEW s, NEW s2, NEW t, IsCons(n + 1, s, s2), IsList(t), Partition(n, s, t),
           \A i \in 1 .. Len(s) : s[i] \in 1 .. n, \A i \in 1 .. Len(t) : t[i] \in 1 .. n
    PROVE  Partition(n + 1, s2, t)
<1>1. ~Among(n + 1, s) /\ ~Among(n + 1, t)
  BY DEF Among
<1>2. Distinct(s2)
  BY <1>1, DistinctCons DEF Partition
<1>3. \A l : ~(Among(l, s2) /\ Among(l, t))
  <2> SUFFICES ASSUME NEW l, Among(l, s2), Among(l, t) PROVE FALSE
    OBVIOUS
  <2>1. l = n + 1 \/ Among(l, s)
    BY AmongCons
  <2> QED
    BY <1>1, <2>1, DisjointAmong DEF Partition
<1>4. \A l \in 1 .. n + 1 : Among(l, s2) \/ Among(l, t)
  <2> SUFFICES ASSUME NEW l \in 1 .. n + 1 PROVE Among(l, s2) \/ Among(l, t)
    OBVIOUS
  <2>1. l = n + 1 \/ l \in 1 .. n
    OBVIOUS
  <2>2. l = n + 1 \/ Among(l, s) => Among(l, s2)
    BY AmongCons
  <2> QED
    BY <2>1, <2>2 DEF Partition
<1>5. Len(s2) + Len(t) = n + 1
  <2>1. Len(s) \in Nat /\ Len(t) \in Nat /\ Len(s2) = Len(s) + 1
    BY ConsElements DEF IsList
  <2>2. Len(s) + Len(t) = n
    BY DEF Partition
  <2> QED
    BY ONLY <2>1, <2>2
<1>6. Disjoint(s2, t)
  BY <1>3, DisjointAmong
<1> QED
  BY <1>2, <1>4, <1>5, <1>6 DEF Partition

(* The levels in use, innermost first, and the recycled ones. *)
LevelsOK(u, used, old) ==
    /\ Chained(u, u.cur_level, used) /\ Chained(u, u.old_levels, old)
    /\ Partition(Len(u.levels), used, old)
    /\ Len(used) # 0
    /\ \A l \in 1 .. Len(u.levels) : u.levels[l].prev_stmts \in Nat

(* The levels of s return to the lists they returned to. *)
SameReturns(u, v, s) == \A i \in 1 .. Len(s) : v.levels[s[i]].prev_stmts = u.levels[s[i]].prev_stmts

LEMMA LevelsKept ==
    ASSUME NEW u, NEW v, NEW used, NEW old, LevelsOK(u, used, old), SameLevels(u, v)
    PROVE  LevelsOK(v, used, old) /\ SameReturns(u, v, used)
<1>1. SameLinks(u, v, used) /\ SameLinks(u, v, old)
  BY DEF LevelsOK, Chained, SameLevels, SameLevel, SameLinks
<1>2. Chained(v, v.cur_level, used) /\ Chained(v, v.old_levels, old)
  BY <1>1, ChainKept DEF LevelsOK, SameLevels
<1>3. Partition(Len(v.levels), used, old)
  BY DEF LevelsOK, SameLevels
<1>4. \A l \in 1 .. Len(v.levels) : v.levels[l].prev_stmts \in Nat
  BY DEF LevelsOK, SameLevels, SameLevel
<1>5. SameReturns(u, v, used)
  BY DEF LevelsOK, Chained, SameLevels, SameLevel, SameReturns
<1> QED
  BY <1>2, <1>3, <1>4, <1>5 DEF LevelsOK

LEMMA RecycledLevels ==
    ASSUME NEW u, NEW used, NEW old, LevelsOK(u, used, old), u.old_levels # NULL
    PROVE  u.old_levels \in 1 .. Len(u.levels) /\ Len(old) # 0 /\ old[1] = u.old_levels
<1>1. Len(old) # 0 /\ u.old_levels = old[1]
  BY DEF LevelsOK, Chained
<1>2. 1 \in 1 .. Len(old)
  BY <1>1 DEF LevelsOK, Chained, IsList
<1> QED
  BY <1>1, <1>2 DEF LevelsOK, Chained

(* A level more is in use. *)
LEMMA LevelMore ==
    ASSUME NEW u, UnitOK(u), NEW used, NEW old, LevelsOK(u, used, old), NEW v, LevelOpened(u, v)
    PROVE  /\ \E used2, old2 : /\ LevelsOK(v, used2, old2) /\ IsCons(v.cur_level, used, used2)
                               /\ SameReturns(u, v, used)
           /\ v.levels[v.cur_level].prev_stmts = u.cur_stmts
<1>1. PICK l : l = v.cur_level
  OBVIOUS
<1>2. PICK n : n = Len(u.levels)
  OBVIOUS
<1>3. /\ n \in Nat /\ Len(used) \in Nat /\ Len(old) \in Nat /\ IsList(used) /\ IsList(old)
      /\ Partition(n, used, old)
      /\ \A i \in 1 .. Len(used) : used[i] \in 1 .. n
      /\ \A i \in 1 .. Len(old) : old[i] \in 1 .. n
  BY <1>2 DEF UnitOK, LevelsOK, Chained, IsList
<1>4. PICK used2 : IsCons(l, used, used2)
  BY <1>3, ConsExists
<1>5. /\ v.levels[l].prev = u.cur_level /\ v.levels[l].prev_stmts = u.cur_stmts
      /\ \A j \in 1 .. n : j # l => SameLevel(u.levels[j], v.levels[j])
      /\ u.cur_stmts \in Nat
  BY <1>1, <1>2 DEF LevelOpened, UnitOK
<1>6. PICK old2 : /\ Partition(Len(v.levels), used2, old2) /\ Chained(v, v.old_levels, old2)
                  /\ l \in 1 .. Len(v.levels) /\ ~Among(l, used)
                  /\ \A j \in 1 .. Len(v.levels) : j = l \/ j \in 1 .. n
                  /\ \A j \in 1 .. n : j \in 1 .. Len(v.levels)
  <2>1. CASE u.old_levels = NULL
    <3>1. l = n + 1 /\ Len(v.levels) = n + 1 /\ v.old_levels = NULL
      BY <1>1, <1>2, <2>1 DEF LevelOpened
    <3>2. Partition(Len(v.levels), used2, old)
      BY <1>3, <1>4, <3>1, ElementAdded
    <3>3. SameLinks(u, v, old)
      BY <1>3, <1>5, <3>1 DEF SameLinks, SameLevel
    <3>4. Chained(v, v.old_levels, old)
      BY <2>1, <3>1, <3>3, ChainKept DEF LevelsOK
    <3>5. ~Among(l, used)
      BY <1>3, <3>1 DEF Among
    <3>6. l \in 1 .. Len(v.levels) /\ (\A j \in 1 .. Len(v.levels) : j = l \/ j \in 1 .. n)
          /\ \A j \in 1 .. n : j \in 1 .. Len(v.levels)
      BY <1>3, <3>1
    <3> QED
      BY <3>2, <3>4, <3>5, <3>6
  <2>2. CASE u.old_levels # NULL
    <3>1. /\ l = u.old_levels /\ Len(v.levels) = n /\ v.old_levels = u.levels[l].prev
      BY <1>1, <1>2, <2>2 DEF LevelOpened
    <3>2. l \in 1 .. n /\ Len(old) # 0 /\ old[1] = l
      BY <1>2, <2>2, <3>1, RecycledLevels
    <3>3. PICK old2 : IsCons(l, old2, old)
      BY <1>3, <3>2, RestExists
    <3>4. Partition(n, used2, old2)
      BY <1>3, <1>4, <3>3, ElementMoved
    <3>5. Distinct(old) /\ Disjoint(used, old)
      BY <1>3 DEF Partition
    <3>6. ~Among(l, old2)
      BY <3>3, <3>5, DistinctCons
    <3>7. ~Among(l, used)
      <4>1. Among(l, old)
        BY <3>3, AmongCons
      <4> QED
        BY <3>5, <4>1, DisjointAmong
    <3>8. SameLinks(u, v, old2)
      <4> SUFFICES ASSUME NEW i \in 1 .. Len(old2)
                   PROVE  old2[i] \in 1 .. Len(v.levels) /\ v.levels[old2[i]].prev = u.levels[old2[i]].prev
        BY DEF SameLinks
      <4>1. i + 1 \in 1 .. Len(old) /\ old2[i] = old[i + 1]
        BY <3>3, ConsElements
      <4>2. old2[i] \in 1 .. n /\ old2[i] # l
        BY <1>3, <3>6, <4>1 DEF Among
      <4> QED
        BY <1>5, <3>1, <4>2 DEF SameLevel
    <3>9. Chained(u, l, old)
      BY <3>1 DEF LevelsOK
    <3>10. Chained(v, u.levels[l].prev, old2)
      BY <3>3, <3>8, <3>9, ChainShorter
    <3>11. l \in 1 .. Len(v.levels) /\ (\A j \in 1 .. Len(v.levels) : j = l \/ j \in 1 .. n)
           /\ \A j \in 1 .. n : j \in 1 .. Len(v.levels)
      BY <3>1, <3>2
    <3>12. Partition(Len(v.levels), used2, old2) /\ Chained(v, v.old_levels, old2)
      BY <3>1, <3>4, <3>10
    <3> QED
      BY <3>7, <3>11, <3>12
  <2> QED
    BY <2>1, <2>2
<1>7. \A i \in 1 .. Len(used) : used[i] \in 1 .. n /\ used[i] # l
  BY <1>3, <1>6 DEF Among
<1>8. SameLinks(u, v, used)
  BY <1>5, <1>6, <1>7 DEF SameLinks, SameLevel
<1>9. Chained(v, v.cur_level, used2)
  <2>1. Chained(u, u.cur_level, used)
    BY DEF LevelsOK
  <2> QED
    BY <1>1, <1>4, <1>5, <1>6, <1>8, <2>1, ChainLonger
<1>10. \A j \in 1 .. Len(v.levels) : v.levels[j].prev_stmts \in Nat
  <2> SUFFICES ASSUME NEW j \in 1 .. Len(v.levels) PROVE v.levels[j].prev_stmts \in Nat
    OBVIOUS
  <2>1. j # l => j \in 1 .. n /\ u.levels[j].prev_stmts \in Nat
    BY <1>2, <1>6 DEF LevelsOK
  <2> QED
    BY <1>5, <2>1 DEF SameLevel
<1>11. Len(used2) = Len(used) + 1 /\ Len(used) # 0
  BY <1>4 DEF IsCons, LevelsOK
<1>12. SameReturns(u, v, used)
  BY <1>5, <1>7 DEF SameLevel, SameReturns
<1>13. LevelsOK(v, used2, old2)
  BY <1>3, <1>6, <1>9, <1>10, <1>11 DEF LevelsOK
<1> QED
  BY <1>1, <1>4, <1>5, <1>12, <1>13

LEMMA AtLeastTwo ==
    ASSUME NEW m \in Nat, m # 0, m # 1
    PROVE  1 \in 1 .. m /\ 1 + 1 \in 1 .. m /\ 1 < m
OBVIOUS

(* What the current level is, when it is not the global one. *)
LEMMA CurrentLevel ==
    ASSUME NEW u, NEW used, NEW old, LevelsOK(u, used, old), Len(used) # 1
    PROVE  /\ u.cur_level \in 1 .. Len(u.levels) /\ used[1] = u.cur_level
           /\ u.levels[u.cur_level].prev_stmts \in Nat
           /\ u.levels[u.cur_level].prev \in 1 .. Len(u.levels)
<1>1. Len(used) \in Nat /\ Len(used) # 0
  BY DEF LevelsOK, Chained, IsList
<1>2. 1 \in 1 .. Len(used) /\ 1 + 1 \in 1 .. Len(used) /\ 1 < Len(used)
  <2>1. Len(used) # 1
    OBVIOUS
  <2> QED
    BY ONLY <1>1, <2>1, AtLeastTwo
<1>3. u.cur_level = used[1]
  BY <1>1 DEF LevelsOK, Chained
<1>4. used[1] \in 1 .. Len(u.levels) /\ u.levels[used[1]].prev = used[1 + 1] /\ used[1 + 1] \in 1 .. Len(u.levels)
  BY <1>2 DEF LevelsOK, Chained
<1>5. u.levels[used[1]].prev_stmts \in Nat
  BY <1>4 DEF LevelsOK
<1> QED
  BY <1>3, <1>4, <1>5

(* A level less is in use. *)
LEMMA LevelLess ==
    ASSUME NEW u, UnitOK(u), NEW used, NEW old, LevelsOK(u, used, old), Len(used) # 1,
           NEW v, LevelClosed(u, v)
    PROVE  \E used2, old2 : /\ LevelsOK(v, used2, old2) /\ IsCons(u.cur_level, used2, used)
                            /\ SameReturns(u, v, used2)
<1>1. PICK l : l = u.cur_level
  OBVIOUS
<1>2. PICK n : n = Len(u.levels)
  OBVIOUS
<1>3. /\ n \in Nat /\ Len(used) \in Nat /\ Len(used) # 0 /\ Len(old) \in Nat /\ IsList(used) /\ IsList(old)
      /\ Partition(n, used, old)
      /\ \A i \in 1 .. Len(used) : used[i] \in 1 .. n
      /\ \A i \in 1 .. Len(old) : old[i] \in 1 .. n
  BY <1>2 DEF UnitOK, LevelsOK, Chained, IsList
<1>4. l \in 1 .. n /\ used[1] = l
  BY <1>1, <1>2, CurrentLevel
<1>5. PICK used2 : IsCons(l, used2, used)
  BY <1>3, <1>4, RestExists
<1>6. PICK old2 : IsCons(l, old, old2)
  BY <1>3, ConsExists
<1>7. /\ v.cur_stmts = u.levels[l].prev_stmts /\ v.cur_level = u.levels[l].prev
      /\ v.old_levels = l /\ Len(v.levels) = n
      /\ v.levels[l].prev = u.old_levels /\ v.levels[l].prev_stmts \in Nat
      /\ \A j \in 1 .. n : j # l => SameLevel(u.levels[j], v.levels[j])
  BY <1>1, <1>2 DEF LevelClosed
<1>8. Partition(n, used2, old2)
  <2>1. Partition(n, old, used)
    <3>1. Len(old) + Len(used) = n
      <4>1. Len(used) + Len(old) = n
        BY <1>3 DEF Partition
      <4> QED
        BY <1>3, <4>1
    <3> QED
      BY <1>3, <3>1 DEF Partition, Disjoint
  <2> QED
    BY <1>5, <1>6, <2>1, ElementMoved
<1>9. ~Among(l, used2)
  BY <1>3, <1>5, DistinctCons DEF Partition
<1>10. ~Among(l, old)
  <2>1. Among(l, used)
    BY <1>5, AmongCons
  <2> QED
    BY <1>3, <2>1, DisjointAmong DEF Partition
<1>11. \A i \in 1 .. Len(used2) : used2[i] \in 1 .. n /\ used2[i] # l
  <2> SUFFICES ASSUME NEW i \in 1 .. Len(used2) PROVE used2[i] \in 1 .. n /\ used2[i] # l
    OBVIOUS
  <2>1. i + 1 \in 1 .. Len(used) /\ used2[i] = used[i + 1]
    BY <1>5, ConsElements
  <2> QED
    BY <1>3, <1>9, <2>1 DEF Among
<1>12. \A i \in 1 .. Len(old) : old[i] \in 1 .. n /\ old[i] # l
  BY <1>3, <1>10 DEF Among
<1>13. SameLinks(u, v, used2) /\ SameLinks(u, v, old)
  BY <1>7, <1>11, <1>12 DEF SameLinks, SameLevel
<1>14. Chained(v, v.cur_level, used2)
  <2>1. Chained(u, l, used)
    BY <1>1 DEF LevelsOK
  <2>2. Chained(v, u.levels[l].prev, used2)
    BY <1>5, <1>13, <2>1, ChainShorter
  <2> QED
    BY <1>7, <2>2
<1>15. Chained(v, v.old_levels, old2)
  <2>1. Chained(u, u.old_levels, old) /\ l \in 1 .. Len(v.levels)
    BY <1>4, <1>7 DEF LevelsOK
  <2>2. Chained(v, l, old2)
    BY <1>6, <1>7, <1>13, <2>1, ChainLonger
  <2> QED
    BY <1>7, <2>2
<1>16. \A j \in 1 .. n : v.levels[j].prev_stmts \in Nat
  BY <1>2, <1>7 DEF LevelsOK, SameLevel
<1>17. Len(used) = Len(used2) + 1 /\ Len(used2) \in Nat
  BY <1>5, ConsElements
<1>18. SameReturns(u, v, used2)
  BY <1>7, <1>11 DEF SameLevel, SameReturns
<1>19. Len(used2) # 0
  <2>1. Len(used) # 1
    OBVIOUS
  <2> QED
    BY ONLY <1>17, <2>1
<1>20. LevelsOK(v, used2, old2)
  BY <1>7, <1>8, <1>14, <1>15, <1>16, <1>19 DEF LevelsOK
<1> QED
  BY <1>1, <1>5, <1>18, <1>20

(* What the client sees of the lists. *)
LEMMA LevelsListed ==
    ASSUME UnitOK(o), NEW used, NEW old, LevelsOK(o, used, old)
    PROVE  LevelsFrom(o.cur_level) = used /\ LevelsFrom(o.old_levels) = old
<1>1. PICK link : link = [i \in DOMAIN o.levels |-> o.levels[i].prev]
  OBVIOUS
<1>2. PICK n : n = Len(o.levels)
  OBVIOUS
<1>3. n \in Nat /\ DOMAIN o.levels = 1 .. n
  BY <1>2 DEF UnitOK, IsList
<1>4. \A l \in 1 .. n : link[l] = o.levels[l].prev
  BY <1>1, <1>3
<1>5. ASSUME NEW c, NEW s, Chained(o, c, s), Len(s) <= n
      PROVE  LevelsFrom(c) = s
  <2>1. Len(s) \in Nat /\ IsList(s)
    BY <1>5 DEF Chained, IsList
  <2>2. ASSUME NEW i \in 1 .. Len(s)
        PROVE  s[i] # NULL /\ link[s[i]] = IF i < Len(s) THEN s[i + 1] ELSE NULL
    <3>1. s[i] \in 1 .. n /\ o.levels[s[i]].prev = IF i < Len(s) THEN s[i + 1] ELSE NULL
      BY <1>2, <1>5 DEF Chained
    <3> QED
      BY <1>3, <1>4, <3>1 DEF NULL
  <2>3. IF Len(s) = 0 THEN c = NULL ELSE c = s[1] /\ link[s[Len(s)]] = NULL
    <3>1. Len(s) # 0 => Len(s) \in 1 .. Len(s) /\ ~(Len(s) < Len(s))
      BY <2>1
    <3> QED
      BY <1>5, <2>2, <3>1 DEF Chained
  <2>4. IsPath(link, c, s)
    BY <2>1, <2>2, <2>3 DEF IsPath
  <2>5. Linked(link, c, n) = s
    BY ONLY <1>3, <1>5, <2>4, LinkedPath
  <2> QED
    BY ONLY <1>1, <1>2, <2>5 DEF LevelsFrom
<1>6. Len(used) <= n /\ Len(old) <= n
  <2>1. Len(used) \in Nat /\ Len(old) \in Nat /\ Len(used) + Len(old) = n
    BY <1>2 DEF LevelsOK, Chained, IsList, Partition
  <2> QED
    BY <1>3, <2>1
<1> QED
  BY <1>5, <1>6 DEF LevelsOK

(* The two lists hold every level once. *)
LEMMA LevelsApart ==
    ASSUME NEW n, NEW s, NEW t, IsList(s), IsList(t), Partition(n, s, t),
           \A i \in 1 .. Len(s) : s[i] \in 1 .. n, \A i \in 1 .. Len(t) : t[i] \in 1 .. n
    PROVE  IsInjective(s \o t) /\ Range(s \o t) = 1 .. n
<1>1. PICK w : w = s \o t
  OBVIOUS
<1>2. PICK p : p = Len(s)
  OBVIOUS
<1>3. PICK q : q = Len(t)
  OBVIOUS
<1>4. p \in Nat /\ q \in Nat /\ s \in Seq(1 .. n) /\ t \in Seq(1 .. n)
  <2>1. p \in Nat /\ q \in Nat
    BY <1>2, <1>3 DEF IsList
  <2>2. s = [i \in 1 .. p |-> s[i]] /\ t = [i \in 1 .. q |-> t[i]]
    BY <1>2, <1>3 DEF IsList
  <2>3. s \in [1 .. p -> 1 .. n] /\ t \in [1 .. q -> 1 .. n]
    BY <1>2, <1>3, <2>2
  <2>4. PICK R : R = 1 .. n
    OBVIOUS
  <2>5. s \in [1 .. p -> R] /\ t \in [1 .. q -> R]
    BY <2>3, <2>4
  <2>6. s \in Seq(R) /\ t \in Seq(R)
    BY ONLY <2>1, <2>5
  <2> QED
    BY <2>1, <2>4, <2>6
<1>5. Len(w) = p + q /\ DOMAIN w = 1 .. p + q
  BY <1>1, <1>2, <1>3, <1>4, LenProperties
<1>6. \A i \in 1 .. p + q : w[i] = IF i <= p THEN s[i] ELSE t[i - p]
  BY <1>1, <1>2, <1>3, <1>4
<1>7. \A i \in 1 .. p + q : i <= p => i \in 1 .. p
  BY <1>4
<1>8. \A i \in 1 .. p + q : ~(i <= p) => i - p \in 1 .. q
  BY <1>4
<1>9. IsInjective(w)
  <2> SUFFICES ASSUME NEW i \in 1 .. p + q, NEW j \in 1 .. p + q, w[i] = w[j] PROVE i = j
    BY <1>5 DEF IsInjective
  <2>1. CASE i <= p /\ j <= p
    BY <1>2, <1>6, <1>7, <2>1 DEF Partition, Distinct
  <2>2. CASE i <= p /\ ~(j <= p)
    BY <1>2, <1>3, <1>6, <1>7, <1>8, <2>2 DEF Partition, Disjoint
  <2>3. CASE ~(i <= p) /\ j <= p
    BY <1>2, <1>3, <1>6, <1>7, <1>8, <2>3 DEF Partition, Disjoint
  <2>4. CASE ~(i <= p) /\ ~(j <= p)
    <3>1. i - p = j - p
      BY <1>3, <1>6, <1>8, <2>4 DEF Partition, Distinct
    <3> QED
      BY <1>4, <3>1
  <2> QED
    BY <2>1, <2>2, <2>3, <2>4
<1>10. \A i \in 1 .. p + q : w[i] \in 1 .. n
  BY <1>2, <1>3, <1>6, <1>7, <1>8
<1>11. \A l \in 1 .. n : \E i \in 1 .. p + q : w[i] = l
  <2> SUFFICES ASSUME NEW l \in 1 .. n PROVE \E i \in 1 .. p + q : w[i] = l
    OBVIOUS
  <2>1. CASE Among(l, s)
    <3>1. PICK i \in 1 .. p : s[i] = l
      BY <1>2, <2>1 DEF Among
    <3>2. i \in 1 .. p + q /\ i <= p
      BY <1>4
    <3> QED
      BY <1>6, <3>1, <3>2
  <2>2. CASE Among(l, t)
    <3>1. PICK i \in 1 .. q : t[i] = l
      BY <1>3, <2>2 DEF Among
    <3>2. p + i \in 1 .. p + q /\ ~(p + i <= p) /\ (p + i) - p = i
      BY <1>4
    <3> QED
      BY <1>6, <3>1, <3>2
  <2> QED
    BY <2>1, <2>2 DEF Partition
<1>12. Range(w) = 1 .. n
  BY <1>5, <1>10, <1>11 DEF Range
<1> QED
  BY <1>1, <1>9, <1>12

(*--------------------------- the client's frames ----------------------------*)

FrameFields == {"k", "block", "parts", "choices", "vars", "subs", "func", "list"}
IsRegion(f) == f.k \in {"declare", "body"}

(* The block of a conditional or case statement knows the enclosing list. *)
FrameOK(f) ==
    /\ DOMAIN f = FrameFields
    /\ f.k = "if" => f.block.prev_stmts \in Nat
    /\ f.k = "case" => IsCaseBlock(f.block)

(* Everything is inside a subprogram. *)
FramesOK(s) ==
    /\ IsList(s) /\ \A i \in 1 .. Len(s) : FrameOK(s[i])
    /\ Len(s) # 0 => s[1].k = "body"

(* The frames of t are those of s, with another text; statements go to the     *)
(* list l, or to the one they went to.                                         *)
SameFrame(x, y) ==
    y.k = x.k /\ y.func = x.func /\ (x.k \in {"if", "case"} => y.block.prev_stmts = x.block.prev_stmts)

Refilled(s, t, l) ==
    /\ IsList(t) /\ Len(t) = Len(s)
    /\ \A i \in 1 .. Len(s) : /\ FrameOK(t[i]) /\ SameFrame(s[i], t[i])
                              /\ t[i].list = IF i = Len(s) THEN l ELSE s[i].list

SameFrames(s, t) == Refilled(s, t, ListOf(s, Len(s)))

(* The subprogram around the frames from 1 to n. *)
IsHome(s, n, h) ==
    \/ h = NULL /\ \A i \in 1 .. n : s[i].k # "body"
    \/ \E i \in 1 .. n : /\ s[i].k = "body" /\ h = s[i].func
                         /\ \A m \in 1 .. n : m > i => s[m].k # "body"

(* A subprogram is declared where its body is. *)
HomesOK(s, kn) ==
    \A j \in 1 .. Len(s) : s[j].k = "body" => /\ s[j].func \in DOMAIN kn
                                              /\ IsHome(s, j - 1, kn[s[j].func].home)

RegionSet(s) == {i \in 1 .. Len(s) : IsRegion(s[i])}

LEMMA FrameTouched ==
    ASSUME NEW s, IsList(s), \A j \in 1 .. Len(s) : FrameOK(s[j]), NEW i, NEW y,
           i \in 1 .. Len(s) => FrameOK(y) /\ SameFrame(s[i], y) /\ y.list = s[i].list,
           NEW t, t = [s EXCEPT ![i] = y]
    PROVE  SameFrames(s, t)
<1>1. ReplacedAt(s, t, i, y)
  BY ONLY IsList(s), t = [s EXCEPT ![i] = y], Replaced
<1>2. \A j \in 1 .. Len(s) : FrameOK(t[j]) /\ SameFrame(s[j], t[j]) /\ t[j].list = s[j].list
  BY <1>1 DEF ReplacedAt, SameFrame
<1> QED
  BY <1>1, <1>2 DEF ReplacedAt, SameFrames, Refilled, ListOf

LEMMA TextAdded ==
    ASSUME NEW s, IsList(s), \A j \in 1 .. Len(s) : FrameOK(s[j]), NEW x, NEW t, t = WithText(s, x)
    PROVE  SameFrames(s, t)
<1>1. PICK n : n = Len(s)
  OBVIOUS
<1>2. PICK p : p = [s[n].parts EXCEPT ![Len(s[n].parts)] = Append(@, x)]
  OBVIOUS
<1>3. PICK y : y = [s[n] EXCEPT !.parts = p]
  OBVIOUS
<1>4. t = [s EXCEPT ![n] = y]
  BY ONLY <1>1, <1>2, <1>3, t = WithText(s, x) DEF WithText, Last
<1>5. n \in 1 .. Len(s) => FrameOK(y) /\ SameFrame(s[n], y) /\ y.list = s[n].list
  BY <1>3 DEF FrameOK, FrameFields, SameFrame
<1> QED
  BY ONLY IsList(s), \A j \in 1 .. Len(s) : FrameOK(s[j]), <1>4, <1>5, FrameTouched

LEMMA FramesAgain ==
    ASSUME NEW s, NEW t, FramesOK(s), NEW l, Refilled(s, t, l)
    PROVE  /\ FramesOK(t) /\ Len(t) = Len(s) /\ RegionSet(t) = RegionSet(s)
           /\ \A n \in Nat : \A h : n <= Len(s) => (IsHome(t, n, h) <=> IsHome(s, n, h))
           /\ \A kn : HomesOK(s, kn) => HomesOK(t, kn)
<1>1. Len(s) \in Nat /\ Len(t) = Len(s) /\ \A i \in 1 .. Len(s) : t[i].k = s[i].k /\ t[i].func = s[i].func
  BY DEF FramesOK, Refilled, SameFrame, IsList
<1>2. FramesOK(t)
  <2>1. Len(s) # 0 => 1 \in 1 .. Len(s)
    BY <1>1
  <2> QED
    BY <1>1, <2>1 DEF FramesOK, Refilled
<1>3. RegionSet(t) = RegionSet(s)
  BY <1>1 DEF RegionSet, IsRegion
<1>4. ASSUME NEW n \in Nat, NEW h, n <= Len(s)
      PROVE  IsHome(t, n, h) <=> IsHome(s, n, h)
  <2>1. \A i \in 1 .. n : t[i].k = s[i].k /\ t[i].func = s[i].func
    BY <1>1, <1>4
  <2> QED
    BY ONLY <2>1 DEF IsHome
<1>5. ASSUME NEW kn, HomesOK(s, kn), NEW j \in 1 .. Len(t), t[j].k = "body"
      PROVE  t[j].func \in DOMAIN kn /\ IsHome(t, j - 1, kn[t[j].func].home)
  <2>1. j \in 1 .. Len(s) /\ j - 1 \in Nat /\ j - 1 <= Len(s)
    BY <1>1
  <2>2. s[j].k = "body" /\ t[j].func = s[j].func
    BY <1>1, <1>5, <2>1
  <2>3. s[j].func \in DOMAIN kn /\ IsHome(s, j - 1, kn[s[j].func].home)
    BY <1>5, <2>1, <2>2 DEF HomesOK
  <2> QED
    BY <1>4, <2>1, <2>2, <2>3
<1>6. \A kn : HomesOK(s, kn) => HomesOK(t, kn)
  BY <1>5 DEF HomesOK
<1> QED
  BY <1>1, <1>2, <1>3, <1>4, <1>6

(* t is s with a frame more. *)
Framed(s, t, x) ==
    /\ IsList(t) /\ Len(t) = Len(s) + 1 /\ t[Len(s) + 1] = x
    /\ \A i \in 1 .. Len(s) : t[i] = s[i]

LEMMA HomeBelow ==
    ASSUME NEW s, NEW t, NEW x, IsList(s), Framed(s, t, x)
    PROVE  /\ \A n \in Nat : \A h : n <= Len(s) => (IsHome(t, n, h) <=> IsHome(s, n, h))
           /\ \A h : x.k # "body" => (IsHome(t, Len(t), h) <=> IsHome(s, Len(s), h))
           /\ \A h : x.k = "body" => (IsHome(t, Len(t), h) <=> h = x.func)
<1>1. PICK n : n = Len(s)
  OBVIOUS
<1>2. n \in Nat /\ Len(t) = n + 1 /\ t[n + 1] = x /\ \A i \in 1 .. n : t[i] = s[i]
  BY <1>1 DEF Framed, IsList
<1>3. ASSUME NEW m \in Nat, NEW h, m <= n
      PROVE  IsHome(t, m, h) <=> IsHome(s, m, h)
  <2>1. \A i \in 1 .. m : t[i] = s[i]
    BY <1>2, <1>3
  <2> QED
    BY ONLY <2>1 DEF IsHome
<1>4. ASSUME NEW h, x.k # "body"
      PROVE  IsHome(t, n + 1, h) <=> IsHome(t, n, h)
  <2>1. \A i \in 1 .. n + 1 : i \in 1 .. n \/ (i = n + 1 /\ t[i].k # "body")
    BY <1>2, <1>4
  <2>2. \A i \in 1 .. n : i \in 1 .. n + 1
    BY <1>2
  <2> QED
    BY <2>1, <2>2 DEF IsHome
<1>5. ASSUME NEW h, x.k = "body"
      PROVE  IsHome(t, n + 1, h) <=> h = x.func
  <2>1. n + 1 \in 1 .. n + 1 /\ t[n + 1].k = "body" /\ t[n + 1].func = x.func
    BY <1>2, <1>5
  <2>2. \A m \in 1 .. n + 1 : ~(m > n + 1)
    BY <1>2
  <2>3. \A i \in 1 .. n + 1 : i = n + 1 \/ n + 1 > i
    BY <1>2
  <2> QED
    BY <2>1, <2>2, <2>3 DEF IsHome
<1>6. n <= n
  BY <1>2
<1>7. \A h : IsHome(t, n, h) <=> IsHome(s, n, h)
  BY <1>2, <1>3, <1>6
<1> QED
  BY <1>1, <1>2, <1>3, <1>4, <1>5, <1>7

LEMMA FramePushed ==
    ASSUME NEW s, FramesOK(s), NEW x, NEW t, t = Append(s, x)
    PROVE  Framed(s, t, x)
<1>1. Lengthened(s, t, x)
  BY Longer DEF FramesOK
<1> QED
  BY <1>1 DEF Lengthened, Framed

LEMMA FramePopped ==
    ASSUME NEW t, FramesOK(t), Len(t) # 0, NEW s, s = Front(t)
    PROVE  Framed(s, t, t[Len(t)]) /\ Last(t) = t[Len(t)] /\ FramesOK(s)
<1>1. PICK n : n = Len(t) - 1
  OBVIOUS
<1>2. n \in Nat /\ n + 1 = Len(t) /\ IsList(t)
  BY <1>1 DEF FramesOK, IsList
<1>3. s = SubSeq(t, 1, n)
  BY <1>1 DEF Front
<1>4. IsList(s) /\ Len(s) = n /\ \A i \in 1 .. n : s[i] = t[i]
  <2>1. PICK R : R = {t[i] : i \in 1 .. n}
    OBVIOUS
  <2>2. \A i \in 1 .. n : t[i] \in R
    BY <2>1
  <2>3. /\ s \in Seq(R) /\ Len(s) = (IF 1 <= n THEN n - 1 + 1 ELSE 0)
        /\ \A i \in 1 .. n - 1 + 1 : s[i] = t[1 + i - 1]
    BY ONLY <1>2, <1>3, <2>2, SubSeqProperties
  <2>4. Len(s) = n /\ n - 1 + 1 = n
    BY <1>2, <2>3
  <2>5. s = [i \in 1 .. Len(s) |-> s[i]]
    BY <2>3
  <2>6. \A i \in 1 .. n : s[i] = t[i]
    BY <1>2, <2>3, <2>4
  <2> QED
    BY <1>2, <2>4, <2>5, <2>6 DEF IsList
<1>7. Framed(s, t, t[Len(t)])
  BY ONLY <1>2, <1>4 DEF Framed
<1>8. FramesOK(s)
  <2>1. \A i \in 1 .. n : i \in 1 .. Len(t)
    BY <1>2
  <2>2. n # 0 => 1 \in 1 .. n
    BY <1>2
  <2> QED
    BY <1>4, <2>1, <2>2 DEF FramesOK
<1> QED
  BY <1>7, <1>8 DEF Last

(* A frame more that is well made keeps the frames well made. *)
LEMMA FramesMore ==
    ASSUME NEW s, FramesOK(s), NEW x, FrameOK(x), NEW t, Framed(s, t, x), Len(s) = 0 => x.k = "body"
    PROVE  FramesOK(t)
<1>1. Len(s) \in Nat /\ Len(t) = Len(s) + 1 /\ IsList(t) /\ t[Len(s) + 1] = x
      /\ \A i \in 1 .. Len(s) : t[i] = s[i]
  BY DEF FramesOK, Framed, IsList
<1>2. \A i \in 1 .. Len(t) : i = Len(s) + 1 \/ i \in 1 .. Len(s)
  BY <1>1
<1>3. \A i \in 1 .. Len(t) : FrameOK(t[i])
  BY <1>1, <1>2 DEF FramesOK
<1>4. t[1].k = "body"
  <2>1. CASE Len(s) = 0
    <3>1. t[0 + 1] = x
      BY <1>1, <2>1
    <3>2. t[1] = x
      BY <3>1
    <3> QED
      BY <2>1, <3>2
  <2>2. CASE Len(s) # 0
    <3>1. 1 \in 1 .. Len(s)
      BY <1>1, <2>2
    <3> QED
      BY <1>1, <2>2, <3>1 DEF FramesOK
  <2> QED
    BY <2>1, <2>2
<1> QED
  BY <1>1, <1>3, <1>4 DEF FramesOK

(* The subprograms of the frames that stay are where they were. *)
LEMMA HomesLess ==
    ASSUME NEW s, NEW t, NEW x, NEW kn, IsList(s), Framed(s, t, x), HomesOK(t, kn)
    PROVE  HomesOK(s, kn)
<1> SUFFICES ASSUME NEW j \in 1 .. Len(s), s[j].k = "body"
             PROVE  s[j].func \in DOMAIN kn /\ IsHome(s, j - 1, kn[s[j].func].home)
  BY DEF HomesOK
<1>1. j \in 1 .. Len(t) /\ j - 1 \in Nat /\ j - 1 <= Len(s) /\ t[j] = s[j]
  BY DEF Framed, IsList
<1>2. s[j].func \in DOMAIN kn /\ IsHome(t, j - 1, kn[s[j].func].home)
  BY <1>1 DEF HomesOK
<1> QED
  BY <1>1, <1>2, HomeBelow

LEMMA HomesMore ==
    ASSUME NEW s, NEW t, NEW x, NEW kn, IsList(s), Framed(s, t, x), HomesOK(s, kn),
           x.k = "body" => x.func \in DOMAIN kn /\ IsHome(s, Len(s), kn[x.func].home)
    PROVE  HomesOK(t, kn)
<1> SUFFICES ASSUME NEW j \in 1 .. Len(t), t[j].k = "body"
             PROVE  t[j].func \in DOMAIN kn /\ IsHome(t, j - 1, kn[t[j].func].home)
  BY DEF HomesOK
<1>1. Len(s) \in Nat /\ Len(t) = Len(s) + 1 /\ t[Len(s) + 1] = x /\ \A i \in 1 .. Len(s) : t[i] = s[i]
  BY DEF Framed, IsList
<1>2. CASE j = Len(s) + 1
  <2>1. j - 1 = Len(s) /\ Len(s) <= Len(s) /\ t[j] = x
    BY <1>1, <1>2
  <2>2. IsHome(s, Len(s), kn[x.func].home) => IsHome(t, Len(s), kn[x.func].home)
    BY <1>1, <2>1, HomeBelow
  <2> QED
    BY <2>1, <2>2
<1>3. CASE j # Len(s) + 1
  <2>1. j \in 1 .. Len(s) /\ j - 1 \in Nat /\ j - 1 <= Len(s) /\ t[j] = s[j]
    BY <1>1, <1>3
  <2>2. s[j].func \in DOMAIN kn /\ IsHome(s, j - 1, kn[s[j].func].home)
    BY <2>1 DEF HomesOK
  <2> QED
    BY <2>1, <2>2, HomeBelow
<1> QED
  BY <1>2, <1>3

LEMMA RegionsFinite ==
    ASSUME NEW s, IsList(s)
    PROVE  IsFiniteSet(RegionSet(s)) /\ Cardinality(RegionSet(s)) \in Nat
<1>1. PICK n \in Nat : n = Len(s)
  BY DEF IsList
<1>2. IsFiniteSet(1 .. n)
  BY <1>1, FS_Interval
<1>3. RegionSet(s) \in SUBSET (1 .. n)
  BY <1>1 DEF RegionSet
<1>4. IsFiniteSet(RegionSet(s))
  BY <1>2, <1>3, FS_Subset
<1> QED
  BY <1>4, FS_CardinalityType

LEMMA RegionsMore ==
    ASSUME NEW s, IsList(s), NEW x, NEW t, Framed(s, t, x)
    PROVE  /\ IsRegion(x) => Cardinality(RegionSet(t)) = Cardinality(RegionSet(s)) + 1
           /\ ~IsRegion(x) => RegionSet(t) = RegionSet(s)
<1>1. PICK n \in Nat : n = Len(s)
  BY DEF IsList
<1>2. Len(t) = n + 1 /\ t[n + 1] = x /\ \A i \in 1 .. n : t[i] = s[i]
  BY <1>1 DEF Framed
<1>3. \A i \in 1 .. n + 1 : i = n + 1 \/ i \in 1 .. n
  BY <1>1
<1>4. \A i \in 1 .. n : i \in 1 .. n + 1 /\ i # n + 1
  BY <1>1
<1>5. ASSUME ~IsRegion(x) PROVE RegionSet(t) = RegionSet(s)
  BY <1>1, <1>2, <1>3, <1>4, <1>5 DEF RegionSet
<1>6. ASSUME IsRegion(x) PROVE Cardinality(RegionSet(t)) = Cardinality(RegionSet(s)) + 1
  <2>0. n + 1 \in 1 .. n + 1
    BY <1>1
  <2>1. RegionSet(t) = RegionSet(s) \cup {n + 1}
    <3>1. \A i \in RegionSet(t) : i \in RegionSet(s) \cup {n + 1}
      BY <1>1, <1>2, <1>3 DEF RegionSet
    <3>2. \A i \in RegionSet(s) : i \in RegionSet(t)
      BY <1>1, <1>2, <1>4 DEF RegionSet
    <3>3. n + 1 \in RegionSet(t)
      BY <1>2, <1>6, <2>0 DEF RegionSet
    <3> QED
      BY <3>1, <3>2, <3>3
  <2>2. n + 1 \notin RegionSet(s)
    BY <1>1, <1>4 DEF RegionSet
  <2>3. IsFiniteSet(RegionSet(s))
    BY RegionsFinite
  <2> QED
    BY <2>1, <2>2, <2>3, FS_AddElement
<1> QED
  BY <1>5, <1>6

LEMMA SomeRegion ==
    ASSUME NEW s, FramesOK(s)
    PROVE  Cardinality(RegionSet(s)) = 0 <=> Len(s) = 0
<1>1. Len(s) \in Nat
  BY DEF FramesOK, IsList
<1>2. CASE Len(s) = 0
  <2>1. RegionSet(s) = {}
    BY <1>2 DEF RegionSet
  <2> QED
    BY <1>2, <2>1, FS_EmptySet
<1>3. CASE Len(s) # 0
  <2>1. 1 \in RegionSet(s)
    BY <1>1, <1>3 DEF RegionSet, FramesOK, IsRegion
  <2>2. IsFiniteSet(RegionSet(s))
    BY RegionsFinite DEF FramesOK
  <2> QED
    BY <1>3, <2>1, <2>2, FS_EmptySet
<1> QED
  BY <1>2, <1>3

(* The innermost subprogram is what the client takes for it. *)
LEMMA HomeIs ==
    ASSUME FramesOK(open), NEW h, IsHome(open, Len(open), h)
    PROVE  Home = h
<1>1. Len(open) \in Nat /\ DOMAIN open = 1 .. Len(open)
  BY DEF FramesOK, IsList
<1>2. CASE Len(open) = 0
  <2>1. open = <<>>
    BY <1>2 DEF FramesOK, IsList
  <2>2. h = NULL
    BY <1>2 DEF IsHome
  <2> QED
    BY <2>1, <2>2 DEF Home
<1>3. CASE Len(open) # 0
  <2>1. open # <<>>
    BY <1>3
  <2>2. 1 \in 1 .. Len(open) /\ open[1].k = "body"
    BY <1>1, <1>3 DEF FramesOK
  <2>3. PICK i \in 1 .. Len(open) : /\ open[i].k = "body" /\ h = open[i].func
                                    /\ \A m \in 1 .. Len(open) : m > i => open[m].k # "body"
    BY <2>2 DEF IsHome
  <2> DEFINE S == {m \in DOMAIN open : open[m].k = "body"}
  <2>4. i \in S /\ \A m \in S : i >= m
    BY <1>1, <2>3
  <2>5. S \subseteq Nat
    BY <1>1
  <2>6. Max(S) = i
    <3> HIDE DEF S
    <3>1. \A m \in S : (\A n \in S : m >= n) => m = i
      BY <2>4, <2>5
    <3> QED
      BY <2>4, <3>1 DEF Max
  <2>7. Body = i
    BY <2>6 DEF Body
  <2> QED
    BY <2>1, <2>3, <2>7 DEF Home
<1> QED
  BY <1>2, <1>3

(*------------------------------ the invariant -------------------------------*)

(* What the client remembers of a declaration. *)
KnownRecord(r) ==
    /\ DOMAIN r = {"k", "storage", "home", "parms", "value", "begun"}
    /\ r.storage \in {"local", "external", "public", "private"}
    /\ r.value \in BOOLEAN /\ r.begun \in BOOLEAN

KnownOK(u, kn) ==
    \A d \in DOMAIN kn : /\ d \in 1 .. Len(u.decls)
                         /\ KnownRecord(kn[d]) /\ DeclExact(u.decls[d], kn[d])

(* A subprogram that is complete is finalized when it is not nested. *)
DoneOK(u, kn, dn) ==
    /\ IsList(dn)
    /\ \A i \in 1 .. Len(dn) : /\ dn[i].func \in DOMAIN kn
                               /\ u.decls[dn[i].func].finalized = (kn[dn[i].func].home = NULL)

(* Statements go to the list of the innermost construct, one of its own unless *)
(* it is a loop; a conditional or case statement keeps the list around it.     *)
OwnList(s, i) ==
    /\ s[i].k = "loop" => s[i].list = ListOf(s, i - 1)
    /\ s[i].k # "loop" => \A j \in 0 .. i - 1 : s[i].list # ListOf(s, j)
    /\ s[i].k \in {"if", "case"} => s[i].block.prev_stmts = ListOf(s, i - 1)

ListsOK(u, s) ==
    /\ \A i \in 1 .. Len(s) : s[i].list \in 1 .. Len(u.stmts) /\ OwnList(s, i)
    /\ u.cur_stmts = ListOf(s, Len(s))

(* The levels in use but the global one are those of the regions: the places   *)
(* of these, innermost first, are "at". A level returns to the list around its *)
(* region.                                                                     *)
PlacesOK(u, s, used, at) ==
    /\ IsList(at) /\ Len(used) = Len(at) + 1
    /\ \A k \in 1 .. Len(at) : /\ at[k] \in RegionSet(s)
                               /\ u.levels[used[k]].prev_stmts = ListOf(s, at[k] - 1)
    /\ \A i \in RegionSet(s) : Among(i, at)
    /\ \A j, k \in 1 .. Len(at) : j < k => at[k] < at[j]

(* A level for each region, and the global one. *)
RegionsOpen(u, s) ==
    \E used, old, at : /\ LevelsOK(u, used, old) /\ Len(used) = Cardinality(RegionSet(s)) + 1
                       /\ PlacesOK(u, s, used, at)

StateOK(u, s, kn, dn) ==
    /\ UnitOK(u)
    /\ FramesOK(s)
    /\ IsHome(s, Len(s), u.fn)
    /\ HomesOK(s, kn)
    /\ KnownOK(u, kn)
    /\ DoneOK(u, kn, dn)
    /\ ListsOK(u, s)
    /\ RegionsOpen(u, s)

Inv == client \in Clients /\ StateOK(o, open, known, done)

LEMMA KnownKept ==
    ASSUME NEW u, UnitOK(u), NEW kn, KnownOK(u, kn), NEW v, UnitOK(v), KeepsDecls(u, v)
    PROVE  KnownOK(v, kn) /\ \A dn : DoneOK(u, kn, dn) => DoneOK(v, kn, dn)
<1>1. Len(u.decls) \in Nat /\ Len(v.decls) \in Nat
  BY DEF UnitOK, IsList
<1>2. ASSUME NEW d \in DOMAIN kn
      PROVE  d \in 1 .. Len(v.decls) /\ SameDecl(u.decls[d], v.decls[d]) /\ KnownRecord(kn[d])
             /\ DeclExact(u.decls[d], kn[d])
  BY <1>1 DEF KnownOK, KeepsDecls
<1>3. ASSUME NEW d \in DOMAIN kn
      PROVE  DeclExact(v.decls[d], kn[d])
  BY ONLY <1>2, d \in DOMAIN kn DEF DeclExact, SameDecl
<1>4. KnownOK(v, kn)
  BY ONLY <1>2, <1>3 DEF KnownOK
<1>5. ASSUME NEW dn, DoneOK(u, kn, dn)
      PROVE  DoneOK(v, kn, dn)
  BY ONLY <1>2, <1>5 DEF DoneOK, SameDecl
<1> QED
  BY <1>4, <1>5

(* Where statements go, and which is the current function. *)
LEMMA Outermost ==
    ASSUME NEW u, NEW s, NEW kn, NEW dn, StateOK(u, s, kn, dn)
    PROVE  /\ u.cur_stmts = NULL <=> Len(s) = 0
           /\ u.fn = NULL <=> Len(s) = 0
           /\ Len(s) \in Nat /\ u.cur_stmts \in Nat
<1>1. Len(s) \in Nat /\ u.cur_stmts \in Nat /\ IsList(s)
  BY DEF StateOK, FramesOK, IsList, UnitOK
<1>2. u.cur_stmts = NULL <=> Len(s) = 0
  <2>1. Len(s) # 0 => Len(s) \in 1 .. Len(s)
    BY <1>1
  <2>2. Len(s) # 0 => s[Len(s)].list # 0
    BY <2>1 DEF StateOK, ListsOK
  <2> QED
    BY <2>2 DEF StateOK, ListsOK, ListOf, NULL
<1>3. Len(s) = 0 => u.fn = NULL
  BY DEF StateOK, IsHome
<1>4. Len(s) # 0 => u.fn # NULL
  <2> SUFFICES ASSUME Len(s) # 0 PROVE u.fn # NULL
    OBVIOUS
  <2>1. 1 \in 1 .. Len(s) /\ s[1].k = "body"
    BY <1>1 DEF StateOK, FramesOK
  <2>2. PICK i \in 1 .. Len(s) : s[i].k = "body" /\ u.fn = s[i].func
    BY <2>1 DEF StateOK, IsHome
  <2>3. s[i].func \in DOMAIN kn
    BY <2>2 DEF StateOK, HomesOK
  <2>4. u.fn \in 1 .. Len(u.decls)
    BY <2>2, <2>3 DEF StateOK, KnownOK
  <2> QED
    BY <2>4 DEF NULL
<1> QED
  BY <1>1, <1>2, <1>3, <1>4

(* The lists of the constructs are those they were when the innermost one goes *)
(* on, with its list or, if it is no loop, with a new one.                     *)
LEMMA ListsAgain ==
    ASSUME NEW u, NEW v, UnitOK(u), UnitOK(v), KeepsLists(u, v), NEW s, FramesOK(s), ListsOK(u, s),
           NEW t, Refilled(s, t, v.cur_stmts),
           \/ v.cur_stmts = u.cur_stmts
           \/ OpensList(u, v) /\ Len(s) # 0 /\ s[Len(s)].k # "loop"
    PROVE  ListsOK(v, t)
<1>1. PICK n \in Nat : n = Len(s) /\ n = Len(t)
  BY DEF FramesOK, IsList, Refilled
<1>2. PICK a \in Nat : a = Len(u.stmts)
  BY DEF UnitOK, IsList
<1>3. PICK b \in Nat : b = Len(v.stmts) /\ a <= b
  BY <1>2 DEF UnitOK, IsList, KeepsLists
<1>4. \A i \in 0 .. n : i # n => ListOf(t, i) = ListOf(s, i)
  BY <1>1 DEF Refilled, ListOf
<1>5. ListOf(t, n) = v.cur_stmts
  <2>1. CASE n = 0
    BY <1>1, <2>1 DEF ListOf, ListsOK
  <2>2. CASE n # 0
    <3>1. n \in 1 .. n
      BY <2>2
    <3> QED
      BY <1>1, <2>2, <3>1 DEF Refilled, ListOf
  <2> QED
    BY <2>1, <2>2
<1>6. ASSUME NEW i \in 1 .. n
      PROVE  t[i].list \in 1 .. b /\ OwnList(t, i)
  <2>1. /\ s[i].list \in 1 .. a /\ OwnList(s, i) /\ t[i].k = s[i].k
        /\ s[i].k \in {"if", "case"} => t[i].block.prev_stmts = s[i].block.prev_stmts
    BY <1>1, <1>2 DEF ListsOK, Refilled, SameFrame
  <2>2. /\ i \in 0 .. n /\ i # 0 /\ i - 1 \in 0 .. n /\ i - 1 # n
        /\ \A j \in 0 .. i - 1 : j \in 0 .. n /\ j # n
    OBVIOUS
  <2>3. ListOf(t, i - 1) = ListOf(s, i - 1) /\ \A j \in 0 .. i - 1 : ListOf(t, j) = ListOf(s, j)
    BY <1>4, <2>2
  <2>4. CASE i # n \/ v.cur_stmts = u.cur_stmts
    <3>1. u.cur_stmts = ListOf(s, n)
      BY <1>1 DEF ListsOK
    <3>2. ListOf(t, i) = ListOf(s, i)
      BY <1>4, <1>5, <2>2, <2>4, <3>1
    <3>3. t[i].list = s[i].list
      BY <2>2, <3>2 DEF ListOf
    <3>4. s[i].list \in 1 .. b
      BY <1>2, <1>3, <2>1
    <3> QED
      BY <2>1, <2>3, <3>3, <3>4 DEF OwnList
  <2>5. CASE i = n /\ v.cur_stmts # u.cur_stmts
    <3>1. v.cur_stmts \in a + 1 .. b /\ s[i].k # "loop"
      BY <1>1, <1>2, <1>3, <2>5 DEF OpensList
    <3>2. t[i].list = v.cur_stmts
      BY <1>5, <2>2, <2>5 DEF ListOf
    <3>3. ASSUME NEW j \in 0 .. i - 1 PROVE ListOf(s, j) \in 0 .. a
      <4>1. j # 0 => j \in 1 .. n
        OBVIOUS
      <4>2. j # 0 => s[j].list \in 1 .. a
        BY <1>1, <1>2, <4>1 DEF ListsOK
      <4> QED
        BY <4>2 DEF ListOf, NULL
    <3>4. \A j \in 0 .. i - 1 : t[i].list # ListOf(t, j)
      BY <2>3, <3>1, <3>2, <3>3
    <3>5. t[i].list \in 1 .. b
      BY <3>1, <3>2
    <3> QED
      BY <2>1, <2>3, <3>1, <3>4, <3>5 DEF OwnList
  <2> QED
    BY <2>4, <2>5
<1> QED
  BY <1>1, <1>3, <1>5, <1>6 DEF ListsOK

(* The list of a construct that is opened. *)
LEMMA ListsMore ==
    ASSUME NEW u, NEW v, UnitOK(u), UnitOK(v), KeepsLists(u, v), NEW s, FramesOK(s), ListsOK(u, s),
           NEW x, NEW t, Framed(s, t, x), x.list = v.cur_stmts,
           IF x.k = "loop" THEN Len(s) # 0 /\ v.cur_stmts = u.cur_stmts ELSE OpensList(u, v),
           x.k \in {"if", "case"} => x.block.prev_stmts = u.cur_stmts
    PROVE  ListsOK(v, t)
<1>1. PICK n \in Nat : n = Len(s) /\ n + 1 = Len(t)
  BY DEF FramesOK, IsList, Framed
<1>2. PICK a \in Nat : a = Len(u.stmts)
  BY DEF UnitOK, IsList
<1>3. PICK b \in Nat : b = Len(v.stmts) /\ a <= b
  BY <1>2 DEF UnitOK, IsList, KeepsLists
<1>4. t[n + 1] = x /\ \A i \in 1 .. n : t[i] = s[i]
  BY <1>1 DEF Framed
<1>5. \A j \in 0 .. n : ListOf(t, j) = ListOf(s, j)
  BY <1>4 DEF ListOf
<1>6. ASSUME NEW j \in 0 .. n PROVE ListOf(s, j) \in 0 .. a
  <2>1. j # 0 => j \in 1 .. n
    OBVIOUS
  <2>2. j # 0 => s[j].list \in 1 .. a
    BY <1>1, <1>2, <2>1 DEF ListsOK
  <2> QED
    BY <2>2 DEF ListOf, NULL
<1>7. ASSUME NEW i \in 1 .. n
      PROVE  t[i].list \in 1 .. b /\ OwnList(t, i)
  <2>1. s[i].list \in 1 .. a /\ OwnList(s, i) /\ t[i] = s[i]
    BY <1>1, <1>2, <1>4 DEF ListsOK
  <2>2. i - 1 \in 0 .. n /\ \A j \in 0 .. i - 1 : j \in 0 .. n
    OBVIOUS
  <2>3. ListOf(t, i - 1) = ListOf(s, i - 1) /\ \A j \in 0 .. i - 1 : ListOf(t, j) = ListOf(s, j)
    BY <1>5, <2>2
  <2>4. s[i].list \in 1 .. b
    BY <1>3, <2>1
  <2> QED
    BY <2>1, <2>3, <2>4 DEF OwnList
<1>8. n \in 0 .. n /\ n + 1 # 0 /\ (n + 1) - 1 = n /\ u.cur_stmts = ListOf(s, n)
  BY <1>1 DEF ListsOK
<1>9. t[n + 1].list \in 1 .. b /\ OwnList(t, n + 1)
  <2>1. CASE x.k = "loop"
    <3>1. n \in 1 .. n /\ v.cur_stmts = u.cur_stmts
      BY <1>1, <2>1
    <3>2. s[n].list \in 1 .. a /\ ListOf(s, n) = s[n].list
      BY <1>1, <1>2, <3>1 DEF ListsOK, ListOf
    <3>3. x.list = ListOf(t, n) /\ x.list \in 1 .. b
      BY <1>3, <1>5, <1>8, <3>1, <3>2
    <3> QED
      BY <1>4, <1>8, <2>1, <3>3 DEF OwnList
  <2>2. CASE x.k # "loop"
    <3>1. x.list \in a + 1 .. b
      BY <1>2, <1>3, <2>2 DEF OpensList
    <3>2. x.list \in 1 .. b /\ \A j \in 0 .. n : x.list # ListOf(t, j)
      BY <1>5, <1>6, <3>1
    <3>3. x.k \in {"if", "case"} => x.block.prev_stmts = ListOf(t, n)
      BY <1>5, <1>8
    <3> QED
      BY <1>4, <1>8, <2>2, <3>2, <3>3 DEF OwnList
  <2> QED
    BY <2>1, <2>2
<1>10. ListOf(t, n + 1) = v.cur_stmts
  BY <1>4, <1>8 DEF ListOf
<1>11. \A i \in 1 .. n + 1 : i = n + 1 \/ i \in 1 .. n
  OBVIOUS
<1> QED
  BY <1>1, <1>3, <1>7, <1>9, <1>10, <1>11 DEF ListsOK

(* The construct that is closed leaves the lists of the others. *)
LEMMA ListsLess ==
    ASSUME NEW u, NEW v, UnitOK(u), UnitOK(v), KeepsLists(u, v), NEW s, IsList(s),
           NEW x, NEW t, Framed(s, t, x), ListsOK(u, t), v.cur_stmts = ListOf(s, Len(s))
    PROVE  ListsOK(v, s)
<1>1. PICK n \in Nat : n = Len(s) /\ n + 1 = Len(t)
  BY DEF IsList, Framed
<1>2. \A i \in 1 .. n : t[i] = s[i] /\ i \in 1 .. n + 1
  BY <1>1 DEF Framed
<1>3. ASSUME NEW i \in 1 .. n
      PROVE  s[i].list \in 1 .. Len(v.stmts) /\ OwnList(s, i)
  <2>1. t[i].list \in 1 .. Len(u.stmts) /\ OwnList(t, i) /\ t[i] = s[i]
    BY <1>1, <1>2 DEF ListsOK
  <2>2. \A j \in 0 .. i - 1 : j # 0 => j \in 1 .. n
    OBVIOUS
  <2>3. \A j \in 0 .. i - 1 : ListOf(t, j) = ListOf(s, j)
    BY <1>2, <2>2 DEF ListOf
  <2>4. i - 1 \in 0 .. i - 1
    OBVIOUS
  <2>5. Len(u.stmts) \in Nat /\ Len(v.stmts) \in Nat /\ Len(u.stmts) <= Len(v.stmts)
    BY DEF UnitOK, IsList, KeepsLists
  <2>6. s[i].list \in 1 .. Len(v.stmts)
    BY <2>1, <2>5
  <2> QED
    BY <2>1, <2>3, <2>4, <2>6 DEF OwnList
<1> QED
  BY <1>1, <1>3 DEF ListsOK

(* The list around each region of s is the same in t. *)
SameAround(s, t) == \A i \in RegionSet(s) : ListOf(t, i - 1) = ListOf(s, i - 1)

LEMMA RefilledAround ==
    ASSUME NEW s, IsList(s), NEW t, NEW l, Refilled(s, t, l)
    PROVE  SameAround(s, t)
<1> SUFFICES ASSUME NEW i \in RegionSet(s) PROVE ListOf(t, i - 1) = ListOf(s, i - 1)
  BY DEF SameAround
<1>1. i \in 1 .. Len(s) /\ Len(s) \in Nat
  BY DEF RegionSet, IsList
<1>2. i - 1 # 0 => i - 1 \in 1 .. Len(s) /\ i - 1 # Len(s)
  BY <1>1
<1> QED
  BY <1>2 DEF Refilled, ListOf

LEMMA FramedAround ==
    ASSUME NEW s, IsList(s), NEW x, NEW t, Framed(s, t, x)
    PROVE  SameAround(s, t) /\ (~IsRegion(x) => SameAround(t, s))
<1>1. ASSUME NEW i \in 1 .. Len(s) PROVE ListOf(t, i - 1) = ListOf(s, i - 1)
  <2>1. i - 1 # 0 => i - 1 \in 1 .. Len(s)
    BY DEF IsList
  <2> QED
    BY <2>1 DEF Framed, ListOf
<1>2. ~IsRegion(x) => RegionSet(t) = RegionSet(s)
  BY RegionsMore
<1> QED
  BY <1>1, <1>2 DEF SameAround, RegionSet

(* Neither a level nor a region more or less. *)
LEMMA RegionsKept ==
    ASSUME NEW u, NEW v, NEW s, RegionsOpen(u, s), SameLevels(u, v),
           NEW t, RegionSet(t) = RegionSet(s), SameAround(s, t)
    PROVE  RegionsOpen(v, t)
<1>1. PICK used, old, at : /\ LevelsOK(u, used, old) /\ Len(used) = Cardinality(RegionSet(s)) + 1
                           /\ PlacesOK(u, s, used, at)
  BY DEF RegionsOpen
<1>2. LevelsOK(v, used, old) /\ SameReturns(u, v, used)
  BY <1>1, LevelsKept
<1>3. \A k \in 1 .. Len(at) : k \in 1 .. Len(used)
  BY <1>1 DEF PlacesOK, IsList
<1>4. \A k \in 1 .. Len(at) : v.levels[used[k]].prev_stmts = ListOf(t, at[k] - 1)
  BY <1>1, <1>2, <1>3 DEF PlacesOK, SameReturns, SameAround
<1>5. PlacesOK(v, t, used, at)
  BY <1>1, <1>4 DEF PlacesOK
<1> QED
  BY <1>1, <1>2, <1>5 DEF RegionsOpen

(* The innermost construct goes on, in another list or in the same one: neither *)
(* a level nor a declaration.                                                  *)
LEMMA GoesOn ==
    ASSUME NEW u, NEW s, NEW kn, NEW dn, StateOK(u, s, kn, dn),
           NEW v, Quiet(u, v), NEW t, Refilled(s, t, v.cur_stmts),
           \/ v.cur_stmts = u.cur_stmts
           \/ OpensList(u, v) /\ Len(s) # 0 /\ s[Len(s)].k # "loop"
    PROVE  StateOK(v, t, kn, dn)
<1>1. /\ UnitOK(u) /\ UnitOK(v) /\ KeepsDecls(u, v) /\ KeepsLists(u, v) /\ SameLevels(u, v) /\ v.fn = u.fn
      /\ FramesOK(s)
  BY DEF StateOK, Quiet
<1>2. FramesOK(t) /\ Len(t) = Len(s) /\ RegionSet(t) = RegionSet(s) /\ HomesOK(t, kn)
  BY <1>1, FramesAgain DEF StateOK
<1>3. IsHome(t, Len(t), v.fn)
  <2>1. Len(s) \in Nat /\ Len(s) <= Len(s)
    BY <1>1 DEF FramesOK, IsList
  <2>2. IsHome(t, Len(s), u.fn) <=> IsHome(s, Len(s), u.fn)
    BY <1>1, <2>1, FramesAgain
  <2> QED
    BY <1>1, <1>2, <2>2 DEF StateOK
<1>4. KnownOK(v, kn) /\ DoneOK(v, kn, dn)
  BY <1>1, KnownKept DEF StateOK
<1>5. ListsOK(v, t)
  BY <1>1, ListsAgain DEF StateOK
<1>6. RegionsOpen(v, t)
  <2>1. SameAround(s, t)
    BY <1>1, RefilledAround DEF FramesOK
  <2> QED
    BY <1>1, <1>2, <2>1, RegionsKept DEF StateOK
<1> QED
  BY <1>1, <1>2, <1>3, <1>4, <1>5, <1>6 DEF StateOK

LEMMA TextOnly ==
    ASSUME NEW u, NEW s, NEW kn, NEW dn, StateOK(u, s, kn, dn),
           NEW v, Quiet(u, v), v.cur_stmts = u.cur_stmts, NEW t, SameFrames(s, t)
    PROVE  StateOK(v, t, kn, dn)
<1>1. Refilled(s, t, v.cur_stmts)
  BY DEF StateOK, ListsOK, SameFrames
<1> QED
  BY <1>1, GoesOn

(* A construct without declarations is opened. *)
LEMMA FrameOpened ==
    ASSUME NEW u, NEW s, NEW kn, NEW dn, StateOK(u, s, kn, dn), Len(s) # 0,
           NEW v, Quiet(u, v),
           NEW x, FrameOK(x), ~IsRegion(x), x.list = v.cur_stmts,
           IF x.k = "loop" THEN v.cur_stmts = u.cur_stmts ELSE OpensList(u, v),
           x.k \in {"if", "case"} => x.block.prev_stmts = u.cur_stmts, NEW t, t = Append(s, x)
    PROVE  StateOK(v, t, kn, dn)
<1>1. /\ UnitOK(u) /\ UnitOK(v) /\ KeepsDecls(u, v) /\ KeepsLists(u, v) /\ SameLevels(u, v) /\ v.fn = u.fn
      /\ FramesOK(s) /\ IsList(s) /\ Len(s) \in Nat /\ x.k # "body"
  BY DEF StateOK, Quiet, FramesOK, IsList, IsRegion
<1>2. Framed(s, t, x)
  BY <1>1, FramePushed
<1>3. FramesOK(t)
  BY <1>1, <1>2, FramesMore
<1>4. IsHome(t, Len(t), v.fn)
  BY <1>1, <1>2, HomeBelow DEF StateOK
<1>5. HomesOK(t, kn)
  BY <1>1, <1>2, HomesMore DEF StateOK
<1>6. KnownOK(v, kn) /\ DoneOK(v, kn, dn)
  BY <1>1, KnownKept DEF StateOK
<1>7. RegionsOpen(v, t)
  <2>1. RegionSet(t) = RegionSet(s) /\ SameAround(s, t)
    BY <1>1, <1>2, RegionsMore, FramedAround
  <2> QED
    BY <1>1, <2>1, RegionsKept DEF StateOK
<1>8. ListsOK(v, t)
  BY <1>1, <1>2, ListsMore DEF StateOK
<1> QED
  BY <1>1, <1>3, <1>4, <1>5, <1>6, <1>7, <1>8 DEF StateOK

(* A construct without declarations is closed. *)
LEMMA FrameClosed ==
    ASSUME NEW u, NEW s, NEW kn, NEW dn, StateOK(u, s, kn, dn), Len(s) # 0, ~IsRegion(Last(s)),
           NEW v, Quiet(u, v), v.cur_stmts = ListOf(s, Len(s) - 1), NEW t, SameFrames(Front(s), t)
    PROVE  StateOK(v, t, kn, dn)
<1>0. PICK r : r = Front(s)
  OBVIOUS
<1>1. /\ UnitOK(u) /\ UnitOK(v) /\ KeepsDecls(u, v) /\ KeepsLists(u, v) /\ SameLevels(u, v) /\ v.fn = u.fn
      /\ FramesOK(s) /\ Last(s).k # "body" /\ SameFrames(r, t)
  BY <1>0 DEF StateOK, Quiet, IsRegion
<1>2. Framed(r, s, Last(s)) /\ FramesOK(r) /\ IsList(r) /\ Len(r) \in Nat /\ Len(r) <= Len(r)
  BY <1>0, <1>1, FramePopped DEF FramesOK, IsList
<1>3. FramesOK(t) /\ Len(t) = Len(r) /\ RegionSet(t) = RegionSet(r)
  BY <1>1, <1>2, FramesAgain DEF SameFrames
<1>4. IsHome(t, Len(t), v.fn)
  <2>1. IsHome(r, Len(r), u.fn)
    BY <1>1, <1>2, HomeBelow DEF StateOK
  <2>2. IsHome(t, Len(r), u.fn)
    BY <1>1, <1>2, <2>1, FramesAgain DEF SameFrames
  <2> QED
    BY <1>1, <1>3, <2>2
<1>5. HomesOK(t, kn)
  <2>1. HomesOK(r, kn)
    BY <1>1, <1>2, HomesLess DEF StateOK
  <2> QED
    BY <1>1, <1>2, <2>1, FramesAgain DEF SameFrames
<1>6. KnownOK(v, kn) /\ DoneOK(v, kn, dn)
  BY <1>1, KnownKept DEF StateOK
<1>7. RegionsOpen(v, t)
  <2>1. RegionSet(s) = RegionSet(r) /\ SameAround(s, r)
    BY <1>1, <1>2, RegionsMore, FramedAround
  <2>2. SameAround(r, t)
    BY <1>1, <1>2, RefilledAround DEF SameFrames
  <2>3. SameAround(s, t)
    BY <2>1, <2>2 DEF SameAround
  <2> QED
    BY <1>1, <1>3, <2>1, <2>3, RegionsKept DEF StateOK
<1>8. ListsOK(v, t)
  <2>1. v.cur_stmts = ListOf(r, Len(r))
    <3>1. Len(s) - 1 = Len(r) /\ (Len(r) # 0 => Len(r) \in 1 .. Len(r))
      BY <1>2 DEF Framed
    <3> QED
      BY <1>2, <3>1 DEF Framed, ListOf
  <2>2. ListsOK(v, r)
    BY <1>1, <1>2, <2>1, ListsLess DEF StateOK
  <2>3. Refilled(r, t, v.cur_stmts) /\ KeepsLists(v, v)
    BY <1>1, <2>1, ListsKept DEF SameFrames
  <2> QED
    BY <1>1, <1>2, <2>2, <2>3, ListsAgain
<1> QED
  BY <1>1, <1>3, <1>4, <1>5, <1>6, <1>7, <1>8 DEF StateOK

(* The level of a region that is opened, and of one that is closed. *)
LEMMA PlaceMore ==
    ASSUME NEW u, NEW v, NEW s, IsList(s), NEW x, IsRegion(x), NEW t, Framed(s, t, x),
           NEW used, NEW at, PlacesOK(u, s, used, at), SameReturns(u, v, used),
           NEW l, v.levels[l].prev_stmts = ListOf(s, Len(s)), NEW used2, IsCons(l, used, used2),
           NEW at2, IsCons(Len(s) + 1, at, at2)
    PROVE  PlacesOK(v, t, used2, at2)
<1>1. PICK n \in Nat : n = Len(s) /\ Len(t) = n + 1
  BY DEF IsList, Framed
<1>2. t[n + 1] = x /\ \A i \in 1 .. n : t[i] = s[i]
  BY <1>1 DEF Framed
<1>3. \A i \in RegionSet(s) : i \in 1 .. n /\ i \in RegionSet(t) /\ ListOf(t, i - 1) = ListOf(s, i - 1)
  <2>1. SameAround(s, t)
    BY FramedAround
  <2>2. \A i \in 1 .. n : i \in 1 .. n + 1
    OBVIOUS
  <2> QED
    BY <1>1, <1>2, <2>1, <2>2 DEF RegionSet, SameAround
<1>4. n + 1 \in RegionSet(t) /\ (n + 1) - 1 = n /\ ListOf(t, n) = ListOf(s, n)
  <2>1. n # 0 => n \in 1 .. n
    OBVIOUS
  <2>2. n + 1 \in 1 .. n + 1
    OBVIOUS
  <2> QED
    BY <1>1, <1>2, <2>1, <2>2 DEF RegionSet, ListOf
<1>5. \A i \in RegionSet(t) : i = n + 1 \/ i \in RegionSet(s)
  BY <1>1, <1>2 DEF RegionSet
<1>6. /\ Len(at) \in Nat /\ Len(at2) = Len(at) + 1 /\ IsList(at2) /\ at2[1] = n + 1 /\ 1 \in 1 .. Len(at2)
      /\ \A k \in 1 .. Len(at2) : k # 1 => k - 1 \in 1 .. Len(at) /\ at2[k] = at[k - 1]
      /\ \A k \in 1 .. Len(at) : k + 1 \in 1 .. Len(at2) /\ at2[k + 1] = at[k]
  BY <1>1, ConsElements DEF IsCons
<1>7. /\ Len(used2) = Len(used) + 1 /\ used2[1] = l /\ Len(used) = Len(at) + 1
      /\ \A k \in 1 .. Len(used2) : k # 1 => k - 1 \in 1 .. Len(used) /\ used2[k] = used[k - 1]
  BY ConsElements DEF PlacesOK
<1>8. ASSUME NEW k \in 1 .. Len(at2)
      PROVE  at2[k] \in RegionSet(t) /\ v.levels[used2[k]].prev_stmts = ListOf(t, at2[k] - 1)
  <2>1. CASE k = 1
    BY <1>1, <1>4, <1>6, <1>7, <2>1
  <2>2. CASE k # 1
    <3>1. k - 1 \in 1 .. Len(at) /\ at2[k] = at[k - 1]
      BY <1>6, <2>2
    <3>2. k \in 1 .. Len(used2)
      BY <1>6, <1>7
    <3>3. k - 1 \in 1 .. Len(used) /\ used2[k] = used[k - 1]
      BY <1>7, <2>2, <3>2
    <3>4. at[k - 1] \in RegionSet(s) /\ u.levels[used[k - 1]].prev_stmts = ListOf(s, at[k - 1] - 1)
      BY <3>1 DEF PlacesOK
    <3>5. v.levels[used[k - 1]].prev_stmts = u.levels[used[k - 1]].prev_stmts
      BY <3>3 DEF SameReturns
    <3> QED
      BY <1>3, <3>1, <3>3, <3>4, <3>5
  <2> QED
    BY <2>1, <2>2
<1>9. ASSUME NEW i \in RegionSet(t) PROVE Among(i, at2)
  <2>1. CASE i = n + 1
    BY <1>6, <2>1 DEF Among
  <2>2. CASE i # n + 1
    <3>1. PICK k \in 1 .. Len(at) : at[k] = i
      BY <1>5, <2>2 DEF PlacesOK, Among
    <3> QED
      BY <1>6, <3>1 DEF Among
  <2> QED
    BY <2>1, <2>2
<1>10. ASSUME NEW j \in 1 .. Len(at2), NEW k \in 1 .. Len(at2), j < k
       PROVE  at2[k] < at2[j]
  <2>1. k # 1
    BY <1>10
  <2>2. k - 1 \in 1 .. Len(at) /\ at2[k] = at[k - 1]
    BY <1>6, <2>1
  <2>3. CASE j = 1
    <3>1. at[k - 1] \in 1 .. n
      BY <1>3, <2>2 DEF PlacesOK
    <3> QED
      BY <1>6, <2>2, <2>3, <3>1
  <2>4. CASE j # 1
    <3>1. j - 1 \in 1 .. Len(at) /\ at2[j] = at[j - 1] /\ j - 1 < k - 1
      BY <1>6, <1>10, <2>4
    <3> QED
      BY <2>2, <3>1 DEF PlacesOK
  <2> QED
    BY <2>3, <2>4
<1> QED
  BY <1>6, <1>7, <1>8, <1>9, <1>10 DEF PlacesOK

LEMMA PlaceLess ==
    ASSUME NEW u, NEW v, NEW s, IsList(s), NEW x, IsRegion(x), NEW t, Framed(s, t, x),
           NEW used2, NEW at2, PlacesOK(u, t, used2, at2),
           NEW l, NEW used, IsCons(l, used, used2), SameReturns(u, v, used)
    PROVE  u.levels[l].prev_stmts = ListOf(s, Len(s)) /\ \E at : PlacesOK(v, s, used, at)
<1>1. PICK n \in Nat : n = Len(s) /\ Len(t) = n + 1
  BY DEF IsList, Framed
<1>2. t[n + 1] = x /\ \A i \in 1 .. n : t[i] = s[i]
  BY <1>1 DEF Framed
<1>3. \A i \in RegionSet(s) : i \in RegionSet(t) /\ i # n + 1 /\ ListOf(t, i - 1) = ListOf(s, i - 1)
  <2>1. SameAround(s, t)
    BY FramedAround
  <2>2. \A i \in 1 .. n : i \in 1 .. n + 1 /\ i # n + 1
    OBVIOUS
  <2> QED
    BY <1>1, <1>2, <2>1, <2>2 DEF RegionSet, SameAround
<1>4. n + 1 \in RegionSet(t) /\ (n + 1) - 1 = n /\ ListOf(t, n) = ListOf(s, n)
  <2>1. n # 0 => n \in 1 .. n
    OBVIOUS
  <2>2. n + 1 \in 1 .. n + 1
    OBVIOUS
  <2> QED
    BY <1>1, <1>2, <2>1, <2>2 DEF RegionSet, ListOf
<1>5. \A i \in RegionSet(t) : i \in 1 .. n + 1 /\ (i # n + 1 => i \in RegionSet(s))
  BY <1>1, <1>2 DEF RegionSet
<1>6. Len(at2) \in Nat /\ IsList(at2)
  BY DEF PlacesOK, IsList
<1>7. PICK m \in 1 .. Len(at2) : at2[m] = n + 1
  BY <1>4 DEF PlacesOK, Among
<1>8. at2[1] = n + 1 /\ 1 \in 1 .. Len(at2) /\ Len(at2) # 0
  <2>1. 1 \in 1 .. Len(at2) /\ Len(at2) # 0
    BY <1>6, <1>7
  <2>2. at2[1] \in 1 .. n + 1
    BY <1>5, <2>1 DEF PlacesOK
  <2>3. 1 < m => n + 1 < at2[1]
    BY <1>7, <2>1 DEF PlacesOK
  <2>4. ~(n + 1 < at2[1])
    BY <2>2
  <2>5. m = 1
    BY <1>6, <1>7, <2>3, <2>4
  <2> QED
    BY <1>7, <2>1, <2>5
<1>9. PICK at : IsCons(n + 1, at, at2)
  BY <1>6, <1>8, RestExists
<1>10. /\ Len(at) \in Nat /\ Len(at2) = Len(at) + 1 /\ IsList(at)
       /\ \A k \in 1 .. Len(at2) : k # 1 => k - 1 \in 1 .. Len(at) /\ at2[k] = at[k - 1]
       /\ \A k \in 1 .. Len(at) : k + 1 \in 1 .. Len(at2) /\ k + 1 # 1 /\ at2[k + 1] = at[k]
  BY <1>9, ConsElements DEF IsCons
<1>11. /\ Len(used2) = Len(used) + 1 /\ used2[1] = l /\ Len(used2) = Len(at2) + 1 /\ Len(used) \in Nat
       /\ \A k \in 1 .. Len(used) : k + 1 \in 1 .. Len(used2) /\ used2[k + 1] = used[k]
  <2>1. Len(used2) = Len(at2) + 1
    BY DEF PlacesOK
  <2>2. /\ Len(used2) = Len(used) + 1 /\ used2[1] = l /\ Len(used) \in Nat
        /\ \A k \in 1 .. Len(used) : k + 1 \in 1 .. Len(used2) /\ used2[k + 1] = used[k]
    BY ONLY IsCons(l, used, used2), ConsElements
  <2> QED
    BY <2>1, <2>2
<1>12. u.levels[l].prev_stmts = ListOf(s, n)
  <2>1. u.levels[used2[1]].prev_stmts = ListOf(t, at2[1] - 1)
    BY <1>8 DEF PlacesOK
  <2> QED
    BY <1>4, <1>8, <1>11, <2>1
<1>13. Len(used) = Len(at) + 1
  BY <1>10, <1>11
<1>14. ASSUME NEW k \in 1 .. Len(at)
       PROVE  at[k] \in RegionSet(s) /\ v.levels[used[k]].prev_stmts = ListOf(s, at[k] - 1)
  <2>1. k + 1 \in 1 .. Len(at2) /\ at2[k + 1] = at[k] /\ 1 < k + 1
    BY <1>10
  <2>2. at[k] \in RegionSet(t) /\ u.levels[used2[k + 1]].prev_stmts = ListOf(t, at[k] - 1)
    BY <2>1 DEF PlacesOK
  <2>3. at[k] < n + 1
    BY <1>8, <2>1 DEF PlacesOK
  <2>4. at[k] # n + 1
    BY <1>5, <2>2, <2>3
  <2>5. k \in 1 .. Len(used)
    BY <1>10, <1>13
  <2>6. used2[k + 1] = used[k]
    BY <1>11, <2>5
  <2>7. v.levels[used[k]].prev_stmts = u.levels[used[k]].prev_stmts
    BY <2>5 DEF SameReturns
  <2> QED
    BY <1>3, <1>5, <2>2, <2>4, <2>6, <2>7
<1>15. ASSUME NEW i \in RegionSet(s) PROVE Among(i, at)
  <2>1. PICK k \in 1 .. Len(at2) : at2[k] = i
    BY <1>3 DEF PlacesOK, Among
  <2>2. k # 1
    BY <1>3, <1>8, <2>1
  <2> QED
    BY <1>10, <2>1, <2>2 DEF Among
<1>16. ASSUME NEW j \in 1 .. Len(at), NEW k \in 1 .. Len(at), j < k
       PROVE  at[k] < at[j]
  <2>1. j + 1 \in 1 .. Len(at2) /\ k + 1 \in 1 .. Len(at2) /\ at2[j + 1] = at[j] /\ at2[k + 1] = at[k]
    BY <1>10
  <2>2. j + 1 < k + 1
    BY <1>16
  <2> QED
    BY <2>1, <2>2 DEF PlacesOK
<1>17. PlacesOK(v, s, used, at)
  BY <1>10, <1>13, <1>14, <1>15, <1>16 DEF PlacesOK
<1> QED
  BY <1>1, <1>12, <1>17

LEMMA LevelForRegion ==
    ASSUME NEW u, UnitOK(u), NEW s, IsList(s), RegionsOpen(u, s), ListsOK(u, s), NEW v, LevelOpened(u, v),
           NEW x, IsRegion(x), NEW t, Framed(s, t, x)
    PROVE  RegionsOpen(v, t)
<1>1. PICK used, old, at : /\ LevelsOK(u, used, old) /\ Len(used) = Cardinality(RegionSet(s)) + 1
                           /\ PlacesOK(u, s, used, at)
  BY DEF RegionsOpen
<1>2. PICK used2, old2 : /\ LevelsOK(v, used2, old2) /\ IsCons(v.cur_level, used, used2)
                         /\ SameReturns(u, v, used)
  BY <1>1, LevelMore
<1>3. Cardinality(RegionSet(t)) = Cardinality(RegionSet(s)) + 1
  BY RegionsMore
<1>4. Len(used2) = Cardinality(RegionSet(t)) + 1
  BY ONLY <1>1, <1>2, <1>3 DEF IsCons
<1>5. PICK at2 : IsCons(Len(s) + 1, at, at2)
  BY <1>1, ConsExists DEF PlacesOK
<1>6. v.levels[v.cur_level].prev_stmts = ListOf(s, Len(s))
  BY <1>1, LevelMore DEF ListsOK
<1>7. PlacesOK(v, t, used2, at2)
  BY ONLY IsList(s), IsRegion(x), Framed(s, t, x), <1>1, <1>2, <1>5, <1>6, PlaceMore
<1> QED
  BY <1>2, <1>4, <1>7 DEF RegionsOpen

LEMMA LevelOfRegion ==
    ASSUME NEW u, UnitOK(u), NEW s, IsList(s), NEW x, IsRegion(x), NEW t, Framed(s, t, x), RegionsOpen(u, t),
           NEW v, LevelClosed(u, v)
    PROVE  RegionsOpen(v, s) /\ v.cur_stmts = ListOf(s, Len(s))
<1>1. PICK used, old, at : /\ LevelsOK(u, used, old) /\ Len(used) = Cardinality(RegionSet(t)) + 1
                           /\ PlacesOK(u, t, used, at)
  BY DEF RegionsOpen
<1>2. Cardinality(RegionSet(t)) = Cardinality(RegionSet(s)) + 1 /\ Cardinality(RegionSet(s)) \in Nat
  BY RegionsMore, RegionsFinite
<1>3. Len(used) # 1
  BY ONLY <1>1, <1>2
<1>4. PICK used2, old2 : /\ LevelsOK(v, used2, old2) /\ IsCons(u.cur_level, used2, used)
                         /\ SameReturns(u, v, used2)
  BY <1>1, <1>3, LevelLess
<1>5. Len(used2) \in Nat /\ Len(used) = Len(used2) + 1
  BY <1>4 DEF LevelsOK, Chained, IsList, IsCons
<1>6. Len(used2) = Cardinality(RegionSet(s)) + 1
  BY ONLY <1>1, <1>2, <1>5
<1>7. u.levels[u.cur_level].prev_stmts = ListOf(s, Len(s)) /\ \E at2 : PlacesOK(v, s, used2, at2)
  BY ONLY IsList(s), IsRegion(x), Framed(s, t, x), <1>1, <1>4, PlaceLess
<1>8. v.cur_stmts = ListOf(s, Len(s))
  BY <1>7 DEF LevelClosed
<1> QED
  BY <1>4, <1>6, <1>7, <1>8 DEF RegionsOpen

(* What the two operations on levels need. *)
LEMMA CanPush ==
    ASSUME NEW u, UnitOK(u), NEW s, RegionsOpen(u, s)
    PROVE  HasRecycled(u)
<1>1. PICK used, old : LevelsOK(u, used, old)
  BY DEF RegionsOpen
<1> SUFFICES ASSUME u.old_levels # NULL
             PROVE  u.old_levels \in 1 .. Len(u.levels) /\ u.levels[u.old_levels].prev \in Nat
  BY DEF HasRecycled
<1>2. u.old_levels \in 1 .. Len(u.levels) /\ Len(old) # 0 /\ old[1] = u.old_levels
  BY <1>1, RecycledLevels
<1>3. Len(old) \in Nat
  BY <1>1 DEF LevelsOK, Chained, IsList
<1>4. 1 \in 1 .. Len(old) /\ (1 < Len(old) => 1 + 1 \in 1 .. Len(old))
  BY <1>2, <1>3
<1>5. u.levels[old[1]].prev = IF 1 < Len(old) THEN old[1 + 1] ELSE NULL
  BY <1>1, <1>4 DEF LevelsOK, Chained
<1>6. 1 < Len(old) => old[1 + 1] \in 1 .. Len(u.levels)
  BY <1>1, <1>4 DEF LevelsOK, Chained
<1> QED
  BY <1>2, <1>5, <1>6 DEF NULL

LEMMA CanPop ==
    ASSUME NEW u, UnitOK(u), NEW s, FramesOK(s), Len(s) # 0, RegionsOpen(u, s)
    PROVE  /\ u.cur_level \in 1 .. Len(u.levels)
           /\ u.levels[u.cur_level].prev \in Nat /\ u.levels[u.cur_level].prev_stmts \in Nat
<1>1. PICK used, old : LevelsOK(u, used, old) /\ Len(used) = Cardinality(RegionSet(s)) + 1
  BY DEF RegionsOpen
<1>2. Cardinality(RegionSet(s)) \in Nat /\ Cardinality(RegionSet(s)) # 0
  BY RegionsFinite, SomeRegion DEF FramesOK
<1>3. Len(used) # 1
  BY ONLY <1>1, <1>2
<1>4. /\ u.cur_level \in 1 .. Len(u.levels) /\ u.levels[u.cur_level].prev \in 1 .. Len(u.levels)
      /\ u.levels[u.cur_level].prev_stmts \in Nat
  BY <1>1, <1>3, CurrentLevel
<1> QED
  BY <1>4

(* A region is opened. *)
LEMMA RegionOpened ==
    ASSUME NEW u, NEW s, NEW kn, NEW dn, StateOK(u, s, kn, dn), Len(s) # 0, NEW v, LevelOpened(u, v),
           NEW x, FrameOK(x), x.k = "declare", x.list = v.cur_stmts, NEW t, t = Append(s, x)
    PROVE  StateOK(v, t, kn, dn)
<1>1. /\ UnitOK(u) /\ UnitOK(v) /\ v.decls = u.decls /\ v.fn = u.fn
      /\ KeepsLists(u, v) /\ OpensList(u, v)
      /\ FramesOK(s) /\ IsList(s) /\ Len(s) \in Nat /\ x.k # "body" /\ IsRegion(x)
  BY DEF StateOK, LevelOpened, FramesOK, IsList, IsRegion
<1>2. Framed(s, t, x)
  BY <1>1, FramePushed
<1>3. FramesOK(t)
  BY <1>1, <1>2, FramesMore
<1>4. IsHome(t, Len(t), v.fn)
  BY <1>1, <1>2, HomeBelow DEF StateOK
<1>5. HomesOK(t, kn)
  BY <1>1, <1>2, HomesMore DEF StateOK
<1>6. KnownOK(v, kn) /\ DoneOK(v, kn, dn)
  BY <1>1 DEF StateOK, KnownOK, DoneOK
<1>7. RegionsOpen(v, t)
  BY <1>1, <1>2, LevelForRegion DEF StateOK
<1>8. ListsOK(v, t)
  BY <1>1, <1>2, ListsMore DEF StateOK
<1> QED
  BY <1>1, <1>3, <1>4, <1>5, <1>6, <1>7, <1>8 DEF StateOK

(* A region is closed, and becomes a statement of what is around it. *)
LEMMA RegionClosed ==
    ASSUME NEW u, NEW s, NEW kn, NEW dn, StateOK(u, s, kn, dn), Len(s) # 0, Last(s).k = "declare",
           NEW w, LevelClosed(u, w), NEW v, Quiet(w, v), v.cur_stmts = w.cur_stmts, NEW t, SameFrames(Front(s), t)
    PROVE  StateOK(v, t, kn, dn)
<1>0. PICK r : r = Front(s)
  OBVIOUS
<1>1. /\ UnitOK(u) /\ UnitOK(w) /\ KeepsDecls(u, w) /\ KeepsLists(u, w) /\ w.fn = u.fn
      /\ FramesOK(s) /\ Last(s).k # "body" /\ IsRegion(Last(s)) /\ SameFrames(r, t)
  BY <1>0 DEF StateOK, LevelClosed, IsRegion
<1>2. Framed(r, s, Last(s)) /\ FramesOK(r) /\ IsList(r) /\ Len(r) \in Nat
  BY <1>0, <1>1, FramePopped DEF FramesOK, IsList
<1>3. IsHome(r, Len(r), w.fn)
  BY <1>1, <1>2, HomeBelow DEF StateOK
<1>4. HomesOK(r, kn)
  BY <1>1, <1>2, HomesLess DEF StateOK
<1>5. KnownOK(w, kn) /\ DoneOK(w, kn, dn)
  BY <1>1, KnownKept DEF StateOK
<1>6. RegionsOpen(w, r) /\ w.cur_stmts = ListOf(r, Len(r))
  BY <1>1, <1>2, LevelOfRegion DEF StateOK
<1>7. ListsOK(w, r)
  BY <1>1, <1>2, <1>6, ListsLess DEF StateOK
<1>8. StateOK(w, r, kn, dn)
  BY <1>1, <1>2, <1>3, <1>4, <1>5, <1>6, <1>7 DEF StateOK
<1> QED
  BY <1>1, <1>8, TextOnly

(* From kn to kn2 the client remembers one declaration more. *)
Remembers(kn, kn2, d, r) == kn2 = [i \in DOMAIN kn \cup {d} |-> IF i = d THEN r ELSE kn[i]]

(* A declaration. *)
LEMMA DeclarationAdded ==
    ASSUME NEW u, NEW s, NEW kn, NEW dn, StateOK(u, s, kn, dn),
           NEW v, Quiet(u, v), v.cur_stmts = u.cur_stmts,
           NEW d \in 1 .. Len(v.decls), ~(d \in 1 .. Len(u.decls)),
           NEW r, KnownRecord(r), DeclExact(v.decls[d], r),
           NEW t, SameFrames(s, t), NEW kn2, Remembers(kn, kn2, d, r)
    PROVE  StateOK(v, t, kn2, dn)
<1>1. StateOK(v, t, kn, dn)
  BY TextOnly
<1>2. d \notin DOMAIN kn
  BY DEF StateOK, KnownOK
<1>3. /\ DOMAIN kn2 = DOMAIN kn \cup {d} /\ kn2[d] = r
      /\ \A i \in DOMAIN kn : kn2[i] = kn[i]
  BY ONLY <1>2, Remembers(kn, kn2, d, r) DEF Remembers
<1>4. KnownOK(v, kn2)
  BY <1>1, <1>3 DEF StateOK, KnownOK
<1>5. HomesOK(t, kn2)
  BY <1>1, <1>3 DEF StateOK, HomesOK
<1>6. DoneOK(v, kn2, dn)
  BY <1>1, <1>3 DEF StateOK, DoneOK
<1> QED
  BY <1>1, <1>4, <1>5, <1>6 DEF StateOK

(* The homes of declarations do not change. *)
LEMMA HomesSame ==
    ASSUME NEW kn, NEW kn2, DOMAIN kn2 = DOMAIN kn, \A i \in DOMAIN kn : kn2[i].home = kn[i].home,
           NEW s, HomesOK(s, kn)
    PROVE  HomesOK(s, kn2)
BY DEF HomesOK

(* A value. *)
LEMMA ValueAdded ==
    ASSUME NEW u, NEW s, NEW kn, NEW dn, StateOK(u, s, kn, dn),
           NEW d \in DOMAIN kn, kn[d].storage \in {"public", "private"},
           NEW v, Valued(u, v, d), NEW kn2, kn2 = [kn EXCEPT ![d].value = TRUE]
    PROVE  StateOK(v, s, kn2, dn)
<1>1. /\ UnitOK(u) /\ UnitOK(v) /\ v.fn = u.fn /\ SameLevels(u, v) /\ v.cur_stmts = u.cur_stmts
      /\ v.stmts = u.stmts /\ Len(v.decls) = Len(u.decls) /\ Len(u.decls) \in Nat
      /\ \A j \in 1 .. Len(u.decls) : j # d => v.decls[j] = u.decls[j]
      /\ d \in 1 .. Len(u.decls)
  BY DEF StateOK, Valued, OnlyDecls, KnownOK, UnitOK, IsList
<1>2. PICK r : r = [kn[d] EXCEPT !.value = TRUE]
  OBVIOUS
<1>3. /\ DOMAIN kn2 = DOMAIN kn /\ kn2[d] = r
      /\ \A i \in DOMAIN kn : i # d => kn2[i] = kn[i]
  BY <1>2
<1>4. KnownRecord(kn[d]) /\ DeclExact(u.decls[d], kn[d])
  BY DEF StateOK, KnownOK
<1>5. /\ KnownRecord(r) /\ r.value = TRUE /\ r.k = kn[d].k /\ r.storage = kn[d].storage
      /\ r.home = kn[d].home /\ r.begun = kn[d].begun
  BY <1>2, <1>4 DEF KnownRecord
<1>6. DeclExact(v.decls[d], r)
  <2>1. r.storage # "local" /\ r.storage # "external"
    BY <1>5
  <2> QED
    BY <1>4, <1>5, <2>1 DEF Valued, DeclExact
<1>7. KnownOK(v, kn2)
  <2> SUFFICES ASSUME NEW i \in DOMAIN kn2
               PROVE  i \in 1 .. Len(v.decls) /\ KnownRecord(kn2[i]) /\ DeclExact(v.decls[i], kn2[i])
    BY DEF KnownOK
  <2>1. i \in DOMAIN kn /\ i \in 1 .. Len(u.decls) /\ KnownRecord(kn[i]) /\ DeclExact(u.decls[i], kn[i])
    BY <1>3 DEF StateOK, KnownOK
  <2>2. CASE i = d
    BY <1>1, <1>3, <1>5, <1>6, <2>2
  <2>3. CASE i # d
    BY <1>1, <1>3, <2>1, <2>3
  <2> QED
    BY <2>2, <2>3
<1>8. \A i \in DOMAIN kn : kn2[i].home = kn[i].home /\ v.decls[i].finalized = u.decls[i].finalized
  <2> SUFFICES ASSUME NEW i \in DOMAIN kn PROVE kn2[i].home = kn[i].home /\ v.decls[i].finalized = u.decls[i].finalized
    OBVIOUS
  <2>1. i \in 1 .. Len(u.decls)
    BY DEF StateOK, KnownOK
  <2> QED
    BY <1>1, <1>3, <1>5, <2>1 DEF Valued
<1>9. HomesOK(s, kn2) /\ DoneOK(v, kn2, dn)
  <2>1. HomesOK(s, kn) /\ DoneOK(u, kn, dn)
    BY DEF StateOK
  <2>2. HomesOK(s, kn2)
    BY ONLY <1>3, <1>8, <2>1, HomesSame
  <2>3. DoneOK(v, kn2, dn)
    BY ONLY <1>3, <1>8, <2>1 DEF DoneOK
  <2> QED
    BY <2>2, <2>3
<1>10. RegionsOpen(v, s)
  BY <1>1, RegionsKept DEF StateOK, SameAround
<1>11. ListsOK(v, s)
  BY <1>1 DEF StateOK, ListsOK
<1> QED
  BY <1>1, <1>7, <1>9, <1>10, <1>11 DEF StateOK

EnterFunction(u, f) == [u EXCEPT !.fn = f, !.decls[f].external = FALSE]
LeaveFunction(u, f, bind, parent) ==
    [u EXCEPT !.decls[f].saved = bind, !.decls[f].finalized = parent = NULL, !.fn = parent]

(* v is u where the body of f is about to be built. *)
Entered(u, v, f) ==
    /\ UnitOK(v) /\ v.fn = f /\ SameLevels(u, v) /\ v.cur_stmts = u.cur_stmts /\ v.stmts = u.stmts
    /\ Len(v.decls) = Len(u.decls)
    /\ \A j \in 1 .. Len(u.decls) : j # f => v.decls[j] = u.decls[j]
    /\ LET x == u.decls[f]
           y == v.decls[f]
       IN  /\ y.external = FALSE /\ y.context = x.context /\ y.compiled = x.compiled
           /\ y.public = x.public /\ y.static = x.static /\ y.finalized = x.finalized

LEMMA SubprogramEntered ==
    ASSUME NEW u, UnitOK(u), NEW f \in 1 .. Len(u.decls), NEW v, v = EnterFunction(u, f)
    PROVE  Entered(u, v, f)
<1>1. PICK y : y = [u.decls[f] EXCEPT !.external = FALSE]
  OBVIOUS
<1>2. PICK w : w = [u EXCEPT !.decls = [u.decls EXCEPT ![f] = y]]
  OBVIOUS
<1>3. /\ DOMAIN y = DeclFields /\ y.external = FALSE
      /\ y.context = u.decls[f].context /\ y.compiled = u.decls[f].compiled
      /\ y.public = u.decls[f].public /\ y.static = u.decls[f].static /\ y.finalized = u.decls[f].finalized
  BY <1>1 DEF UnitOK, DeclFields
<1>4. OnlyDecls(u, w) /\ ReplacedAt(u.decls, w.decls, f, y)
  BY ONLY UnitOK(u), <1>2, <1>3, DeclTouched
<1>5. UnitOK(w)
  BY <1>4 DEF OnlyDecls
<1>6. v = [w EXCEPT !.fn = f]
  BY <1>1, <1>2 DEF UnitOK, Fields, EnterFunction
<1>7. /\ DOMAIN v = Fields /\ v.cur_level = w.cur_level /\ v.old_levels = w.old_levels
      /\ v.fn = f /\ v.levels = w.levels /\ v.decls = w.decls
      /\ v.cur_stmts = w.cur_stmts /\ v.stmts = w.stmts
  BY ONLY <1>5, <1>6 DEF UnitOK, Fields
<1>8. UnitOK(v)
  BY ONLY <1>5, <1>7 DEF UnitOK
<1>9. SameLevels(u, v) /\ v.cur_stmts = u.cur_stmts /\ v.stmts = u.stmts
  BY ONLY <1>4, <1>7 DEF OnlyDecls, SameLevels, SameLevel
<1>10. /\ Len(v.decls) = Len(u.decls) /\ v.decls[f] = y
       /\ \A j \in 1 .. Len(u.decls) : j # f => v.decls[j] = u.decls[j]
  BY ONLY <1>4, <1>7, f \in 1 .. Len(u.decls) DEF ReplacedAt
<1> QED
  BY ONLY <1>3, <1>7, <1>8, <1>9, <1>10 DEF Entered

(* The body of f is begun. *)
LEMMA BodyOpened ==
    ASSUME NEW u, NEW s, NEW kn, NEW dn, StateOK(u, s, kn, dn),
           NEW f \in DOMAIN kn, kn[f].k = "func", kn[f].home = u.fn,
           NEW w, Entered(u, w, f), NEW v, LevelOpened(w, v),
           NEW kn2, kn2 = [kn EXCEPT ![f].begun = TRUE],
           NEW x, FrameOK(x), x.k = "body", x.func = f, x.list = v.cur_stmts, NEW t, t = Append(s, x)
    PROVE  StateOK(v, t, kn2, dn)
<1>1. /\ UnitOK(u) /\ UnitOK(w) /\ UnitOK(v) /\ v.decls = w.decls /\ v.fn = f
      /\ FramesOK(s) /\ IsList(s) /\ Len(s) \in Nat /\ Len(s) <= Len(s) /\ IsRegion(x)
      /\ Len(w.decls) = Len(u.decls)
      /\ \A j \in 1 .. Len(u.decls) : j # f => w.decls[j] = u.decls[j]
      /\ f \in 1 .. Len(u.decls)
  BY DEF StateOK, Entered, LevelOpened, FramesOK, IsList, IsRegion, KnownOK
<1>2. PICK r : r = [kn[f] EXCEPT !.begun = TRUE]
  OBVIOUS
<1>3. /\ DOMAIN kn2 = DOMAIN kn /\ kn2[f] = r
      /\ \A i \in DOMAIN kn : i # f => kn2[i] = kn[i]
  BY <1>2
<1>4. KnownRecord(kn[f]) /\ DeclExact(u.decls[f], kn[f])
  BY DEF StateOK, KnownOK
<1>5. /\ KnownRecord(r) /\ r.begun = TRUE /\ r.k = kn[f].k /\ r.storage = kn[f].storage
      /\ r.home = kn[f].home /\ r.value = kn[f].value
  BY <1>2, <1>4 DEF KnownRecord
<1>6. DeclExact(w.decls[f], r)
  BY <1>4, <1>5 DEF Entered, DeclExact
<1>7. KnownOK(v, kn2)
  <2> SUFFICES ASSUME NEW i \in DOMAIN kn2
               PROVE  i \in 1 .. Len(v.decls) /\ KnownRecord(kn2[i]) /\ DeclExact(v.decls[i], kn2[i])
    BY DEF KnownOK
  <2>1. i \in DOMAIN kn /\ i \in 1 .. Len(u.decls) /\ KnownRecord(kn[i]) /\ DeclExact(u.decls[i], kn[i])
    BY <1>3 DEF StateOK, KnownOK
  <2>2. CASE i = f
    BY <1>1, <1>3, <1>5, <1>6, <2>2
  <2>3. CASE i # f
    BY <1>1, <1>3, <2>1, <2>3
  <2> QED
    BY <2>2, <2>3
<1>8. \A i \in DOMAIN kn : kn2[i].home = kn[i].home /\ v.decls[i].finalized = u.decls[i].finalized
  <2> SUFFICES ASSUME NEW i \in DOMAIN kn PROVE kn2[i].home = kn[i].home /\ v.decls[i].finalized = u.decls[i].finalized
    OBVIOUS
  <2>1. i \in 1 .. Len(u.decls)
    BY DEF StateOK, KnownOK
  <2> QED
    BY <1>1, <1>3, <1>5, <2>1 DEF Entered
<1>9. DoneOK(v, kn2, dn)
  <2>1. DoneOK(u, kn, dn)
    BY DEF StateOK
  <2> QED
    BY ONLY <1>3, <1>8, <2>1 DEF DoneOK
<1>10. Framed(s, t, x)
  BY <1>1, FramePushed
<1>11. FramesOK(t)
  BY <1>1, <1>10, FramesMore
<1>12. IsHome(t, Len(t), v.fn)
  <2>1. x.k = "body" => (IsHome(t, Len(t), f) <=> f = x.func)
    BY ONLY <1>1, <1>10, HomeBelow
  <2> QED
    BY <1>1, <2>1
<1>13. HomesOK(t, kn2)
  <2>1. HomesOK(s, kn2)
    BY <1>3, <1>8, HomesSame DEF StateOK
  <2>2. x.func \in DOMAIN kn2 /\ IsHome(s, Len(s), kn2[x.func].home)
    BY <1>3, <1>5 DEF StateOK
  <2> QED
    BY <1>1, <1>10, <2>1, <2>2, HomesMore
<1>14. RegionsOpen(w, s)
  <2>1. SameLevels(u, w)
    BY DEF Entered
  <2> QED
    BY <2>1, RegionsKept DEF StateOK, SameAround
<1>15. ListsOK(w, s)
  BY DEF StateOK, Entered, ListsOK
<1>16. RegionsOpen(v, t)
  BY <1>1, <1>10, <1>14, <1>15, LevelForRegion
<1>17. ListsOK(v, t)
  <2>1. KeepsLists(w, v) /\ OpensList(w, v)
    BY DEF LevelOpened
  <2> QED
    BY <1>1, <1>10, <1>15, <2>1, ListsMore
<1> QED
  BY <1>1, <1>7, <1>9, <1>11, <1>12, <1>13, <1>16, <1>17 DEF StateOK

(* v is u where the subprogram f is complete, and its parent the current function. *)
Left(u, v, f, parent) ==
    /\ UnitOK(v) /\ v.fn = parent /\ SameLevels(u, v) /\ v.cur_stmts = u.cur_stmts /\ v.stmts = u.stmts
    /\ Len(v.decls) = Len(u.decls)
    /\ \A j \in 1 .. Len(u.decls) : j # f => v.decls[j] = u.decls[j]
    /\ LET x == u.decls[f]
           y == v.decls[f]
       IN  /\ y.finalized = (parent = NULL) /\ y.context = x.context /\ y.compiled = x.compiled
           /\ y.external = x.external /\ y.public = x.public /\ y.static = x.static

LEMMA SubprogramLeft ==
    ASSUME NEW u, UnitOK(u), NEW f \in 1 .. Len(u.decls), NEW bind, NEW parent, NEW v,
           v = LeaveFunction(u, f, bind, parent)
    PROVE  Left(u, v, f, parent)
<1>0. PICK b : b = (parent = NULL)
  OBVIOUS
<1>1. PICK y : y = [u.decls[f] EXCEPT !.saved = bind, !.finalized = b]
  OBVIOUS
<1>2. PICK w : w = [u EXCEPT !.decls = [u.decls EXCEPT ![f] = y]]
  OBVIOUS
<1>3. /\ DOMAIN y = DeclFields /\ y.finalized = b
      /\ y.context = u.decls[f].context /\ y.compiled = u.decls[f].compiled
      /\ y.public = u.decls[f].public /\ y.static = u.decls[f].static /\ y.external = u.decls[f].external
  BY <1>1 DEF UnitOK, DeclFields
<1>4. OnlyDecls(u, w) /\ ReplacedAt(u.decls, w.decls, f, y)
  BY ONLY UnitOK(u), <1>2, <1>3, DeclTouched
<1>5. UnitOK(w)
  BY <1>4 DEF OnlyDecls
<1>6. v = [w EXCEPT !.fn = parent]
  <2>1. v = [u EXCEPT !.decls[f].saved = bind, !.decls[f].finalized = b, !.fn = parent]
    BY <1>0 DEF LeaveFunction
  <2>2. [u EXCEPT !.decls[f].saved = bind, !.decls[f].finalized = b] = w
    BY ONLY <1>1, <1>2, UnitOK(u), f \in 1 .. Len(u.decls) DEF UnitOK, Fields, IsList
  <2> QED
    BY ONLY <2>1, <2>2
<1>7. /\ DOMAIN v = Fields /\ v.cur_level = w.cur_level /\ v.old_levels = w.old_levels
      /\ v.fn = parent /\ v.levels = w.levels /\ v.decls = w.decls
      /\ v.cur_stmts = w.cur_stmts /\ v.stmts = w.stmts
  BY ONLY <1>5, <1>6 DEF UnitOK, Fields
<1>8. UnitOK(v)
  BY ONLY <1>5, <1>7 DEF UnitOK
<1>9. SameLevels(u, v) /\ v.cur_stmts = u.cur_stmts /\ v.stmts = u.stmts
  BY ONLY <1>4, <1>7 DEF OnlyDecls, SameLevels, SameLevel
<1>10. /\ Len(v.decls) = Len(u.decls) /\ v.decls[f] = y
       /\ \A j \in 1 .. Len(u.decls) : j # f => v.decls[j] = u.decls[j]
  BY ONLY <1>4, <1>7, f \in 1 .. Len(u.decls) DEF ReplacedAt
<1> QED
  BY ONLY <1>0, <1>3, <1>7, <1>8, <1>9, <1>10 DEF Left

(* The body of the innermost subprogram is complete. *)
LEMMA BodyClosed ==
    ASSUME NEW u, NEW s, NEW kn, NEW dn, StateOK(u, s, kn, dn), Len(s) # 0, Last(s).k = "body",
           NEW w, LevelClosed(u, w), NEW v, Left(w, v, u.fn, u.decls[u.fn].context),
           NEW r, r.func = Last(s).func, NEW dn2, dn2 = Append(dn, r), NEW t, t = Front(s)
    PROVE  StateOK(v, t, kn, dn2)
<1>1. /\ UnitOK(u) /\ UnitOK(w) /\ UnitOK(v) /\ KeepsDecls(u, w)
      /\ FramesOK(s) /\ IsRegion(Last(s))
  BY DEF StateOK, LevelClosed, Left, IsRegion
<1>2. Framed(t, s, Last(s)) /\ FramesOK(t) /\ IsList(t) /\ Len(t) \in Nat /\ Len(t) <= Len(t)
  <2>1. Framed(t, s, s[Len(s)]) /\ Last(s) = s[Len(s)] /\ FramesOK(t)
    BY <1>1, FramePopped
  <2>2. IsList(t) /\ Len(t) \in Nat
    BY <2>1 DEF FramesOK, IsList
  <2>3. Len(t) <= Len(t)
    BY <2>2
  <2> QED
    BY <2>1, <2>2, <2>3
<1>3. Len(s) = Len(t) + 1 /\ s[Len(s)] = Last(s) /\ Len(s) \in 1 .. Len(s) /\ Len(s) - 1 = Len(t)
  BY <1>2 DEF Framed, Last
<1>4. PICK f : f = u.fn
  OBVIOUS
<1>5. f = Last(s).func
  <2>1. IsHome(s, Len(s), f)
    BY <1>4 DEF StateOK
  <2>2. Last(s).k = "body" => (IsHome(s, Len(s), f) <=> f = Last(s).func)
    BY ONLY <1>2, HomeBelow
  <2> QED
    BY <2>1, <2>2
<1>6. f \in DOMAIN kn /\ IsHome(s, Len(t), kn[f].home)
  <2>1. s[Len(s)].func \in DOMAIN kn /\ IsHome(s, Len(s) - 1, kn[s[Len(s)].func].home)
    BY <1>3 DEF StateOK, HomesOK
  <2> QED
    BY <1>3, <1>5, <2>1
<1>7. f \in 1 .. Len(u.decls) /\ u.decls[f].context = kn[f].home /\ KnownOK(w, kn) /\ DoneOK(w, kn, dn)
  <2>1. f \in 1 .. Len(u.decls) /\ DeclExact(u.decls[f], kn[f])
    BY <1>6 DEF StateOK, KnownOK
  <2>2. KnownOK(w, kn) /\ DoneOK(w, kn, dn)
    BY <1>1, KnownKept DEF StateOK
  <2> QED
    BY <2>1, <2>2 DEF DeclExact
<1>8. PICK h : h = kn[f].home
  OBVIOUS
<1>9. Left(w, v, f, h)
  BY <1>4, <1>7, <1>8
<1>10. IsHome(t, Len(t), v.fn)
  <2>1. IsHome(t, Len(t), h)
    BY <1>2, <1>6, <1>8, HomeBelow
  <2> QED
    BY <1>9, <2>1 DEF Left
<1>11. HomesOK(t, kn)
  BY <1>2, HomesLess DEF StateOK
<1>12. ASSUME NEW i \in DOMAIN kn
       PROVE  /\ i \in 1 .. Len(w.decls) /\ KnownRecord(kn[i]) /\ DeclExact(w.decls[i], kn[i])
              /\ i # f => v.decls[i] = w.decls[i]
  BY <1>7, <1>9 DEF KnownOK, Left
<1>13. Len(v.decls) = Len(w.decls)
  BY <1>9 DEF Left
<1>14. KnownOK(v, kn)
  <2> SUFFICES ASSUME NEW i \in DOMAIN kn
               PROVE  i \in 1 .. Len(v.decls) /\ KnownRecord(kn[i]) /\ DeclExact(v.decls[i], kn[i])
    BY DEF KnownOK
  <2>1. CASE i = f
    <3>1. DeclExact(v.decls[f], kn[f])
      BY <1>6, <1>9, <1>12 DEF Left, DeclExact
    <3> QED
      BY <1>12, <1>13, <2>1, <3>1
  <2>2. CASE i # f
    BY <1>12, <1>13, <2>2
  <2> QED
    BY <2>1, <2>2
<1>15. DoneOK(v, kn, dn2)
  <2>1. Lengthened(dn, dn2, r)
    BY <1>7, Longer DEF DoneOK
  <2>2. Len(dn) \in Nat
    BY <1>7 DEF DoneOK, IsList
  <2>3. v.decls[f].finalized = (kn[f].home = NULL)
    BY <1>8, <1>9 DEF Left
  <2>4. ASSUME NEW i \in DOMAIN kn, w.decls[i].finalized = (kn[i].home = NULL)
        PROVE  v.decls[i].finalized = (kn[i].home = NULL)
    BY <1>12, <2>3, <2>4
  <2>5. ASSUME NEW i \in 1 .. Len(dn2)
        PROVE  dn2[i].func \in DOMAIN kn /\ v.decls[dn2[i].func].finalized = (kn[dn2[i].func].home = NULL)
    <3>1. CASE i = Len(dn) + 1
      <4>1. dn2[i].func = f
        BY <1>5, <2>1, <3>1 DEF Lengthened
      <4> QED
        BY <1>6, <2>3, <4>1
    <3>2. CASE i # Len(dn) + 1
      <4>1. i \in 1 .. Len(dn) /\ dn2[i] = dn[i]
        BY <2>1, <2>2, <3>2 DEF Lengthened
      <4>2. dn[i].func \in DOMAIN kn /\ w.decls[dn[i].func].finalized = (kn[dn[i].func].home = NULL)
        BY <1>7, <4>1 DEF DoneOK
      <4> QED
        BY <2>4, <4>1, <4>2
    <3> QED
      BY <3>1, <3>2
  <2> QED
    BY <2>1, <2>5 DEF DoneOK, Lengthened
<1>16. RegionsOpen(w, t) /\ w.cur_stmts = ListOf(t, Len(t))
  BY <1>1, <1>2, LevelOfRegion DEF StateOK
<1>17. RegionsOpen(v, t)
  <2>1. SameLevels(w, v)
    BY <1>9 DEF Left
  <2> QED
    BY <1>16, <2>1, RegionsKept DEF SameAround
<1>18. ListsOK(v, t)
  <2>1. KeepsLists(u, w)
    BY DEF LevelClosed
  <2>2. ListsOK(w, t)
    BY <1>1, <1>2, <1>16, <2>1, ListsLess DEF StateOK
  <2> QED
    BY <1>9, <2>2 DEF Left, ListsOK
<1> QED
  BY <1>1, <1>2, <1>10, <1>11, <1>14, <1>15, <1>17, <1>18 DEF StateOK

(*-------------------------------- the steps ---------------------------------*)

LEMMA StateFacts ==
    ASSUME Inv
    PROVE  /\ UnitOK(o) /\ FramesOK(open) /\ IsList(open)
           /\ \A i \in 1 .. Len(open) : FrameOK(open[i])
           /\ open = <<>> <=> Len(open) = 0
           /\ o.fn = Home
           /\ o.fn = NULL <=> open = <<>>
           /\ o.cur_stmts = NULL <=> open = <<>>
           /\ o.cur_stmts \in Nat
           /\ open # <<>> => FrameOK(Top) /\ Top = open[Len(open)] /\ Len(open) \in 1 .. Len(open)
           /\ o.cur_stmts = ListOf(open, Len(open))
           /\ open # <<>> => o.cur_stmts = Top.list /\ OwnList(open, Len(open))
<1>1. UnitOK(o) /\ FramesOK(open) /\ IsList(open) /\ Len(open) \in Nat /\ IsHome(open, Len(open), o.fn)
  BY DEF Inv, StateOK, FramesOK, IsList
<1>2. \A i \in 1 .. Len(open) : FrameOK(open[i])
  BY <1>1 DEF FramesOK
<1>3. open = <<>> <=> Len(open) = 0
  <2>1. Len(open) = 0 => open = <<>>
    BY <1>1 DEF IsList
  <2>2. open = <<>> => Len(open) = 0
    OBVIOUS
  <2> QED
    BY <2>1, <2>2
<1>4. o.fn = Home
  BY <1>1, HomeIs
<1>5. /\ o.cur_stmts = NULL <=> Len(open) = 0
      /\ o.fn = NULL <=> Len(open) = 0
      /\ o.cur_stmts \in Nat
  BY Outermost DEF Inv
<1>6. ASSUME open # <<>>
      PROVE  FrameOK(Top) /\ Top = open[Len(open)] /\ Len(open) \in 1 .. Len(open)
  <2>1. Len(open) \in 1 .. Len(open)
    BY <1>1, <1>3, <1>6
  <2> QED
    BY <1>2, <2>1 DEF Top, Last
<1>7. o.cur_stmts = ListOf(open, Len(open))
  BY DEF Inv, StateOK, ListsOK
<1>8. ASSUME open # <<>>
      PROVE  o.cur_stmts = Top.list /\ OwnList(open, Len(open))
  <2>1. OwnList(open, Len(open))
    BY <1>6, <1>8 DEF Inv, StateOK, ListsOK
  <2> QED
    BY <1>3, <1>6, <1>7, <1>8, <2>1 DEF ListOf
<1> QED
  BY <1>1, <1>2, <1>3, <1>4, <1>5, <1>6, <1>7, <1>8

(* A step inside a construct. *)
LEMMA TextStep ==
    ASSUME Inv, NEW v, Quiet(o, v), v.cur_stmts = o.cur_stmts, NEW t, SameFrames(open, t)
    PROVE  StateOK(v, t, known, done)
BY TextOnly DEF Inv

LEMMA AssignKeeps ==
    ASSUME Inv, Assign \/ Return
    PROVE  Inv'
<1>1. PICK v : v = o'
  OBVIOUS
<1>2. PICK t : t = open'
  OBVIOUS
<1>3. (\E x, y : v = new_assign_stmt(o, x, y)) \/ v = new_return_stmt(o)
  BY <1>1 DEF Assign, Return
<1>4. Quiet(o, v) /\ v.cur_stmts = o.cur_stmts
  BY <1>3, SimpleStatement, StateFacts
<1>5. \E x : t = WithText(open, x)
  BY <1>2 DEF Assign, Return, Text
<1>6. SameFrames(open, t)
  BY <1>5, StateFacts, TextAdded
<1>7. StateOK(v, t, known, done)
  BY <1>4, <1>6, TextStep
<1>8. known' = known /\ done' = done /\ client' = client
  BY DEF Assign, Return, Spend
<1> QED
  BY <1>1, <1>2, <1>7, <1>8 DEF Inv

LEMMA AllocateKeeps ==
    ASSUME Inv, Allocate
    PROVE  Inv'
<1>1. PICK v : v = o'
  OBVIOUS
<1>2. PICK t : t = open'
  OBVIOUS
<1>3. PICK w : w = new_alloca(o)
  OBVIOUS
<1>4. \E x, y : v = new_assign_stmt(w, x, y)
  BY <1>1, <1>3, Zenon DEF Allocate
<1>5. Quiet(o, w) /\ w.cur_stmts = o.cur_stmts
  BY <1>3, Alloca, StateFacts
<1>6. Quiet(w, v) /\ v.cur_stmts = w.cur_stmts
  <2>1. UnitOK(w)
    BY <1>5 DEF Quiet
  <2> QED
    BY <1>4, <2>1, SimpleStatement
<1>7. Quiet(o, v)
  BY <1>5, <1>6, QuietTwice, StateFacts
<1>8. \E x : t = WithText(open, x)
  BY <1>2 DEF Allocate, Text
<1>9. SameFrames(open, t)
  BY <1>8, StateFacts, TextAdded
<1>10. StateOK(v, t, known, done)
  BY <1>5, <1>6, <1>7, <1>9, TextStep
<1>11. known' = known /\ done' = done /\ client' = client
  BY DEF Allocate, Spend
<1> QED
  BY <1>1, <1>2, <1>10, <1>11 DEF Inv

LEMMA CallKeeps ==
    ASSUME Inv, Call
    PROVE  Inv'
<1>1. PICK v : v = o'
  OBVIOUS
<1>2. PICK t : t = open'
  OBVIOUS
<1>3. (\E x, y : v = new_procedure_call(o, x, y)) /\ \E x : t = WithText(open, x)
  BY <1>1, <1>2 DEF Call, Text
<1>4. Quiet(o, v) /\ v.cur_stmts = o.cur_stmts
  BY <1>3, SimpleStatement, StateFacts
<1>5. SameFrames(open, t)
  BY <1>3, StateFacts, TextAdded
<1>6. StateOK(v, t, known, done)
  BY <1>4, <1>5, TextStep
<1>7. known' = known /\ done' = done /\ client' = client
  BY DEF Call, Spend
<1> QED
  BY <1>1, <1>2, <1>6, <1>7 DEF Inv

LEMMA LoopJumpKeeps ==
    ASSUME Inv, LoopJump
    PROVE  Inv'
<1>1. PICK v : v = o'
  OBVIOUS
<1>2. PICK t : t = open'
  OBVIOUS
<1>3. (\E x : v = new_exit_stmt(o, x) \/ v = new_next_stmt(o, x)) /\ \E x : t = WithText(open, x)
  BY <1>1, <1>2 DEF LoopJump, Text
<1>4. Quiet(o, v) /\ v.cur_stmts = o.cur_stmts
  BY <1>3, LoopJumpStatement, StateFacts
<1>5. SameFrames(open, t)
  BY <1>3, StateFacts, TextAdded
<1>6. StateOK(v, t, known, done)
  BY <1>4, <1>5, TextStep
<1>7. known' = known /\ done' = done /\ client' = client
  BY DEF LoopJump, Spend
<1> QED
  BY <1>1, <1>2, <1>6, <1>7 DEF Inv

LEMMA ElseKeeps ==
    ASSUME Inv, Else
    PROVE  Inv'
<1>1. PICK v : v = o'
  OBVIOUS
<1>2. PICK t : t = open'
  OBVIOUS
<1>3. PICK n : n = Len(open)
  OBVIOUS
<1>4. v = new_else_stmt(o, Top.block) /\ open # <<>>
  BY <1>1 DEF Else
<1>5. Quiet(o, v) /\ OpensList(o, v)
  BY <1>4, ElseStatement, StateFacts
<1>6. PICK y : y = [[open[n] EXCEPT !.parts = Append(open[n].parts, <<>>)] EXCEPT !.list = v.cur_stmts]
  OBVIOUS
<1>7. /\ n \in 1 .. Len(open) /\ IsList(open) /\ \A i \in 1 .. Len(open) : FrameOK(open[i])
      /\ open[n].k = "if"
  BY <1>3, <1>4, StateFacts DEF Else
<1>8. t = [open EXCEPT ![n] = y]
  <2>1. t = [open EXCEPT ![n].parts = Append(@, <<>>), ![n].list = v.cur_stmts]
    BY <1>1, <1>2, <1>3 DEF Else
  <2>2. \A i \in DOMAIN open : t[i] = IF i = n THEN y ELSE open[i]
    BY <1>6, <1>7, <2>1 DEF FrameOK, FrameFields
  <2>3. DOMAIN t = DOMAIN open /\ t = [i \in DOMAIN t |-> t[i]]
    BY <2>1
  <2> QED
    BY <2>2, <2>3
<1>9. FrameOK(y) /\ SameFrame(open[n], y) /\ y.list = v.cur_stmts
  BY <1>6, <1>7 DEF FrameOK, FrameFields, SameFrame
<1>10. Refilled(open, t, v.cur_stmts)
  <2>1. ReplacedAt(open, t, n, y)
    BY <1>7, <1>8, Replaced
  <2> QED
    BY <1>3, <1>7, <1>9, <2>1 DEF ReplacedAt, Refilled, SameFrame
<1>11. StateOK(v, t, known, done)
  <2>1. Len(open) # 0 /\ open[Len(open)].k # "loop"
    BY <1>3, <1>4, <1>7, StateFacts
  <2> QED
    BY <1>5, <1>10, <2>1, GoesOn DEF Inv
<1>12. known' = known /\ done' = done /\ client' = client
  BY DEF Else, Spend
<1> QED
  BY <1>1, <1>2, <1>11, <1>12 DEF Inv

LEMMA StartIfKeeps ==
    ASSUME Inv, StartIf
    PROVE  Inv'
<1>1. PICK v : v = o'
  OBVIOUS
<1>2. PICK t : t = open'
  OBVIOUS
<1>3. PICK x : x = [Frame("if", start_if_stmt(o).block) EXCEPT !.list = v.cur_stmts]
  OBVIOUS
<1>4. v = start_if_stmt(o).o /\ t = Append(open, x) /\ open # <<>>
  BY <1>1, <1>2, <1>3 DEF StartIf, Opened
<1>5. Quiet(o, v) /\ OpensList(o, v)
  BY <1>4, IfStatement, StateFacts
<1>6. start_if_stmt(o).block.prev_stmts = o.cur_stmts
  BY IfStatement, StateFacts
<1>7. /\ FrameOK(x) /\ ~IsRegion(x) /\ x.k = "if" /\ x.list = v.cur_stmts
      /\ x.block.prev_stmts = o.cur_stmts
  BY <1>3, <1>6, StateFacts DEF FrameOK, IsRegion, Frame, FrameFields
<1>8. Len(open) # 0
  BY <1>4, StateFacts
<1>9. StateOK(v, t, known, done)
  BY <1>4, <1>5, <1>7, <1>8, FrameOpened DEF Inv
<1>10. known' = known /\ done' = done /\ client' = client
  BY DEF StartIf, Spend
<1> QED
  BY <1>1, <1>2, <1>9, <1>10 DEF Inv

LEMMA StartLoopKeeps ==
    ASSUME Inv, StartLoop
    PROVE  Inv'
<1>1. PICK v : v = o'
  OBVIOUS
<1>2. PICK t : t = open'
  OBVIOUS
<1>3. PICK x : x = [Frame("loop", start_loop_stmt(o).label) EXCEPT !.list = v.cur_stmts]
  OBVIOUS
<1>4. v = start_loop_stmt(o).o /\ t = Append(open, x) /\ open # <<>>
  BY <1>1, <1>2, <1>3 DEF StartLoop, Opened
<1>5. Quiet(o, v) /\ v.cur_stmts = o.cur_stmts
  BY <1>4, LoopStatement, StateFacts
<1>6. FrameOK(x) /\ ~IsRegion(x) /\ x.k = "loop" /\ x.list = v.cur_stmts
  BY <1>3 DEF FrameOK, IsRegion, Frame, FrameFields
<1>7. Len(open) # 0
  BY <1>4, StateFacts
<1>8. StateOK(v, t, known, done)
  BY <1>4, <1>5, <1>6, <1>7, FrameOpened DEF Inv
<1>9. known' = known /\ done' = done /\ client' = client
  BY DEF StartLoop, Spend
<1> QED
  BY <1>1, <1>2, <1>8, <1>9 DEF Inv

LEMMA StartCaseKeeps ==
    ASSUME Inv, StartCase
    PROVE  Inv'
<1>1. PICK v : v = o'
  OBVIOUS
<1>2. PICK t : t = open'
  OBVIOUS
<1>3. PICK w : w = start_case_stmt(o).o
  OBVIOUS
<1>4. PICK block : block = start_case_stmt(o).block
  OBVIOUS
<1>5. PICK c \in client.choices :
        /\ v = Branch(w, block, c).o
        /\ t = Append(open, [[Frame("case", Branch(w, block, c).block) EXCEPT !.choices = <<c>>]
                             EXCEPT !.list = v.cur_stmts])
  BY <1>1, <1>2, <1>3, <1>4, Zenon DEF StartCase, Opened
<1>6. PICK x : x = [[Frame("case", Branch(w, block, c).block) EXCEPT !.choices = <<c>>]
                    EXCEPT !.list = v.cur_stmts]
  OBVIOUS
<1>7. open # <<>> /\ known' = known /\ done' = done /\ client' = client
  BY DEF StartCase, Spend
<1>8. Len(c) \in Nat
  BY <1>5, ClientAssumption DEF Inv
<1>9. Quiet(o, w) /\ OpensList(o, w)
  BY <1>3, CaseStatement, StateFacts
<1>10. UnitOK(w) /\ IsCaseBlock(block) /\ block.prev_stmts = o.cur_stmts
  <2>1. block = [prev_stmts |-> o.cur_stmts, end_label |-> Len(o.labels) + 1, add_break |-> FALSE]
    BY <1>4, CaseStatement, StateFacts
  <2> QED
    BY <1>9, <2>1, StateFacts DEF IsCaseBlock, Quiet
<1>11. /\ Quiet(w, v) /\ v.cur_stmts = w.cur_stmts
       /\ IsCaseBlock(Branch(w, block, c).block)
       /\ Branch(w, block, c).block.prev_stmts = o.cur_stmts
  BY <1>5, <1>8, <1>10, BranchBuilt
<1>12. Quiet(o, v) /\ OpensList(o, v)
  <2>1. Quiet(o, v)
    BY <1>9, <1>11, QuietTwice, StateFacts
  <2> QED
    BY <1>9, <1>10, <1>11, <2>1, OpensLater, StateFacts DEF Quiet
<1>13. /\ FrameOK(x) /\ ~IsRegion(x) /\ x.k = "case" /\ x.list = v.cur_stmts
       /\ x.block.prev_stmts = o.cur_stmts
  BY <1>6, <1>11 DEF FrameOK, IsRegion, Frame, FrameFields
<1>14. Len(open) # 0
  BY <1>7, StateFacts
<1>15. StateOK(v, t, known, done)
  BY <1>5, <1>6, <1>12, <1>13, <1>14, FrameOpened DEF Inv
<1> QED
  BY <1>1, <1>2, <1>7, <1>15 DEF Inv

LEMMA NextBranchKeeps ==
    ASSUME Inv, NextBranch
    PROVE  Inv'
<1>1. PICK v : v = o'
  OBVIOUS
<1>2. PICK t : t = open'
  OBVIOUS
<1>3. PICK n : n = Len(open)
  OBVIOUS
<1>4. PICK c \in client.choices :
        /\ v = Branch(o, Top.block, c).o
        /\ t = [open EXCEPT ![Len(open)].block = Branch(o, Top.block, c).block,
                            ![Len(open)].parts = Append(@, <<>>), ![Len(open)].choices = Append(@, c)]
  BY <1>1, <1>2, Zenon DEF NextBranch
<1>5. PICK b : b = Branch(o, Top.block, c).block
  OBVIOUS
<1>6. PICK y : y = [[[open[n] EXCEPT !.block = b] EXCEPT !.parts = Append(open[n].parts, <<>>)]
                    EXCEPT !.choices = Append(open[n].choices, c)]
  OBVIOUS
<1>7. open # <<>> /\ Top.k = "case" /\ known' = known /\ done' = done /\ client' = client
  BY DEF NextBranch, Spend
<1>8. Len(c) \in Nat
  BY <1>4, ClientAssumption DEF Inv
<1>9. FrameOK(open[n]) /\ open[n].k = "case" /\ Top = open[n] /\ n \in 1 .. Len(open)
  BY <1>3, <1>7, StateFacts
<1>10. IsCaseBlock(Top.block)
  BY <1>9 DEF FrameOK
<1>11. Quiet(o, v) /\ v.cur_stmts = o.cur_stmts /\ IsCaseBlock(b) /\ b.prev_stmts = Top.block.prev_stmts
  BY <1>4, <1>5, <1>8, <1>10, BranchBuilt, StateFacts
<1>12. FrameOK(y) /\ SameFrame(open[n], y) /\ y.list = open[n].list
  BY <1>6, <1>9, <1>11 DEF FrameOK, FrameFields, SameFrame
<1>13. t = [open EXCEPT ![n] = y]
  <2>1. \A i \in DOMAIN open : t[i] = IF i = n THEN y ELSE open[i]
    BY <1>3, <1>4, <1>5, <1>6, <1>9 DEF FrameOK, FrameFields
  <2>2. DOMAIN t = DOMAIN open /\ t = [i \in DOMAIN t |-> t[i]]
    BY <1>4
  <2> QED
    BY <2>1, <2>2
<1>14. SameFrames(open, t)
  BY <1>12, <1>13, FrameTouched, StateFacts
<1>15. StateOK(v, t, known, done)
  BY <1>11, <1>14, TextStep
<1> QED
  BY <1>1, <1>2, <1>7, <1>15 DEF Inv

(* The frames left by a construct that is closed, with its text in the innermost one. *)
LEMMA TextClosed ==
    ASSUME NEW s, FramesOK(s), Len(s) # 0, NEW x, NEW t, t = WithText(Front(s), x)
    PROVE  SameFrames(Front(s), t)
<1>1. PICK f : f = Front(s)
  OBVIOUS
<1>2. FramesOK(f)
  BY <1>1, FramePopped
<1>3. SameFrames(f, t)
  BY <1>1, <1>2, TextAdded DEF FramesOK
<1> QED
  BY <1>1, <1>3

LEMMA CloseStep ==
    ASSUME Inv, open # <<>>, ~IsRegion(Top), NEW v, Quiet(o, v),
           v.cur_stmts = ListOf(open, Len(open) - 1),
           NEW x, NEW t, t = WithText(Front(open), x)
    PROVE  StateOK(v, t, known, done)
<1>1. FramesOK(open) /\ Len(open) # 0 /\ ~IsRegion(Last(open))
  BY StateFacts DEF Top
<1>2. SameFrames(Front(open), t)
  BY <1>1, TextClosed
<1>3. StateOK(o, open, known, done)
  BY DEF Inv
<1> QED
  BY <1>1, <1>2, <1>3, FrameClosed

LEMMA FinishIfKeeps ==
    ASSUME Inv, FinishIf
    PROVE  Inv'
<1>1. PICK v : v = o'
  OBVIOUS
<1>2. PICK t : t = open'
  OBVIOUS
<1>3. v = finish_if_stmt(o, Top.block) /\ \E x : t = WithText(Front(open), x)
  BY <1>1, <1>2 DEF FinishIf, Closed
<1>4. open # <<>> /\ Top.k = "if" /\ known' = known /\ done' = done /\ client' = client
  BY DEF FinishIf, Keep
<1>5. /\ Top.block.prev_stmts \in Nat /\ ~IsRegion(Top)
      /\ Top.block.prev_stmts = ListOf(open, Len(open) - 1)
  BY <1>4, StateFacts DEF FrameOK, IsRegion, OwnList
<1>6. Quiet(o, v) /\ v.cur_stmts = ListOf(open, Len(open) - 1)
  BY <1>3, <1>5, IfFinished, StateFacts
<1>7. StateOK(v, t, known, done)
  BY <1>3, <1>4, <1>5, <1>6, CloseStep
<1> QED
  BY <1>1, <1>2, <1>4, <1>7 DEF Inv

LEMMA FinishLoopKeeps ==
    ASSUME Inv, FinishLoop
    PROVE  Inv'
<1>1. PICK v : v = o'
  OBVIOUS
<1>2. PICK t : t = open'
  OBVIOUS
<1>3. v = finish_loop_stmt(o, Top.block) /\ \E x : t = WithText(Front(open), x)
  BY <1>1, <1>2 DEF FinishLoop, Closed
<1>4. open # <<>> /\ Top.k = "loop" /\ known' = known /\ done' = done /\ client' = client
  BY DEF FinishLoop, Keep
<1>5. ~IsRegion(Top) /\ Top.list = ListOf(open, Len(open) - 1)
  BY <1>4, StateFacts DEF IsRegion, OwnList
<1>6. Quiet(o, v) /\ v.cur_stmts = ListOf(open, Len(open) - 1)
  BY <1>3, <1>4, <1>5, LoopFinished, StateFacts
<1>7. StateOK(v, t, known, done)
  BY <1>3, <1>4, <1>5, <1>6, CloseStep
<1> QED
  BY <1>1, <1>2, <1>4, <1>7 DEF Inv

LEMMA FinishCaseKeeps ==
    ASSUME Inv, FinishCase
    PROVE  Inv'
<1>1. PICK v : v = o'
  OBVIOUS
<1>2. PICK t : t = open'
  OBVIOUS
<1>3. v = finish_case_stmt(o, Top.block) /\ \E x : t = WithText(Front(open), x)
  BY <1>1, <1>2 DEF FinishCase, Closed
<1>4. open # <<>> /\ Top.k = "case" /\ known' = known /\ done' = done /\ client' = client
  BY DEF FinishCase, Keep
<1>5. /\ Top.block.prev_stmts \in Nat /\ ~IsRegion(Top)
      /\ Top.block.prev_stmts = ListOf(open, Len(open) - 1)
  BY <1>4, StateFacts DEF FrameOK, IsRegion, IsCaseBlock, OwnList
<1>6. Quiet(o, v) /\ v.cur_stmts = ListOf(open, Len(open) - 1)
  BY <1>3, <1>5, CaseFinished, StateFacts
<1>7. StateOK(v, t, known, done)
  BY <1>3, <1>4, <1>5, <1>6, CloseStep
<1> QED
  BY <1>1, <1>2, <1>4, <1>7 DEF Inv

LEMMA StartDeclareKeeps ==
    ASSUME Inv, StartDeclare
    PROVE  Inv'
<1>1. PICK v : v = o'
  OBVIOUS
<1>2. PICK t : t = open'
  OBVIOUS
<1>3. PICK x : x = [Frame("declare", NULL) EXCEPT !.list = v.cur_stmts]
  OBVIOUS
<1>4. v = push_binding(o, "local") /\ t = Append(open, x) /\ open # <<>>
  BY <1>1, <1>2, <1>3 DEF StartDeclare, start_declare_stmt, Opened
<1>5. HasRecycled(o)
  BY CanPush DEF Inv, StateOK
<1>6. LevelOpened(o, v)
  BY <1>4, <1>5, BindingPushed, StateFacts
<1>7. FrameOK(x) /\ x.k = "declare" /\ x.list = v.cur_stmts
  BY <1>3 DEF FrameOK, Frame, FrameFields
<1>8. Len(open) # 0
  BY <1>4, StateFacts
<1>9. StateOK(v, t, known, done)
  BY <1>4, <1>6, <1>7, <1>8, RegionOpened DEF Inv
<1>10. known' = known /\ done' = done /\ client' = client
  BY DEF StartDeclare, Spend
<1> QED
  BY <1>1, <1>2, <1>9, <1>10 DEF Inv

LEMMA FinishDeclareKeeps ==
    ASSUME Inv, FinishDeclare
    PROVE  Inv'
<1>1. PICK v : v = o'
  OBVIOUS
<1>2. PICK t : t = open'
  OBVIOUS
<1>3. PICK w : w = pop_binding(o).o
  OBVIOUS
<1>4. open # <<>> /\ Top.k = "declare" /\ known' = known /\ done' = done /\ client' = client
  BY DEF FinishDeclare, Keep
<1>5. \E s : v = append_stmt(w, s)
  BY <1>1, <1>3 DEF FinishDeclare, finish_declare_stmt
<1>6. \E i, x : t = [WithText(Front(open), x) EXCEPT ![i].subs = Append(@, RegionOf(Top))]
  BY <1>2, Zenon DEF FinishDeclare
<1>7. PICK i, x : t = [WithText(Front(open), x) EXCEPT ![i].subs = Append(@, RegionOf(Top))]
  BY <1>6
<1>8. Len(open) # 0 /\ Last(open).k = "declare" /\ FramesOK(open)
  BY <1>4, StateFacts DEF Top
<1>9. LevelClosed(o, w)
  <2>1. /\ o.cur_level \in 1 .. Len(o.levels)
        /\ o.levels[o.cur_level].prev \in Nat /\ o.levels[o.cur_level].prev_stmts \in Nat
    BY <1>8, CanPop DEF Inv, StateOK
  <2> QED
    BY <1>3, <2>1, BindingPopped, StateFacts
<1>10. Quiet(w, v) /\ v.cur_stmts = w.cur_stmts
  <2>1. UnitOK(w)
    BY <1>9 DEF LevelClosed
  <2> QED
    BY <1>5, <2>1, AppendStmt
<1>11. PICK f, s : f = Front(open) /\ s = WithText(f, x)
  OBVIOUS
<1>12. FramesOK(f) /\ SameFrames(f, s)
  BY <1>8, <1>11, FramePopped, TextClosed
<1>13. PICK y : y = [s[i] EXCEPT !.subs = Append(s[i].subs, RegionOf(Top))]
  OBVIOUS
<1>14. t = [s EXCEPT ![i] = y]
  BY <1>7, <1>11, <1>13
<1>15. SameFrames(s, t)
  <2>1. IsList(s) /\ \A j \in 1 .. Len(s) : FrameOK(s[j])
    BY <1>12 DEF SameFrames, Refilled, FramesOK
  <2>2. i \in 1 .. Len(s) => FrameOK(y) /\ SameFrame(s[i], y) /\ y.list = s[i].list
    BY <1>13, <2>1 DEF FrameOK, FrameFields, SameFrame
  <2> QED
    BY <1>14, <2>1, <2>2, FrameTouched
<1>16. SameFrames(Front(open), t)
  <2>1. Len(s) = Len(f) /\ Len(f) \in Nat
    BY <1>12 DEF SameFrames, Refilled, FramesOK, IsList
  <2>2. ListOf(s, Len(s)) = ListOf(f, Len(f))
    <3>1. Len(f) # 0 => Len(f) \in 1 .. Len(f)
      BY <2>1
    <3> QED
      BY <1>12, <2>1, <3>1 DEF SameFrames, Refilled, ListOf
  <2>3. \A j \in 1 .. Len(f) : FrameOK(t[j]) /\ SameFrame(f[j], t[j])
    BY <1>12, <1>15, <2>1 DEF SameFrames, Refilled, SameFrame
  <2>4. \A j \in 1 .. Len(f) : t[j].list = IF j = Len(f) THEN ListOf(f, Len(f)) ELSE f[j].list
    BY <1>12, <1>15, <2>1, <2>2 DEF SameFrames, Refilled
  <2>5. IsList(t) /\ Len(t) = Len(f)
    BY <1>15, <2>1 DEF SameFrames, Refilled
  <2> QED
    BY <1>11, <2>3, <2>4, <2>5 DEF SameFrames, Refilled
<1>17. StateOK(v, t, known, done)
  BY <1>8, <1>9, <1>10, <1>16, RegionClosed DEF Inv
<1> QED
  BY <1>1, <1>2, <1>4, <1>17 DEF Inv

LEMMA RegionVariable ==
    ASSUME NEW s, IsList(s), \A j \in 1 .. Len(s) : FrameOK(s[j]), NEW i, NEW d,
           NEW t, t = [s EXCEPT ![i].vars = Append(@, d)]
    PROVE  SameFrames(s, t)
<1>1. PICK y : y = [s[i] EXCEPT !.vars = Append(s[i].vars, d)]
  OBVIOUS
<1>2. i \in 1 .. Len(s) => FrameOK(y) /\ SameFrame(s[i], y) /\ y.list = s[i].list
  BY <1>1 DEF FrameOK, FrameFields, SameFrame
<1>3. t = [s EXCEPT ![i] = y]
  BY <1>1
<1> QED
  BY <1>2, <1>3, FrameTouched

LEMMA DeclareStep ==
    ASSUME Inv, NEW v, Quiet(o, v), v.cur_stmts = o.cur_stmts,
           NEW d \in 1 .. Len(v.decls), ~(d \in 1 .. Len(o.decls)),
           NEW r, KnownRecord(r), DeclExact(v.decls[d], r), Declares(d, r),
           NEW t, t = open', NEW kn, kn = known'
    PROVE  StateOK(v, t, kn, done)
<1>1. Remembers(known, kn, d, r)
  BY DEF Declares, Remembers
<1>2. CASE open = <<>>
  <2>1. t = open
    BY <1>2 DEF Declares
  <2>2. SameFrames(open, t)
    BY <2>1, StateFacts DEF SameFrames, Refilled, SameFrame, ListOf
  <2>3. StateOK(o, open, known, done)
    BY DEF Inv
  <2> QED
    BY ONLY <1>1, <2>2, <2>3, Quiet(o, v), v.cur_stmts = o.cur_stmts, d \in 1 .. Len(v.decls),
            ~(d \in 1 .. Len(o.decls)), KnownRecord(r), DeclExact(v.decls[d], r), DeclarationAdded
<1>3. CASE open # <<>>
  <2>1. \E i : t = [open EXCEPT ![i].vars = Append(@, d)]
    BY <1>3 DEF Declares
  <2>2. SameFrames(open, t)
    BY <2>1, RegionVariable, StateFacts
  <2>3. StateOK(o, open, known, done)
    BY DEF Inv
  <2> QED
    BY ONLY <1>1, <2>2, <2>3, Quiet(o, v), v.cur_stmts = o.cur_stmts, d \in 1 .. Len(v.decls),
            ~(d \in 1 .. Len(o.decls)), KnownRecord(r), DeclExact(v.decls[d], r), DeclarationAdded
<1> QED
  BY <1>2, <1>3

LEMMA AddsStep ==
    ASSUME Inv, NEW v, NEW r, Adds(o, v, r), KnownRecord(r), Declares(Len(o.decls) + 1, r),
           NEW t, t = open', NEW kn, kn = known'
    PROVE  StateOK(v, t, kn, done)
<1>1. PICK d : d = Len(o.decls) + 1
  OBVIOUS
<1>2. Quiet(o, v) /\ v.cur_stmts = o.cur_stmts /\ DeclExact(v.decls[d], r) /\ Declares(d, r)
  BY <1>1 DEF Adds
<1>3. d \in 1 .. Len(v.decls) /\ ~(d \in 1 .. Len(o.decls))
  <2>1. Len(o.decls) \in Nat /\ Len(v.decls) = Len(o.decls) + 1
    BY StateFacts DEF UnitOK, IsList, Adds
  <2> QED
    BY <1>1, <2>1
<1> QED
  BY <1>2, <1>3, DeclareStep

LEMMA DeclareTypeKeeps ==
    ASSUME Inv, DeclareType
    PROVE  Inv'
<1>1. PICK v : v = o'
  OBVIOUS
<1>2. PICK t, kn : t = open' /\ kn = known'
  OBVIOUS
<1>3. PICK r : r = Known("type", "local", <<>>)
  OBVIOUS
<1>4. v = new_type_decl(o) /\ Declares(Len(o.decls) + 1, r) /\ done' = done /\ client' = client
  BY <1>1, <1>3 DEF DeclareType, Spend
<1>5. KnownRecord(r) /\ r.storage = "local" /\ r.home = o.fn
  <2>1. o.fn = Home
    BY StateFacts
  <2> QED
    BY <1>3, <2>1 DEF Known, KnownRecord
<1>6. Adds(o, v, r)
  BY <1>4, <1>5, TypeDeclared, StateFacts
<1>7. StateOK(v, t, kn, done)
  BY <1>2, <1>4, <1>5, <1>6, AddsStep
<1> QED
  BY <1>1, <1>2, <1>4, <1>7 DEF Inv

LEMMA DeclareVarKeeps ==
    ASSUME Inv, DeclareVar
    PROVE  Inv'
<1>1. PICK v : v = o'
  OBVIOUS
<1>2. PICK t, kn : t = open' /\ kn = known'
  OBVIOUS
<1>3. PICK storage \in IF open = <<>> THEN {"external", "public", "private"} ELSE {"local"} :
        v = new_var_decl(o, storage) /\ Declares(Len(o.decls) + 1, Known("var", storage, <<>>))
  BY <1>1 DEF DeclareVar
<1>4. PICK r : r = Known("var", storage, <<>>)
  OBVIOUS
<1>5. Declares(Len(o.decls) + 1, r) /\ done' = done /\ client' = client
  BY <1>3, <1>4 DEF DeclareVar, Spend
<1>6. storage \in {"local", "external", "public", "private"}
  BY <1>3
<1>7. KnownRecord(r) /\ r.k = "var" /\ r.storage = storage /\ r.home = o.fn /\ r.begun = FALSE
  <2>1. o.fn = Home
    BY StateFacts
  <2> QED
    BY <1>4, <1>6, <2>1 DEF Known, KnownRecord
<1>8. r.storage \in IF o.fn = NULL THEN {"external", "public", "private"} ELSE {"local"}
  BY <1>3, <1>7, StateFacts
<1>9. Adds(o, v, r)
  BY <1>3, <1>7, <1>8, VarDeclared, StateFacts
<1>10. StateOK(v, t, kn, done)
  BY <1>2, <1>5, <1>7, <1>9, AddsStep
<1> QED
  BY <1>1, <1>2, <1>5, <1>10 DEF Inv

LEMMA DeclareConstKeeps ==
    ASSUME Inv, DeclareConst
    PROVE  Inv'
<1>1. PICK v : v = o'
  OBVIOUS
<1>2. PICK t, kn : t = open' /\ kn = known'
  OBVIOUS
<1>3. PICK storage \in {"external", "private", "public"} :
        v = new_const_decl(o, storage) /\ Declares(Len(o.decls) + 1, Known("const", storage, <<>>))
  BY <1>1 DEF DeclareConst
<1>4. PICK r : r = Known("const", storage, <<>>)
  OBVIOUS
<1>5. Declares(Len(o.decls) + 1, r) /\ done' = done /\ client' = client
  BY <1>3, <1>4 DEF DeclareConst, Spend
<1>6. /\ KnownRecord(r) /\ r.k = "const" /\ r.storage = storage /\ r.home = o.fn
      /\ r.begun = FALSE /\ r.value = FALSE
  <2>1. o.fn = Home
    BY StateFacts
  <2> QED
    BY <1>4, <2>1 DEF Known, KnownRecord
<1>7. Adds(o, v, r)
  BY <1>3, <1>6, ConstDeclared, StateFacts
<1>8. StateOK(v, t, kn, done)
  BY <1>2, <1>5, <1>6, <1>7, AddsStep
<1> QED
  BY <1>1, <1>2, <1>5, <1>8 DEF Inv

LEMMA InitValueKeeps ==
    ASSUME Inv, InitValue
    PROVE  Inv'
<1>1. PICK v : v = o'
  OBVIOUS
<1>2. PICK kn : kn = known'
  OBVIOUS
<1>3. PICK d \in DOMAIN known :
        /\ known[d].storage \in {"public", "private"}
        /\ v = finish_init_value(o, d) /\ kn = [known EXCEPT ![d].value = TRUE]
  BY <1>1, <1>2 DEF InitValue
<1>4. open' = open /\ done' = done /\ client' = client
  BY DEF InitValue, Spend
<1>5. d \in 1 .. Len(o.decls)
  BY DEF Inv, StateOK, KnownOK
<1>6. Valued(o, v, d)
  BY <1>3, <1>5, ValueGiven, StateFacts
<1>7. StateOK(v, open, kn, done)
  BY <1>3, <1>6, ValueAdded DEF Inv
<1> QED
  BY <1>1, <1>2, <1>4, <1>7 DEF Inv

LEMMA DeclareSubprogramKeeps ==
    ASSUME Inv, DeclareSubprogram
    PROVE  Inv'
<1>1. PICK v : v = o'
  OBVIOUS
<1>2. PICK t, kn : t = open' /\ kn = known'
  OBVIOUS
<1>3. PICK storage \in IF open = <<>> THEN {"external", "public", "private"} ELSE {"local"},
           n \in client.parameters :
        /\ v = finish_subprogram_decl(Interface_Decls(storage, n).o, Interface_Decls(storage, n).inter)
        /\ Declares(Len(v.decls), Known("func", storage, [i \in 1 .. n |-> Len(o.decls) + i]))
  BY <1>1 DEF DeclareSubprogram
<1>4. PICK r : r = Known("func", storage, [i \in 1 .. n |-> Len(o.decls) + i])
  OBVIOUS
<1>5. PICK x : x = Interface_Decls(storage, n)
  OBVIOUS
<1>6. done' = done /\ client' = client
  BY DEF DeclareSubprogram, Spend
<1>7. n \in Nat
  BY <1>3, ClientAssumption DEF Inv
<1>8. storage \in {"local", "external", "public", "private"}
  BY <1>3
<1>9. KnownRecord(r) /\ r.k = "func" /\ r.storage = storage /\ r.home = o.fn /\ r.begun = FALSE
  <2>1. o.fn = Home
    BY StateFacts
  <2> QED
    BY <1>4, <1>8, <2>1 DEF Known, KnownRecord
<1>10. r.storage \in IF o.fn = NULL THEN {"external", "public", "private"} ELSE {"local"}
  BY <1>3, <1>9, StateFacts
<1>11. Parameters(o, x, n, r.storage)
  BY <1>5, <1>7, <1>9, InterfaceBuilt, StateFacts
<1>12. v = finish_subprogram_decl(x.o, x.inter)
  BY <1>3, <1>5
<1>13. AddsSubprogram(o, v, r, n)
  BY <1>7, <1>9, <1>10, <1>11, <1>12, SubprogramDeclared, StateFacts
<1>14. PICK d : d = Len(v.decls)
  OBVIOUS
<1>15. Quiet(o, v) /\ v.cur_stmts = o.cur_stmts /\ DeclExact(v.decls[d], r) /\ Declares(d, r)
  BY <1>3, <1>4, <1>13, <1>14 DEF AddsSubprogram
<1>16. d \in 1 .. Len(v.decls) /\ ~(d \in 1 .. Len(o.decls))
  <2>1. Len(o.decls) \in Nat /\ Len(v.decls) = Len(o.decls) + n + 1
    BY <1>13, StateFacts DEF UnitOK, IsList, AddsSubprogram
  <2> QED
    BY <1>7, <1>14, <2>1
<1>17. StateOK(v, t, kn, done)
  BY <1>2, <1>9, <1>15, <1>16, DeclareStep
<1> QED
  BY <1>1, <1>2, <1>6, <1>17 DEF Inv

LEMMA StartBodyKeeps ==
    ASSUME Inv, StartBody
    PROVE  Inv'
<1>1. PICK v : v = o'
  OBVIOUS
<1>2. PICK t, kn : t = open' /\ kn = known'
  OBVIOUS
<1>3. PICK f \in DOMAIN known :
        /\ known[f].k = "func" /\ known[f].home = Home
        /\ v = start_subprogram_body(o, f)
        /\ kn = [known EXCEPT ![f].begun = TRUE]
        /\ t = Append(open, [[Frame("body", NULL) EXCEPT !.func = f] EXCEPT !.list = v.cur_stmts])
  BY <1>1, <1>2, Zenon DEF StartBody, Opened
<1>4. PICK w : w = EnterFunction(o, f)
  OBVIOUS
<1>5. PICK x : x = [[Frame("body", NULL) EXCEPT !.func = f] EXCEPT !.list = v.cur_stmts]
  OBVIOUS
<1>6. v = push_binding(w, "function")
  BY <1>3, <1>4 DEF start_subprogram_body, EnterFunction
<1>7. done' = done /\ client' = client
  BY DEF StartBody, Spend
<1>8. f \in 1 .. Len(o.decls)
  BY DEF Inv, StateOK, KnownOK
<1>9. Entered(o, w, f)
  BY <1>4, <1>8, SubprogramEntered, StateFacts
<1>10. HasRecycled(w)
  <2>1. UnitOK(w) /\ SameLevels(o, w)
    BY <1>9 DEF Entered
  <2>2. RegionsOpen(o, open) /\ SameAround(open, open)
    BY DEF Inv, StateOK, SameAround
  <2>3. RegionsOpen(w, open)
    BY <2>1, <2>2, RegionsKept
  <2> QED
    BY <2>1, <2>3, CanPush
<1>11. LevelOpened(w, v)
  <2>1. UnitOK(w)
    BY <1>9 DEF Entered
  <2> QED
    BY <1>6, <1>10, <2>1, BindingPushed
<1>12. FrameOK(x) /\ x.k = "body" /\ x.func = f /\ x.list = v.cur_stmts
  BY <1>5 DEF FrameOK, Frame, FrameFields
<1>13. known[f].home = o.fn
  <2>1. o.fn = Home
    BY StateFacts
  <2> QED
    BY <1>3, <2>1
<1>14. StateOK(o, open, known, done)
  BY DEF Inv
<1>15. StateOK(v, t, kn, done)
  BY <1>3, <1>5, <1>9, <1>11, <1>12, <1>13, <1>14, BodyOpened
<1> QED
  BY <1>1, <1>2, <1>7, <1>15 DEF Inv

LEMMA FinishBodyKeeps ==
    ASSUME Inv, FinishBody
    PROVE  Inv'
<1>1. PICK v : v = o'
  OBVIOUS
<1>2. PICK t, dn : t = open' /\ dn = done'
  OBVIOUS
<1>3. PICK w : w = pop_binding(o).o
  OBVIOUS
<1>4. PICK f : f = o.fn
  OBVIOUS
<1>5. PICK parent : parent = o.decls[f].context
  OBVIOUS
<1>6. PICK r : r = [func |-> Top.func, text |-> Top.parts[1], region |-> RegionOf(Top)]
  OBVIOUS
<1>7. /\ v = finish_subprogram_body(o) /\ dn = Append(done, r) /\ t = Front(open)
      /\ open # <<>> /\ Top.k = "body" /\ known' = known /\ client' = client
  BY <1>1, <1>2, <1>6 DEF FinishBody, Keep
<1>8. \E bind : v = LeaveFunction(w, f, bind, parent)
  BY <1>3, <1>4, <1>5, <1>7, Zenon DEF finish_subprogram_body, LeaveFunction
<1>9. Len(open) # 0 /\ Last(open).k = "body" /\ FramesOK(open)
  BY <1>7, StateFacts DEF Top
<1>10. LevelClosed(o, w)
  <2>1. /\ o.cur_level \in 1 .. Len(o.levels)
        /\ o.levels[o.cur_level].prev \in Nat /\ o.levels[o.cur_level].prev_stmts \in Nat
    BY <1>9, CanPop DEF Inv, StateOK
  <2> QED
    BY <1>3, <2>1, BindingPopped, StateFacts
<1>11. f \in 1 .. Len(w.decls)
  <2>1. Len(open) \in Nat /\ Len(open) \in 1 .. Len(open) /\ open[Len(open)].k = "body"
    BY <1>7, StateFacts
  <2>2. IsHome(open, Len(open), f) /\ HomesOK(open, known)
    BY <1>4 DEF Inv, StateOK
  <2>3. f = open[Len(open)].func
    BY <2>1, <2>2 DEF IsHome
  <2>4. f \in DOMAIN known
    BY <2>1, <2>2, <2>3 DEF HomesOK
  <2>5. f \in 1 .. Len(o.decls)
    BY <2>4 DEF Inv, StateOK, KnownOK
  <2>6. Len(o.decls) \in Nat /\ Len(w.decls) \in Nat /\ Len(o.decls) <= Len(w.decls)
    BY <1>10, StateFacts DEF LevelClosed, KeepsDecls, UnitOK, IsList
  <2> QED
    BY <2>5, <2>6
<1>12. Left(w, v, f, parent)
  <2>1. UnitOK(w)
    BY <1>10 DEF LevelClosed
  <2> QED
    BY <1>8, <1>11, <2>1, SubprogramLeft
<1>13. Left(w, v, o.fn, o.decls[o.fn].context)
  BY <1>4, <1>5, <1>12
<1>14. r.func = Last(open).func
  BY <1>6 DEF Top
<1>15. StateOK(o, open, known, done)
  BY DEF Inv
<1>16. StateOK(v, t, known, dn)
  BY <1>7, <1>9, <1>10, <1>13, <1>14, <1>15, BodyClosed
<1> QED
  BY <1>1, <1>2, <1>7, <1>16 DEF Inv

LEMMA NextKeeps ==
    ASSUME Inv, [Next]_vars
    PROVE  Inv'
<1>1. CASE Assign \/ Allocate \/ Call \/ Return \/ LoopJump
  BY <1>1, AssignKeeps, AllocateKeeps, CallKeeps, LoopJumpKeeps
<1>2. CASE StartIf \/ Else \/ FinishIf \/ StartLoop \/ FinishLoop
  BY <1>2, StartIfKeeps, ElseKeeps, FinishIfKeeps, StartLoopKeeps, FinishLoopKeeps
<1>3. CASE StartCase \/ NextBranch \/ FinishCase \/ StartDeclare \/ FinishDeclare
  BY <1>3, StartCaseKeeps, NextBranchKeeps, FinishCaseKeeps, StartDeclareKeeps, FinishDeclareKeeps
<1>4. CASE DeclareType \/ DeclareVar \/ DeclareConst \/ InitValue \/ DeclareSubprogram
  BY <1>4, DeclareTypeKeeps, DeclareVarKeeps, DeclareConstKeeps, InitValueKeeps, DeclareSubprogramKeeps
<1>5. CASE StartBody \/ FinishBody
  BY <1>5, StartBodyKeeps, FinishBodyKeeps
<1>6. CASE Complete \/ UNCHANGED vars
  BY <1>6 DEF Complete, vars, Inv
<1> QED
  BY <1>1, <1>2, <1>3, <1>4, <1>5, <1>6 DEF Next

(*---------------------------- the first state -------------------------------*)

LEMMA NothingYet == UnitOK(Nothing) /\ HasRecycled(Nothing)
<1>1. IsList(<<>>) /\ Len(<<>>) = 0
  BY DEF IsList
<1>2. DOMAIN Nothing = Fields
  BY DEF Nothing, Fields
<1>3. /\ Nothing.cur_level = NULL /\ Nothing.old_levels = NULL /\ Nothing.cur_stmts = NULL
      /\ Nothing.levels = <<>> /\ Nothing.decls = <<>> /\ Nothing.stmts = <<>>
  BY DEF Nothing
<1>4. NULL \in Nat
  BY DEF NULL
<1> QED
  BY <1>1, <1>2, <1>3, <1>4 DEF UnitOK, HasRecycled

LEMMA UnitStarted ==
    ASSUME NEW v, v = ortho_init
    PROVE  /\ UnitOK(v) /\ v.fn = NULL /\ v.cur_stmts = NULL
           /\ v.cur_level = 1 /\ v.old_levels = NULL /\ Len(v.levels) = 1
           /\ v.levels[1].prev = NULL /\ v.levels[1].prev_stmts = NULL
<1>1. PICK n : n = Nothing
  OBVIOUS
<1>2. PICK w : w = AllocLevel(n, NULL)
  OBVIOUS
<1>3. PICK x : x = Decl("type", "local", NULL)
  OBVIOUS
<1>4. PICK y : y = pushdecl(NewDecl(w, x), 1)
  OBVIOUS
<1>5. v = pushdecl(NewDecl(y, x), 2)
  BY <1>1, <1>2, <1>3, <1>4, Zenon DEF ortho_init, push_binding
<1>6. /\ UnitOK(n) /\ HasRecycled(n) /\ n.fn = NULL /\ n.cur_stmts = NULL /\ n.old_levels = NULL
      /\ n.cur_level = NULL /\ Len(n.levels) = 0 /\ Len(n.decls) = 0
  BY <1>1, NothingYet DEF Nothing
<1>7. NewLevel(n, w)
  BY <1>2, <1>6, LevelAllocated
<1>8. /\ UnitOK(w) /\ w.fn = NULL /\ w.cur_stmts = NULL /\ w.cur_level = 1 /\ w.old_levels = NULL
      /\ Len(w.levels) = 1 /\ w.levels[1].prev = NULL /\ w.levels[1].prev_stmts = NULL
      /\ Len(w.decls) = 0
  BY <1>6, <1>7 DEF NewLevel
<1>9. DOMAIN x = DeclFields
  BY <1>3 DEF Decl, DeclFields
<1>10. Declared(w, y, x)
  <2>1. y = pushdecl(NewDecl(w, x), Len(w.decls) + 1)
    BY <1>4, <1>8
  <2> QED
    BY <1>8, <1>9, <2>1, DeclPushed
<1>11. UnitOK(y) /\ Len(y.decls) = 1 /\ Quiet(w, y) /\ y.cur_stmts = w.cur_stmts
  BY <1>8, <1>10 DEF Declared, Quiet
<1>12. Declared(y, v, x)
  <2>1. v = pushdecl(NewDecl(y, x), Len(y.decls) + 1)
    BY <1>5, <1>11
  <2> QED
    BY <1>9, <1>11, <2>1, DeclPushed
<1>13. Quiet(y, v) /\ v.cur_stmts = y.cur_stmts
  BY <1>12 DEF Declared
<1> QED
  BY <1>8, <1>11, <1>13 DEF Quiet, SameLevels, SameLevel

LEMMA InitEstablishes ==
    ASSUME Init
    PROVE  Inv
<1>1. PICK v : v = o
  OBVIOUS
<1>2. v = ortho_init /\ open = <<>> /\ known = <<>> /\ done = <<>> /\ client \in Clients
  BY <1>1 DEF Init
<1>3. /\ UnitOK(v) /\ v.fn = NULL /\ v.cur_stmts = NULL
      /\ v.cur_level = 1 /\ v.old_levels = NULL /\ Len(v.levels) = 1
      /\ v.levels[1].prev = NULL /\ v.levels[1].prev_stmts = NULL
  BY <1>2, UnitStarted
<1>4. PICK none : none = <<>>
  OBVIOUS
<1>5. IsList(none) /\ Len(none) = 0 /\ DOMAIN none = {}
  BY <1>4 DEF IsList
<1>6. PICK used : used = <<1>>
  OBVIOUS
<1>7. IsList(used) /\ Len(used) = 1 /\ used[1] = 1
  BY <1>6 DEF IsList
<1>8. FramesOK(none) /\ HomesOK(none, none) /\ IsHome(none, Len(none), NULL)
  BY <1>5 DEF FramesOK, HomesOK, IsHome
<1>9. KnownOK(v, none) /\ DoneOK(v, none, none)
  BY <1>5 DEF KnownOK, DoneOK
<1>10. Cardinality(RegionSet(none)) = 0
  BY <1>5, <1>8, SomeRegion
<1>11. LevelsOK(v, used, none)
  <2>1. Chained(v, v.cur_level, used)
    BY <1>3, <1>7 DEF Chained
  <2>2. Chained(v, v.old_levels, none)
    BY <1>3, <1>5 DEF Chained
  <2>3. Partition(Len(v.levels), used, none)
    BY <1>3, <1>5, <1>7 DEF Partition, Distinct, Disjoint, Among
  <2>4. NULL \in Nat
    BY DEF NULL
  <2> QED
    BY <1>3, <1>7, <2>1, <2>2, <2>3, <2>4 DEF LevelsOK
<1>12. RegionsOpen(v, none)
  <2>1. PlacesOK(v, none, used, none)
    BY <1>5, <1>7 DEF PlacesOK, RegionSet
  <2> QED
    BY <1>7, <1>10, <1>11, <2>1 DEF RegionsOpen
<1>13. ListsOK(v, none)
  BY <1>3, <1>5 DEF ListsOK, ListOf
<1>14. StateOK(v, none, none, none)
  BY <1>3, <1>8, <1>9, <1>12, <1>13 DEF StateOK
<1> QED
  BY <1>1, <1>2, <1>4, <1>14 DEF Inv

(*-------------------------------- theorems ----------------------------------*)

LEMMA InvAlways == Spec => []Inv
<1>1. Init => Inv
  BY InitEstablishes
<1>2. Inv /\ [Next]_vars => Inv'
  BY NextKeeps
<1> QED
  BY <1>1, <1>2, PTL DEF Spec

LEMMA InvPartitions ==
    ASSUME Inv
    PROVE  LevelsPartitioned
<1>1. PICK used, old : LevelsOK(o, used, old) /\ Len(used) = Cardinality(RegionSet(open)) + 1
  BY DEF Inv, StateOK, RegionsOpen
<1>2. LevelsFrom(o.cur_level) = used /\ LevelsFrom(o.old_levels) = old
  BY <1>1, LevelsListed, StateFacts
<1>3. PICK n : n = Len(o.levels)
  OBVIOUS
<1>4. IsList(o.levels) /\ n \in Nat
  BY <1>3, StateFacts DEF UnitOK, IsList
<1>5. DOMAIN o.levels = 1 .. n
  BY <1>3, <1>4 DEF IsList
<1>6. IsInjective(used \o old) /\ Range(used \o old) = 1 .. n
  <2>1. IsList(used) /\ IsList(old) /\ Partition(n, used, old)
    BY <1>1, <1>3 DEF LevelsOK, Chained
  <2>2. \A i \in 1 .. Len(used) : used[i] \in 1 .. n
    BY <1>1, <1>3 DEF LevelsOK, Chained
  <2>3. \A i \in 1 .. Len(old) : old[i] \in 1 .. n
    BY <1>1, <1>3 DEF LevelsOK, Chained
  <2> QED
    BY <2>1, <2>2, <2>3, LevelsApart
<1>7. RegionSet(open) = {i \in DOMAIN open : open[i].k \in {"declare", "body"}}
  <2>1. IsList(open)
    BY StateFacts
  <2>2. DOMAIN open = 1 .. Len(open)
    BY <2>1 DEF IsList
  <2> QED
    BY <2>2 DEF RegionSet, IsRegion
<1>8. Len(used) = 1 + Cardinality({i \in DOMAIN open : open[i].k \in {"declare", "body"}})
  <2>1. IsList(open)
    BY StateFacts
  <2>2. Cardinality(RegionSet(open)) \in Nat
    BY <2>1, RegionsFinite
  <2>3. PICK m : m = Cardinality(RegionSet(open))
    OBVIOUS
  <2>4. Len(used) = 1 + m
    BY <1>1, <2>2, <2>3
  <2> QED
    BY <1>7, <2>3, <2>4
<1>9. o.fn = Home
  BY StateFacts
<1>10. o.cur_stmts = ListOf(open, Len(open))
  BY StateFacts
<1>11. \A i \in DOMAIN open :
         IF open[i].k = "loop" THEN open[i].list = ListOf(open, i - 1)
         ELSE open[i].list \notin {ListOf(open, j) : j \in 0 .. i - 1}
  <2>1. DOMAIN open = 1 .. Len(open)
    BY StateFacts DEF IsList
  <2>2. \A i \in 1 .. Len(open) : OwnList(open, i)
    BY DEF Inv, StateOK, ListsOK
  <2> QED
    BY <2>1, <2>2 DEF OwnList
<1> QED
  BY <1>2, <1>5, <1>6, <1>8, <1>9, <1>10, <1>11 DEF LevelsPartitioned

LEMMA SymbolOfDeclaration ==
    ASSUME NEW x, NEW r, KnownRecord(r), DeclExact(x, r)
    PROVE  /\ Symbol(x) = SymbolAsked(r)
           /\ r.storage \in {"public", "private"} => x.static \/ ~x.compiled
<1>1. CASE r.storage = "local" \/ (r.k = "const" /\ r.storage # "external" /\ ~r.value)
  <2>1. ~x.compiled
    BY <1>1 DEF DeclExact
  <2> QED
    BY <1>1, <2>1 DEF Symbol, SymbolAsked, DeclExact
<1>2. CASE ~(r.storage = "local" \/ (r.k = "const" /\ r.storage # "external" /\ ~r.value))
  <2>1. x.compiled
    BY <1>2 DEF DeclExact
  <2>2. CASE r.storage = "external"
    BY <1>2, <2>1, <2>2 DEF Symbol, SymbolAsked, DeclExact, KnownRecord
  <2>3. CASE r.storage = "public"
    BY <1>2, <2>1, <2>3 DEF Symbol, SymbolAsked, DeclExact
  <2>4. CASE r.storage = "private"
    BY <1>2, <2>1, <2>4 DEF Symbol, SymbolAsked, DeclExact
  <2> QED
    BY <1>2, <2>2, <2>3, <2>4 DEF KnownRecord
<1> QED
  BY <1>1, <1>2

LEMMA InvSymbols ==
    ASSUME Inv
    PROVE  SymbolsExact
<1>1. \A d \in DOMAIN known : /\ Symbol(o.decls[d]) = SymbolAsked(known[d])
                              /\ known[d].storage \in {"public", "private"} => o.decls[d].static \/ ~o.decls[d].compiled
  <2>1. \A d \in DOMAIN known : KnownRecord(known[d]) /\ DeclExact(o.decls[d], known[d])
    BY DEF Inv, StateOK, KnownOK
  <2> QED
    BY <2>1, SymbolOfDeclaration
<1>2. \A i \in DOMAIN done : o.decls[done[i].func].finalized = (known[done[i].func].home = NULL)
  <2>1. DoneOK(o, known, done)
    BY DEF Inv, StateOK
  <2>2. DOMAIN done = 1 .. Len(done)
    BY <2>1 DEF DoneOK, IsList
  <2> QED
    BY <2>1, <2>2 DEF DoneOK
<1> QED
  BY <1>1, <1>2 DEF SymbolsExact

(* push_binding and pop_binding: however the calls of a client are nested, and *)
(* however often the levels were recycled, no level is in use twice or in use  *)
(* and recycled, none is lost, and the levels in use are the global one and    *)
(* one for each region that is open; current_function_decl is the innermost    *)
(* subprogram, and statements go to the list that the innermost construct took *)
(* when it began (a loop, that of the construct around it), which is again the *)
(* current one whenever what was opened inside it is closed.                   *)
THEOREM LevelsAlwaysPartitioned == Spec => []LevelsPartitioned
<1>1. Inv => LevelsPartitioned
  BY InvPartitions
<1> QED
  BY <1>1, InvAlways, PTL

(* new_const_decl, new_var_decl, finish_subprogram_decl and the bodies: for any *)
(* client, each declaration is the symbol its storage asks for, a subprogram    *)
(* declared external and given a body included, and only outermost functions    *)
(* are finalized.                                                               *)
THEOREM SymbolsAlwaysExact == Spec => []SymbolsExact
<1>1. Inv => SymbolsExact
  BY InvSymbols
<1> QED
  BY <1>1, InvAlways, PTL

=============================================================================
