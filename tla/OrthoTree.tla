------------------------------ MODULE OrthoTree ------------------------------
(* The GCC back end of ortho (ortho-lang-7.c): what each call of the interface *)
(* does to the binding levels, the statement lists and the declarations.       *)
(*                                                                             *)
(* The state of the back end is one record o: its static variables             *)
(*   cur_level, old_levels, cur_stmts, fn (current_function_decl)              *)
(* and the nodes it has allocated, numbered from 1, 0 being NULL:              *)
(*   levels  binding levels, in use or recycled                                *)
(*   stmts   statement lists                                                   *)
(*   binds   a BIND_EXPR with its BLOCK: they are made together                *)
(*   decls   declarations, linked through TREE_CHAIN (chain)                   *)
(*   labels  artificial labels                                                 *)
(* rest_of_decl_compilation, which hands a declaration to the rest of GCC, is  *)
(* the flag "compiled"; finalize_function is the flag "finalized".             *)
(* A call that fails an assertion of the source has no result: the guards of   *)
(* module Ortho name those assertions.                                         *)
EXTENDS Naturals, Sequences, FiniteSetsExt, SequencesExt

NULL == 0

(* A declaration as build_decl makes it. The builtins are not in the bindings. *)
Decl(kind, storage, fn) ==
    [kind |-> kind, storage |-> storage, context |-> fn, chain |-> NULL, external |-> FALSE,
     public |-> FALSE, static |-> FALSE, initial |-> FALSE, compiled |-> FALSE,
     args |-> NULL, types |-> <<>>, saved |-> NULL, finalized |-> FALSE]

(*--------------------------- lists of nodes ---------------------------------*)

(* A chain under construction and the nodes linked by it so far. *)
chain_init == [first |-> NULL, last |-> NULL]

chain_append(o, constr, d) ==
    [o |-> IF constr.first = NULL THEN o ELSE [o EXCEPT !.decls[constr.last].chain = d],
     constr |-> [first |-> IF constr.first = NULL THEN d ELSE constr.first, last |-> d]]

(* The nodes met from c on when a link is followed, until NULL; no more than   *)
(* most + 1 of them, so that a circular list can be looked at as well.         *)
Met(link, c, most) ==
    LET node[i \in 0 .. most] ==
            IF i = 0 THEN c ELSE IF node[i - 1] = NULL THEN NULL ELSE link[node[i - 1]]
    IN  node

Linked(link, c, most) ==
    LET node == Met(link, c, most)
        len == Cardinality({i \in DOMAIN node : node[i] # NULL})
    IN  [i \in 1 .. len |-> node[i - 1]]

ChainFrom(o, d) == Linked([i \in DOMAIN o.decls |-> o.decls[i].chain], d, Len(o.decls))

alloc_stmt_list(o) == [o EXCEPT !.stmts = Append(@, <<>>)]
LastList(o) == Len(o.stmts)

append_stmt(o, s) == [o EXCEPT !.stmts[o.cur_stmts] = Append(@, s)]

NewDecl(o, d) == [o EXCEPT !.decls = Append(@, d)]

(* pushdecl: the context is the current function, the chain the one of the     *)
(* current binding.                                                            *)
pushdecl(o, d) ==
    LET l == o.cur_level
        chained == IF o.levels[l].first_decl = NULL
                   THEN [o EXCEPT !.levels[l].first_decl = d]
                   ELSE [o EXCEPT !.decls[o.levels[l].last_decl].chain = d]
    IN  [chained EXCEPT !.decls[d].context = o.fn, !.levels[l].last_decl = d]

(*---------------------------- binding levels --------------------------------*)

Mut_init_level(o, l, bind) ==
    [bind |-> bind, first_decl |-> NULL, last_decl |-> NULL, save_stack |-> FALSE,
     first_block |-> IF l \in DOMAIN o.levels THEN o.levels[l].first_block ELSE NULL,
     last_block |-> IF l \in DOMAIN o.levels THEN o.levels[l].last_block ELSE NULL,
     prev |-> o.cur_level, prev_stmts |-> o.cur_stmts]

Mut_init_level_list(o, l, bind) ==
    [bind |-> bind, first_decl |-> NULL, last_decl |-> NULL, save_stack |-> FALSE,
     first_block |-> NULL, last_block |-> NULL, prev |-> o.cur_level,
     prev_stmts |-> IF l \in DOMAIN o.levels THEN o.levels[l].prev_stmts ELSE o.cur_stmts]

(* The new contents of level l, which may be a recycled one. *)
init_level(o, l, bind) ==
    [bind |-> bind, first_decl |-> NULL, last_decl |-> NULL, save_stack |-> FALSE,
     first_block |-> NULL, last_block |-> NULL, prev |-> o.cur_level, prev_stmts |-> o.cur_stmts]

(* A level, recycled if there is one, becomes the current one. *)
AllocLevel(o, bind) ==
    LET fresh == o.old_levels = NULL
        l == IF fresh THEN Len(o.levels) + 1 ELSE o.old_levels
        level == init_level(o, l, bind)
    IN  [o EXCEPT !.levels = IF fresh THEN Append(@, level) ELSE [@ EXCEPT ![l] = level],
                  !.old_levels = IF fresh THEN NULL ELSE o.levels[l].prev,
                  !.cur_level = l]

(* A BLOCK and its BIND_EXPR, with a new list of statements. *)
NewBlock(o, super, fn) ==
    [alloc_stmt_list(o) EXCEPT
        !.binds = Append(@, [body |-> NULL, save |-> NULL, vars |-> NULL, subs |-> NULL, chain |-> NULL,
                             super |-> super, of |-> fn]),
        !.cur_stmts = Len(o.stmts) + 1]

AppendBlock(o, l, b) ==
    LET linked == IF o.levels[l].first_block = NULL
                  THEN [o EXCEPT !.levels[l].first_block = b]
                  ELSE [o EXCEPT !.binds[o.levels[l].last_block].chain = b]
    IN  [linked EXCEPT !.levels[l].last_block = b]

(* push_binding: a function or local binding also has a BLOCK; a local one is  *)
(* appended to the sub-blocks of the enclosing level.                          *)
push_binding(o, kind) ==
    LET b == IF kind = "global" THEN NULL ELSE Len(o.binds) + 1
        allocated == AllocLevel(o, b)
    IN  CASE kind = "global" -> allocated
          [] kind = "function" -> NewBlock(allocated, NULL, o.fn)
          [] kind = "local" -> AppendBlock(NewBlock(allocated, o.levels[o.cur_level].bind, NULL), o.cur_level, b)

Mut_recycle(o, l) == [o EXCEPT !.old_levels = l]

recycle(o, l) == [o EXCEPT !.levels[l].prev = o.old_levels, !.old_levels = l]

(* When alloca is used in a level, the stack pointer is kept in one more variable. *)
SaveStack(o) ==
    IF o.levels[o.cur_level].save_stack
    THEN pushdecl(NewDecl(o, Decl("save", "local", o.fn)), Len(o.decls) + 1)
    ELSE o

LeaveLevel(o, save) ==
    LET cur == o.levels[o.cur_level]
        bind == [o.binds[cur.bind] EXCEPT !.body = o.cur_stmts, !.save = save,
                                          !.vars = cur.first_decl, !.subs = cur.first_block]
    IN  [o EXCEPT !.binds[cur.bind] = bind, !.cur_stmts = cur.prev_stmts, !.cur_level = cur.prev]

(* pop_binding: when alloca is used in it, the body is put between the save    *)
(* and the restore of the stack pointer; the level goes to the recycle list.   *)
(* The result is the binding.                                                  *)
pop_binding(o) ==
    LET cur == o.levels[o.cur_level]
        saving == SaveStack(o)
        left == LeaveLevel(saving, IF cur.save_stack THEN Len(saving.decls) ELSE NULL)
    IN  [o |-> recycle(left, o.cur_level), bind |-> cur.bind]

Mut_new_alloca(o) ==
    LET l == o.levels[o.cur_level]
    IN  IF l.prev # NULL /\ o.levels[l.prev].prev # NULL
        THEN [o EXCEPT !.levels[l.prev].save_stack = TRUE]
        ELSE o

(* new_alloca: the stack is saved except at function level. *)
new_alloca(o) ==
    LET l == o.levels[o.cur_level]
    IN  IF l.prev # NULL /\ o.levels[l.prev].prev # NULL
        THEN [o EXCEPT !.levels[o.cur_level].save_stack = TRUE]
        ELSE o

Nothing == [cur_level |-> NULL, old_levels |-> NULL, cur_stmts |-> NULL, fn |-> NULL,
            levels |-> <<>>, stmts |-> <<>>, binds |-> <<>>, decls |-> <<>>, labels |-> <<>>]

(* ortho_init: the global binding with the types int and char. *)
ortho_init ==
    LET o == push_binding(Nothing, "global")
        int == pushdecl(NewDecl(o, Decl("type", "local", NULL)), 1)
    IN  pushdecl(NewDecl(int, Decl("type", "local", NULL)), 2)

(*------------------------------ statements ----------------------------------*)

start_declare_stmt(o) == push_binding(o, "local")
finish_declare_stmt(o) == LET p == pop_binding(o) IN append_stmt(p.o, [k |-> "bind", bind |-> p.bind])

(* The conditional statement is appended before its branches are filled. The   *)
(* block is the o_if_block: the enclosing list and where the statement is.     *)
start_if_stmt(o) ==
    LET stmts == LastList(o) + 1
        s == append_stmt(alloc_stmt_list(o), [k |-> "if", then |-> stmts, else |-> NULL])
    IN  [o |-> [s EXCEPT !.cur_stmts = stmts],
         block |-> [prev_stmts |-> o.cur_stmts, if_stmt |-> Len(s.stmts[o.cur_stmts])]]

new_else_stmt(o, block) ==
    LET a == alloc_stmt_list(o)
    IN  [a EXCEPT !.cur_stmts = LastList(a),
                  !.stmts[block.prev_stmts][block.if_stmt].else = LastList(a)]

finish_if_stmt(o, block) == [o EXCEPT !.cur_stmts = block.prev_stmts]

(* build_label: the result is the last label. *)
build_label(o, iterates) ==
    [o EXCEPT !.labels = Append(@, [context |-> o.fn, used |-> FALSE, iterates |-> iterates])]

start_loop_stmt(o) ==
    LET beg == Len(o.labels) + 1
        b == append_stmt(build_label(o, TRUE), [k |-> "label", label |-> beg])
    IN  [o |-> build_label(b, FALSE), label |-> [beg_label |-> beg, end_label |-> beg + 1]]

Goto(o, l) == append_stmt([o EXCEPT !.labels[l].used = TRUE], [k |-> "goto", label |-> l])

(* The end label is there only when something goes to it. *)
finish_loop_stmt(o, label) ==
    LET back == Goto(o, label.beg_label)
    IN  IF o.labels[label.end_label].used
        THEN append_stmt(back, [k |-> "label", label |-> label.end_label])
        ELSE back

new_exit_stmt(o, label) == Goto(o, label.end_label)
new_next_stmt(o, label) == Goto(o, label.beg_label)

start_case_stmt(o) ==
    LET end == Len(o.labels) + 1
        a == alloc_stmt_list(build_label(o, FALSE))
        s == append_stmt(a, [k |-> "switch", body |-> LastList(a)])
    IN  [o |-> [s EXCEPT !.cur_stmts = LastList(a)],
         block |-> [prev_stmts |-> o.cur_stmts, end_label |-> end, add_break |-> FALSE]]

Mut_start_choice(o, block) == [o |-> o, block |-> [block EXCEPT !.add_break = FALSE]]

(* start_choice: the preceding branch, if any, ends here by a jump to the end. *)
start_choice(o, block) ==
    IF block.add_break
    THEN [o |-> append_stmt(o, [k |-> "goto", label |-> block.end_label]),
          block |-> [block EXCEPT !.add_break = FALSE]]
    ELSE [o |-> o, block |-> block]

(* new_expr_choice, new_range_choice and new_default_choice: a choice is a pair *)
(* of bounds, the default one has none.                                        *)
new_choice(o, c) == append_stmt(o, [k |-> "case", choice |-> c])
finish_choice(block) == [block EXCEPT !.add_break = TRUE]

finish_case_stmt(o, block) ==
    append_stmt([o EXCEPT !.cur_stmts = block.prev_stmts],
                [k |-> "label", label |-> block.end_label])

(* The association list holds the arguments in the order they are given. *)
new_association(assocs, val) == Append(assocs, val)
new_procedure_call(o, func, assocs) == append_stmt(o, [k |-> "call", func |-> func, args |-> assocs])
(* The value of an assignment is a number; alloca is TRUE when it is the result *)
(* of new_alloca.                                                              *)
new_assign_stmt(o, value, alloca) == append_stmt(o, [k |-> "assign", value |-> value, alloca |-> alloca])
new_return_stmt(o) == append_stmt(o, [k |-> "return"])

(*----------------------------- declarations ---------------------------------*)

set_storage(d, storage) ==
    [d EXCEPT !.external = storage = "external",
              !.public = storage \in {"external", "public"},
              !.static = storage \in {"public", "private"}]

rest_of_decl_compilation(o, d) == [o EXCEPT !.decls[d].compiled = TRUE]

(* new_const_decl: only an external constant is complete without its value. *)
new_const_decl(o, storage) ==
    LET cst == Len(o.decls) + 1
        pushed == pushdecl(NewDecl(o, set_storage(Decl("const", storage, NULL), storage)), cst)
    IN  IF storage = "external" THEN rest_of_decl_compilation(pushed, cst) ELSE pushed

finish_init_value(o, d) ==
    rest_of_decl_compilation([o EXCEPT !.decls[d].initial = TRUE, !.decls[d].static = TRUE], d)

(* new_var_decl: in a function, whatever the storage is, the variable is local. *)
new_var_decl(o, storage) ==
    LET var == Len(o.decls) + 1
        d == Decl("var", storage, NULL)
        pushed == pushdecl(NewDecl(o, IF o.fn # NULL THEN d ELSE set_storage(d, storage)), var)
    IN  IF o.fn = NULL THEN rest_of_decl_compilation(pushed, var) ELSE pushed

new_type_decl(o) == pushdecl(NewDecl(o, Decl("type", "local", NULL)), Len(o.decls) + 1)

(* start_function_decl and new_interface_decl: the chain of the parameters and *)
(* the list of their types.                                                    *)
start_function_decl(storage) == [storage |-> storage, param_chain |-> chain_init, param_list |-> <<>>]

new_interface_decl(o, inter, type) ==
    LET r == Len(o.decls) + 1
        c == chain_append(NewDecl(o, Decl("parm", "local", NULL)), inter.param_chain, r)
    IN  [o |-> c.o, inter |-> [inter EXCEPT !.param_chain = c.constr, !.param_list = Append(@, type)]]

FunctionDecl(inter, is_global) ==
    LET f == Decl("func", inter.storage, NULL)
    IN  [IF is_global THEN set_storage(f, inter.storage) ELSE f
         EXCEPT !.static = TRUE, !.args = inter.param_chain.first, !.types = inter.param_list]

(* The parameters belong to the subprogram. *)
SetContext(o, parms, f) ==
    [o EXCEPT !.decls = [p \in DOMAIN @ |-> IF p \in parms THEN [@[p] EXCEPT !.context = f] ELSE @[p]]]

(* finish_subprogram_decl: only a subprogram of the file itself has a storage, *)
(* a nested one is reached from its parent; an external one is never nested.   *)
finish_subprogram_decl(o, inter) ==
    LET f == Len(o.decls) + 1
        is_global == o.fn = NULL \/ inter.storage = "external"
        made == NewDecl(SetContext(o, ToSet(ChainFrom(o, inter.param_chain.first)), f), FunctionDecl(inter, is_global))
        pushed == pushdecl(made, f)
        alone == IF inter.storage = "external" THEN [pushed EXCEPT !.decls[f].context = NULL] ELSE pushed
    IN  IF is_global THEN rest_of_decl_compilation(alone, f) ELSE alone

Mut_finish_subprogram_body(o) ==
    LET p == pop_binding(o)
        func == o.fn
        parent == o.decls[func].context
    IN  [p.o EXCEPT !.decls[func].saved = p.bind,
                    !.decls[func].finalized = parent = NULL,
                    !.fn = NULL]

Mut_start_subprogram_body(o, func) == push_binding([o EXCEPT !.fn = func], "function")

(* start_subprogram_body and finish_subprogram_body: the current function      *)
(* follows the contexts; only an outermost function is finalized, the others   *)
(* are compiled with it.                                                       *)
start_subprogram_body(o, func) ==
    push_binding([o EXCEPT !.fn = func, !.decls[func].external = FALSE], "function")

finish_subprogram_body(o) ==
    LET p == pop_binding(o)
        func == o.fn
        parent == o.decls[func].context
    IN  [p.o EXCEPT !.decls[func].saved = p.bind,
                    !.decls[func].finalized = parent = NULL,
                    !.fn = parent]
=============================================================================
