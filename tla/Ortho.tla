-------------------------------- MODULE Ortho --------------------------------
(* A client of the GCC back end of ortho: the translator, which builds one     *)
(* compilation unit by calls of the interface (ortho_nodes.common.ads), in any *)
(* order the interface allows. It keeps the blocks that the calls give it (the *)
(* stack "open" is the stack of its own procedures) and, for the properties,   *)
(* the text of what it asked for, to which the tree that was built is compared *)
(* by running both.                                                            *)
EXTENDS OrthoExprs

CONSTANTS
    Clients         \* what a client does: records [calls, features, parameters, choices, selectors]

ASSUME ClientAssumption ==
    \A c \in Clients : /\ c.calls \in Nat /\ c.parameters \subseteq Nat
                       /\ \A choices \in c.choices : Len(choices) \in Nat

VARIABLES
    o,          \* the back end
    open,       \* the constructs being built, innermost last
    known,      \* what was declared, by number of the declaration
    done,       \* the subprograms that are complete, with their text
    left,       \* calls the client may still make
    client      \* which calls it makes, how many parameters its subprograms have, the
                \* choices of its branches (sequences of <<low, high>>, or <<>> for the
                \* default) and the values of a selector; a condition is true when it is 0

vars == <<o, open, known, done, left, client>>

Top == Last(open)
CanCall(f) == f \in client.features /\ left > 0

(* The innermost construct with declarations, and the subprogram being built. *)
Region == Max({i \in DOMAIN open : open[i].k \in {"declare", "body"}})
Body == Max({i \in DOMAIN open : open[i].k = "body"})
Home == IF open = <<>> THEN NULL ELSE open[Body].func

Frame(k, block) == [k |-> k, block |-> block, parts |-> <<<<>>>>, choices |-> <<>>,
                    vars |-> <<>>, subs |-> <<>>, func |-> NULL, list |-> NULL]

(* A construct is opened: its statements go to the list that is the current    *)
(* one then. The list is kept for the properties only.                         *)
Opened(frame) == open' = Append(open, [frame EXCEPT !.list = o'.cur_stmts])

(* The text of the construct that is closed goes to the one around it. *)
WithText(stack, s) == [stack EXCEPT ![Len(stack)].parts[Len(Last(stack).parts)] = Append(@, s)]
Text(s) == open' = WithText(open, s)
Closed(s) == open' = WithText(Front(open), s)
Spend == left' = left - 1 /\ UNCHANGED client
Keep == UNCHANGED <<left, client>>

Init ==
    /\ o = ortho_init
    /\ open = <<>> /\ known = <<>> /\ done = <<>>
    /\ client \in Clients /\ left = client.calls

(*----------------------------- simple statements ----------------------------*)

Assign ==
    /\ CanCall("assign") /\ open # <<>>
    /\ o' = new_assign_stmt(o, left, FALSE) /\ Text([k |-> "assign", value |-> left])
    /\ Spend /\ UNCHANGED <<known, done>>

(* new_alloca, then the assignment of its result. *)
Allocate ==
    /\ CanCall("alloca") /\ open # <<>>
    /\ o' = new_assign_stmt(new_alloca(o), left, TRUE) /\ Text([k |-> "alloca", value |-> left])
    /\ Spend /\ UNCHANGED <<known, done>>

(* A subprogram declared before is called with as many values as it has parameters. *)
Call ==
    /\ CanCall("call") /\ open # <<>>
    /\ \E f \in {d \in DOMAIN known : known[d].k = "func"} :
         LET vals == [i \in 1 .. Len(known[f].parms) |-> 10 * left + i]
         IN  /\ o' = new_procedure_call(o, f, FoldLeft(new_association, <<>>, vals))
             /\ Text([k |-> "call", func |-> f, args |-> vals])
    /\ Spend /\ UNCHANGED <<known, done>>

Return ==
    /\ CanCall("return") /\ open # <<>>
    /\ o' = new_return_stmt(o) /\ Text([k |-> "return"])
    /\ Spend /\ UNCHANGED <<known, done>>

(* Only the loops of the subprogram being built can be left or continued. *)
LoopJump ==
    /\ open # <<>>
    /\ \E i \in Body .. Len(open) :
         /\ open[i].k = "loop"
         /\ \/ CanCall("exit") /\ o' = new_exit_stmt(o, open[i].block) /\ Text([k |-> "exit", loop |-> open[i].block])
            \/ CanCall("next") /\ o' = new_next_stmt(o, open[i].block) /\ Text([k |-> "next", loop |-> open[i].block])
    /\ Spend /\ UNCHANGED <<known, done>>

(*--------------------------- compound statements ----------------------------*)

StartIf ==
    /\ CanCall("if") /\ open # <<>>
    /\ LET s == start_if_stmt(o) IN o' = s.o /\ Opened(Frame("if", s.block))
    /\ Spend /\ UNCHANGED <<known, done>>

Else ==
    /\ CanCall("if") /\ open # <<>> /\ Top.k = "if" /\ Len(Top.parts) = 1
    /\ o' = new_else_stmt(o, Top.block)
    /\ open' = [open EXCEPT ![Len(open)].parts = Append(@, <<>>), ![Len(open)].list = o'.cur_stmts]
    /\ Spend /\ UNCHANGED <<known, done>>

FinishIf ==
    /\ open # <<>> /\ Top.k = "if"
    /\ o' = finish_if_stmt(o, Top.block)
    /\ Closed([k |-> "if", then |-> Top.parts[1], else |-> IF Len(Top.parts) = 2 THEN Top.parts[2] ELSE <<>>])
    /\ Keep /\ UNCHANGED <<known, done>>

StartLoop ==
    /\ CanCall("loop") /\ open # <<>>
    /\ LET s == start_loop_stmt(o) IN o' = s.o /\ Opened(Frame("loop", s.label))
    /\ Spend /\ UNCHANGED <<known, done>>

FinishLoop ==
    /\ open # <<>> /\ Top.k = "loop"
    /\ o' = finish_loop_stmt(o, Top.block)
    /\ Closed([k |-> "loop", loop |-> Top.block, body |-> Top.parts[1]])
    /\ Keep /\ UNCHANGED <<known, done>>

(* A branch: start_choice, its choices and finish_choice; nothing may come in  *)
(* between. No value is chosen twice.                                          *)
Branch(tree, block, choices) ==
    LET s == start_choice(tree, block)
        chosen[i \in 0 .. Len(choices)] ==
            IF i = 0 THEN s.o ELSE new_choice(chosen[i - 1], choices[i])
    IN  [o |-> chosen[Len(choices)], block |-> finish_choice(s.block)]

Covers(choice, v) == choice # <<>> /\ v \in choice[1] .. choice[2]
Compatible(c1, c2) ==
    /\ ~(<<>> \in ToSet(c1) /\ <<>> \in ToSet(c2))
    /\ ~\E x \in ToSet(c1), y \in ToSet(c2), v \in client.selectors : Covers(x, v) /\ Covers(y, v)

StartCase ==
    /\ CanCall("case") /\ open # <<>>
    /\ \E c \in client.choices :
         LET s == start_case_stmt(o)
             b == Branch(s.o, s.block, c)
         IN  o' = b.o /\ Opened([Frame("case", b.block) EXCEPT !.choices = <<c>>])
    /\ Spend /\ UNCHANGED <<known, done>>

NextBranch ==
    /\ CanCall("case") /\ open # <<>> /\ Top.k = "case"
    /\ \E c \in client.choices :
         /\ \A i \in DOMAIN Top.choices : Compatible(Top.choices[i], c)
         /\ LET b == Branch(o, Top.block, c)
            IN  /\ o' = b.o
                /\ open' = [open EXCEPT ![Len(open)].block = b.block, ![Len(open)].parts = Append(@, <<>>),
                                        ![Len(open)].choices = Append(@, c)]
    /\ Spend /\ UNCHANGED <<known, done>>

FinishCase ==
    /\ open # <<>> /\ Top.k = "case"
    /\ o' = finish_case_stmt(o, Top.block)
    /\ Closed([k |-> "case", choices |-> Top.choices, bodies |-> Top.parts])
    /\ Keep /\ UNCHANGED <<known, done>>

StartDeclare ==
    /\ CanCall("declare") /\ open # <<>>
    /\ o' = start_declare_stmt(o) /\ Opened(Frame("declare", NULL))
    /\ Spend /\ UNCHANGED <<known, done>>

(* The variables and inner regions of a region belong to the region around it. *)
RegionOf(f) == [vars |-> f.vars, subs |-> f.subs]

FinishDeclare ==
    /\ open # <<>> /\ Top.k = "declare"
    /\ o' = finish_declare_stmt(o)
    /\ LET outer == Max({i \in 1 .. Len(open) - 1 : open[i].k \in {"declare", "body"}})
           stack == WithText(Front(open), [k |-> "declare", body |-> Top.parts[1]])
       IN  open' = [stack EXCEPT ![outer].subs = Append(@, RegionOf(Top))]
    /\ Keep /\ UNCHANGED <<known, done>>

(*------------------------------ declarations --------------------------------*)

(* Declaration number d enters the current region. *)
Declares(d, record) ==
    /\ known' = [i \in DOMAIN known \cup {d} |-> IF i = d THEN record ELSE known[i]]
    /\ open' = IF open = <<>> THEN open ELSE [open EXCEPT ![Region].vars = Append(@, d)]

Known(k, storage, parms) ==
    [k |-> k, storage |-> storage, home |-> Home, parms |-> parms, value |-> FALSE, begun |-> FALSE]

DeclareType ==
    /\ CanCall("type")
    /\ o' = new_type_decl(o) /\ Declares(Len(o.decls) + 1, Known("type", "local", <<>>))
    /\ Spend /\ UNCHANGED done

(* No object is local outside a subprogram; in one, a variable is local and a  *)
(* constant private or external.                                               *)
DeclareVar ==
    /\ CanCall("var")
    /\ \E storage \in IF open = <<>> THEN {"external", "public", "private"} ELSE {"local"} :
         o' = new_var_decl(o, storage) /\ Declares(Len(o.decls) + 1, Known("var", storage, <<>>))
    /\ Spend /\ UNCHANGED done

DeclareConst ==
    /\ CanCall("const")
    /\ \E storage \in {"external", "private"} \cup (IF open = <<>> THEN {"public"} ELSE {}) :
         o' = new_const_decl(o, storage) /\ Declares(Len(o.decls) + 1, Known("const", storage, <<>>))
    /\ Spend /\ UNCHANGED done

(* A value is given once, to a constant or variable that is neither external   *)
(* nor automatic.                                                              *)
InitValue ==
    /\ CanCall("const")
    /\ \E d \in DOMAIN known :
         /\ known[d].k \in {"const", "var"} /\ ~known[d].value
         /\ known[d].storage \in {"public", "private"} /\ known[d].home = Home
         /\ o' = finish_init_value(o, d)
         /\ known' = [known EXCEPT ![d].value = TRUE]
    /\ Spend /\ UNCHANGED <<open, done>>

(* The parameters are declared between the start and the end of the declaration *)
(* of their subprogram; a nested subprogram is local.                           *)
Interface_Decls(storage, n) ==
    LET begun[i \in 0 .. n] ==
            IF i = 0 THEN [o |-> o, inter |-> start_function_decl(storage)]
            ELSE new_interface_decl(begun[i - 1].o, begun[i - 1].inter, i)
    IN  begun[n]

DeclareSubprogram ==
    /\ CanCall("sub") \/ (CanCall("main") /\ DOMAIN known = {})
    /\ \E storage \in IF open = <<>> THEN {"external", "public", "private"} ELSE {"local"}, n \in client.parameters :
         LET s == Interface_Decls(storage, n)
         IN  /\ ("main" \in client.features /\ open = <<>>) => (storage = "public" /\ n = 0)
             /\ o' = finish_subprogram_decl(s.o, s.inter)
             /\ Declares(Len(o'.decls), Known("func", storage, [i \in 1 .. n |-> Len(o.decls) + i]))
    /\ Spend /\ UNCHANGED done

(* A body is given once, where the subprogram was declared. *)
StartBody ==
    /\ left > 0
    /\ \E f \in DOMAIN known :
         /\ known[f].k = "func" /\ ~known[f].begun /\ known[f].home = Home
         /\ o' = start_subprogram_body(o, f)
         /\ known' = [known EXCEPT ![f].begun = TRUE]
         /\ Opened([Frame("body", NULL) EXCEPT !.func = f])
    /\ Spend /\ UNCHANGED done

FinishBody ==
    /\ open # <<>> /\ Top.k = "body"
    /\ o' = finish_subprogram_body(o)
    /\ done' = Append(done, [func |-> Top.func, text |-> Top.parts[1], region |-> RegionOf(Top)])
    /\ open' = Front(open)
    /\ Keep /\ UNCHANGED known

Complete == open = <<>> /\ UNCHANGED vars

Next ==
    \/ Assign \/ Allocate \/ Call \/ Return \/ LoopJump
    \/ StartIf \/ Else \/ FinishIf \/ StartLoop \/ FinishLoop
    \/ StartCase \/ NextBranch \/ FinishCase \/ StartDeclare \/ FinishDeclare
    \/ DeclareType \/ DeclareVar \/ DeclareConst \/ InitValue \/ DeclareSubprogram \/ StartBody \/ FinishBody
    \/ Complete

Spec == Init /\ [][Next]_vars

(*------------------------------- properties ---------------------------------*)

UnitComplete == open = <<>>

(* The levels in use and the recycled ones are two chains without a common      *)
(* level, which hold every level, and there is one in use for each region that  *)
(* is open. Whatever was built and closed inside, the current function is that  *)
(* of the innermost subprogram that is open, and statements go to the list that *)
(* the innermost construct took when it (or its else branch) began: a list of   *)
(* its own or, for a loop, the one around it.                                   *)
ListOf(stack, i) == IF i = 0 THEN NULL ELSE stack[i].list
LevelsFrom(l) == Linked([i \in DOMAIN o.levels |-> o.levels[i].prev], l, Len(o.levels))
LevelsPartitioned ==
    LET used == LevelsFrom(o.cur_level)
        old == LevelsFrom(o.old_levels)
    IN  /\ o.fn = Home /\ o.cur_stmts = ListOf(open, Len(open))
        /\ \A i \in DOMAIN open :
             IF open[i].k = "loop" THEN open[i].list = ListOf(open, i - 1)
             ELSE open[i].list \notin {ListOf(open, j) : j \in 0 .. i - 1}
        /\ IsInjective(used \o old) /\ Range(used \o old) = DOMAIN o.levels
        /\ Len(used) = 1 + Cardinality({i \in DOMAIN open : open[i].k \in {"declare", "body"}})

(* The symbols of the object file: an external declaration is imported, a public*)
(* one exported and a private one kept in the file, each handed to GCC once it  *)
(* is complete; a subprogram declared external whose body comes later in the    *)
(* unit is exported; what is local to a subprogram is no symbol.                *)
Symbol(d) ==
    IF ~d.compiled THEN "none"
    ELSE CASE d.external -> "imported"
           [] d.public /\ ~d.external -> "exported"
           [] ~d.public /\ ~d.external -> "private"
SymbolAsked(k) ==
    IF k.storage = "local" \/ (k.k = "const" /\ k.storage # "external" /\ ~k.value) THEN "none"
    ELSE CASE k.storage = "external" -> IF k.begun THEN "exported" ELSE "imported"
           [] k.storage = "public" -> "exported"
           [] k.storage = "private" -> "private"
SymbolsExact ==
    /\ \A d \in DOMAIN known : Symbol(o.decls[d]) = SymbolAsked(known[d])
    /\ \A d \in DOMAIN known : known[d].storage \in {"public", "private"} => o.decls[d].static \/ ~o.decls[d].compiled
    /\ UnitComplete => \A i \in DOMAIN done : o.decls[done[i].func].finalized = (known[done[i].func].home = NULL)
=============================================================================
