------------------------------- MODULE MCOrtho -------------------------------
(* Small clients for the ortho model: each one concentrates on one way the     *)
(* constructs interact. Except in the last, a client builds one procedure.     *)
EXTENDS OrthoRuns

Client(calls, features) ==
    [calls |-> calls, features |-> features, parameters |-> {0}, choices |-> {}, selectors |-> {0, 1}]
Choosing(c, choices) == [c EXCEPT !.choices = choices, !.selectors = {0, 1, 2}]

Choice(low, high) == << <<low, high>> >>
Others == << <<>> >>

MCClients ==
    {\* jumps out of regions that allocate
     Client(6, {"main", "loop", "exit", "next", "declare", "alloca"}),
     Client(6, {"main", "if", "loop", "exit", "next", "return"}),
     \* branches, with a range or with several choices
     Choosing(Client(6, {"main", "assign", "case", "if"}), {Choice(0, 0), Choice(1, 2), Others}),
     Choosing(Client(6, {"main", "assign", "case", "loop", "exit"}), {Choice(0, 0), Choice(2, 2) \o Choice(1, 1), Others}),
     \* regions and their variables
     Client(7, {"main", "declare", "var", "type"}),
     \* nested subprograms
     [Client(7, {"main", "sub", "assign", "loop", "exit"}) EXCEPT !.parameters = {0, 2}],
     Client(6, {"main", "sub", "declare", "alloca", "loop"}),
     \* the declarations of a unit
     [Client(4, {"sub", "var", "const", "call"}) EXCEPT !.parameters = {0, 2}]}
=============================================================================
