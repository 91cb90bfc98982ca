-------------------------------- MODULE MCGhw --------------------------------
(* Small designs for the GHW model: one with every kind of type, two instances *)
(* of different bounds and a loop, one with long names, one with more steps.   *)
EXTENDS Ghw

CONSTANT Designs      \* which of the designs below

N(k) == <<97 + k>>
Long(k) == [j \in 1 .. 35 |-> 97 + (j % 7)] \o <<97 + k>>

Up2(kind, l, r) == [kind |-> kind, down |-> FALSE, left |-> l, right |-> r]
Down2(kind, l, r) == [kind |-> kind, down |-> TRUE, left |-> l, right |-> r]

Top == <<N(20), 0>>
Ctx(k) == <<Top, <<N(21 + k), 0>>>>

Type(kind, name, more) == more @@ [kind |-> kind, name |-> name, depth |-> 0]
Fixed(x) == (<<>> :> x)

BasicTypes ==
    [flag  |-> Type("b2", N(25), [lits |-> <<N(1), N(2)>>]),
     bit   |-> Type("b2", N(0), [lits |-> <<N(1), N(2)>>]),
     logic |-> Type("e8", N(3), [lits |-> <<N(4), N(1), N(2)>>]),
     int   |-> Type("i32", N(5), [x |-> 0]),
     nat   |-> Type("sub", N(6), [base |-> "int", rng |-> Fixed(Up2("i32", 0, 300))]),
     vec   |-> Type("array", N(7), [el |-> "bit", idx |-> <<"nat">>])]

AllTypes ==
    BasicTypes @@
    [real   |-> Type("f64", N(8), [x |-> 0]),
     ratio  |-> Type("sub", <<>>, [base |-> "real", rng |-> Fixed(Down2("f64", 9, 1))]),
     time   |-> Type("p64", N(9), [units |-> <<[name |-> N(10), val |-> 1], [name |-> N(11), val |-> 1000]>>]),
     delay  |-> Type("sub", N(12), [base |-> "time", rng |-> Fixed(Up2("p64", -5, 5000))]),
     \* the width of an instance is a generic
     word   |-> [Type("subarray", <<>>, [base |-> "vec",
                      rngs |-> (Ctx(1) :> <<Down2("i32", 1, 0)>> @@ Ctx(2) :> <<Down2("i32", 2, 1)>>)])
                    EXCEPT !.depth = 2],
     grid   |-> Type("array", N(16), [el |-> "logic", idx |-> <<"logic", "nat">>]),
     small  |-> Type("subarray", N(17), [base |-> "grid",
                     rngs |-> Fixed(<<Up2("e8", 1, 2), Up2("i32", 7, 7)>>)]),
     pair   |-> Type("record", N(18), [els |-> <<[name |-> N(0), type |-> "bit"],
                                                 [name |-> N(1), type |-> "nat"]>>]),
     inner  |-> Type("urecord", N(19), [els |-> <<[name |-> N(2), type |-> "vec"]>>]),
     outer  |-> Type("urecord", N(20), [els |-> <<[name |-> N(3), type |-> "pair"],
                                                  [name |-> N(4), type |-> "vec"],
                                                  [name |-> N(5), type |-> "inner"]>>]),
     whole  |-> Type("subrecord", <<>>, [base |-> "outer",
                     rngs |-> Fixed(<<<<>>, <<Up2("i32", 0, 1)>>, <<<<Down2("i32", 0, 0)>>>>>>)]),
     twin   |-> Type("subrecord", N(21), [base |-> "pair", rngs |-> Fixed(<<>>)]),
     open   |-> Type("object", <<>>, [type |-> "vec",
                     rngs |-> (Ctx(1) :> <<Up2("i32", 5, 6)>> @@ Ctx(2) :> <<Up2("i32", 3, 4)>>)])]

Object(kind, name, type, sigs) ==
    [kind |-> kind, name |-> name, type |-> type, sigs |-> sigs, shown |-> TRUE]
Scope(kind, name, objects, subs) ==
    [kind |-> kind, name |-> name, objects |-> objects, subs |-> subs, shown |-> TRUE,
     iter |-> [type |-> "nat", value |-> 0]]
Loop(v, objects) == [Scope("generate_for", N(24), objects, <<>>) EXCEPT !.iter.value = v]

BigDesign ==
    [types |-> AllTypes, known |-> <<"flag", "bit", "logic">>,
     packages |-> <<Scope("package", N(0), <<Object("signal", N(1), "logic", <<1>>)>>, <<>>),
                    [Scope("package", N(2), <<>>, <<>>) EXCEPT !.shown = FALSE]>>,
     sigs |-> <<"e8", "b2", "b2", "i32", "f64", "p64", "e8", "e8", "b2", "i32", "b2", "b2", "b2">>,
     root |->
        Scope("instance", N(20),
              <<Object("signal", N(3), "bit", <<3>>), Object("signal", N(4), "nat", <<4>>),
                Object("signal", N(5), "ratio", <<5>>), Object("signal", N(6), "delay", <<6>>),
                [Object("signal", N(7), "bit", <<2>>) EXCEPT !.shown = FALSE],
                Object("signal", N(8), "small", <<8, 7>>), Object("port_out", N(9), "twin", <<9, 10>>),
                Object("signal", N(10), "whole", <<9, 10, 11, 12, 13>>)>>,
              <<Scope("instance", N(22), <<Object("port_in", N(3), "word", <<11, 12>>),
                                           Object("port_inout", N(13), "open", <<12, 13>>)>>, <<>>),
                [Scope("process", N(12), <<>>, <<>>) EXCEPT !.kind = "process"],
                Scope("instance", N(23), <<Object("port_in", N(3), "word", <<3, 11>>),
                                           Object("port_buffer", N(13), "open", <<9, 3>>)>>,
                      <<Scope("block", N(14), <<>>, <<Scope("generate_if", N(15), <<>>, <<>>)>>)>>),
                [Scope("block", N(16), <<>>, <<>>) EXCEPT !.shown = FALSE],
                Loop(1, <<Object("signal", N(17), "bit", <<13>>)>>), Loop(2, <<>>)>>)]

LongDesign ==
    [types |-> BasicTypes, known |-> <<"flag", "bit", "logic">>, packages |-> <<>>, sigs |-> <<"b2", "b2">>,
     root |-> Scope("instance", Long(1),
                    <<Object("signal", Long(3), "bit", <<2>>), Object("port_linkage", Long(2), "bit", <<1>>)>>,
                    <<Scope("process", N(0), <<>>, <<>>), Scope("block", Long(4), <<>>, <<>>)>>)]

StepDesign ==
    [types |-> BasicTypes, known |-> <<"flag", "bit", "logic">>, packages |-> <<>>,
     sigs |-> <<"b2", "i32", "b2", "e8">>,
     root |-> Scope("instance", N(20),
                    <<Object("signal", N(0), "logic", <<4>>), Object("signal", N(1), "nat", <<2>>),
                      Object("signal", N(2), "bit", <<3>>)>>, <<>>)]

Conf(design, first, values, more) ==
    more @@ [design |-> design, sigs |-> design.sigs, first |-> first, values |-> values, be |-> FALSE,
             filter |-> <<>>, gaps |-> {1}, steps |-> 1]

DesignOf(name) ==
    CASE name = "big"   -> Conf(BigDesign, <<0, 0, 1, 200, 9, -5, 1, 2, 0, 299, 1, 0, 1>>,
                                [n \in 1 .. 13 |-> CASE n = 4 -> {-1, 64} [] n = 6 -> {4000} [] n = 13 -> {0}
                                                     [] OTHER -> {}],
                                [filter |-> <<<<9, 2>>, <<3>>>>, gaps |-> {200}])
      [] name = "long"  -> Conf(LongDesign, <<0, 1>>, <<{1}, {0}>>, [be |-> TRUE, gaps |-> {70000}, steps |-> 2])
      [] name = "steps" -> Conf(StepDesign, <<0, 5, 1, 2>>, <<{1}, {5, 130}, {0}, {}>>,
                                [filter |-> <<<<1>>, <<3, 3>>>>, gaps |-> {1, 127}, steps |-> 2])

MCConfigs == {DesignOf(d) : d \in Designs}
=============================================================================
