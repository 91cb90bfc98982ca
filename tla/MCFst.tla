-------------------------------- MODULE MCFst --------------------------------
(* Small traces for the FST model: signals of each kind, the three packers,   *)
(* sections broken after one to three changes, a size limit, interruptions.   *)
EXTENDS Fst, FstPackers

CONSTANT Designs      \* which of the designs below

Text(s) == [k \in 1 .. s |-> 96 + k]
Scope1 == [call |-> "scope", typ |-> 12, name |-> <<116>>, comp |-> <<>>]
Close1 == [call |-> "upscope"]
Stem1(p, n) == [call |-> "stem", path |-> <<p>>, subtype |-> SourceStem, line |-> n]
Instance1(p, n) == [Stem1(p, n) EXCEPT !.subtype = SourceIStem]
Var(n, vt, len, alias) ==
    [call |-> "var", vt |-> vt, dir |-> 0, len |-> len, name |-> <<n>>, alias |-> alias,
     type |-> <<84>>, svt |-> 1, sdt |-> 3]
Bit(n) == Var(n, 5, 1, 0)
Vec(n, len) == Var(n, 5, len, 0)
Str(n) == Var(n, GenString, 0, 0)
RealVar(n) == Var(n, 3, 8, 0)
Twin(n, h) == Var(n, 5, 1, h)

Zeros(n) == [k \in 1 .. n |-> 48]
Ones(n) == [k \in 1 .. n |-> 49]
Unknown(n) == [k \in 1 .. n |-> 85]
Mixed(n) == [k \in 1 .. n |-> IF k % 3 = 0 THEN 90 ELSE 48 + (k % 2)]
BitVals == {<<48>>, <<85>>}

Conf(decls, values, more) ==
    more @@
    [calls |-> <<Stem1(97, 300), Scope1>> \o decls \o
               <<Instance1(98, 7), Stem1(97, 0), [Scope1 EXCEPT !.comp = <<99>>],
                 [call |-> "comment", text |-> <<65, 10>>],
                 [call |-> "attr", typ |-> 3, subtype |-> 1, name |-> <<112>>, arg |-> 200],
                 [call |-> "attrend"], Close1, Close1>>,
     values |-> values,
     first |-> [h \in DOMAIN values |-> IF values[h] = {} THEN <<>> ELSE CHOOSE v \in values[h] : TRUE],
     real |-> [h \in DOMAIN values |-> values[h] = {}],
     pack |-> "4", break_size |-> 2, size_limit |-> 0, repack |-> FALSE,
     compress_hier |-> TRUE, suspends |-> FALSE, step |-> 2,
     cycles |-> 2]

DesignOf(name) ==
    CASE name = "bits"    -> Conf(<<Bit(97), Bit(98), Twin(99, 1)>>, <<BitVals, BitVals>>,
                                  [repack |-> TRUE, break_size |-> 1, cycles |-> 3])
      [] name = "strings" -> Conf(<<Bit(97), Str(98)>>, <<BitVals, {<<104>>, <<104, 105>>}>>,
                                  [pack |-> "F", cycles |-> 3])
      [] name = "vectors" -> Conf(<<Vec(97, 9), Vec(98, 9), Bit(99)>>,
                                  <<{Ones(9), Mixed(9)}, {Ones(9), Zeros(9)}, BitVals>>,
                                  [break_size |-> 3])
      [] name = "wide4"   -> Conf(<<Vec(97, 40), Bit(98)>>, <<{Unknown(40), Mixed(40)}, BitVals>>,
                                  [break_size |-> 3])
      [] name = "wideF"   -> Conf(<<Vec(97, 40), Bit(98)>>, <<{Unknown(40), Mixed(40)}, BitVals>>,
                                  [pack |-> "F"])
      [] name = "wideZ"   -> Conf(<<Vec(97, 40), Vec(98, 40)>>, <<{Unknown(40), Mixed(40)}, {Unknown(40), Zeros(40)}>>,
                                  [pack |-> "Z", step |-> 200])
      [] name = "limit"   -> Conf(<<Bit(97), Bit(98)>>, <<BitVals, BitVals>>, [size_limit |-> 2, cycles |-> 3])
      [] name = "suspend" -> Conf(<<RealVar(97), Bit(98)>>, <<{}, BitVals>>,
                                  [suspends |-> TRUE, compress_hier |-> FALSE, break_size |-> 1,
                                   cycles |-> 3])
      [] name = "three"   -> Conf(<<Bit(97), Bit(98), Bit(99)>>, <<BitVals, BitVals, BitVals>>,
                                  [cycles |-> 3])

MCConfigs == {DesignOf(d) : d \in Designs}

\* Blocks long enough to be packed: repetitions, and two letters in many orders.
MCBlocks ==
    {[k \in 1 .. n |-> 7] : n \in {1, 5, 12, 13, 14, 30, 280}}
    \cup {[k \in 1 .. 40 |-> (k * m) % 5] : m \in 1 .. 4}
    \cup {[k \in 1 .. 24 |-> (c \div 2 ^ ((k - 1) % 5)) % 2] : c \in 0 .. 31}
=============================================================================
