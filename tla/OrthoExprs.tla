------------------------------ MODULE OrthoExprs -----------------------------
(* The GCC back end of ortho (ortho-lang-7.c): operators, conversions,         *)
(* literals, types and aggregates. What GCC does with a tree code is external. *)
EXTENDS OrthoTree, Integers

CONSTANTS
    Word,           \* bits of a HOST_WIDE_INT
    Mantissa,       \* bits of the mantissa of a real, with the hidden one
    MaxExponent     \* the exponents of the reals go from 0 to MaxExponent

ASSUME ExprBounds == Word \in Nat \ {0} /\ Mantissa \in Nat \ {0, 1} /\ MaxExponent \in Nat

(*-------------------------------- operators ---------------------------------*)

(* ON_Op_Kind of the Ada side (ortho_gcc.ads), whose positions are what is passed. *)
ON_Op_Kind == <<"ON_Nil", "ON_Add_Ov", "ON_Sub_Ov", "ON_Mul_Ov", "ON_Div_Ov", "ON_Rem_Ov", "ON_Mod_Ov",
                "ON_And", "ON_Or", "ON_Xor", "ON_Not", "ON_Neg_Ov", "ON_Abs_Ov",
                "ON_Eq", "ON_Neq", "ON_Le", "ON_Lt", "ON_Ge", "ON_Gt">>
Position(kind) == (CHOOSE i \in DOMAIN ON_Op_Kind : ON_Op_Kind[i] = kind) - 1

(* The values of the enumeration of the C side that are tested by name. *)
ON_Div_Ov == 4

Mut_ON_op_to_TREE_CODE ==
    <<"ERROR_MARK", "PLUS_EXPR", "MINUS_EXPR", "MULT_EXPR", "ERROR_MARK", "FLOOR_MOD_EXPR", "TRUNC_MOD_EXPR",
      "BIT_AND_EXPR", "BIT_IOR_EXPR", "BIT_XOR_EXPR", "BIT_NOT_EXPR", "NEGATE_EXPR", "ABS_EXPR",
      "EQ_EXPR", "NE_EXPR", "LE_EXPR", "LT_EXPR", "GE_EXPR", "GT_EXPR">>

ON_op_to_TREE_CODE ==
    <<"ERROR_MARK", "PLUS_EXPR", "MINUS_EXPR", "MULT_EXPR", "ERROR_MARK", "TRUNC_MOD_EXPR", "FLOOR_MOD_EXPR",
      "BIT_AND_EXPR", "BIT_IOR_EXPR", "BIT_XOR_EXPR", "BIT_NOT_EXPR", "NEGATE_EXPR", "ABS_EXPR",
      "EQ_EXPR", "NE_EXPR", "LE_EXPR", "LT_EXPR", "GE_EXPR", "GT_EXPR">>

(* Only the low byte of the kind is defined: the caller passes an 8 bit         *)
(* enumeration.                                                                 *)
Truncated(kind) == kind % 256
new_dyadic_op(kind, type) ==
    IF Truncated(kind) = ON_Div_Ov
    THEN IF type = "real" THEN "RDIV_EXPR" ELSE "TRUNC_DIV_EXPR"
    ELSE ON_op_to_TREE_CODE[Truncated(kind) + 1]
new_monadic_op(kind) == ON_op_to_TREE_CODE[Truncated(kind) + 1]
new_compare_op(kind) == ON_op_to_TREE_CODE[Truncated(kind) + 1]

(* The codes of GCC on integers, and on bits for the logical ones. *)
Magnitude(a) == IF a < 0 THEN -a ELSE a
Signed(negative, a) == IF negative THEN -a ELSE a
TruncDiv(a, b) == Signed((a < 0) # (b < 0), Magnitude(a) \div Magnitude(b))
FloorMod(a, b) == Signed(b < 0, Signed(b < 0, a) % Magnitude(b))
Bit(b) == IF b THEN 1 ELSE 0
Compute(code, a, b) ==
    CASE code = "PLUS_EXPR" -> a + b        [] code = "MINUS_EXPR" -> a - b
      [] code = "MULT_EXPR" -> a * b        [] code = "TRUNC_DIV_EXPR" -> TruncDiv(a, b)
      [] code = "TRUNC_MOD_EXPR" -> a - b * TruncDiv(a, b)
      [] code = "FLOOR_MOD_EXPR" -> FloorMod(a, b)
      [] code = "BIT_AND_EXPR" -> a * b     [] code = "BIT_IOR_EXPR" -> Bit(a + b > 0)
      [] code = "BIT_XOR_EXPR" -> Bit(a # b) [] code = "BIT_NOT_EXPR" -> 1 - a
      [] code = "NEGATE_EXPR" -> -a         [] code = "ABS_EXPR" -> Magnitude(a)
      [] code = "EQ_EXPR" -> Bit(a = b)     [] code = "NE_EXPR" -> Bit(a # b)
      [] code = "LE_EXPR" -> Bit(a <= b)    [] code = "LT_EXPR" -> Bit(a < b)
      [] code = "GE_EXPR" -> Bit(a >= b)    [] code = "GT_EXPR" -> Bit(a > b)

(*------------------------------- conversions --------------------------------*)

(* Reals are whole numbers of units, 1 being One units and the last bit of the  *)
(* smallest normal real one unit: one half has room for its predecessor.        *)
One == 2 ^ (Mantissa + 1)
Half == 2 ^ Mantissa
Positive == (0 .. 2 ^ Mantissa - 1) \cup {m * 2 ^ e : m \in 2 ^ (Mantissa - 1) .. 2 ^ Mantissa - 1, e \in 0 .. MaxExponent}
Reals == Positive \cup {-r : r \in Positive}

(* The exact value x in units, rounded to a real: to even on a tie. *)
EvenReal(r) ==
    \E m \in 0 .. 2 ^ Mantissa - 1, e \in 0 .. MaxExponent :
        Magnitude(r) = m * 2 ^ e /\ (m >= 2 ^ (Mantissa - 1) \/ e = 0) /\ m % 2 = 0
RoundReal(x) ==
    LET best == Min({Magnitude(x - r) : r \in Reals})
        near == {r \in Reals : Magnitude(x - r) = best}
    IN  CHOOSE r \in near : Cardinality(near) = 1 \/ EvenReal(r)

Mut_ToInteger(x) == TruncDiv(RoundReal(x + Half), One)

(* new_convert_ov, from a real to an integer: one half is added, or subtracted  *)
(* from a negative value, and the sum, a real, is truncated.                    *)
ToInteger(x) == TruncDiv(RoundReal(x + (IF x >= 0 THEN Half ELSE -Half)), One)

(* A literal is given to GCC as two words: here the number they stand for. *)
Pair(hi, lo) == hi * 2 ^ Word + lo
Shifted(v, n) == v \div 2 ^ n
LowWord(v) == v % 2 ^ Word
HighWord(v) == Shifted(Shifted(v, 1), Word - 1)
new_signed_literal(v) == Pair(HighWord(v), LowWord(v))
new_unsigned_literal(v) == Pair(HighWord(v), LowWord(v))

(* A real literal m * 2^e: the fraction is scaled to an integer of Scale bits,  *)
(* and scaled back; the result is the number of units.                          *)
Scale == Mantissa + 2
Frexp(r) == IF r = 0 THEN 0 ELSE CHOOSE ex \in 1 .. MaxExponent + Mantissa : 2 ^ (ex - 1) <= r /\ r < 2 ^ ex
new_float_literal(r) ==
    LET s == IF r = 0 THEN 0 ELSE Signed(r < 0, (Magnitude(r) * 2 ^ Scale) \div 2 ^ Frexp(Magnitude(r)))
    IN  Signed(s < 0, (Magnitude(s) * 2 ^ Frexp(Magnitude(r))) \div 2 ^ Scale)

(*--------------------------- types and aggregates ---------------------------*)
(* t holds the back end o, where the fields are, and the record types.         *)

new_uncomplete_record_type(t) == [t EXCEPT !.types = Append(@, [fields |-> NULL, complete |-> FALSE])]

(* A record type, new or announced before, and the list of its elements. *)
start_uncomplete_record_type(t, res) == [t |-> t, list |-> [res |-> res, chain |-> chain_init]]
start_record_type(t) ==
    start_uncomplete_record_type(new_uncomplete_record_type(t), Len(t.types) + 1)

new_record_field(t, list) ==
    LET f == Len(t.o.decls) + 1
        c == chain_append(NewDecl(t.o, [Decl("field", "local", list.res) EXCEPT !.initial = FALSE]), list.chain, f)
    IN  [t |-> [t EXCEPT !.o = c.o], list |-> [list EXCEPT !.chain = c.constr]]

finish_record_type(t, list) == [t EXCEPT !.types[list.res] = [fields |-> list.chain.first, complete |-> TRUE]]

(* An aggregate: its type, the next field and the elements so far. *)
start_record_aggr(t, type) == [atype |-> type, field |-> t.types[type].fields, elts |-> <<>>]
Mut_new_record_aggr_el(t, list, value) == [list EXCEPT !.elts = Append(@, <<list.field, value>>)]

new_record_aggr_el(t, list, value) ==
    [list EXCEPT !.elts = Append(@, <<list.field, value>>), !.field = t.o.decls[list.field].chain]
finish_record_aggr(list) == list.elts

(* new_offsetof, for fields of one unit: the fields before it. *)
new_offsetof(t, type, field) ==
    SelectInSeq(ChainFrom(t.o, t.types[type].fields), LAMBDA f : f = field) - 1

(* The last index of a constrained array, an unsigned word: a null array has    *)
(* one element.                                                                 *)
LastIndex(length) == IF length = 0 THEN 0 ELSE (length - 1) % 2 ^ Word
ArrayRoom(length) == LastIndex(length) + 1

(* The literals of an enumeration are numbered as they are added. *)
start_enum_type == [num |-> 0, chain |-> <<>>]
new_enum_literal(list) == [num |-> list.num + 1, chain |-> Append(list.chain, list.num)]
=============================================================================
