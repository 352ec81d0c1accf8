------------------------------- MODULE Values -------------------------------
(***************************************************************************)
(* The binary operators of src/eval.c on the values of src/datatype.h.  A  *)
(* value is a type and what it holds: a number for an integer, 0 or 1 for  *)
(* a boolean, the text of a string.  What a float, a function or an array  *)
(* holds does not matter to any operator.                                  *)
(*                                                                         *)
(* A text is a sequence of character codes.  An operator gives a value, or *)
(* ends the process with an error, or is undefined in C.                   *)
(***************************************************************************)
EXTENDS Integers, Sequences

CONSTANT LLONG_MAX  (* the largest long long                               *)

ASSUME IntAssumption == LLONG_MAX \in Nat /\ LLONG_MAX > 0

LLONG_MIN == (-LLONG_MAX) - 1
LongLong  == LLONG_MIN..LLONG_MAX

Integer(n) == [type |-> "VAL_INTEGER", int |-> n, text |-> <<>>]
Boolean(b) == [type |-> "VAL_BOOLEAN", int |-> IF b THEN 1 ELSE 0, text |-> <<>>]
String(s)  == [type |-> "VAL_STRING", int |-> 0, text |-> s]
Other(t)   == [type |-> t, int |-> 0, text |-> <<>>]

Opaque == {"VAL_FLOAT", "VAL_FUNCTION", "VAL_ARRAY"}
AllValues(ints, texts) ==
  {Integer(n) : n \in ints} \cup {Boolean(b) : b \in BOOLEAN} \cup {String(s) : s \in texts}
    \cup {Other(t) : t \in Opaque \cup {"VAL_NULL"}}

(* The result of an operator.                                              *)
Gives(v)  == [how |-> "value", value |-> v]
Fails     == [how |-> "error", value |-> Other("VAL_NULL")]
Unspecified == [how |-> "undefined", value |-> Other("VAL_NULL")]

Comparison == {"<", ">", ">=", "<=", "==", "===", "!=", "!=="}

-----------------------------------------------------------------------------
val_is_truthy(v) ==
  v.type # "VAL_NULL" /\ (v.type \in {"VAL_BOOLEAN", "VAL_INTEGER"} => v.int # 0)

val_to_int(v) ==
  IF v.type \in {"VAL_INTEGER", "VAL_BOOLEAN"} THEN v.int
  ELSE IF v.type = "VAL_NULL" THEN 0 ELSE 1

(* The decimal digits of a number.                                         *)
Digits[n \in Nat] == IF n < 10 THEN <<48 + n>> ELSE Append(Digits[n \div 10], 48 + (n % 10))
Decimal(n) == IF n < 0 THEN <<45>> \o Digits[-n] ELSE Digits[n]

true  == <<116, 114, 117, 101>>
false == <<102, 97, 108, 115, 101>>
null  == <<110, 117, 108, 108>>

(* Floats, functions and arrays have no text: a null pointer.              *)
HasText(v) == v.type \notin Opaque
val_stringify(v) ==
  CASE v.type = "VAL_STRING"  -> v.text
    [] v.type = "VAL_INTEGER" -> Decimal(v.int)
    [] v.type = "VAL_BOOLEAN" -> IF v.int = 1 THEN true ELSE false
    [] OTHER                  -> null

eval_concat(left, right) ==
  IF HasText(left) /\ HasText(right)
  THEN Gives(String(val_stringify(left) \o val_stringify(right)))
  ELSE Fails

(* What == and its relatives say of two operands that are or are not the   *)
(* same in the sense of the comparison; the strict ones, both of them,     *)
(* want the same type.                                                     *)
Equality(operator, same, left, right) ==
  CASE operator = "=="  -> same
    [] operator = "===" -> same /\ left.type = right.type
    [] operator = "!="  -> ~same
    [] operator = "!==" -> ~same /\ left.type = right.type

(* strcmp of a null pointer is undefined.                                  *)
eval_binexp_string(operator, left, right) ==
  IF operator = "+" THEN eval_concat(left, right)
  ELSE IF operator \notin {"==", "===", "!=", "!=="} THEN Fails
  ELSE IF HasText(left) /\ HasText(right)
  THEN Gives(Boolean(Equality(operator, val_stringify(left) = val_stringify(right), left, right)))
  ELSE Unspecified

(* Mutant: numbers are compared by their texts.                            *)
eval_binexp_cmp_genericText(operator, left, right) ==
  IF left.type = "VAL_STRING" \/ right.type = "VAL_STRING" \/ operator \in {"==", "!="}
  THEN eval_binexp_string(operator, left, right)
  ELSE LET li == val_to_int(left)
           ri == val_to_int(right)
       IN  Gives(Boolean(CASE operator = "<"  -> li < ri
                           [] operator = ">"  -> li > ri
                           [] operator = ">=" -> li >= ri
                           [] operator = "<=" -> li <= ri
                           [] OTHER           -> Equality(operator, li = ri, left, right)))

eval_binexp_cmp_generic(operator, left, right) ==
  IF left.type = "VAL_STRING" \/ right.type = "VAL_STRING"
  THEN eval_binexp_string(operator, left, right)
  ELSE LET li == val_to_int(left)
           ri == val_to_int(right)
       IN  Gives(Boolean(CASE operator = "<"  -> li < ri
                           [] operator = ">"  -> li > ri
                           [] operator = ">=" -> li >= ri
                           [] operator = "<=" -> li <= ri
                           [] OTHER           -> Equality(operator, li = ri, left, right)))

(* A sum, difference or product that is no long long is undefined.         *)
InRange(n) == IF n \in LongLong THEN Gives(Integer(n)) ELSE Unspecified

(* The remainder has the sign of the dividend.                             *)
Abs(n)    == IF n < 0 THEN -n ELSE n
Rem(a, b) == IF a < 0 THEN -(Abs(a) % Abs(b)) ELSE a % Abs(b)

eval_binexp_int(operator, left, right) ==
  LET l == left.int
      r == right.int
  IN  CASE operator = "+" -> InRange(l + r)
        [] operator = "-" -> InRange(l - r)
        [] operator = "*" -> InRange(l * r)
        [] operator \in {"/", "%"} /\ r = 0 -> Fails
        [] operator = "/" /\ r # 0 -> Gives(Other("VAL_FLOAT"))
        [] operator = "%" /\ r # 0 ->
             IF l = LLONG_MIN /\ r = -1 THEN Unspecified ELSE Gives(Integer(Rem(l, r)))

eval_binexp(operator, left, right) ==
  IF operator \in Comparison THEN eval_binexp_cmp_generic(operator, left, right)
  ELSE IF left.type = "VAL_INTEGER" /\ right.type = "VAL_INTEGER"
  THEN eval_binexp_int(operator, left, right)
  ELSE IF left.type = "VAL_STRING" \/ right.type = "VAL_STRING"
  THEN eval_binexp_string(operator, left, right)
  ELSE Fails

-----------------------------------------------------------------------------
(* Properties of the operators, on a set of values.                        *)
Holds(operator, l, r) == eval_binexp(operator, l, r) = Gives(Boolean(TRUE))
IsValue(operator, l, r) == eval_binexp(operator, l, r).how = "value"

(* Of values that are no strings, of whatever types, exactly one is less   *)
(* than the other or the two are equal, and the other operators agree.     *)
Ordered(V) ==
  \A l, r \in {v \in V : v.type # "VAL_STRING"} :
    /\ Holds("==", l, r) <=> ~Holds("<", l, r) /\ ~Holds(">", l, r)
    /\ ~(Holds("<", l, r) /\ Holds(">", l, r))
    /\ Holds("<=", l, r) <=> ~Holds(">", l, r)
    /\ Holds(">=", l, r) <=> ~Holds("<", l, r)

(* Where == is defined it is symmetric, != is its opposite and === is      *)
(* stronger; === and !== exclude each other, but for values of different   *)
(* types neither holds.                                                    *)
EqualityLaws(V) ==
  \A l, r \in V : IsValue("==", l, r) =>
    /\ Holds("==", l, r) <=> Holds("==", r, l)
    /\ Holds("!=", l, r) <=> ~Holds("==", l, r)
    /\ Holds("===", l, r) => Holds("==", l, r)
    /\ ~(Holds("===", l, r) /\ Holds("!==", l, r))
    /\ Holds("===", l, r) \/ Holds("!==", l, r) <=> l.type = r.type

(* A condition v means v != 0, and true for every string.                  *)
TruthLaw(V) ==
  \A v \in V : val_is_truthy(v) <=> v.type = "VAL_STRING" \/ Holds("!=", v, Integer(0))
=============================================================================
