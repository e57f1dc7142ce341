----------------------------- MODULE Operators -----------------------------
(***************************************************************************)
(* Runtime values and the built-in operators on them (runtime/operators.rs *)
(* and eval_unary, eval_builtin_binary of runtime/evaluator.rs).           *)
(*                                                                         *)
(* i64 is MinInt .. MaxInt.  f64 reaches up to MaxFloat, counted in steps  *)
(* of the smallest one: the integer 1 is One steps, a mantissa is below    *)
(* Mantissa, results are rounded to the nearest float and, of two as near, *)
(* to the even one. Zero has no sign here: no operator tells -0.0 from 0.0.*)
(* A text is a sequence of characters of one byte.                         *)
(***************************************************************************)
EXTENDS Checks, Integers, Sequences, FiniteSets, SequencesExt

CONSTANTS
  Alphabet,   \* the characters, in the order of their bytes
  MaxInt, Mantissa, MaxFloat, One

ASSUME NumberAssumption ==
  {MaxInt, Mantissa, MaxFloat, One} \subseteq Nat \ {0} /\ Mantissa > 1

-----------------------------------------------------------------------------
(* Values: type, payload, number, parts (of an array or object), bytes and *)
(* the longest string in them.                                             *)

\* The sum of a sequence of numbers.
SumOf(numbers) ==
  LET upTo[k \in 0 .. Len(numbers)] ==
        IF k = 0 THEN 0 ELSE upTo[k - 1] + numbers[k]
  IN  upTo[Len(numbers)]

Bytes(parts) == SumOf([k \in DOMAIN parts |-> parts[k].bytes])
Longest(parts) == Max({0} \cup {parts[k].longest : k \in DOMAIN parts})

Scalar(ty, payload, number) ==
  [ty |-> ty, payload |-> payload, number |-> number, parts |-> <<>>,
   bytes |-> 1 + Len(payload), longest |-> Len(payload)]

Bool(b) == Scalar("bool", <<>>, IF b THEN 1 ELSE 0)
Integer(n) == Scalar("int", <<>>, n)
Float(n) == Scalar("float", <<>>, n)
Text(chars) == Scalar("string", chars, 0)

List(parts) ==
  [ty |-> "array", payload |-> <<>>, number |-> 0, parts |-> parts,
   bytes |-> 1 + Bytes(parts), longest |-> Longest(parts)]
Object(keys, parts) ==
  [ty |-> "object", payload |-> keys, number |-> 0, parts |-> parts,
   bytes |-> 1 + Len(keys) + Bytes(parts), longest |-> Longest(parts)]

Failure == [Scalar("failure", <<>>, 0) EXCEPT !.bytes = 0]

\* A set of values that holds their parts too; an object has a part per key,
\* and what has no bytes is no value.
HoldsParts(S) ==
  \A v \in S :
    /\ v.payload \in Seq(ToSet(v.payload))
    /\ v.parts \in Seq(S)
    /\ v.ty = "object" => Len(v.parts) = Len(v.payload)
    /\ v.bytes \in Nat \ {0}

IndexIn(s, x) == CHOOSE k \in DOMAIN s : s[k] = x

-----------------------------------------------------------------------------
(* Numbers *)

MinInt == -MaxInt - 1
Magnitude(n) == IF n < 0 THEN -n ELSE n

\* Division that rounds toward zero, and what it leaves.
Quotient(a, b) ==
  IF (a < 0) = (b < 0) THEN Magnitude(a) \div Magnitude(b)
  ELSE -(Magnitude(a) \div Magnitude(b))
Remainder(a, b) == a - b * Quotient(a, b)

\* The distance between floats at magnitude n.
Spacing[n \in Nat] == IF n < Mantissa THEN 1 ELSE 2 * Spacing[n \div 2]

Finite(n) == Magnitude(n) <= MaxFloat

\* The float for the fraction num / den.
Rounded(num, den) ==
  LET size == Magnitude(num)
      step == Spacing[size \div den]
      below == ((size \div den) \div step) * step
      excess == 2 * (size - below * den)
      odd == (below \div step) % 2 = 1
      up == excess > step * den \/ (excess = step * den /\ odd)
      nearest == IF up THEN below + step ELSE below
  IN  IF num < 0 THEN -nearest ELSE nearest

BothNumbers(a, b) == {a.ty, b.ty} \subseteq {"int", "float"}
BothTexts(a, b) == {a.ty, b.ty} = {"string"}

\* number_as_f64.
AsFloat(v) == IF v.ty = "int" THEN Rounded(v.number * One, 1) ELSE v.number

\* int_arithmetic and the integer case of add_values, before the range check.
IntResult(op, a, b) ==
  CASE op = "+" -> a + b
    [] op = "-" -> a - b
    [] op = "*" -> a * b
    [] op = "/" -> Quotient(a, b)
    [] op = "%" -> Remainder(a, b)

\* The mixed and the float case, before the check that the result is finite.
FloatResult(op, a, b) ==
  CASE op = "+" -> Rounded(a + b, 1)
    [] op = "-" -> Rounded(a - b, 1)
    [] op = "*" -> Rounded(a * b, One)
    [] op = "/" -> Rounded((IF b < 0 THEN -a ELSE a) * One, Magnitude(b))
    [] op = "%" -> Rounded(Remainder(a, b), 1)

\* Mutant of Fits: the remainder wraps where the quotient overflows.
FitsByResult(op, a, b) == IntResult(op, a, b) \in MinInt .. MaxInt

\* checked_add and its like: a remainder is refused with its quotient.
Fits(op, a, b) ==
  (IF op = "%" THEN Quotient(a, b) ELSE IntResult(op, a, b)) \in MinInt .. MaxInt

-----------------------------------------------------------------------------
(* The operators *)

Arithmetic == {"+", "-", "*", "/", "%"}
Comparison == {"<", "<=", ">", ">="}
ByZero(op, n) == op \in {"/", "%"} /\ n = 0

\* The byte order of texts.
Before(s, t) ==
  \E n \in 0 .. Len(s) :
    /\ n < Len(t) /\ SubSeq(s, 1, n) = SubSeq(t, 1, n)
    /\ n = Len(s) \/ IndexIn(Alphabet, s[n + 1]) < IndexIn(Alphabet, t[n + 1])

\* Mutant of Less: a float is cut down to an integer.
LessAsIntegers(a, b) ==
  LET Whole(v) == IF v.ty = "int" THEN v.number ELSE Quotient(v.number, One)
  IN  IF a.ty = "string" THEN Before(a.payload, b.payload) ELSE Whole(a) < Whole(b)

\* compare_f64 and compare_order.
Less(a, b) ==
  IF a.ty = "string" THEN Before(a.payload, b.payload) ELSE AsFloat(a) < AsFloat(b)

Ordered(op, a, b) ==
  CASE op = "<" -> Less(a, b)
    [] op = "<=" -> ~Less(b, a)
    [] op = ">" -> Less(b, a)
    [] op = ">=" -> ~Less(a, b)

\* What an operator demands of its operands; limit is max_string_bytes.
UnaryChecks(op, v) ==
  IF op = "-" /\ v.ty = "int" THEN <<<<-v.number <= MaxInt, "overflow">>>>
  ELSE <<<<v.ty = (IF op = "!" THEN "bool" ELSE "float"), "type">>>>

ArithmeticChecks(op, a, b, limit) ==
  CASE a.ty = "int" /\ b.ty = "int" ->
         <<<<~ByZero(op, b.number), "division by zero">>,
           <<ByZero(op, b.number) \/ Fits(op, a.number, b.number), "overflow">>>>
    [] BothNumbers(a, b) /\ {a.ty, b.ty} # {"int"} ->
         LET x == AsFloat(a)
             y == AsFloat(b)
         IN  <<<<~ByZero(op, y), "division by zero">>,
               <<ByZero(op, y) \/ Finite(FloatResult(op, x, y)), "not finite">>>>
    [] OTHER ->
         <<<<op = "+" /\ BothTexts(a, b), "type">>,
           <<a.longest + b.longest <= limit, "string">>>>

BinaryChecks(op, a, b, limit) ==
  CASE op \in Arithmetic -> ArithmeticChecks(op, a, b, limit)
    [] op \in Comparison ->
         <<<<BothNumbers(a, b) \/ BothTexts(a, b), "type">>>>
    [] OTHER -> <<>>

\* What it makes of them then.
UnaryResult(op, v) ==
  CASE op = "!" -> Bool(v.number = 0)
    [] op = "-" -> Scalar(v.ty, <<>>, -v.number)

ArithmeticResult(op, a, b) ==
  CASE a.ty = "string" -> Text(a.payload \o b.payload)
    [] a.ty = "int" /\ b.ty = "int" -> Integer(IntResult(op, a.number, b.number))
    [] OTHER -> Float(FloatResult(op, AsFloat(a), AsFloat(b)))

BinaryResult(op, a, b) ==
  CASE op = "==" -> Bool(a = b)
    [] op = "!=" -> Bool(a # b)
    [] op \in Comparison -> Bool(Ordered(op, a, b))
    [] op \in Arithmetic -> ArithmeticResult(op, a, b)

BuiltinChecks(op, args, limit) ==
  IF Len(args) = 1 THEN UnaryChecks(op, args[1])
  ELSE BinaryChecks(op, args[1], args[2], limit)

Builtin(op, args) ==
  IF Len(args) = 1 THEN UnaryResult(op, args[1]) ELSE BinaryResult(op, args[1], args[2])

-----------------------------------------------------------------------------
(* What the operators owe each other on numbers a and b.                   *)

\* The number itself, in steps, without rounding.
Exactly(v) == IF v.ty = "int" THEN v.number * One ELSE v.number

Holds(op, a, b) == BinaryResult(op, a, b) = Bool(TRUE)
Defined(op, a, b) == AllHold(BinaryChecks(op, a, b, 0))

\* Exact as a float.
Representable(v) == AsFloat(v) = Exactly(v)

\* A comparison made through floats never contradicts the numbers, and is exact
\* for those a float can hold; the four comparisons agree with each other, and
\* equals are not ordered.
OrderSound(a, b) ==
  /\ Representable(a) /\ Representable(b) =>
       (Holds("<", a, b) <=> Exactly(a) < Exactly(b))
  /\ Holds("<", a, b) => Exactly(a) < Exactly(b)
  /\ Exactly(a) <= Exactly(b) => Holds("<=", a, b)
  /\ Holds("<", a, b) # Holds(">=", a, b)
  /\ Holds(">", a, b) <=> Holds("<", b, a)
  /\ Holds("==", a, b) => (Holds("<=", a, b) /\ Holds(">=", a, b))

\* Of integers, quotient and remainder are defined together and belong
\* together, and no other result leaves the range or wraps around in it.
DivisionSound(a, b) ==
  LET Value(op) == BinaryResult(op, a, b).number
  IN  /\ Defined("/", a, b) <=> Defined("%", a, b)
      /\ Defined("/", a, b) =>
           /\ Value("/") * b.number + Value("%") = a.number
           /\ Magnitude(Value("%")) < Magnitude(b.number)
      /\ \A op \in Arithmetic : Defined(op, a, b) => Value(op) \in MinInt .. MaxInt
=============================================================================
