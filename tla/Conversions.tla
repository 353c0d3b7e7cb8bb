----------------------------- MODULE Conversions -----------------------------
(***************************************************************************)
(* Values and the conversions between them: any_ref of data.hh and the     *)
(* functions of context.cc.                                                *)
(*                                                                         *)
(* A number is in lowest terms, <<n, d>> with d > 0, or an infinity        *)
(* <<1, 0>> or <<-1, 0>>, or NaN <<0, 0>>: there is one zero, and no       *)
(* rounding but that of a text.  A text is a sequence of words, each the   *)
(* numeral of a number or some other word.  Objects are known by how their *)
(* two methods of conversion behave.                                       *)
(***************************************************************************)
EXTENDS Integers, Sequences, FiniteSetsExt

CONSTANTS
  Width,          \* bits of an int (32 in the code)
  Precision,      \* significant digits that %g prints (6)
  LeastExponent,  \* the least exponent that it does not write (-4)
  ObjectIds,      \* the objects
  NoObjectId,     \* the end of a chain of prototypes
  ValueOfGives,   \* what calling valueOf of an object does, or toString
  ToStringGives,
  DateIds,        \* the objects that are dates
  FunctionIds,    \* and those that can be called
  WrapperProto    \* the prototypes of the objects made of primitive values

ASSUME ConversionBoundsAssumption ==
  Width \in Nat \ {0, 1} /\ Precision \in 1..21 /\ LeastExponent \in -6..0
ASSUME ObjectsAssumption ==
  DateIds \cup FunctionIds \subseteq ObjectIds /\ NoObjectId \notin ObjectIds

-----------------------------------------------------------------------------
(* Numbers.                                                                *)

NaN == <<0, 0>>
Infinity == <<1, 0>>
Sgn(n) == IF n > 0 THEN 1 ELSE IF n < 0 THEN -1 ELSE 0
Magnitude(n) == Sgn(n) * n
Whole(n) == <<n, 1>>
IsFinite(x) == x[2] > 0
IsWhole(x) == x[2] = 1

Lowest(n, d) ==
  IF d = 0 THEN <<Sgn(n), 0>>
  ELSE LET g == Max({k \in 1..d : n % k = 0 /\ d % k = 0}) IN <<n \div g, d \div g>>

Negated(x) == <<-x[1], x[2]>>
Plus(x, y) ==
  IF IsFinite(x) \/ IsFinite(y) THEN Lowest(x[1] * y[2] + y[1] * x[2], x[2] * y[2])
  ELSE IF x = y THEN x ELSE NaN
Times(x, y) == Lowest(x[1] * y[1], x[2] * y[2])
Over(x, y) ==
  LET s == IF y[1] < 0 THEN -1 ELSE 1 IN Lowest(s * x[1] * y[2], s * x[2] * y[1])

Less(x, y) ==
  /\ x # NaN /\ y # NaN
  /\ IF IsFinite(x) \/ IsFinite(y) THEN x[1] * y[2] < y[1] * x[2] ELSE x[1] < y[1]
SameNumber(x, y) == x = y /\ x # NaN

\* The whole part, towards zero.
Truncated(x) == Sgn(x[1]) * (Magnitude(x[1]) \div x[2])

IntMin == -(2^(Width - 1))
IntMax == 2^(Width - 1) - 1
Ints == IntMin..IntMax
Wrapped(n) == ((n - IntMin) % 2^Width) + IntMin

\* static_cast<int> of a number that has no int is undefined: processors give the
\* smallest int, or the nearest one and 0 for NaN.
AsInts(x) ==
  IF IsFinite(x) /\ Truncated(x) \in Ints THEN {Truncated(x)}
  ELSE {IntMin, IF x = NaN THEN 0 ELSE IF x[1] > 0 THEN IntMax ELSE IntMin}

Bits(n) == n % 2^Width

\* The places of the bits that are set, and the int that has these set.
Ones(n) == {k \in 0..(Width - 1) : (Bits(n) \div 2^k) % 2 = 1}
IntOfOnes(S) == Wrapped(MapThenSumSet(LAMBDA k : 2^k, S))
BitAnd(m, n) == IntOfOnes(Ones(m) \cap Ones(n))
BitOr(m, n) == IntOfOnes(Ones(m) \cup Ones(n))
BitXor(m, n) == IntOfOnes(SymDiff(Ones(m), Ones(n)))

-----------------------------------------------------------------------------
(* Values.                                                                 *)

Undefined == [is |-> "undefined"]
Null == [is |-> "null"]
Bool(b) == [is |-> "bool", bool |-> b]
Smi(n) == [is |-> "smi", int |-> n]
Double(x) == [is |-> "double", number |-> x]
Str(t) == [is |-> "string", text |-> t]
Obj(o) == [is |-> "object", id |-> o]

IsObject(v) == v.is = "object"
IsString(v) == v.is = "string"
IsNumber(v) == v.is \in {"smi", "double"}
IsNothing(v) == v.is \in {"undefined", "null"}
NumberOf(v) == IF v.is = "smi" THEN Whole(v.int) ELSE v.number

\* The text of a finite number by the standard, and some other word.
Numeral(x) == <<[number |-> x, word |-> ""]>>
Word(w) == <<[number |-> NaN, word |-> w]>>

Number == {x \in Int \X Nat : x = Lowest(x[1], x[2])}
Text == Seq([number : Number, word : STRING])
Value ==
  {Undefined, Null} \cup [is : {"bool"}, bool : BOOLEAN] \cup
  [is : {"smi"}, int : Ints] \cup [is : {"double"}, number : Number] \cup
  [is : {"string"}, text : Text] \cup [is : {"object"}, id : ObjectIds]

\* A method of conversion is missing, throws or returns a value.
Behaviour == [kind : {"absent", "throws"}] \cup [kind : {"value"}, value : Value]
ASSUME MethodsAssumption ==
  ValueOfGives \in [ObjectIds -> Behaviour] /\ ToStringGives \in [ObjectIds -> Behaviour]

-----------------------------------------------------------------------------
(* What a conversion or an operator comes to: a value, an exception or the *)
(* end of the process, and the methods of objects it has called.           *)

Gives(v) == [kind |-> "value", value |-> v, calls |-> <<>>]
Throws == [kind |-> "throws", value |-> Undefined, calls |-> <<>>]
Crash == [kind |-> "crash", value |-> Undefined, calls |-> <<>>]

\* r, and then f of its value.
After(r, s) == [s EXCEPT !.calls = r.calls \o @]
Then(r, f(_)) == IF r.kind = "value" THEN After(r, f(r.value)) ELSE r

-----------------------------------------------------------------------------
(* Conversions.                                                            *)

\* get_default_number and get_default_string: the object itself stands for a
\* method it does not have.
Method(o, name) ==
  LET does == IF name = "valueOf" THEN ValueOfGives[o] ELSE ToStringGives[o]
      called == [Gives(Undefined) EXCEPT !.calls = <<[id |-> o, method |-> name]>>]
  IN CASE does.kind = "absent" -> Gives(Obj(o))
       [] does.kind = "throws" -> After(called, Throws)
       [] does.kind = "value" -> After(called, Gives(does.value))

DefaultValueMutant(o, hint) ==
  LET first == IF hint = "string" THEN "toString" ELSE "valueOf"
      second == IF first = "toString" THEN "valueOf" ELSE "toString"
  IN Then(Method(o, first), LAMBDA v :
       IF ~IsObject(v) THEN Gives(v)
       ELSE Then(Method(o, second), LAMBDA w : IF IsObject(w) THEN Throws ELSE Gives(w)))

DefaultValue(o, hint) ==
  LET first == IF hint = "string" \/ (hint = "none" /\ o \in DateIds)
               THEN "toString" ELSE "valueOf"
      second == IF first = "toString" THEN "valueOf" ELSE "toString"
  IN Then(Method(o, first), LAMBDA v :
       IF ~IsObject(v) THEN Gives(v)
       ELSE Then(Method(o, second), LAMBDA w : IF IsObject(w) THEN Throws ELSE Gives(w)))

ToPrimitive(v, hint) == IF IsObject(v) THEN DefaultValue(v.id, hint) ELSE Gives(v)

ToBoolean(v) ==
  CASE v.is = "smi" -> v.int # 0
    [] IsNothing(v) -> FALSE
    [] v.is = "bool" -> v.bool
    [] v.is = "double" -> v.number \notin {Whole(0), NaN}
    [] IsString(v) -> v.text # <<>>
    [] IsObject(v) -> TRUE

\* strtod reads a number off the start of a text, and 0 when there is none.
strtod(t) ==
  IF t = <<>> THEN Whole(0)
  ELSE CASE t[1].number # NaN -> t[1].number
         [] t[1].word = "Infinity" -> Infinity
         [] t[1].word = "-Infinity" -> Negated(Infinity)
         [] t[1].word = "NaN" -> NaN
         [] OTHER -> Whole(0)

PrimitiveToNumber(v) ==
  CASE IsNumber(v) -> NumberOf(v)
    [] v.is = "undefined" -> NaN
    [] v.is = "null" -> Whole(0)
    [] v.is = "bool" -> Whole(IF v.bool THEN 1 ELSE 0)
    [] IsString(v) -> strtod(v.text)

\* The number as a double.
ToNumber(v) == Then(ToPrimitive(v, "number"), LAMBDA p : Gives(Double(PrimitiveToNumber(p))))

\* n/d, d > 0 and n >= 0, to the nearest whole number, and of two to the even one.
Nearest(n, d) == (n \div d) + (IF 2 * (n % d) + ((n \div d) % 2) > d THEN 1 ELSE 0)

DigitCount(n) == CHOOSE k \in 1..(n + 1) : n < 10^k /\ (k = 1 \/ n >= 10^(k - 1))

\* The power of ten of the first significant digit of n/d, and 0 for zero.
Exponent(n, d) ==
  IF n >= d \/ n = 0 THEN DigitCount(n \div d) - 1 ELSE -DigitCount((d - 1) \div n)

\* x to a number of units of up/down.
ToUnits(x, up, down) ==
  Lowest(Sgn(x[1]) * Nearest(Magnitude(x[1]) * down, x[2] * up) * up, down)
ToPlace(x, place) ==
  ToUnits(x, IF place > 0 THEN 10^place ELSE 1, IF place < 0 THEN 10^(-place) ELSE 1)
Rounded(x) == ToPlace(x, Exponent(Magnitude(x[1]), x[2]) - (Precision - 1))

\* %g: rounded, and with an exponent when the first digit is Precision or more
\* places before the point, or past LeastExponent.  The standard writes all digits
\* of a number from 10^-6 to 10^21 and an exponent without a leading 0: the two
\* differ on each number that %g writes with an exponent from -9 to 20.
Printed(r, e) ==
  <<[number |-> r, word |-> IF e \in (-9..20) \ (LeastExponent..(Precision - 1)) THEN "e" ELSE ""]>>
RoundedText(r) == Printed(r, Exponent(Magnitude(r[1]), r[2]))
NumberText(x) ==
  CASE x = NaN -> Word("NaN")
    [] x = Infinity -> Word("Infinity")
    [] x = Negated(Infinity) -> Word("-Infinity")
    [] OTHER -> RoundedText(Rounded(x))

PrimitiveToString(v) ==
  CASE v.is = "smi" -> Numeral(Whole(v.int))
    [] v.is = "double" -> NumberText(v.number)
    [] IsNothing(v) -> Word(v.is)
    [] v.is = "bool" -> Word(IF v.bool THEN "true" ELSE "false")
    [] IsString(v) -> v.text

ToString(v) == Then(ToPrimitive(v, "string"), LAMBDA p : Gives(Str(PrimitiveToString(p))))

\* A new object around a primitive value: only its prototype is told apart.
ToObject(v) ==
  IF IsNothing(v) THEN Throws
  ELSE IF IsObject(v) THEN Gives(v)
  ELSE Gives([is |-> "wrapper", proto |-> WrapperProto[IF IsNumber(v) THEN "number" ELSE v.is]])

IsCallable(v) == IsObject(v) /\ v.id \in FunctionIds

TypeOf(v) ==
  CASE IsNumber(v) -> "number"
    [] v.is = "undefined" -> "undefined"
    [] v.is = "null" -> "object"
    [] v.is = "bool" -> "boolean"
    [] IsString(v) -> "string"
    [] IsObject(v) -> IF IsCallable(v) THEN "function" ELSE "object"

-----------------------------------------------------------------------------
(* Names of array elements: sequences of digits.                           *)

NoIndex == 2^Width - 1

\* The number is summed up in an int, which overflows.
array_indexMutant(digits) ==
  IF digits = <<>> THEN NoIndex
  ELSE LET Sum[k \in 0..Len(digits)] ==
             IF k = 0 THEN 0 ELSE Wrapped(Sum[k - 1] * 10 + digits[k])
       IN Bits(Sum[Len(digits)])
array_index(digits) ==
  IF digits = <<>> \/ (digits[1] = 0 /\ Len(digits) > 1) THEN NoIndex
  ELSE LET Sum[k \in 0..Len(digits)] ==
             IF k = 0 THEN 0 ELSE Wrapped(Sum[k - 1] * 10 + digits[k])
       IN Bits(Sum[Len(digits)])

uint32_to_u16string(n) ==
  LET Digits[m \in 0..n] == IF m < 10 THEN <<m>> ELSE Append(Digits[m \div 10], m % 10)
  IN Digits[n]

-----------------------------------------------------------------------------
(* Equality.                                                               *)

IsStrictSameValueMutant(l, r) == l = r /\ l # Double(NaN)

\* The value of two booleans is that of the left one, twice.
IsStrictSameValue(l, r) ==
  CASE IsNumber(l) -> IsNumber(r) /\ SameNumber(NumberOf(l), NumberOf(r))
    [] l.is = "bool" -> r.is = "bool"
    [] OTHER -> l = r

ComparePrimitivesMutant(x, y) ==
  IF IsString(x) /\ IsString(y) THEN x = y
  ELSE SameNumber(PrimitiveToNumber(x), PrimitiveToNumber(y))

\* Two primitive values: a bool compares as a number.
ComparePrimitives(x, y) ==
  IF IsNothing(x) \/ IsNothing(y) THEN IsNothing(x) /\ IsNothing(y)
  ELSE IF IsString(x) /\ IsString(y) THEN x = y
  ELSE SameNumber(PrimitiveToNumber(x), PrimitiveToNumber(y))

IsAbstractSameValue(x, y) ==
  IF IsObject(x) /\ (IsObject(y) \/ IsNothing(y)) THEN Gives(Bool(x = y))
  ELSE Then(ToPrimitive(x, "none"), LAMBDA p :
         Then(ToPrimitive(y, "none"), LAMBDA q : Gives(Bool(ComparePrimitives(p, q)))))
=============================================================================
