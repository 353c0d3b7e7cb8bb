------------------------------ MODULE Operators ------------------------------
(***************************************************************************)
(* The operators of evalast.cc on values, one evaluation at a time: its    *)
(* outcome and the methods of objects it calls on the way.                 *)
(***************************************************************************)
EXTENDS ES5

CONSTANTS
  Operands,  \* the values that operators meet
  MaxDigits  \* bound: the longest name of an element

ASSUME OperandsAssumption == Operands \subseteq Value /\ MaxDigits \in Nat

VARIABLES evaluation

NoEvaluation == [form |-> "none"]

Relations == {"<", ">", "<=", ">="}
Equalities == {"==", "!=", "===", "!=="}
IntOperators == {"%", "<<", ">>", ">>>", "&", "^", "|"}
Arithmetic == {"+", "-", "*", "/"} \cup IntOperators
UnaryOperators == {"void", "!", "?:", "+", "-", "~"}

-----------------------------------------------------------------------------
(* ApplyBinaryOperator: sets of outcomes, since some are undefined.        *)

Related(op, x, y) ==
  CASE op = "<" -> Less(x, y)
    [] op = ">" -> Less(y, x)
    [] op = "<=" -> Less(x, y) \/ SameNumber(x, y)
    [] op = ">=" -> Less(y, x) \/ SameNumber(x, y)

Quotient(l, r) == Sgn(l) * Sgn(r) * (Magnitude(l) \div Magnitude(r))

\* Where the division does not trap, a quotient by 0 is 0.
DivisionTraps(l, r) == r = 0 \/ (l = IntMin /\ r = -1)
Smis(S) == {Gives(Smi(n)) : n \in S}

\* Shift counts out of range are taken modulo the width, or shift all bits out.
IntResults(op, l, r) ==
  LET inRange == r \in 0..(Width - 1)
      count == r % Width
  IN CASE op = "+" -> Smis({Wrapped(l + r)})
       [] op = "-" -> Smis({Wrapped(l - r)})
       [] op = "*" -> Smis({Wrapped(l * r)})
       [] op = "/" -> IF DivisionTraps(l, r) THEN Smis({IF r = 0 THEN 0 ELSE l}) \cup {Crash}
                      ELSE Smis({Quotient(l, r)})
       [] op = "%" -> IF DivisionTraps(l, r) THEN Smis({IF r = 0 THEN l ELSE 0}) \cup {Crash}
                      ELSE Smis({l - r * Quotient(l, r)})
       [] op = "<<" -> Smis({Wrapped(l * 2^count)} \cup (IF inRange THEN {} ELSE {0}))
       [] op \in {">>", ">>>"} -> Smis({l \div 2^count} \cup (IF inRange THEN {} ELSE {Min({Sgn(l), 0})}))
       [] op = "&" -> Smis({BitAnd(l, r)})
       [] op = "^" -> Smis({BitXor(l, r)})
       [] op = "|" -> Smis({BitOr(l, r)})

DoubleResults(op, x, y) ==
  CASE op = "+" -> {Gives(Double(Plus(x, y)))}
    [] op = "-" -> {Gives(Double(Plus(x, Negated(y))))}
    [] op = "*" -> {Gives(Double(Times(x, y)))}
    [] op = "/" -> {Gives(Double(Over(x, y)))}
    [] op \in IntOperators ->
         {Then(i, LAMBDA v : Gives(AsES5(v))) :
            i \in UNION {IntResults(op, m, n) : m \in AsInts(x), n \in AsInts(y)}}

\* Two numbers in the representation they have in common.
ApplyBinaryOperator(op, l, r) ==
  IF op \in Relations THEN {Gives(Bool(Related(op, NumberOf(l), NumberOf(r))))}
  ELSE IF l.is = "smi" /\ r.is = "smi" THEN IntResults(op, l.int, r.int)
  ELSE DoubleResults(op, NumberOf(l), NumberOf(r))

\* r gives two values, and then the outcomes are those of results for these.
Outcomes(r, results(_, _)) ==
  IF r.kind = "value" THEN {After(r, s) : s \in results(r.value[1], r.value[2])} ELSE {r}

Both(l, r, f(_)) == Then(f(l), LAMBDA v : Then(f(r), LAMBDA w : Gives(<<v, w>>)))

-----------------------------------------------------------------------------
(* Binary operators, and assignments with one.                             *)

Numeric(op, l, r) ==
  IF l.is = "smi" /\ r.is = "smi" THEN ApplyBinaryOperator(op, l, r)
  ELSE Outcomes(Both(l, r, ToNumber), LAMBDA v, w : ApplyBinaryOperator(op, v, w))

Concatenated(l, r) ==
  Then(Both(l, r, ToString), LAMBDA p : Gives(Str(p[1].text \o p[2].text)))

\* An assignment goes on without ToPrimitive.
ApplyAssignmentOperator(op, l, r) ==
  IF op = "+" /\ (IsString(l) \/ IsString(r)) THEN {Concatenated(l, r)} ELSE Numeric(op, l, r)

InstanceOf(l, r) ==
  LET lobj == ToObject(l)
      start == IF l.is = "object" THEN ProtoOf[l.id] ELSE lobj.value.proto
  IN IF lobj.kind # "value" \/ ~IsObject(r) THEN Crash
     ELSE IF PrototypeProperty[r.id] = NoObjectId THEN Crash
     ELSE Gives(Bool(PrototypeProperty[r.id] \in
                       (IF start = NoObjectId THEN {} ELSE {start} \cup Ancestors[start])))

\* An exception of ToString is not seen, and its null is looked up.
InOperator(l, r) ==
  LET name == ToString(l)
  IN IF name.kind # "value" \/ IsNothing(r) THEN After(name, Crash)
     ELSE After(name, Gives(Bool(CASE IsObject(r) -> name.value.text \in OwnNames[r.id]
                                   [] IsString(r) -> name.value.text = Word("length")
                                   [] OTHER -> FALSE)))

BinaryExpressionMutant(op, l, r) ==
  CASE op = "===" -> {Gives(Bool(IsStrictSameValue(l, r)))}
    [] op = "!==" -> {Gives(Bool(~IsStrictSameValue(l, r)))}
    [] op = "==" -> {IsAbstractSameValue(l, r)}
    [] op = "!=" -> {Then(IsAbstractSameValue(l, r), LAMBDA b : Gives(Bool(~b.bool)))}
    [] op = "instanceof" -> {InstanceOf(l, r)}
    [] op = "in" -> {InOperator(l, r)}
    [] OTHER -> Outcomes(Then(ToPrimitive(r, "none"), LAMBDA q :
                           Then(ToPrimitive(l, "none"), LAMBDA p : Gives(<<p, q>>))),
                         LAMBDA v, w : ApplyAssignmentOperator(op, v, w))
BinaryExpression(op, l, r) ==
  CASE op = "===" -> {Gives(Bool(IsStrictSameValue(l, r)))}
    [] op = "!==" -> {Gives(Bool(~IsStrictSameValue(l, r)))}
    [] op = "==" -> {IsAbstractSameValue(l, r)}
    [] op = "!=" -> {Then(IsAbstractSameValue(l, r), LAMBDA b : Gives(Bool(~b.bool)))}
    [] op = "instanceof" -> {InstanceOf(l, r)}
    [] op = "in" -> {InOperator(l, r)}
    [] OTHER -> Outcomes(Both(l, r, LAMBDA v : ToPrimitive(v, "none")),
                         LAMBDA v, w : ApplyAssignmentOperator(op, v, w))

-----------------------------------------------------------------------------
(* Unary operators, ++ and --, and tests of && || ?: and statements.       *)

UnaryExpression(op, v) ==
  LET number == ToNumber(v)
      Result(f(_)) == {Then(number, LAMBDA d : Gives(f(d.number)))}
  IN CASE op = "void" -> {Gives(Undefined)}
       [] op = "!" -> {Gives(Bool(~ToBoolean(v)))}
       [] op = "?:" -> {Gives(Bool(ToBoolean(v)))}
       [] op = "+" -> Result(LAMBDA x : Double(x))
       [] op = "-" -> Result(LAMBDA x : Double(Negated(x)))
       [] op = "~" -> IF number.kind # "value" THEN {number}
                      ELSE {After(number, Gives(Smi(-1 - n))) : n \in AsInts(number.value.number)}

\* What is no number fails an assertion.
ApplyUpdateOperator(op, v) ==
  LET by == IF op = "++" THEN 1 ELSE -1
  IN CASE v.is = "smi" -> Gives(Smi(Wrapped(v.int + by)))
       [] v.is = "double" -> Gives(Double(Plus(v.number, Whole(by))))
       [] OTHER -> Crash

\* A literal is a smi when it can be one.
NumberLiteral(x) ==
  IF IsWhole(x) /\ x[1] \in Ints THEN Smi(x[1]) ELSE Double(x)

-----------------------------------------------------------------------------
Init == evaluation = NoEvaluation

Evaluates(form, op, l, r, outcomes) ==
  \E outcome \in outcomes :
    evaluation' = [form |-> form, op |-> op, left |-> l, right |-> r, outcome |-> outcome]

EvaluateBinary(op, l, r) == Evaluates("binary", op, l, r, BinaryExpression(op, l, r))
EvaluateCompound(op, l, r) == Evaluates("compound", op, l, r, ApplyAssignmentOperator(op, l, r))
EvaluateUnary(op, v) == Evaluates("unary", op, v, v, UnaryExpression(op, v))
EvaluateUpdate(op, v) == Evaluates("update", op, v, v, {ApplyUpdateOperator(op, v)})
EvaluateTypeOf(v) == Evaluates("typeof", "typeof", v, v, {Gives(Str(Word(TypeOf(v))))})
EvaluateLiteral(v) == Evaluates("literal", "literal", v, v, {Gives(NumberLiteral(NumberOf(v)))})

\* The name of an element, for Put of an array.
NameElement(digits) ==
  evaluation' = [form |-> "index", digits |-> digits, index |-> array_index(digits)]

Proceed == evaluation # NoEvaluation /\ evaluation' = NoEvaluation

Evaluate ==
  \/ \E l, r \in Operands :
       \/ \E op \in Arithmetic \cup Relations \cup Equalities \cup {"instanceof", "in"} :
            EvaluateBinary(op, l, r)
       \/ \E op \in Arithmetic : EvaluateCompound(op, l, r)
  \/ \E v \in Operands :
       \/ \E op \in UnaryOperators : EvaluateUnary(op, v)
       \/ \E op \in {"++", "--"} : EvaluateUpdate(op, v)
       \/ EvaluateTypeOf(v)
       \/ IsNumber(v) /\ EvaluateLiteral(v)
  \/ \E k \in 0..MaxDigits : \E digits \in [1..k -> 0..9] : NameElement(digits)

Next ==
  \/ evaluation = NoEvaluation /\ Evaluate
  \/ Proceed

Spec == Init /\ [][Next]_evaluation

-----------------------------------------------------------------------------
(* What an evaluation should come to, and where the code is known to       *)
(* depart from it.                                                         *)

E == evaluation
HasOutcome == E.form \notin {"none", "index"}
TwoOperands == E.form \in {"binary", "compound"}

Reference ==
  IF TwoOperands THEN ES5Binary(E.op, E.left, E.right) ELSE ES5Unary(E.op, E.left)

SameOutcome(o, p) == o.kind = p.kind /\ o.calls = p.calls /\ AsES5(o.value) = AsES5(p.value)

\* The primitive value of an operand, if it has one.
Primitive(v) == ToPrimitive(v, IF E.form = "binary" THEN "none" ELSE "number").value
L == Primitive(E.left)
R == Primitive(E.right)
BothSmis(v, w) == v.is = "smi" /\ w.is = "smi"

\* strtod takes any text for a number (context.cc 420-423).
Misread(v) == IsString(v) /\ ~IsNumeric(v.text)
\* %g rounds, and writes an exponent (context.cc 486-492).
Misspelt(v) == v.is = "double" /\ PrimitiveToString(v) # ES5Text(v)
HasInt(v) == IsFinite(PrimitiveToNumber(v)) /\ Truncated(PrimitiveToNumber(v)) \in Ints
IntOf(v) == Truncated(PrimitiveToNumber(v))
IsInt(v) == HasInt(v) /\ IsWhole(PrimitiveToNumber(v))
Overflows(op, m, n) ==
  \/ op = "+" /\ m + n \notin Ints
  \/ op = "-" /\ m - n \notin Ints
  \/ op = "*" /\ m * n \notin Ints

ArithmeticDeparts ==
  LET left == IF E.form = "binary" THEN L ELSE E.left
      right == IF E.form = "binary" THEN R ELSE E.right
      texts == E.op = "+" /\ (IsString(L) \/ IsString(R))
  IN \/ ~texts /\ (Misread(L) \/ Misread(R))
     \/ texts /\ (Misspelt(L) \/ Misspelt(R))
     \* A date converts to its text before it does to a number (evalast.cc 739-742).
     \/ /\ E.form = "binary" /\ E.op # "+"
        /\ \E v \in {E.left, E.right} : IsObject(v) /\ v.id \in DateIds
     \* x += o takes o for a number, or for its text (evalast.cc 812-833).
     \/ E.form = "compound" /\ E.op = "+" /\ (IsObject(E.left) \/ IsObject(E.right))
     \* Ints overflow, and divide into ints (evalast.cc 574-588).
     \/ BothSmis(left, right) /\ Overflows(E.op, left.int, right.int)
     \/ /\ E.op = "/" /\ BothSmis(left, right)
        /\ (DivisionTraps(left.int, right.int) \/ left.int % Magnitude(right.int) # 0)
     \* Other operators work on ints, shift as far as an int is wide, and know no
     \* unsigned ones (evalast.cc 583-597, 650-661).
     \/ E.op = "%" /\ ~(IsInt(L) /\ IsInt(R) /\ ~DivisionTraps(IntOf(L), IntOf(R)))
     \/ E.op \in IntOperators /\ ~(HasInt(L) /\ HasInt(R))
     \/ E.op \in {"<<", ">>", ">>>"} /\ IntOf(R) \notin 0..(Width - 1)
     \/ E.op = ">>>" /\ IntOf(L) < 0

Departs ==
  CASE E.form \in {"typeof", "literal"} -> FALSE
    [] E.op \in {"===", "!=="} ->
         \* context.cc 575-579
         E.left.is = "bool" /\ E.right.is = "bool"
    [] E.op \in {"==", "!="} ->
         \* undefined == o converts o (context.cc 609-615)
         \/ IsNothing(E.left) /\ IsObject(E.right)
         \/ IsString(L) # IsString(R) /\ (Misread(L) \/ Misread(R))
    [] E.op \in Relations -> ArithmeticDeparts \/ (IsString(L) /\ IsString(R))
    [] E.op = "instanceof" ->
         \* no operand is checked (evalast.cc 719-731)
         \/ ~IsObject(E.left) \/ ~IsCallable(E.right)
         \/ PrototypeProperty[E.right.id] = NoObjectId
    [] E.op = "in" ->
         \* nor here, nor a name looked up in prototypes (evalast.cc 732-736)
         \/ ~IsObject(E.right) \/ ToString(E.left).kind # "value"
         \/ Misspelt(ToPrimitive(E.left, "string").value)
         \/ \E o \in Ancestors[E.right.id] : ToString(E.left).value.text \in OwnNames[o]
    [] E.form = "unary" ->
         E.op \in {"+", "-", "~"} /\ (Misread(L) \/ (E.op = "~" /\ ~HasInt(L)))
    [] E.form = "update" ->
         ~IsNumber(E.left) \/ (E.left.is = "smi" /\ Overflows("+", E.left.int, IF E.op = "++" THEN 1 ELSE -1))
    [] OTHER -> ArithmeticDeparts

\* Two values are equal for the code when they are for the standard, which the
\* code quotes (context.cc 539-659), by way of the same calls; but for two
\* booleans, undefined against an object, and text that is no number.
EqualityAsES5 ==
  (HasOutcome /\ E.op \in Equalities /\ ~Departs) => SameOutcome(E.outcome, Reference)

\* So are the results of the other operators, of assignments with one, of ++ and
\* -- and of literals, where no operand is one of those Departs names (evalast.cc
\* 516-835, 885-915, 1207-1214).
OperatorsAsES5 ==
  (HasOutcome /\ E.op \notin Equalities /\ ~Departs) => SameOutcome(E.outcome, Reference)

Throwing(c) ==
  (IF c.method = "valueOf" THEN ValueOfGives[c.id] ELSE ToStringGives[c.id]).kind = "throws"

\* Whatever the operator, the left operand is converted before the right one, no
\* method is called after one that threw, and none is called twice for an operand
\* (context.cc 300-322, 594-659, evalast.cc 701-767, 812-834).
ConversionOrder ==
  HasOutcome =>
    LET calls == E.outcome.calls
    IN \A i, j \in DOMAIN calls : i < j =>
         /\ ~Throwing(calls[i])
         /\ calls[i] # calls[j] \/ (TwoOperands /\ E.left = E.right)
         /\ (TwoOperands /\ IsObject(E.left)) => ~(calls[i].id # E.left.id /\ calls[j].id = E.left.id)

\* The other representation of a whole number.
HasOther(v) == IsNumber(v) /\ IsWhole(NumberOf(v)) /\ NumberOf(v)[1] \in Ints
Other(v) ==
  IF ~HasOther(v) THEN v ELSE IF v.is = "smi" THEN AsES5(v) ELSE Smi(v.number[1])

RepresentationMatters ==
  \/ E.op = "/"
  \/ E.op \in {"+", "-", "*"} /\ HasOther(L) /\ HasOther(R) /\ Overflows(E.op, NumberOf(L)[1], NumberOf(R)[1])
  \/ \E v \in {L, R} : Misspelt(v) \/ Misspelt(Other(v))

\* Whether a number is a smi or a double makes no difference to a program, but in
\* a division, where ints overflow, and in the text of a number of many digits
\* (evalast.cc 571-699, 754-764, context.cc 459-501).
RepresentationIrrelevant ==
  (E.form = "binary" /\ ~RepresentationMatters) =>
    /\ \E o \in BinaryExpression(E.op, Other(E.left), E.right) : SameOutcome(E.outcome, o)
    /\ \E o \in BinaryExpression(E.op, E.left, Other(E.right)) : SameOutcome(E.outcome, o)

ValueOfDigits(d) ==
  LET Prefix[k \in 0..Len(d)] == IF k = 0 THEN 0 ELSE 10 * Prefix[k - 1] + d[k]
  IN Prefix[Len(d)]

\* A name is that of an element just when it is how the element's number is
\* written, as long as the name is no larger number than there are uint32_t: such
\* names overflow (context.cc 26-53).
IndexNames ==
  LET number == ValueOfDigits(E.digits)
  IN (E.form = "index" /\ number < 2^Width) =>
       E.index = IF E.digits = uint32_to_u16string(number) THEN number ELSE NoIndex
=============================================================================
