----------------------------- MODULE Expressions -----------------------------
(***************************************************************************)
(* Expressions made of parts (evalast.cc): member accesses, assignments,   *)
(* calls, && || ?: and commas.  A part is any expression, known by what it *)
(* comes to; reading, writing and calling may run any code, and are known  *)
(* by what they come to as well.  What is told apart is which of them      *)
(* happen, and in which order.                                             *)
(***************************************************************************)
EXTENDS Operators

CONSTANTS
  Parts,       \* what parts come to: values and exceptions
  Keys,        \* those in brackets
  MaxParts,    \* bound: the most arguments of a call, and parts of a comma
  GetGives,    \* what reading a property of an object comes to
  PutGives,    \* writing or deleting one
  CallGives    \* and calling a function

\* The property of o.p, which is no part to evaluate.
Fixed == [kind |-> "fixed", name |-> Word("letters")]

ASSUME PartsAssumption ==
  /\ MaxParts \in Nat
  /\ \A p \in Parts \cup (Keys \ {Fixed}) : p = Throws \/ (p = Gives(p.value) /\ p.value \in Value)
  /\ \A o \in ObjectIds : GetGives[o].kind = "value" => GetGives[o].value \in Value
  /\ \A is \in {"bool", "number", "string"} : WrapperProto[is] \in ObjectIds

VARIABLES expression

NoExpression == [form |-> "none"]

-----------------------------------------------------------------------------
(* What happens on the way.                                                *)

Event(e, r) == After([Gives(Undefined) EXCEPT !.calls = <<e>>], r)
Comes(does) == IF does.kind = "value" THEN Gives(does.value) ELSE Throws

\* The k-th part is evaluated (EvalExpressionToValue).
Part(k, p) == Event([part |-> k, throws |-> p.kind = "throws"], p)

\* Objects around primitive values have the properties of their prototype.
Id(o) == IF IsObject(o) THEN o.id ELSE o.proto

Get(o, n) == Event([get |-> o, name |-> n], Comes(GetGives[Id(o)]))
Put(o, n, v) == Event([put |-> o, name |-> n, value |-> v], Comes(PutGives[Id(o)]))
Delete(o, n) == Event([delete |-> o, name |-> n], Comes(PutGives[Id(o)]))
Run(how, f, this, args) ==
  Event([run |-> how, function |-> f, this |-> this, args |-> args], Comes(CallGives[f.id]))

\* f gives a set of outcomes.
ThenAny(r, f(_)) == IF r.kind = "value" THEN {After(r, s) : s \in f(r.value)} ELSE {r}

CheckObjectCoercible(v) == IF IsNothing(v) THEN Throws ELSE Gives(v)

-----------------------------------------------------------------------------
(* Members.                                                                *)

Name(k, property) ==
  IF property = Fixed THEN Gives(Str(Fixed.name)) ELSE Then(Part(k, property), ToString)

\* Mutant of EvalMemberExpressionToReference: the property is evaluated first.
EvalMemberExpressionToReferenceMutant(x) ==
  Then(Name(2, x.property), LAMBDA n :
    Then(Part(1, x.object), LAMBDA v :
      Then(CheckObjectCoercible(v), LAMBDA b : Gives([base |-> b, name |-> n.text]))))

EvalMemberExpressionToReference(x) ==
  Then(Part(1, x.object), LAMBDA v :
    Then(Name(2, x.property), LAMBDA n :
      Then(CheckObjectCoercible(v), LAMBDA b : Gives([base |-> b, name |-> n.text]))))

\* The object of a member, its name, and the value it is the member of.
Member(x) ==
  Then(EvalMemberExpressionToReference(x), LAMBDA ref :
    Then(ToObject(ref.base), LAMBDA o : Gives([object |-> o, name |-> ref.name, this |-> ref.base])))

MemberExpression(x) == Then(Member(x), LAMBDA m : Get(m.object, m.name))

\* The result is false, whatever was deleted.
ApplyDeleteOperator(x) ==
  Then(Member(x), LAMBDA m : Then(Delete(m.object, m.name), LAMBDA d : Gives(Bool(FALSE))))

\* Writes v, which is the result, or old is.
Stores(m, v, result) == Then(Put(m.object, m.name, v), LAMBDA d : Gives(result))

AssignmentExpression(x) ==
  ThenAny(Member(x), LAMBDA m :
    IF x.op = "=" THEN {Then(Part(3, x.right), LAMBDA v : Stores(m, v, v))}
    ELSE ThenAny(Get(m.object, m.name), LAMBDA l :
           ThenAny(Part(3, x.right), LAMBDA r :
             {Then(s, LAMBDA v : Stores(m, v, v)) : s \in ApplyAssignmentOperator(x.op, l, r)})))

UpdateExpression(x) ==
  Then(Member(x), LAMBDA m :
    Then(Get(m.object, m.name), LAMBDA old :
      Then(ApplyUpdateOperator(x.op, old), LAMBDA v :
        Stores(m, v, IF x.prefix THEN v ELSE old))))

-----------------------------------------------------------------------------
(* Calls.                                                                  *)

\* Mutant of Arguments: an argument that throws is left out.
ArgumentsMutant(parts, before) ==
  LET Values[k \in 0..Len(parts)] ==
        IF k = 0 THEN Gives(<<>>)
        ELSE Then(Values[k - 1], LAMBDA vs :
               LET p == Part(before + k, parts[k])
               IN After(p, Gives(IF p.kind = "value" THEN Append(vs, p.value) ELSE vs)))
  IN Values[Len(parts)]

\* The values of parts, of which "before" others have been evaluated.
Arguments(parts, before) ==
  LET Values[k \in 0..Len(parts)] ==
        IF k = 0 THEN Gives(<<>>)
        ELSE Then(Values[k - 1], LAMBDA vs :
               Then(Part(before + k, parts[k]), LAMBDA v : Gives(Append(vs, v))))
  IN Values[Len(parts)]

CheckCallable(v) == IF IsCallable(v) THEN Gives(v) ELSE Throws

\* The callee is a member, or neither a member nor an identifier.
CallExpression(x) ==
  LET callee == IF x.form = "callMember"
                THEN Then(Member(x), LAMBDA m :
                       Then(Get(m.object, m.name), LAMBDA f : Gives([f |-> f, this |-> m.this])))
                ELSE Then(Part(1, x.callee), LAMBDA f : Gives([f |-> f, this |-> Undefined]))
      before == IF x.form = "call" THEN 1 ELSE 2
  IN Then(callee, LAMBDA c :
       Then(CheckCallable(c.f), LAMBDA f :
         Then(Arguments(x.arguments, before), LAMBDA args : Run("Call", f, c.this, args))))

NewExpression(x) ==
  Then(Part(1, x.callee), LAMBDA v :
    Then(CheckCallable(v), LAMBDA f :
      Then(Arguments(x.arguments, 1), LAMBDA args : Run("Construct", f, Undefined, args))))

-----------------------------------------------------------------------------
(* && || ?: and commas.                                                    *)

LogicalExpression(x) ==
  Then(Part(1, x.left), LAMBDA v :
    IF (x.op = "&&") # ToBoolean(v) THEN Gives(v) ELSE Part(2, x.right))

ConditionalExpression(x) ==
  Then(Part(1, x.test), LAMBDA v :
    IF ToBoolean(v) THEN Part(2, x.consequent) ELSE Part(3, x.alternate))

SequenceExpression(x) ==
  Then(Arguments(x.parts, 0), LAMBDA vs : Gives(vs[Len(vs)]))

EvalExpression(x) ==
  CASE x.form = "member" -> {MemberExpression(x)}
    [] x.form = "delete" -> {ApplyDeleteOperator(x)}
    [] x.form = "assignment" -> AssignmentExpression(x)
    [] x.form = "update" -> {UpdateExpression(x)}
    [] x.form \in {"call", "callMember"} -> {CallExpression(x)}
    [] x.form = "new" -> {NewExpression(x)}
    [] x.form = "logical" -> {LogicalExpression(x)}
    [] x.form = "conditional" -> {ConditionalExpression(x)}
    [] x.form = "sequence" -> {SequenceExpression(x)}

-----------------------------------------------------------------------------
(* One expression at a time, or one operator.                              *)

ExpressionInit == Init /\ expression = NoExpression

Lists == UNION {[1..k -> Parts] : k \in 0..MaxParts}

\* The expressions with all their parts.
AllExpressions ==
  [form : {"member", "delete"}, object : Parts, property : Keys] \cup
  [form : {"assignment"}, op : {"="} \cup Arithmetic, object : Parts, property : Keys, right : Parts] \cup
  [form : {"update"}, op : {"++", "--"}, object : Parts, property : Keys, prefix : BOOLEAN] \cup
  [form : {"callMember"}, object : Parts, property : Keys, arguments : Lists] \cup
  [form : {"call", "new"}, callee : Parts, arguments : Lists] \cup
  [form : {"logical"}, op : {"&&", "||"}, left : Parts, right : Parts] \cup
  [form : {"conditional"}, test : Parts, consequent : Parts, alternate : Parts] \cup
  [form : {"sequence"}, parts : Lists \ {<<>>}]

EvaluateExpression ==
  \E x \in AllExpressions : \E outcome \in EvalExpression(x) :
    expression' = [form |-> x.form, of |-> x, outcome |-> outcome]

Finish ==
  /\ expression # NoExpression
  /\ expression' = NoExpression
  /\ UNCHANGED evaluation

ExpressionNext ==
  \/ expression = NoExpression /\ Next /\ UNCHANGED expression
  \/ /\ evaluation = NoEvaluation /\ expression = NoExpression
     /\ EvaluateExpression
     /\ UNCHANGED evaluation
  \/ Finish

ExpressionSpec == ExpressionInit /\ [][ExpressionNext]_<<evaluation, expression>>

-----------------------------------------------------------------------------
(* What an expression should come to.  Operators have properties of their  *)
(* own: the value of an operator is taken as it is.                        *)

X == expression.of

\* 11.2.1: the value is checked before the property becomes a name.
ES5Member(x) ==
  Then(Part(1, x.object), LAMBDA v :
    Then(IF x.property = Fixed THEN Gives(Str(Fixed.name)) ELSE Part(2, x.property), LAMBDA p :
      IF IsNothing(v) THEN Throws
      ELSE Then(ES5Primitive(p, "string"), LAMBDA n :
             Gives([object |-> ToObject(v).value, name |-> ES5Text(n), this |-> v]))))

\* 8.7.1
ES5Get(m) == Get(m.object, m.name)

\* 11.13.1, 11.13.2
ES5Assignment(x) ==
  ThenAny(ES5Member(x), LAMBDA m :
    LET Written(v) == Then(Put(m.object, m.name, v), LAMBDA d : Gives(v))
        left == IF x.op = "=" THEN Gives(Undefined) ELSE ES5Get(m)
    IN ThenAny(left, LAMBDA l :
         ThenAny(Part(3, x.right), LAMBDA r :
           {Then(s, Written) : s \in IF x.op = "=" THEN {Gives(r)}
                                     ELSE ApplyAssignmentOperator(x.op, l, r)})))

\* 11.3, 11.4.4, 11.4.5: the old value is the number, not what was converted to it.
ES5Update(x) ==
  Then(ES5Member(x), LAMBDA m :
    Then(ES5Get(m), LAMBDA v :
      Then(IF IsNumber(v) THEN Gives(v) ELSE ToNumber(v), LAMBDA old :
        Then(ApplyUpdateOperator(x.op, old), LAMBDA new :
          Then(Put(m.object, m.name, new), LAMBDA d : Gives(IF x.prefix THEN new ELSE old))))))

\* 11.2.4: the values of all parts, or what there is up to the first that throws.
ES5Parts(parts, before) ==
  LET failed == {k \in DOMAIN parts : parts[k].kind = "throws"}
      last == IF failed = {} THEN Len(parts) ELSE Min(failed)
      comes == IF failed = {} THEN Gives([k \in DOMAIN parts |-> parts[k].value]) ELSE Throws
  IN [comes EXCEPT !.calls = [k \in 1..last |-> [part |-> before + k, throws |-> k \in failed]]]

\* 11.2.2, 11.2.3: the callee is checked when there are arguments for it.
ES5Call(x) ==
  LET callee == IF x.form = "callMember"
                THEN Then(ES5Member(x), LAMBDA m : Then(ES5Get(m), LAMBDA f : Gives(<<f, m.this>>)))
                ELSE Then(Part(1, x.callee), LAMBDA f : Gives(<<f, Undefined>>))
  IN Then(callee, LAMBDA c :
       Then(ES5Parts(x.arguments, IF x.form = "callMember" THEN 2 ELSE 1), LAMBDA args :
         IF IsCallable(c[1])
         THEN Run(IF x.form = "new" THEN "Construct" ELSE "Call", c[1], c[2], args)
         ELSE Throws))

\* 11.11, 11.12, 11.14
ES5Branches(x) ==
  CASE x.form = "logical" ->
         Then(Part(1, x.left), LAMBDA v :
           IF ES5Boolean(v) = (x.op = "&&") THEN Part(2, x.right) ELSE Gives(v))
    [] x.form = "conditional" ->
         Then(Part(1, x.test), LAMBDA v :
           IF ES5Boolean(v) THEN Part(2, x.consequent) ELSE Part(3, x.alternate))
    [] x.form = "sequence" -> Then(ES5Parts(x.parts, 0), LAMBDA vs : Gives(vs[Len(vs)]))

ES5Expressions(x) ==
  CASE x.form = "member" -> {Then(ES5Member(x), ES5Get)}
    [] x.form = "delete" ->
         {Then(ES5Member(x), LAMBDA m :
            Then(Delete(m.object, m.name), LAMBDA d : Gives(Bool(TRUE))))}
    [] x.form = "assignment" -> ES5Assignment(x)
    [] x.form = "update" -> {ES5Update(x)}
    [] x.form \in {"call", "callMember", "new"} -> {ES5Call(x)}
    [] OTHER -> {ES5Branches(x)}

HasObject == {"member", "delete", "assignment", "update", "callMember"}

ExpressionDeparts(x) ==
  LET read == MemberExpression(x)
  IN \* The property becomes a name, by its toString, though it is one of nothing
     \* (evalast.cc 1175-1185).
     \/ /\ x.form \in HasObject /\ x.object.kind = "value" /\ x.property.kind = "value"
        /\ IsNothing(x.object.value) /\ IsObject(x.property.value)
     \* %g rounds, and writes an exponent (context.cc 486-492).
     \/ /\ x.form \in HasObject /\ x.property.kind = "value"
        /\ Misspelt(ToPrimitive(x.property.value, "string").value)
     \* What cannot be called gets no arguments (evalast.cc 973-979, 1031-1033).
     \/ /\ x.form \in {"call", "new"} /\ x.arguments # <<>>
        /\ x.callee.kind = "value" /\ ~IsCallable(x.callee.value)
     \/ /\ x.form = "callMember" /\ x.arguments # <<>>
        /\ read.kind = "value" /\ ~IsCallable(read.value)
     \* ++ of what is no number (evalast.cc 899-900).
     \/ x.form = "update" /\ read.kind = "value" /\ ~IsNumber(read.value)

\* The parts of an expression, and what it reads, writes and calls, come in the
\* order of the standard, and so does the exception that ends it, on the objects
\* its parts had when they were evaluated; but for what ExpressionDeparts names
\* and the result of delete, which is always false (evalast.cc 483-513, 837-1056,
\* 1171-1190).
ExpressionsAsES5 ==
  (expression # NoExpression /\ ~ExpressionDeparts(X)) =>
    \E r \in ES5Expressions(X) :
      /\ r.kind = expression.outcome.kind
      /\ r.calls = expression.outcome.calls
      /\ r.value = expression.outcome.value \/ X.form = "delete"

Threw(e) ==
  CASE "part" \in DOMAIN e -> e.throws
    [] "get" \in DOMAIN e -> GetGives[Id(e.get)].kind = "throws"
    [] "method" \in DOMAIN e -> Throwing(e)
    [] OTHER -> FALSE

\* Whatever the expression, nothing happens after an exception, no part is
\* evaluated twice or before one to its left, what writes, deletes or calls does
\* so once, after everything else, and writes to what it has read (evalast.cc
\* 483-513, 837-1056, 1171-1190).
EventsInOrder ==
  expression # NoExpression =>
    LET events == expression.outcome.calls
    IN \A i, j \in DOMAIN events : i < j =>
         LET e == events[i]
             f == events[j]
         IN /\ ~Threw(e)
            /\ DOMAIN e \cap {"put", "delete", "run"} = {}
            /\ {"part"} \subseteq DOMAIN e \cap DOMAIN f => e.part < f.part
            /\ "get" \in DOMAIN e /\ "put" \in DOMAIN f => e.get = f.put /\ e.name = f.name
=============================================================================
