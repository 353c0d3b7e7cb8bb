-------------------------- MODULE ExpressionsProofs --------------------------
(***************************************************************************)
(* The theorems of Operators and Expressions, for any values, any methods  *)
(* of objects and ints of any width.                                       *)
(*                                                                         *)
(* What an operator or an expression comes to is determined by its parts,  *)
(* so the invariants say little (EvaluationInv, ExpressionInv): the work   *)
(* is in the lemmas, which follow an evaluation from its operands to its   *)
(* outcome.  They come in this order: outcomes and what is done after      *)
(* them; the conversion of an object against [[DefaultValue]]; the calls   *)
(* of two conversions; fractions in lowest terms and ints; the operators   *)
(* on two numbers, on two primitive values and on any two values; chains   *)
(* of prototypes; unary operators; the two representations of a number;    *)
(* the names of elements; the events of an expression and their order; and *)
(* expressions against the standard.                                       *)
(***************************************************************************)
EXTENDS Expressions, SequenceTheorems, FiniteSetTheorems, WellFoundedInduction, TLAPS

\* A set of numbers that is not empty has a least element.
LEMMA Minimum ==
  ASSUME NEW S \in SUBSET Nat, S # {}
  PROVE  \E x \in S : \A y \in S : x <= y
<1> DEFINE Below == {pair \in Nat \X Nat : pair[1] < pair[2]}
<1>1. IsWellFoundedOn(Below, Nat)
  BY NatLessThanWellFounded, Zenon DEF OpToRel
<1>2. \E x \in S : \A y \in S : ~ (<<y, x>> \in Below)
  <2> HIDE DEF Below
  <2>. QED BY <1>1, WFMin
<1>3. PICK x \in S : \A y \in S : ~ (<<y, x>> \in Below)
  BY <1>2
<1>4. ASSUME NEW y \in S PROVE x <= y
  <2>1. <<y, x>> \notin Below /\ x \in Nat /\ y \in Nat
    BY <1>3
  <2>2. ~ (y < x)
    BY <2>1
  <2>. QED BY <2>1, <2>2
<1>. QED BY <1>4

\* A bounded one has a greatest.
LEMMA Maximum ==
  ASSUME NEW n \in Nat, NEW S \in SUBSET (1 .. n), S # {}
  PROVE  \E x \in S : \A y \in S : y <= x
<1> DEFINE T == {k \in Nat : \E y \in S : k + y = n}
<1>1. T # {} /\ T \in SUBSET Nat
  <2>1. PICK y \in S : TRUE
    OBVIOUS
  <2>2. n - y \in Nat /\ (n - y) + y = n
    BY <2>1
  <2> QED
    BY <2>1, <2>2
<1>2. PICK k \in T : \A m \in T : k <= m
  <2> HIDE DEF T
  <2> QED
    BY <1>1, Minimum
<1>3. PICK x \in S : k + x = n
  BY <1>2
<1>4. ASSUME NEW y \in S PROVE y <= x
  <2>1. n - y \in T
    <3>1. n - y \in Nat /\ (n - y) + y = n
      OBVIOUS
    <3> QED
      BY <3>1
  <2>2. k <= n - y
    BY <2>1, <1>2
  <2> QED
    BY <2>2, <1>3
<1> QED
  BY <1>4

-----------------------------------------------------------------------------
\* What comes to v by way of the calls c.
Ending(k, v, c) == [kind |-> k, value |-> v, calls |-> c]

LEMMA EndingParts ==
  ASSUME NEW k, NEW v, NEW c
  PROVE  Ending(k, v, c).kind = k /\ Ending(k, v, c).value = v /\ Ending(k, v, c).calls = c
  BY DEF Ending

LEMMA AfterEnding ==
  ASSUME NEW j, NEW w, NEW b, NEW k, NEW v, NEW c
  PROVE  After(Ending(j, w, b), Ending(k, v, c)) = Ending(k, v, b \o c)
<1>1. \A z : [Ending(k, v, c) EXCEPT !.calls = z] = Ending(k, v, z)
  BY DEF Ending
<1>2. After(Ending(j, w, b), Ending(k, v, c)) = [Ending(k, v, c) EXCEPT !.calls = b \o c]
  <2>1. Ending(j, w, b).calls = b /\ Ending(k, v, c).calls = c
    BY EndingParts
  <2> QED
    BY <2>1, Zenon DEF After
<1> QED
  BY <1>1, <1>2

LEMMA SimpleEndings ==
  /\ \A v : Gives(v) = Ending("value", v, <<>>)
  /\ Throws = Ending("throws", Undefined, <<>>)
  /\ Crash = Ending("crash", Undefined, <<>>)
  BY DEF Gives, Throws, Crash, Ending

LEMMA EmptyConcat ==
  /\ \A S : \A s \in Seq(S) : <<>> \o s = s /\ s \o <<>> = s
  OBVIOUS

\* Giving or throwing after at most one call.
LEMMA AfterOne ==
  ASSUME NEW j, NEW w, NEW c
  PROVE  /\ \A v : After(Ending(j, w, <<c>>), Gives(v)) = Ending("value", v, <<c>>)
         /\ After(Ending(j, w, <<c>>), Throws) = Ending("throws", Undefined, <<c>>)
         /\ \A v : After(Ending(j, w, <<>>), Gives(v)) = Ending("value", v, <<>>)
         /\ After(Ending(j, w, <<>>), Throws) = Ending("throws", Undefined, <<>>)
<1>1. <<c>> \o <<>> = <<c>> /\ <<>> \o <<>> = <<>>
  OBVIOUS
<1>2. \A b, k, v, d : After(Ending(j, w, b), Ending(k, v, d)) = Ending(k, v, b \o d)
  BY AfterEnding
<1>3. /\ \A k, v : After(Ending(j, w, <<c>>), Ending(k, v, <<>>)) = Ending(k, v, <<c>>)
      /\ \A k, v : After(Ending(j, w, <<>>), Ending(k, v, <<>>)) = Ending(k, v, <<>>)
  <2>1. \A k, v : After(Ending(j, w, <<c>>), Ending(k, v, <<>>)) = Ending(k, v, <<c>> \o <<>>)
    BY <1>2
  <2>2. \A k, v : After(Ending(j, w, <<>>), Ending(k, v, <<>>)) = Ending(k, v, <<>> \o <<>>)
    BY <1>2
  <2> QED
    BY <1>1, <2>1, <2>2
<1> QED
  BY <1>3, SimpleEndings

LEMMA AfterNone ==
  ASSUME NEW j, NEW w
  PROVE  /\ \A v : After(Ending(j, w, <<>>), Gives(v)) = Ending("value", v, <<>>)
         /\ After(Ending(j, w, <<>>), Throws) = Ending("throws", Undefined, <<>>)
<1>1. PICK c : c = Undefined
  OBVIOUS
<1> QED
  BY AfterOne

\* The types of values.
LEMMA ValueCases ==
  ASSUME NEW v \in Value
  PROVE  \/ v = Undefined
         \/ v = Null
         \/ v.is = "bool" /\ v.bool \in BOOLEAN /\ v = Bool(v.bool)
         \/ v.is = "smi" /\ v.int \in Ints /\ v = Smi(v.int)
         \/ v.is = "double" /\ v.number \in Number /\ v = Double(v.number)
         \/ v.is = "string" /\ v.text \in Text /\ v = Str(v.text)
         \/ v.is = "object" /\ v.id \in ObjectIds /\ v = Obj(v.id)
<1>1. CASE v \in [is : {"bool"}, bool : BOOLEAN]
  BY <1>1 DEF Bool
<1>2. CASE v \in [is : {"smi"}, int : Ints]
  BY <1>2 DEF Smi
<1>3. CASE v \in [is : {"double"}, number : Number]
  BY <1>3 DEF Double
<1>4. CASE v \in [is : {"string"}, text : Text]
  BY <1>4 DEF Str
<1>5. CASE v \in [is : {"object"}, id : ObjectIds]
  BY <1>5 DEF Obj
<1> QED
  BY <1>1, <1>2, <1>3, <1>4, <1>5 DEF Value

-----------------------------------------------------------------------------
\* What a method of an object does, and the call of it.
Does(o, name) == IF name = "valueOf" THEN ValueOfGives[o] ELSE ToStringGives[o]
Call(o, name) == [id |-> o, method |-> name]
Settles(does) == does.kind = "value" /\ ~IsObject(does.value)

CallsOf(does, call) == IF does.kind = "absent" THEN <<>> ELSE <<call>>
Table(d, e, c, k) ==
  LET before == CallsOf(d, c)
      both == before \o CallsOf(e, k)
  IN IF d.kind = "throws" THEN Ending("throws", Undefined, before)
     ELSE IF Settles(d) THEN Ending("value", d.value, before)
     ELSE IF Settles(e) THEN Ending("value", e.value, both)
     ELSE Ending("throws", Undefined, both)

FirstMethod(o, hint) ==
  IF hint = "string" \/ (hint = "none" /\ o \in DateIds) THEN "toString" ELSE "valueOf"
SecondMethod(o, hint) == IF FirstMethod(o, hint) = "toString" THEN "valueOf" ELSE "toString"

LEMMA DoesTyped ==
  ASSUME NEW o \in ObjectIds, NEW name
  PROVE  /\ Does(o, name) \in Behaviour
         /\ \/ Does(o, name).kind = "absent"
            \/ Does(o, name).kind = "throws"
            \/ Does(o, name).kind = "value" /\ Does(o, name).value \in Value
<1>1. Does(o, name) \in Behaviour
  BY MethodsAssumption DEF Does
<1> QED
  BY <1>1 DEF Behaviour

LEMMA MethodIs ==
  ASSUME NEW o \in ObjectIds, NEW name
  PROVE  /\ Does(o, name).kind = "absent" => Method(o, name) = Ending("value", Obj(o), <<>>)
         /\ Does(o, name).kind = "throws" =>
              Method(o, name) = Ending("throws", Undefined, <<Call(o, name)>>)
         /\ Does(o, name).kind = "value" =>
              Method(o, name) = Ending("value", Does(o, name).value, <<Call(o, name)>>)
<1> DEFINE called == [Gives(Undefined) EXCEPT !.calls = <<[id |-> o, method |-> name]>>]
<1>1. called = Ending("value", Undefined, <<Call(o, name)>>)
  BY DEF Gives, Ending, Call
<1>3. Method(o, name) =
        CASE Does(o, name).kind = "absent" -> Gives(Obj(o))
          [] Does(o, name).kind = "throws" -> After(called, Throws)
          [] Does(o, name).kind = "value" -> After(called, Gives(Does(o, name).value))
  BY DEF Method, Does
<1>4. After(called, Throws) = Ending("throws", Undefined, <<Call(o, name)>>)
  BY <1>1, AfterOne
<1>5. After(called, Gives(Does(o, name).value)) = Ending("value", Does(o, name).value, <<Call(o, name)>>)
  BY <1>1, AfterOne
<1> HIDE DEF called
<1> QED
  BY <1>3, <1>4, <1>5, SimpleEndings

LEMMA DefaultValueIs ==
  ASSUME NEW o \in ObjectIds, NEW hint
  PROVE  DefaultValue(o, hint) =
           Table(Does(o, FirstMethod(o, hint)), Does(o, SecondMethod(o, hint)),
                 Call(o, FirstMethod(o, hint)), Call(o, SecondMethod(o, hint)))
<1> DEFINE Last(w) == IF IsObject(w) THEN Throws ELSE Gives(w)
<1>o. IsObject(Obj(o))
  BY DEF IsObject, Obj
<1>0. SUFFICES ASSUME NEW f, NEW s, f = FirstMethod(o, hint), s = SecondMethod(o, hint)
               PROVE  DefaultValue(o, hint) = Table(Does(o, f), Does(o, s), Call(o, f), Call(o, s))
  OBVIOUS
<1> DEFINE d == Does(o, f)
           e == Does(o, s)
           F == Method(o, f)
           S == Method(o, s)
           rest == Then(S, Last)
           Rest(v) == IF ~IsObject(v) THEN Gives(v) ELSE rest
           all == Then(F, Rest)
<1>1. DefaultValue(o, hint) = all
  BY <1>0 DEF DefaultValue, FirstMethod, SecondMethod
<1>2. /\ d.kind = "absent" => F = Ending("value", Obj(o), <<>>)
      /\ d.kind = "throws" => F = Ending("throws", Undefined, <<Call(o, f)>>)
      /\ d.kind = "value" => F = Ending("value", d.value, <<Call(o, f)>>)
  BY MethodIs
<1>3. /\ e.kind = "absent" => S = Ending("value", Obj(o), <<>>)
      /\ e.kind = "throws" => S = Ending("throws", Undefined, <<Call(o, s)>>)
      /\ e.kind = "value" => S = Ending("value", e.value, <<Call(o, s)>>)
  BY MethodIs
<1>4. d.kind \in {"absent", "throws", "value"} /\ e.kind \in {"absent", "throws", "value"}
  BY DoesTyped
<1>5. rest = IF S.kind = "value" THEN After(S, Last(S.value)) ELSE S
  <2> HIDE DEF Last, S
  <2> QED
    BY DEF Then
<1>6. all = IF F.kind = "value" THEN After(F, Rest(F.value)) ELSE F
  <2> HIDE DEF Rest, F
  <2> QED
    BY DEF Then
<1>7. /\ \A v : Rest(v) = IF IsObject(v) THEN rest ELSE Gives(v)
      /\ \A v : Last(v) = IF IsObject(v) THEN Throws ELSE Gives(v)
  <2> HIDE DEF rest
  <2> QED
    OBVIOUS
<1> DEFINE x == Call(o, f)
           y == Call(o, s)
<1> HIDE DEF Last, Rest, rest, all, F, S, d, e, x, y
<1>8. rest = IF Settles(e) THEN Ending("value", e.value, CallsOf(e, y))
             ELSE Ending("throws", Undefined, CallsOf(e, y))
  <2>1. CASE e.kind = "absent"
    <3>1. S = Ending("value", Obj(o), <<>>)
      BY <1>3, <2>1
    <3>2. rest = After(S, Throws)
      BY <1>5, <1>7, <1>o, <3>1, EndingParts
    <3> QED
      BY <2>1, <3>1, <3>2, AfterOne DEF Settles, CallsOf
  <2>2. CASE e.kind = "throws"
    <3>1. S = Ending("throws", Undefined, <<y>>)
      BY <1>3, <2>2 DEF y
    <3> QED
      BY <1>5, <2>2, <3>1, EndingParts DEF Settles, CallsOf
  <2>3. CASE e.kind = "value"
    <3>1. S = Ending("value", e.value, <<y>>)
      BY <1>3, <2>3 DEF y
    <3>2. rest = After(S, IF IsObject(e.value) THEN Throws ELSE Gives(e.value))
      BY <1>5, <1>7, <3>1, EndingParts
    <3> QED
      BY <2>3, <3>1, <3>2, AfterOne DEF Settles, CallsOf
  <2> QED
    BY <2>1, <2>2, <2>3, <1>4
<1>9. all = Table(d, e, x, y)
  <2>2. CASE d.kind = "throws"
    <3>1. F = Ending("throws", Undefined, <<x>>)
      BY <1>2, <2>2 DEF x
    <3> QED
      BY <1>6, <2>2, <3>1, EndingParts DEF Table, CallsOf
  <2>3. CASE Settles(d)
    <3>1. F = Ending("value", d.value, <<x>>)
      BY <1>2, <2>3 DEF Settles, x
    <3>2. all = After(F, Gives(d.value))
      BY <1>6, <1>7, <2>3, <3>1, EndingParts DEF Settles
    <3>3. all = Ending("value", d.value, <<x>>)
      BY <3>1, <3>2, AfterOne
    <3> QED
      BY <2>3, <3>3 DEF Settles, CallsOf, Table
  <2>4. CASE d.kind # "throws" /\ ~Settles(d)
    <3>1. PICK v : IsObject(v) /\ F = Ending("value", v, CallsOf(d, x))
      <4>1. CASE d.kind = "absent"
        BY <1>2, <1>o, <4>1 DEF CallsOf
      <4>2. CASE d.kind = "value"
        BY <1>2, <2>4, <4>2 DEF CallsOf, Settles, x
      <4> QED
        BY <1>4, <2>4, <4>1, <4>2
    <3>3. all = After(F, rest)
      BY <1>6, <1>7, <3>1, EndingParts
    <3>4. \A k, w, c : After(F, Ending(k, w, c)) = Ending(k, w, CallsOf(d, x) \o c)
      BY <3>1, AfterEnding
    <3> QED
      BY <1>8, <2>4, <3>3, <3>4 DEF Table
  <2> QED
    BY <2>2, <2>3, <2>4
<1> QED
  BY <1>1, <1>9 DEF d, e, x, y

LEMMA ES5DefaultValueIs ==
  ASSUME NEW o \in ObjectIds, NEW hint
  PROVE  ES5DefaultValue(o, hint) =
           Table(Does(o, FirstMethod(o, hint)), Does(o, SecondMethod(o, hint)),
                 Call(o, FirstMethod(o, hint)), Call(o, SecondMethod(o, hint)))
<1> DEFINE names == IF hint = "string" \/ (hint = "none" /\ o \in DateIds)
                    THEN <<"toString", "valueOf">> ELSE <<"valueOf", "toString">>
           does == [k \in 1..2 |-> IF names[k] = "valueOf" THEN ValueOfGives[o] ELSE ToStringGives[o]]
           ends == {k \in 1..2 : \/ does[k].kind = "throws"
                                 \/ does[k].kind = "value" /\ ~IsObject(does[k].value)}
           Called(k) == IF does[k].kind = "absent" THEN <<>> ELSE <<[id |-> o, method |-> names[k]]>>
           calls == Called(1) \o (IF 1 \in ends THEN <<>> ELSE Called(2))
           last == IF ends = {} THEN Throws
                   ELSE IF does[Min(ends)].kind = "throws" THEN Throws
                   ELSE Gives(does[Min(ends)].value)
<1>1. ES5DefaultValue(o, hint) = [last EXCEPT !.calls = calls]
  BY DEF ES5DefaultValue
<1>2. PICK f, s : f = FirstMethod(o, hint) /\ s = SecondMethod(o, hint)
  OBVIOUS
<1>3. names[1] = f /\ names[2] = s
  BY <1>2 DEF FirstMethod, SecondMethod
<1>4. PICK d, e : d = Does(o, f) /\ e = Does(o, s)
  OBVIOUS
<1>5. does[1] = d /\ does[2] = e
  <2> HIDE DEF names
  <2> QED
    BY <1>3, <1>4 DEF Does
<1>6. PICK c, k : c = Call(o, f) /\ k = Call(o, s)
  OBVIOUS
<1>7. Called(1) = CallsOf(d, c) /\ Called(2) = CallsOf(e, k)
  <2> HIDE DEF names, does
  <2> QED
    BY <1>3, <1>5, <1>6 DEF CallsOf, Call
<1>8. /\ 1 \in ends <=> d.kind = "throws" \/ Settles(d)
      /\ 2 \in ends <=> e.kind = "throws" \/ Settles(e)
      /\ ends \subseteq 1..2
  <2> HIDE DEF does
  <2> QED
    BY <1>5 DEF Settles
<1>9. /\ 1 \in ends => Min(ends) = 1
      /\ 1 \notin ends /\ 2 \in ends => Min(ends) = 2
  <2> HIDE DEF ends
  <2>1. 1 \in ends => \A x \in ends : (\A y \in ends : x <= y) <=> x = 1
    BY <1>8
  <2>2. 1 \notin ends /\ 2 \in ends => \A x \in ends : (\A y \in ends : x <= y) <=> x = 2
    BY <1>8
  <2> QED
    BY <2>1, <2>2 DEF Min
<1>10. CallsOf(d, c) \o <<>> = CallsOf(d, c)
  BY DEF CallsOf
<1>11. \A v, z : [Gives(v) EXCEPT !.calls = z] = Ending("value", v, z)
  BY DEF Gives, Ending
<1>12. \A z : [Throws EXCEPT !.calls = z] = Ending("throws", Undefined, z)
  BY DEF Throws, Ending
<1> HIDE DEF names, does, ends, Called
<1>13. CASE 1 \in ends
  <2>1. calls = CallsOf(d, c)
    BY <1>7, <1>10, <1>13
  <2>2. last = IF d.kind = "throws" THEN Throws ELSE Gives(d.value)
    BY <1>5, <1>9, <1>13
  <2> HIDE DEF calls, last
  <2> QED
    BY <1>1, <1>2, <1>4, <1>6, <1>8, <1>11, <1>12, <1>13, <2>1, <2>2 DEF Table
<1>14. CASE 1 \notin ends
  <2>1. calls = CallsOf(d, c) \o CallsOf(e, k)
    BY <1>7, <1>14
  <2>2. last = IF Settles(e) THEN Gives(e.value) ELSE Throws
    <3>1. CASE 2 \in ends
      BY <1>5, <1>8, <1>9, <1>14, <3>1 DEF Settles
    <3>2. CASE 2 \notin ends
      <4>1. ends = {}
        BY <1>8, <1>14, <3>2
      <4> QED
        BY <1>8, <3>2, <4>1
    <3> QED
      BY <3>1, <3>2
  <2> HIDE DEF calls, last
  <2> QED
    BY <1>1, <1>2, <1>4, <1>6, <1>8, <1>11, <1>12, <1>14, <2>1, <2>2 DEF Table
<1> QED
  BY <1>13, <1>14

\* The conversion to a primitive value is that of the standard.
LEMMA PrimitiveAsES5 ==
  ASSUME NEW v \in Value, NEW hint
  PROVE  ToPrimitive(v, hint) = ES5Primitive(v, hint)
<1>1. CASE IsObject(v)
  <2>1. v.id \in ObjectIds
    BY <1>1, ValueCases DEF IsObject, Undefined, Null
  <2> QED
    BY <1>1, <2>1, DefaultValueIs, ES5DefaultValueIs DEF ToPrimitive, ES5Primitive
<1>2. CASE ~IsObject(v)
  BY <1>2 DEF ToPrimitive, ES5Primitive
<1> QED
  BY <1>1, <1>2

\* What a conversion of v comes to.
Converts(r) ==
  \/ r.kind = "value" /\ r.value \in Value /\ ~IsObject(r.value)
  \/ r.kind = "throws" /\ r.value = Undefined

LEMMA TableConverts ==
  ASSUME NEW d \in Behaviour, NEW e \in Behaviour, NEW c, NEW k
  PROVE  /\ Converts(Table(d, e, c, k))
         /\ Table(d, e, c, k) = Ending(Table(d, e, c, k).kind, Table(d, e, c, k).value, Table(d, e, c, k).calls)
<1>1. /\ Settles(d) => d.value \in Value /\ ~IsObject(d.value)
      /\ Settles(e) => e.value \in Value /\ ~IsObject(e.value)
  BY DEF Settles, Behaviour
<1> QED
  BY <1>1, EndingParts DEF Table, Converts

LEMMA PrimitiveConverts ==
  ASSUME NEW v \in Value, NEW hint
  PROVE  /\ Converts(ToPrimitive(v, hint))
         /\ \E k, w, c : ToPrimitive(v, hint) = Ending(k, w, c)
         /\ ~IsObject(v) => ToPrimitive(v, hint) = Gives(v)
<1>1. CASE IsObject(v)
  <2>1. v.id \in ObjectIds
    BY <1>1, ValueCases DEF IsObject, Undefined, Null
  <2>2. ToPrimitive(v, hint) = DefaultValue(v.id, hint)
    BY <1>1 DEF ToPrimitive
  <2> QED
    BY <1>1, <2>1, <2>2, DefaultValueIs, DoesTyped, TableConverts
<1>2. CASE ~IsObject(v)
  BY <1>2, EndingParts, SimpleEndings DEF ToPrimitive, Converts
<1> QED
  BY <1>1, <1>2

\* Both operands converted, and then s.
Combined(P, Q, s) ==
  IF P.kind = "value" THEN After(P, IF Q.kind = "value" THEN After(Q, s) ELSE Q) ELSE P

LEMMA SimpleAfter ==
  ASSUME NEW v, NEW w
  PROVE  After(Gives(v), Gives(w)) = Gives(w)
<1>1. /\ Gives(v) = Ending("value", v, <<>>)
      /\ Gives(w) = Ending("value", w, <<>>)
  BY SimpleEndings
<1> QED
  BY <1>1, AfterNone

LEMMA NumberOfPrimitive ==
  ASSUME NEW p \in Value, ~IsObject(p), ~Misread(p)
  PROVE  ES5Number(p) = PrimitiveToNumber(p)
<1>1. CASE p = Undefined
  BY <1>1 DEF ES5Number, PrimitiveToNumber, Undefined, Null, Bool, IsNumber, IsString
<1>2. CASE p = Null
  BY <1>2 DEF ES5Number, PrimitiveToNumber, Undefined, Null, Bool, IsNumber, IsString
<1>3. CASE p.is = "bool" /\ p.bool \in BOOLEAN /\ p = Bool(p.bool)
  <2>1. CASE p.bool = TRUE
    <3>1. p = Bool(TRUE) /\ p # Bool(FALSE) /\ p # Null /\ p # Undefined
      BY <1>3, <2>1 DEF Bool, Undefined, Null
    <3> QED
      BY <1>3, <2>1, <3>1 DEF ES5Number, PrimitiveToNumber, IsNumber, IsString
  <2>2. CASE p.bool = FALSE
    <3>1. p = Bool(FALSE) /\ p # Bool(TRUE) /\ p # Null /\ p # Undefined
      BY <1>3, <2>2 DEF Bool, Undefined, Null
    <3> QED
      BY <1>3, <2>2, <3>1 DEF ES5Number, PrimitiveToNumber, IsNumber, IsString
  <2> QED
    BY <1>3, <2>1, <2>2
<1>4. CASE IsNumber(p)
  BY <1>4 DEF ES5Number, PrimitiveToNumber, Undefined, Null, Bool, IsNumber, IsString
<1>5. CASE IsString(p)
  BY <1>5 DEF ES5Number, PrimitiveToNumber, Undefined, Null, Bool, IsNumber, IsString, Misread
<1> QED
  BY <1>1, <1>2, <1>3, <1>4, <1>5, ValueCases DEF IsNumber, IsString, IsObject

\* Two primitive values are the same for the code when they are for the standard.
LEMMA SameAsES5 ==
  ASSUME NEW p \in Value, NEW q \in Value, ~IsObject(p), ~IsObject(q),
         ~(IsString(p) # IsString(q) /\ (Misread(p) \/ Misread(q)))
  PROVE  ComparePrimitives(p, q) = ES5Same(p, q)
<1>1. CASE IsNothing(p) \/ IsNothing(q)
  BY <1>1 DEF ComparePrimitives, ES5Same
<1>2. CASE ~(IsNothing(p) \/ IsNothing(q))
  <2>0. /\ p.is \in {"bool", "smi", "double", "string"}
        /\ q.is \in {"bool", "smi", "double", "string"}
    BY <1>2, ValueCases DEF IsNothing, IsObject, Undefined, Null
  <2>1. CASE IsString(p) /\ IsString(q)
    BY <1>2, <2>1 DEF ComparePrimitives, ES5Same, ES5Strict, IsString, IsNumber
  <2>2. CASE ~(IsString(p) /\ IsString(q))
    <3>1. /\ ComparePrimitives(p, q) = SameNumber(PrimitiveToNumber(p), PrimitiveToNumber(q))
          /\ PrimitiveToNumber(p) = ES5Number(p) /\ PrimitiveToNumber(q) = ES5Number(q)
      <4>1. ~Misread(p) /\ ~Misread(q)
        BY <2>2 DEF Misread, IsString
      <4> QED
        BY <1>2, <2>2, <4>1, NumberOfPrimitive DEF ComparePrimitives
    <3>2. CASE p.is # q.is
      BY <1>2, <3>1, <3>2 DEF ES5Same
    <3>3. CASE p.is = q.is
      <4>1. ES5Same(p, q) = ES5Strict(p, q)
        BY <1>2, <3>3 DEF ES5Same
      <4>2. CASE p.is = "bool"
        <5>1. /\ p.bool \in BOOLEAN /\ p = Bool(p.bool)
              /\ q.bool \in BOOLEAN /\ q = Bool(q.bool)
          <6>1. p.bool \in BOOLEAN /\ p = Bool(p.bool)
            BY <4>2, ValueCases DEF Undefined, Null
          <6>2. q.is = "bool"
            BY <3>3, <4>2
          <6>3. q.bool \in BOOLEAN /\ q = Bool(q.bool)
            BY <6>2, ValueCases DEF Undefined, Null
          <6> QED
            BY <6>1, <6>3
        <5>2. /\ PrimitiveToNumber(p) = Whole(IF p.bool THEN 1 ELSE 0)
              /\ PrimitiveToNumber(q) = Whole(IF q.bool THEN 1 ELSE 0)
          BY <3>3, <4>2 DEF PrimitiveToNumber, IsNumber, IsString
        <5>3. SameNumber(PrimitiveToNumber(p), PrimitiveToNumber(q)) = (p.bool = q.bool)
          BY <5>1, <5>2 DEF SameNumber, Whole, NaN
        <5>4. (p = q) = (p.bool = q.bool)
          BY <5>1
        <5>5. ES5Strict(p, q) = (p = q)
          BY <4>2 DEF ES5Strict, IsNumber
        <5> QED
          BY <3>1, <4>1, <5>3, <5>4, <5>5, Zenon
      <4>3. CASE p.is \in {"smi", "double"}
        <5>1. ES5Strict(p, q) = SameNumber(NumberOf(p), NumberOf(q))
          BY <3>3, <4>3 DEF ES5Strict, IsNumber
        <5>2. PrimitiveToNumber(p) = NumberOf(p) /\ PrimitiveToNumber(q) = NumberOf(q)
          BY <3>3, <4>3 DEF PrimitiveToNumber, IsNumber, IsString
        <5> QED
          BY <3>1, <4>1, <5>1, <5>2
      <4> QED
        BY <2>0, <2>2, <3>3, <4>2, <4>3 DEF IsString
    <3> QED
      BY <3>2, <3>3
  <2> QED
    BY <2>1, <2>2
<1> QED
  BY <1>1, <1>2

\* 11.9.3
LEMMA AbstractEqualityAsES5 ==
  ASSUME NEW l \in Value, NEW r \in Value,
         ~(IsNothing(l) /\ IsObject(r)),
         ~(/\ IsString(ToPrimitive(l, "none").value) # IsString(ToPrimitive(r, "none").value)
           /\ Misread(ToPrimitive(l, "none").value) \/ Misread(ToPrimitive(r, "none").value))
  PROVE  IsAbstractSameValue(l, r) = ES5Equal(l, r)
<1>1. CASE IsObject(l) /\ (IsObject(r) \/ IsNothing(r))
  BY <1>1 DEF IsAbstractSameValue, ES5Equal
<1>2. CASE ~(IsObject(l) /\ (IsObject(r) \/ IsNothing(r)))
  <2>1. PICK P, Q : P = ToPrimitive(l, "none") /\ Q = ToPrimitive(r, "none")
    OBVIOUS
  <2>2. IsAbstractSameValue(l, r) = Combined(P, Q, Gives(Bool(ComparePrimitives(P.value, Q.value))))
    BY <1>2, <2>1 DEF IsAbstractSameValue, Combined, Then
  <2>3. Converts(P) /\ Converts(Q)
    BY <2>1, PrimitiveConverts
  <2>4. P.kind = "value" /\ Q.kind = "value" =>
          ComparePrimitives(P.value, Q.value) = ES5Same(P.value, Q.value)
    BY <2>1, <2>3, SameAsES5 DEF Converts
  <2>5. IsAbstractSameValue(l, r) = Combined(P, Q, Gives(Bool(ES5Same(P.value, Q.value))))
    BY <2>2, <2>4 DEF Combined
  <2>6. CASE ~IsObject(l) /\ ~IsObject(r)
    <3>1. P = Gives(l) /\ Q = Gives(r)
      BY <2>1, <2>6, PrimitiveConverts
    <3>2. /\ P.kind = "value" /\ P.value = l /\ Q.kind = "value" /\ Q.value = r
      BY <3>1 DEF Gives
    <3>3. IsAbstractSameValue(l, r) = Gives(Bool(ES5Same(l, r)))
      BY <2>5, <3>1, <3>2, SimpleAfter DEF Combined
    <3>4. ES5Equal(l, r) = Gives(Bool(IF IsObject(l) \/ IsObject(r) THEN l = r ELSE ES5Same(l, r)))
      <4>1. IsObject(l) = IsObject(r)
        BY <2>6 DEF IsObject
      <4> QED
        BY <4>1, Zenon DEF ES5Equal
    <3>5. (IF IsObject(l) \/ IsObject(r) THEN l = r ELSE ES5Same(l, r)) = ES5Same(l, r)
      BY <2>6
    <3> QED
      BY <3>3, <3>4, <3>5
  <2>7. CASE ~(~IsObject(l) /\ ~IsObject(r))
    <3>1. ~(IsObject(l) = IsObject(r) \/ IsNothing(l) \/ IsNothing(r))
      BY <1>2, <2>7 DEF IsObject, IsNothing
    <3>2. ES5Equal(l, r) = Combined(P, Q, Gives(Bool(ES5Same(P.value, Q.value))))
      BY <2>1, <3>1, PrimitiveAsES5 DEF ES5Equal, ES5Both, Combined, Then
    <3> QED
      BY <2>5, <3>2
  <2> QED
    BY <2>6, <2>7
<1> QED
  BY <1>1, <1>2

\* 11.9.6
LEMMA StrictEqualityAsES5 ==
  ASSUME NEW l \in Value, NEW r \in Value, ~(l.is = "bool" /\ r.is = "bool")
  PROVE  IsStrictSameValue(l, r) = ES5Strict(l, r)
<1>1. CASE IsNumber(l) /\ IsNumber(r)
  <2>1. IsStrictSameValue(l, r) = (IsNumber(r) /\ SameNumber(NumberOf(l), NumberOf(r)))
    BY <1>1 DEF IsStrictSameValue, IsNumber
  <2>2. ES5Strict(l, r) = SameNumber(NumberOf(l), NumberOf(r))
    BY <1>1 DEF ES5Strict
  <2>3. (IsNumber(r) /\ SameNumber(NumberOf(l), NumberOf(r))) = SameNumber(NumberOf(l), NumberOf(r))
    BY <1>1 DEF SameNumber
  <2> QED
    BY <2>1, <2>2, <2>3
<1>2. CASE ~(IsNumber(l) /\ IsNumber(r))
  <2>1. CASE IsNumber(l)
    BY <1>2, <2>1 DEF IsStrictSameValue, ES5Strict, IsNumber
  <2>2. CASE ~IsNumber(l) /\ l.is = "bool"
    BY <1>2, <2>2 DEF IsStrictSameValue, ES5Strict, IsNumber
  <2>3. CASE ~IsNumber(l) /\ l.is # "bool"
    BY <1>2, <2>3 DEF IsStrictSameValue, ES5Strict
  <2> QED
    BY <2>1, <2>2, <2>3
<1> QED
  BY <1>1, <1>2

CallSet == [id : ObjectIds, method : {"valueOf", "toString"}]

\* The calls of one conversion: of different methods of o, of which only the
\* last may throw.
ProperCalls(c, o) ==
  /\ c \in Seq(CallSet)
  /\ \A i \in DOMAIN c : c[i].id = o
  /\ \A i, j \in DOMAIN c : i < j => ~Throwing(c[i]) /\ c[i] # c[j]
NoneThrew(c) == \A i \in DOMAIN c : ~Throwing(c[i])

LEMMA OneCall ==
  ASSUME NEW o, NEW x \in CallSet, x.id = o
  PROVE  /\ ProperCalls(<<x>>, o)
         /\ ~Throwing(x) => NoneThrew(<<x>>)
  BY DEF ProperCalls, NoneThrew

LEMMA TwoCalls ==
  ASSUME NEW o, NEW x \in CallSet, NEW y \in CallSet, x.id = o, y.id = o, x # y, ~Throwing(x)
  PROVE  /\ ProperCalls(<<x, y>>, o)
         /\ ~Throwing(y) => NoneThrew(<<x, y>>)
  BY DEF ProperCalls, NoneThrew

LEMMA NoCalls ==
  ASSUME NEW o
  PROVE  ProperCalls(<<>>, o) /\ NoneThrew(<<>>)
  BY DEF ProperCalls, NoneThrew

LEMMA PairConcat ==
  ASSUME NEW S, NEW x \in S, NEW y \in S
  PROVE  <<x>> \o <<y>> = <<x, y>>
<1>1. PICK s, t : s = <<x>> /\ t = <<y>>
  OBVIOUS
<1>2. /\ s \in Seq(S) /\ t \in Seq(S) /\ Len(s) = 1 /\ Len(t) = 1 /\ s[1] = x /\ t[1] = y
  BY <1>1
<1>5. PICK g : g = s \o t
  OBVIOUS
<1>3. /\ g \in Seq(S)
      /\ Len(g) = Len(s) + Len(t)
      /\ \A i \in 1 .. Len(s) + Len(t) : g[i] = IF i <= Len(s) THEN s[i] ELSE t[i - Len(s)]
  BY <1>2, <1>5, ConcatProperties
<1>6. g \in Seq(S) /\ Len(g) = 2 /\ g[1] = x /\ g[2] = y
  BY <1>2, <1>3
<1>7. <<x, y>> \in Seq(S) /\ Len(<<x, y>>) = 2
  OBVIOUS
<1>8. g = <<x, y>>
  BY <1>6, <1>7
<1> QED BY <1>1, <1>5, <1>8

LEMMA TableCalls ==
  ASSUME NEW o, NEW d, NEW e, NEW x \in CallSet, NEW y \in CallSet,
         x.id = o, y.id = o, x # y,
         Throwing(x) <=> d.kind = "throws", Throwing(y) <=> e.kind = "throws"
  PROVE  /\ ProperCalls(Table(d, e, x, y).calls, o)
         /\ Table(d, e, x, y).kind = "value" => NoneThrew(Table(d, e, x, y).calls)
<1> DEFINE t == Table(d, e, x, y)
<1>1. CASE d.kind = "throws"
  <2>1. t = Ending("throws", Undefined, <<x>>)
    BY <1>1 DEF Table, CallsOf
  <2> HIDE DEF t
  <2>2. t.calls = <<x>> /\ t.kind = "throws"
    BY <2>1, EndingParts
  <2> QED
    BY <2>2, OneCall DEF t
<1>2. CASE Settles(d)
  <2>1. t = Ending("value", d.value, <<x>>) /\ ~Throwing(x)
    BY <1>2 DEF Table, CallsOf, Settles
  <2> HIDE DEF t
  <2>2. t.calls = <<x>>
    BY <2>1, EndingParts
  <2> QED
    BY <2>1, <2>2, OneCall DEF t
<1>3. CASE d.kind # "throws" /\ ~Settles(d)
  <2>0. PICK c : c = CallsOf(d, x) \o CallsOf(e, y)
    OBVIOUS
  <2>1. t.calls = c /\ (t.kind = "value" <=> Settles(e))
    <3>1. CASE Settles(e)
      <4>1. t = Ending("value", e.value, c)
        BY <1>3, <2>0, <3>1 DEF Table
      <4> HIDE DEF t
      <4> QED
        BY <3>1, <4>1, EndingParts
    <3>2. CASE ~Settles(e)
      <4>1. t = Ending("throws", Undefined, c)
        BY <1>3, <2>0, <3>2 DEF Table
      <4> HIDE DEF t
      <4> QED
        BY <3>2, <4>1, EndingParts
    <3> QED
      BY <3>1, <3>2
  <2> HIDE DEF t
  <2>2. ~Throwing(x) /\ (Settles(e) => ~Throwing(y))
    BY <1>3 DEF Settles
  <2>3. c \in {<<>>, <<x>>, <<y>>, <<x, y>>}
    <3>1. <<>> \o <<>> = <<>>
      OBVIOUS
    <3>3. <<>> \o <<y>> = <<y>>
      OBVIOUS
    <3>4. <<x>> \o <<>> = <<x>>
      OBVIOUS
    <3>5. <<x>> \o <<y>> = <<x, y>>
      BY PairConcat
    <3>2. CallsOf(d, x) \in {<<>>, <<x>>} /\ CallsOf(e, y) \in {<<>>, <<y>>}
      BY DEF CallsOf
    <3> QED
      BY <2>0, <3>1, <3>2, <3>3, <3>4, <3>5
  <2>4. CASE t.calls = <<>>
    BY <2>4, NoCalls DEF t
  <2>5. CASE t.calls = <<x>>
    BY <2>2, <2>5, OneCall DEF t
  <2>6. CASE t.calls = <<y>>
    BY <2>1, <2>2, <2>6, OneCall DEF t
  <2>7. CASE t.calls = <<x, y>>
    BY <2>1, <2>2, <2>7, TwoCalls DEF t
  <2> QED
    BY <2>1, <2>3, <2>4, <2>5, <2>6, <2>7
<1> QED
  BY <1>1, <1>2, <1>3

\* The object converted, if v is one.
Subject(v) == IF IsObject(v) THEN v.id ELSE NoObjectId

LEMMA PrimitiveCalls ==
  ASSUME NEW v \in Value, NEW hint
  PROVE  /\ ProperCalls(ToPrimitive(v, hint).calls, Subject(v))
         /\ ToPrimitive(v, hint).kind = "value" => NoneThrew(ToPrimitive(v, hint).calls)
         /\ ~IsObject(v) => ToPrimitive(v, hint).calls = <<>>
<1>1. CASE IsObject(v)
  <2>1. PICK o : o = v.id /\ o \in ObjectIds
    BY <1>1, ValueCases DEF IsObject, Undefined, Null
  <2>2. PICK f, s : f = FirstMethod(o, hint) /\ s = SecondMethod(o, hint)
    OBVIOUS
  <2>3. {f, s} = {"valueOf", "toString"} /\ f # s
    BY <2>2 DEF FirstMethod, SecondMethod
  <2>4. PICK x, y : x = Call(o, f) /\ y = Call(o, s)
    OBVIOUS
  <2>5. /\ x \in CallSet /\ y \in CallSet /\ x.id = o /\ y.id = o /\ x # y
        /\ x.method = f /\ y.method = s
    BY <2>1, <2>3, <2>4 DEF Call, CallSet
  <2>6. PICK d, e : d = Does(o, f) /\ e = Does(o, s)
    OBVIOUS
  <2>7. (Throwing(x) <=> d.kind = "throws") /\ (Throwing(y) <=> e.kind = "throws")
    BY <2>5, <2>6 DEF Throwing, Does
  <2>8. ToPrimitive(v, hint) = Table(d, e, x, y)
    BY <1>1, <2>1, <2>2, <2>4, <2>6, DefaultValueIs DEF ToPrimitive
  <2>9. Subject(v) = o
    BY <1>1, <2>1 DEF Subject
  <2>10. /\ ProperCalls(Table(d, e, x, y).calls, o)
         /\ Table(d, e, x, y).kind = "value" => NoneThrew(Table(d, e, x, y).calls)
    BY <2>5, <2>7, TableCalls
  <2> QED
    BY <1>1, <2>8, <2>9, <2>10
<1>2. CASE ~IsObject(v)
  <2>1. ToPrimitive(v, hint).calls = <<>>
    BY <1>2, PrimitiveConverts DEF Gives
  <2> QED
    BY <2>1, NoCalls
<1> QED
  BY <1>1, <1>2

WellFormed(r) == r = Ending(r.kind, r.value, r.calls) /\ r.calls \in Seq(CallSet)
Simple(s) == s = Ending(s.kind, s.value, <<>>)
Calling(c) == Ending("value", Undefined, c)

BothCalls(P, Q) == P.calls \o Q.calls

\* The outcomes of an operator on what its operands convert to.
Afterwards(P, Q, S) ==
  IF P.kind # "value" THEN {P}
  ELSE IF Q.kind # "value" THEN {After(P, Q)}
  ELSE {After(Calling(BothCalls(P, Q)), s) : s \in S}

LEMMA AfterCalls ==
  ASSUME NEW r, NEW s
  PROVE  After(r, s) = After(Calling(r.calls), s)
<1>1. Calling(r.calls).calls = r.calls
  BY EndingParts DEF Calling
<1> QED
  BY <1>1, Zenon DEF After

LEMMA CallingEnding ==
  ASSUME NEW c, NEW k, NEW v, NEW d
  PROVE  /\ After(Calling(c), Ending(k, v, d)) = Ending(k, v, c \o d)
         /\ After(Calling(c), Ending(k, v, d)).kind = k
         /\ After(Calling(c), Ending(k, v, d)).value = v
         /\ After(Calling(c), Ending(k, v, d)).calls = c \o d
<1>1. PICK b : b = c \o d
  OBVIOUS
<1>2. After(Calling(c), Ending(k, v, d)) = Ending(k, v, b)
  <2>1. PICK u : u = Undefined
    OBVIOUS
  <2>2. After(Ending("value", u, c), Ending(k, v, d)) = Ending(k, v, c \o d)
    BY AfterEnding
  <2> QED
    BY <1>1, <2>1, <2>2 DEF Calling
<1>3. PICK e : e = After(Calling(c), Ending(k, v, d))
  OBVIOUS
<1>4. e = Ending(k, v, b)
  BY <1>2, <1>3
<1>5. e.kind = k /\ e.value = v /\ e.calls = b
  BY <1>4, EndingParts
<1> QED
  BY <1>1, <1>3, <1>4, <1>5

LEMMA AfterSimple ==
  ASSUME NEW r, r.calls \in Seq(CallSet), NEW s, Simple(s)
  PROVE  After(r, s) = Ending(s.kind, s.value, r.calls)
<1>1. PICK k, v : k = s.kind /\ v = s.value
  OBVIOUS
<1>2. PICK c : c = r.calls
  OBVIOUS
<1>5. PICK d : d = <<>>
  OBVIOUS
<1>3. After(Calling(c), Ending(k, v, d)) = Ending(k, v, c \o d)
  BY CallingEnding
<1>4. c \o d = c
  BY <1>2, <1>5, ConcatEmptySeq
<1> QED
  BY <1>1, <1>2, <1>3, <1>4, <1>5, AfterCalls DEF Simple

LEMMA SimpleGives ==
  /\ \A v : Simple(Gives(v)) /\ Gives(v).kind = "value" /\ Gives(v).value = v /\ Gives(v).calls = <<>>
  /\ Simple(Throws) /\ Throws.kind = "throws" /\ Throws.value = Undefined /\ Throws.calls = <<>>
  /\ Simple(Crash) /\ Crash.kind = "crash" /\ Crash.value = Undefined /\ Crash.calls = <<>>
  BY SimpleEndings, EndingParts DEF Simple

LEMMA PrimitiveWellFormed ==
  ASSUME NEW v \in Value, NEW hint
  PROVE  WellFormed(ToPrimitive(v, hint))
<1>1. PICK r : r = ToPrimitive(v, hint)
  OBVIOUS
<1>2. PICK k, w, c : r = Ending(k, w, c)
  BY <1>1, PrimitiveConverts
<1>3. r = Ending(r.kind, r.value, r.calls)
  BY <1>2, EndingParts
<1>4. r.calls \in Seq(CallSet)
  BY <1>1, PrimitiveCalls DEF ProperCalls
<1> QED
  BY <1>1, <1>3, <1>4 DEF WellFormed

\* The value of a conversion, converted on.
LEMMA NumberIs ==
  ASSUME NEW v \in Value, NEW P, P = ToPrimitive(v, "number")
  PROVE  /\ P.kind = "value" => ToNumber(v) = Ending("value", Double(PrimitiveToNumber(P.value)), P.calls)
         /\ P.kind # "value" => ToNumber(v) = P
<1>1. WellFormed(P)
  BY PrimitiveWellFormed
<1>2. P.kind = "value" => ToNumber(v) = After(P, Gives(Double(PrimitiveToNumber(P.value))))
  BY DEF ToNumber, Then
<1>3. P.kind # "value" => ToNumber(v) = P
  BY DEF ToNumber, Then
<1> QED
  BY <1>1, <1>2, <1>3, AfterSimple, SimpleGives DEF WellFormed

LEMMA StringIs ==
  ASSUME NEW v \in Value, NEW P, P = ToPrimitive(v, "string")
  PROVE  /\ P.kind = "value" => ToString(v) = Ending("value", Str(PrimitiveToString(P.value)), P.calls)
         /\ P.kind # "value" => ToString(v) = P
<1>1. WellFormed(P)
  BY PrimitiveWellFormed
<1>2. P.kind = "value" => ToString(v) = After(P, Gives(Str(PrimitiveToString(P.value))))
  BY DEF ToString, Then
<1>3. P.kind # "value" => ToString(v) = P
  BY DEF ToString, Then
<1> QED
  BY <1>1, <1>2, <1>3, AfterSimple, SimpleGives DEF WellFormed

\* Two values together.
Pair(N, M) == Then(N, LAMBDA v : Then(M, LAMBDA w : Gives(<<v, w>>)))

LEMMA PairIs ==
  ASSUME NEW N, NEW M, WellFormed(N), WellFormed(M)
  PROVE  /\ N.kind # "value" => Pair(N, M) = N
         /\ N.kind = "value" /\ M.kind # "value" => Pair(N, M) = After(N, M)
         /\ N.kind = "value" /\ M.kind = "value" =>
              Pair(N, M) = Ending("value", <<N.value, M.value>>, BothCalls(N, M))
<1>1. N.kind # "value" => Pair(N, M) = N
  BY DEF Pair, Then
<1>2. N.kind = "value" /\ M.kind # "value" => Pair(N, M) = After(N, M)
  BY DEF Pair, Then
<1>3. N.kind = "value" /\ M.kind = "value" => Pair(N, M) = After(N, After(M, Gives(<<N.value, M.value>>)))
  BY DEF Pair, Then
<1>4. After(M, Gives(<<N.value, M.value>>)) = Ending("value", <<N.value, M.value>>, M.calls)
  BY AfterSimple, SimpleGives DEF WellFormed
<1>5. PICK n, m : n = N.calls /\ m = M.calls
  OBVIOUS
<1>6. PICK v : v = <<N.value, M.value>>
  OBVIOUS
<1>7. After(Calling(n), Ending("value", v, m)) = Ending("value", v, n \o m)
  BY CallingEnding
<1>8. After(N, Ending("value", v, m)) = Ending("value", v, n \o m)
  BY <1>5, <1>7, AfterCalls
<1> QED
  BY <1>1, <1>2, <1>3, <1>4, <1>5, <1>6, <1>8 DEF BothCalls

\* Outcomes of a pair of values.
LEMMA PairPieces ==
  ASSUME NEW v, NEW w PROVE <<v, w>>[1] = v /\ <<v, w>>[2] = w
  OBVIOUS

\* N is what P comes to, with x for its value.
ComesTo(N, P, x) == N = IF P.kind = "value" THEN Ending("value", x, P.calls) ELSE P

LEMMA ComesToIs ==
  ASSUME NEW N, NEW P, NEW x, WellFormed(P), ComesTo(N, P, x)
  PROVE  /\ WellFormed(N) /\ N.kind = P.kind /\ N.calls = P.calls
         /\ P.kind = "value" => N.value = x
         /\ P.kind # "value" => N = P
<1>1. CASE P.kind = "value"
  <2>1. N = Ending("value", x, P.calls)
    BY <1>1 DEF ComesTo
  <2>2. N.kind = "value" /\ N.value = x /\ N.calls = P.calls
    BY <2>1, EndingParts
  <2> QED
    BY <1>1, <2>1, <2>2 DEF WellFormed
<1>2. CASE P.kind # "value"
  BY <1>2 DEF ComesTo
<1> QED
  BY <1>1, <1>2

LEMMA PairOf ==
  ASSUME NEW P, NEW Q, WellFormed(P), WellFormed(Q), NEW N, NEW M, NEW x, NEW y,
         ComesTo(N, P, x), ComesTo(M, Q, y),
         P.kind = "value", Q.kind = "value"
  PROVE  Pair(N, M) = Ending("value", <<x, y>>, BothCalls(P, Q))
<1>1. /\ WellFormed(N) /\ WellFormed(M) /\ N.kind = "value" /\ M.kind = "value"
      /\ N.value = x /\ M.value = y /\ N.calls = P.calls /\ M.calls = Q.calls
  BY ComesToIs
<1>2. Pair(N, M) = Ending("value", <<N.value, M.value>>, BothCalls(N, M))
  BY <1>1, PairIs
<1>3. BothCalls(N, M) = BothCalls(P, Q)
  BY <1>1 DEF BothCalls
<1> QED
  BY <1>1, <1>2, <1>3

LEMMA PairFails ==
  ASSUME NEW P, NEW Q, WellFormed(P), WellFormed(Q), NEW N, NEW M, NEW x, NEW y,
         ComesTo(N, P, x), ComesTo(M, Q, y), P.kind # "value"
  PROVE  Pair(N, M) = P
<1>1. N.kind # "value" /\ N = P
  BY ComesToIs
<1>2. Pair(N, M) = N
  BY <1>1 DEF Pair, Then
<1> QED
  BY <1>1, <1>2

LEMMA PairFailsLater ==
  ASSUME NEW P, NEW Q, WellFormed(P), WellFormed(Q), NEW N, NEW M, NEW x, NEW y,
         ComesTo(N, P, x), ComesTo(M, Q, y),
         P.kind = "value", Q.kind # "value"
  PROVE  Pair(N, M) = After(P, Q) /\ Pair(N, M).kind = Q.kind
<1>1. N.kind = "value" /\ N.calls = P.calls /\ M.kind # "value" /\ M = Q
  BY ComesToIs
<1>2. Pair(N, M) = After(N, Q)
  BY <1>1 DEF Pair, Then
<1>3. After(N, Q) = After(Calling(P.calls), Q) /\ After(P, Q) = After(Calling(P.calls), Q)
  BY <1>1, AfterCalls
<1>4. PICK k, v, b, c : k = Q.kind /\ v = Q.value /\ b = P.calls /\ c = Q.calls
  OBVIOUS
<1>5. PICK e : e = After(Calling(b), Ending(k, v, c))
  OBVIOUS
<1>6. e.kind = k
  BY <1>5, CallingEnding
<1>7. Pair(N, M) = e /\ Pair(N, M) = After(P, Q)
  BY <1>2, <1>3, <1>4, <1>5 DEF WellFormed
<1> QED
  BY <1>4, <1>6, <1>7

LEMMA NumericIs ==
  ASSUME NEW op, NEW l \in Value, NEW r \in Value, ~(l.is = "smi" /\ r.is = "smi"),
         NEW P, P = ToPrimitive(l, "number"), NEW Q, Q = ToPrimitive(r, "number")
  PROVE  Numeric(op, l, r) =
           Afterwards(P, Q, ApplyBinaryOperator(op, Double(PrimitiveToNumber(P.value)),
                                                    Double(PrimitiveToNumber(Q.value))))
<1>1. PICK N, M : N = ToNumber(l) /\ M = ToNumber(r)
  OBVIOUS
<1>2. WellFormed(P) /\ WellFormed(Q)
  BY PrimitiveWellFormed
<1>3. PICK x, y : x = Double(PrimitiveToNumber(P.value)) /\ y = Double(PrimitiveToNumber(Q.value))
  OBVIOUS
<1>4. ComesTo(N, P, x) /\ ComesTo(M, Q, y)
  BY <1>1, <1>3, NumberIs DEF ComesTo
<1>5. PICK p : p = Pair(N, M)
  OBVIOUS
<1>6. Numeric(op, l, r) =
        IF p.kind = "value"
        THEN {After(p, s) : s \in ApplyBinaryOperator(op, p.value[1], p.value[2])}
        ELSE {p}
  BY <1>1, <1>5 DEF Numeric, Outcomes, Both, Pair
<1>7. CASE P.kind = "value" /\ Q.kind = "value"
  <2>1. PICK c : c = BothCalls(P, Q)
    OBVIOUS
  <2>2. p = Ending("value", <<x, y>>, c)
    BY <1>2, <1>4, <1>5, <1>7, <2>1, PairOf
  <2>3. p.kind = "value" /\ p.value = <<x, y>> /\ p.calls = c
    BY <2>2, EndingParts
  <2>4. p.value[1] = x /\ p.value[2] = y
    BY <2>3, PairPieces
  <2>5. \A s : After(p, s) = After(Calling(c), s)
    BY <2>3, AfterCalls
  <2>6. Numeric(op, l, r) = {After(Calling(c), s) : s \in ApplyBinaryOperator(op, x, y)}
    BY <1>6, <2>3, <2>4, <2>5
  <2>7. Afterwards(P, Q, ApplyBinaryOperator(op, x, y)) =
          {After(Calling(c), s) : s \in ApplyBinaryOperator(op, x, y)}
    BY <1>7, <2>1 DEF Afterwards
  <2> QED
    BY <1>3, <2>6, <2>7
<1>8. CASE P.kind # "value"
  <2>1. p = P
    <3>1. Pair(N, M) = P
      BY <1>2, <1>4, <1>8, PairFails
    <3> QED
      BY <1>5, <3>1
  <2> QED
    BY <1>6, <1>8, <2>1 DEF Afterwards
<1>9. CASE P.kind = "value" /\ Q.kind # "value"
  <2>1. p = After(P, Q) /\ p.kind # "value"
    <3>1. Pair(N, M) = After(P, Q)
      BY <1>2, <1>4, <1>9, PairFailsLater
    <3>2. Pair(N, M).kind = Q.kind
      BY <1>2, <1>4, <1>9, PairFailsLater
    <3> QED
      BY <1>5, <1>9, <3>1, <3>2
  <2> QED
    BY <1>6, <1>9, <2>1 DEF Afterwards
<1> QED
  BY <1>7, <1>8, <1>9

LEMMA ConcatenatedIs ==
  ASSUME NEW l \in Value, NEW r \in Value,
         NEW P, P = ToPrimitive(l, "string"), NEW Q, Q = ToPrimitive(r, "string")
  PROVE  {Concatenated(l, r)} =
           Afterwards(P, Q, {Gives(Str(PrimitiveToString(P.value) \o PrimitiveToString(Q.value)))})
<1>1. PICK N, M : N = ToString(l) /\ M = ToString(r)
  OBVIOUS
<1>2. WellFormed(P) /\ WellFormed(Q)
  BY PrimitiveWellFormed
<1>3. PICK x, y : x = Str(PrimitiveToString(P.value)) /\ y = Str(PrimitiveToString(Q.value))
  OBVIOUS
<1>t. x.text = PrimitiveToString(P.value) /\ y.text = PrimitiveToString(Q.value)
  BY <1>3 DEF Str
<1>4. ComesTo(N, P, x) /\ ComesTo(M, Q, y)
  BY <1>1, <1>3, StringIs DEF ComesTo
<1>5. PICK p : p = Pair(N, M)
  OBVIOUS
<1>6. Concatenated(l, r) =
        IF p.kind = "value" THEN After(p, Gives(Str(p.value[1].text \o p.value[2].text))) ELSE p
  BY <1>1, <1>5 DEF Concatenated, Then, Both, Pair
<1>7. CASE P.kind = "value" /\ Q.kind = "value"
  <2>1. PICK c : c = BothCalls(P, Q)
    OBVIOUS
  <2>2. p = Ending("value", <<x, y>>, c)
    BY <1>2, <1>4, <1>5, <1>7, <2>1, PairOf
  <2>3. p.kind = "value" /\ p.value = <<x, y>> /\ p.calls = c
    BY <2>2, EndingParts
  <2>4. p.value[1] = x /\ p.value[2] = y
    BY <2>3, PairPieces
  <2>5. \A s : After(p, s) = After(Calling(c), s)
    BY <2>3, AfterCalls
  <2>6. PICK g : g = Gives(Str(x.text \o y.text))
    OBVIOUS
  <2>8. Concatenated(l, r) = After(Calling(c), g)
    BY <1>6, <2>3, <2>4, <2>5, <2>6
  <2>7. Afterwards(P, Q, {g}) = {After(Calling(c), g)}
    BY <1>7, <2>1 DEF Afterwards
  <2> QED
    BY <1>t, <2>6, <2>7, <2>8
<1>8. CASE P.kind # "value"
  <2>1. p = P
    <3>1. Pair(N, M) = P
      BY <1>2, <1>4, <1>8, PairFails
    <3> QED
      BY <1>5, <3>1
  <2> QED
    BY <1>6, <1>8, <2>1 DEF Afterwards
<1>9. CASE P.kind = "value" /\ Q.kind # "value"
  <2>1. p = After(P, Q) /\ p.kind # "value"
    <3>1. Pair(N, M) = After(P, Q)
      BY <1>2, <1>4, <1>9, PairFailsLater
    <3>2. Pair(N, M).kind = Q.kind
      BY <1>2, <1>4, <1>9, PairFailsLater
    <3> QED
      BY <1>5, <1>9, <3>1, <3>2
  <2> QED
    BY <1>6, <1>9, <2>1 DEF Afterwards
<1> QED
  BY <1>7, <1>8, <1>9

\* The operators that convert both their operands first.
Converting == Arithmetic \cup Relations

LEMMA BinaryIs ==
  ASSUME NEW op \in Converting, NEW l \in Value, NEW r \in Value,
         NEW P, P = ToPrimitive(l, "none"), NEW Q, Q = ToPrimitive(r, "none")
  PROVE  BinaryExpression(op, l, r) = Afterwards(P, Q, ApplyAssignmentOperator(op, P.value, Q.value))
<1>2. WellFormed(P) /\ WellFormed(Q)
  BY PrimitiveWellFormed
<1>4. PICK x, y : x = P.value /\ y = Q.value
  OBVIOUS
<1>3. ComesTo(P, P, x) /\ ComesTo(Q, Q, y)
  BY <1>2, <1>4 DEF WellFormed, ComesTo
<1>5. PICK p : p = Pair(P, Q)
  OBVIOUS
<1>6. BinaryExpression(op, l, r) =
        IF p.kind = "value"
        THEN {After(p, s) : s \in ApplyAssignmentOperator(op, p.value[1], p.value[2])}
        ELSE {p}
  <2>1. op \notin {"===", "!==", "==", "!=", "instanceof", "in"}
    BY DEF Converting, Arithmetic, Relations, IntOperators
  <2>2. BinaryExpression(op, l, r) =
          Outcomes(Both(l, r, LAMBDA v : ToPrimitive(v, "none")),
                   LAMBDA v, w : ApplyAssignmentOperator(op, v, w))
    BY <2>1 DEF BinaryExpression
  <2> QED
    BY <1>5, <2>2 DEF Outcomes, Both, Pair
<1>7. CASE P.kind = "value" /\ Q.kind = "value"
  <2>1. PICK c : c = BothCalls(P, Q)
    OBVIOUS
  <2>2. p = Ending("value", <<x, y>>, c)
    BY <1>2, <1>3, <1>5, <1>7, <2>1, PairOf
  <2>3. p.kind = "value" /\ p.value = <<x, y>> /\ p.calls = c
    BY <2>2, EndingParts
  <2>4. p.value[1] = x /\ p.value[2] = y
    BY <2>3, PairPieces
  <2>5. \A s : After(p, s) = After(Calling(c), s)
    BY <2>3, AfterCalls
  <2>6. BinaryExpression(op, l, r) = {After(Calling(c), s) : s \in ApplyAssignmentOperator(op, x, y)}
    BY <1>6, <2>3, <2>4, <2>5
  <2>7. Afterwards(P, Q, ApplyAssignmentOperator(op, x, y)) =
          {After(Calling(c), s) : s \in ApplyAssignmentOperator(op, x, y)}
    BY <1>7, <2>1 DEF Afterwards
  <2> QED
    BY <1>4, <2>6, <2>7
<1>8. CASE P.kind # "value"
  <2>1. p = P
    <3>1. Pair(P, Q) = P
      BY <1>2, <1>3, <1>8, PairFails
    <3> QED
      BY <1>5, <3>1
  <2> QED
    BY <1>6, <1>8, <2>1 DEF Afterwards
<1>9. CASE P.kind = "value" /\ Q.kind # "value"
  <2>1. p = After(P, Q) /\ p.kind # "value"
    <3>1. Pair(P, Q) = After(P, Q)
      BY <1>2, <1>3, <1>9, PairFailsLater
    <3>2. Pair(P, Q).kind = Q.kind
      BY <1>2, <1>3, <1>9, PairFailsLater
    <3> QED
      BY <1>5, <1>9, <3>1, <3>2
  <2> QED
    BY <1>6, <1>9, <2>1 DEF Afterwards
<1> QED
  BY <1>7, <1>8, <1>9

\* The operators on numbers call nothing.
LEMMA IntResultsSimple ==
  ASSUME NEW op \in Arithmetic, NEW m, NEW n, NEW s \in IntResults(op, m, n)
  PROVE  Simple(s)
<1>1. \A S : \A x \in Smis(S) : Simple(x)
  BY SimpleGives DEF Smis
<1>2. Simple(Crash)
  BY SimpleGives
<1> HIDE DEF Smis
<1>3. CASE op = "+"
  BY <1>1, <1>3 DEF IntResults
<1>4. CASE op = "-"
  BY <1>1, <1>4 DEF IntResults
<1>5. CASE op = "*"
  BY <1>1, <1>5 DEF IntResults
<1>6. CASE op = "/"
  BY <1>1, <1>2, <1>6 DEF IntResults
<1>7. CASE op = "%"
  BY <1>1, <1>2, <1>7 DEF IntResults
<1>8. CASE op = "<<"
  BY <1>1, <1>8 DEF IntResults
<1>9. CASE op \in {">>", ">>>"}
  BY <1>1, <1>9 DEF IntResults
<1>10. CASE op = "&"
  BY <1>1, <1>10 DEF IntResults
<1>11. CASE op = "^"
  BY <1>1, <1>11 DEF IntResults
<1>12. CASE op = "|"
  BY <1>1, <1>12 DEF IntResults
<1> QED
  BY <1>3, <1>4, <1>5, <1>6, <1>7, <1>8, <1>9, <1>10, <1>11, <1>12 DEF Arithmetic, IntOperators

LEMMA DoubleResultsSimple ==
  ASSUME NEW op \in Arithmetic, NEW x, NEW y, NEW s \in DoubleResults(op, x, y)
  PROVE  Simple(s)
<1>1. CASE op = "+"
  BY <1>1, SimpleGives DEF DoubleResults, IntOperators, Then
<1>2. CASE op = "-"
  BY <1>2, SimpleGives DEF DoubleResults, IntOperators, Then
<1>3. CASE op = "*"
  BY <1>3, SimpleGives DEF DoubleResults, IntOperators, Then
<1>4. CASE op = "/"
  BY <1>4, SimpleGives DEF DoubleResults, IntOperators, Then
<1>5. CASE op \in IntOperators
  <2>0. op \notin {"+", "-", "*", "/"}
    BY <1>5 DEF IntOperators
  <2>1. DoubleResults(op, x, y) =
          {IF i.kind = "value" THEN After(i, Gives(AsES5(i.value))) ELSE i :
             i \in UNION {IntResults(op, m, n) : m \in AsInts(x), n \in AsInts(y)}}
    BY <1>5, <2>0 DEF DoubleResults, Then
  <2>2. PICK i \in UNION {IntResults(op, m, n) : m \in AsInts(x), n \in AsInts(y)} :
          s = i \/ s = After(i, Gives(AsES5(i.value)))
    BY <2>1
  <2>3. Simple(i)
    <3>1. PICK m, n : i \in IntResults(op, m, n)
      BY <2>2
    <3> QED
      BY <3>1, IntResultsSimple
  <2>4. i.calls = <<>>
    BY <2>3, EndingParts DEF Simple
  <2>5. i.calls \in Seq(CallSet)
    BY <2>4
  <2>6. PICK z : z = Gives(AsES5(i.value))
    OBVIOUS
  <2>7. Simple(z)
    BY <2>6, SimpleGives
  <2>8. After(i, z) = Ending(z.kind, z.value, i.calls)
    BY <2>5, <2>7, AfterSimple
  <2>9. After(i, z) = z
    BY <2>4, <2>7, <2>8 DEF Simple
  <2> QED
    BY <2>2, <2>3, <2>6, <2>7, <2>9
<1> QED
  BY <1>1, <1>2, <1>3, <1>4, <1>5 DEF Arithmetic

LEMMA ResultsSimple ==
  ASSUME NEW op \in Converting, NEW l, NEW r, NEW s \in ApplyBinaryOperator(op, l, r)
  PROVE  Simple(s)
<1>1. CASE op \in Relations
  BY <1>1, SimpleGives DEF ApplyBinaryOperator
<1>2. CASE op \notin Relations
  <2>1. op \in Arithmetic
    BY <1>2 DEF Converting
  <2> QED
    BY <1>2, <2>1, IntResultsSimple, DoubleResultsSimple DEF ApplyBinaryOperator
<1> QED
  BY <1>1, <1>2

\* What is made of primitive values.
LEMMA AfterwardsNothing ==
  ASSUME NEW v, NEW w, NEW S, \A s \in S : Simple(s)
  PROVE  Afterwards(Gives(v), Gives(w), S) = S
<1>1. BothCalls(Gives(v), Gives(w)) = <<>>
  <2>1. Gives(v).calls = <<>> /\ Gives(w).calls = <<>> /\ <<>> \o <<>> = <<>>
    BY SimpleGives
  <2> QED
    BY <2>1 DEF BothCalls
<1>2. Calling(<<>>).calls = <<>> /\ <<>> \in Seq(CallSet)
  BY EndingParts DEF Calling
<1>3. \A s \in S : After(Calling(<<>>), s) = s
  <2> SUFFICES ASSUME NEW s \in S PROVE After(Calling(<<>>), s) = s
    OBVIOUS
  <2>1. Simple(s)
    OBVIOUS
  <2>2. After(Calling(<<>>), s) = Ending(s.kind, s.value, Calling(<<>>).calls)
    BY <1>2, <2>1, AfterSimple
  <2> QED
    BY <1>2, <2>1, <2>2 DEF Simple
<1>4. Afterwards(Gives(v), Gives(w), S) = {After(Calling(<<>>), s) : s \in S}
  BY <1>1, SimpleGives DEF Afterwards
<1> QED
  BY <1>3, <1>4

LEMMA AssignmentIs ==
  ASSUME NEW op \in Converting, NEW p \in Value, NEW q \in Value, ~IsObject(p), ~IsObject(q)
  PROVE  /\ op = "+" /\ (IsString(p) \/ IsString(q)) =>
              ApplyAssignmentOperator(op, p, q) = {Gives(Str(PrimitiveToString(p) \o PrimitiveToString(q)))}
         /\ ~(op = "+" /\ (IsString(p) \/ IsString(q))) /\ ~(p.is = "smi" /\ q.is = "smi") =>
              ApplyAssignmentOperator(op, p, q) =
                ApplyBinaryOperator(op, Double(PrimitiveToNumber(p)), Double(PrimitiveToNumber(q)))
         /\ ~(op = "+" /\ (IsString(p) \/ IsString(q))) /\ p.is = "smi" /\ q.is = "smi" =>
              ApplyAssignmentOperator(op, p, q) = ApplyBinaryOperator(op, p, q)
<1>1. CASE op = "+" /\ (IsString(p) \/ IsString(q))
  <2>1. PICK P, Q : P = ToPrimitive(p, "string") /\ Q = ToPrimitive(q, "string")
    OBVIOUS
  <2>2. P = Gives(p) /\ Q = Gives(q) /\ P.value = p /\ Q.value = q
    BY <2>1, PrimitiveConverts, SimpleGives
  <2>3. PICK S : S = {Gives(Str(PrimitiveToString(p) \o PrimitiveToString(q)))}
    OBVIOUS
  <2>4. {Concatenated(p, q)} = Afterwards(P, Q, {Gives(Str(PrimitiveToString(P.value) \o PrimitiveToString(Q.value)))})
    BY <2>1, ConcatenatedIs
  <2>5. {Concatenated(p, q)} = Afterwards(Gives(p), Gives(q), S)
    BY <2>2, <2>3, <2>4
  <2>6. \A s \in S : Simple(s)
    BY <2>3, SimpleGives
  <2>7. {Concatenated(p, q)} = S
    BY <2>5, <2>6, AfterwardsNothing
  <2> QED
    BY <1>1, <2>3, <2>7 DEF ApplyAssignmentOperator
<1>2. CASE ~(op = "+" /\ (IsString(p) \/ IsString(q)))
  <2>0. ApplyAssignmentOperator(op, p, q) = Numeric(op, p, q)
    BY <1>2 DEF ApplyAssignmentOperator
  <2>1. CASE p.is = "smi" /\ q.is = "smi"
    BY <1>2, <2>0, <2>1 DEF Numeric
  <2>2. CASE ~(p.is = "smi" /\ q.is = "smi")
    <3>1. PICK P, Q : P = ToPrimitive(p, "number") /\ Q = ToPrimitive(q, "number")
      OBVIOUS
    <3>2. P = Gives(p) /\ Q = Gives(q) /\ P.value = p /\ Q.value = q
      BY <3>1, PrimitiveConverts, SimpleGives
    <3>3. PICK S : S = ApplyBinaryOperator(op, Double(PrimitiveToNumber(p)), Double(PrimitiveToNumber(q)))
      OBVIOUS
    <3>4. Numeric(op, p, q) =
            Afterwards(P, Q, ApplyBinaryOperator(op, Double(PrimitiveToNumber(P.value)),
                                                     Double(PrimitiveToNumber(Q.value))))
      BY <2>2, <3>1, NumericIs
    <3>5. Numeric(op, p, q) = Afterwards(Gives(p), Gives(q), S)
      BY <3>2, <3>3, <3>4
    <3>6. \A s \in S : Simple(s)
      BY <3>3, ResultsSimple
    <3> QED
      BY <1>2, <2>0, <2>2, <3>3, <3>5, <3>6, AfterwardsNothing
  <2> QED
    BY <2>1, <2>2
<1> QED
  BY <1>1, <1>2

LEMMA AssignmentSimple ==
  ASSUME NEW op \in Converting, NEW p \in Value, NEW q \in Value, ~IsObject(p), ~IsObject(q),
         NEW s \in ApplyAssignmentOperator(op, p, q)
  PROVE  Simple(s)
<1>1. CASE op = "+" /\ (IsString(p) \/ IsString(q))
  BY <1>1, AssignmentIs, SimpleGives
<1>2. CASE ~(op = "+" /\ (IsString(p) \/ IsString(q)))
  BY <1>2, AssignmentIs, ResultsSimple
<1> QED
  BY <1>1, <1>2

\* The calls of an operator on l and r, or on l alone.
Ordered(c, l, r, two) ==
  /\ c \in Seq(CallSet)
  /\ \A i, j \in DOMAIN c : i < j =>
       /\ ~Throwing(c[i])
       /\ c[i] # c[j] \/ (two /\ l = r)
       /\ (two /\ IsObject(l)) => ~(c[i].id # l.id /\ c[j].id = l.id)

LEMMA SingleOrdered ==
  ASSUME NEW l, NEW r, NEW two, NEW c, NEW o, ProperCalls(c, o)
  PROVE  Ordered(c, l, r, two)
  BY DEF Ordered, ProperCalls

LEMMA SubjectsDiffer ==
  ASSUME NEW l \in Value, NEW r \in Value, Subject(l) = Subject(r), Subject(l) \in ObjectIds
  PROVE  l = r
<1>1. IsObject(l) /\ IsObject(r)
  BY ObjectsAssumption DEF Subject
<1>2. l.id = r.id /\ l = Obj(l.id) /\ r = Obj(r.id)
  BY <1>1, ValueCases DEF Subject, IsObject, Undefined, Null
<1> QED
  BY <1>2

LEMMA BothOrdered ==
  ASSUME NEW l \in Value, NEW r \in Value, NEW c, NEW d,
         ProperCalls(c, Subject(l)), NoneThrew(c), ProperCalls(d, Subject(r))
  PROVE  Ordered(c \o d, l, r, TRUE)
<1>1. PICK g : g = c \o d
  OBVIOUS
<1>2. c \in Seq(CallSet) /\ d \in Seq(CallSet)
  BY DEF ProperCalls
<1>3. /\ g \in Seq(CallSet)
      /\ Len(g) = Len(c) + Len(d)
      /\ \A i \in 1 .. Len(c) + Len(d) : g[i] = IF i <= Len(c) THEN c[i] ELSE d[i - Len(c)]
  BY <1>1, <1>2, ConcatProperties
<1>4. Len(c) \in Nat /\ Len(d) \in Nat /\ DOMAIN c = 1..Len(c) /\ DOMAIN d = 1..Len(d) /\ DOMAIN g = 1..Len(g)
  BY <1>2, <1>3
<1>5. ASSUME NEW i \in DOMAIN g, NEW j \in DOMAIN g, i < j
      PROVE  /\ ~Throwing(g[i])
             /\ g[i] # g[j] \/ l = r
             /\ IsObject(l) => ~(g[i].id # l.id /\ g[j].id = l.id)
  <2>1. CASE j <= Len(c)
    <3>1. g[i] = c[i] /\ g[j] = c[j] /\ i \in DOMAIN c /\ j \in DOMAIN c
      BY <1>3, <1>4, <1>5, <2>1
    <3> QED
      BY <1>5, <3>1 DEF ProperCalls
  <2>2. CASE i > Len(c)
    <3>1. PICK m, n : m = i - Len(c) /\ n = j - Len(c)
      OBVIOUS
    <3>2. g[i] = d[m] /\ g[j] = d[n] /\ m \in DOMAIN d /\ n \in DOMAIN d /\ m < n
      BY <1>3, <1>4, <1>5, <2>2, <3>1
    <3> QED
      BY <3>2 DEF ProperCalls
  <2>3. CASE i <= Len(c) /\ j > Len(c)
    <3>1. PICK n : n = j - Len(c)
      OBVIOUS
    <3>2. g[i] = c[i] /\ g[j] = d[n] /\ i \in DOMAIN c /\ n \in DOMAIN d
      BY <1>3, <1>4, <1>5, <2>3, <3>1
    <3>3. g[i].id = Subject(l) /\ g[j].id = Subject(r) /\ ~Throwing(g[i]) /\ g[i] \in CallSet
      BY <1>2, <3>2 DEF ProperCalls, NoneThrew
    <3>4. Subject(l) \in ObjectIds
      BY <3>3 DEF CallSet
    <3>5. g[i] # g[j] \/ l = r
      BY <3>3, <3>4, SubjectsDiffer
    <3>6. IsObject(l) => g[i].id = l.id
      BY <3>3 DEF Subject
    <3> QED
      BY <3>3, <3>5, <3>6
  <2> QED
    BY <1>4, <1>5, <2>1, <2>2, <2>3
<1> QED
  BY <1>1, <1>3, <1>5 DEF Ordered

LEMMA AfterwardsOrdered ==
  ASSUME NEW l \in Value, NEW r \in Value, NEW hint,
         NEW P, P = ToPrimitive(l, hint), NEW Q, Q = ToPrimitive(r, hint),
         NEW S, P.kind = "value" /\ Q.kind = "value" => \A s \in S : Simple(s),
         NEW o \in Afterwards(P, Q, S)
  PROVE  Ordered(o.calls, l, r, TRUE)
<1>1. /\ ProperCalls(P.calls, Subject(l)) /\ ProperCalls(Q.calls, Subject(r))
      /\ P.kind = "value" => NoneThrew(P.calls)
  BY PrimitiveCalls
<1>2. CASE P.kind # "value"
  <2>1. o = P
    BY <1>2 DEF Afterwards
  <2> QED
    BY <1>1, <2>1, SingleOrdered
<1>3. CASE P.kind = "value" /\ Q.kind # "value"
  <2>1. o = After(P, Q)
    BY <1>3 DEF Afterwards
  <2>2. PICK b, k, w, c : b = P.calls /\ k = Q.kind /\ w = Q.value /\ c = Q.calls
    OBVIOUS
  <2>3. After(Calling(b), Ending(k, w, c)).calls = b \o c
    BY CallingEnding
  <2>4. WellFormed(Q)
    BY PrimitiveWellFormed
  <2>7. Q = Ending(k, w, c)
    BY <2>2, <2>4 DEF WellFormed
  <2>8. o = After(Calling(b), Q)
    BY <2>1, <2>2, AfterCalls
  <2>5. o.calls = b \o c
    BY <2>3, <2>7, <2>8
  <2>6. Ordered(b \o c, l, r, TRUE)
    BY <1>1, <1>3, <2>2, BothOrdered
  <2> QED
    BY <2>5, <2>6
<1>4. CASE P.kind = "value" /\ Q.kind = "value"
  <2>1. PICK b : b = BothCalls(P, Q)
    OBVIOUS
  <2>2. PICK s \in S : o = After(Calling(b), s)
    BY <1>4, <2>1 DEF Afterwards
  <2>3. Simple(s)
    BY <1>4
  <2>4. b \in Seq(CallSet) /\ Ordered(b, l, r, TRUE)
    <3>1. Ordered(P.calls \o Q.calls, l, r, TRUE)
      BY <1>1, <1>4, BothOrdered
    <3>2. Ordered(b, l, r, TRUE)
      BY <2>1, <3>1 DEF BothCalls
    <3> QED
      BY <3>2 DEF Ordered
  <2>5. Calling(b).calls = b
    BY EndingParts DEF Calling
  <2>6. Calling(b).calls \in Seq(CallSet)
    BY <2>4, <2>5
  <2>7. o = Ending(s.kind, s.value, b)
    BY <2>2, <2>3, <2>5, <2>6, AfterSimple
  <2>8. o.calls = b
    BY <2>7, EndingParts
  <2> QED
    BY <2>4, <2>8
<1> QED
  BY <1>2, <1>3, <1>4

\* Operators that convert both operands.
LEMMA BinaryOrdered ==
  ASSUME NEW op \in Converting, NEW l \in Value, NEW r \in Value, NEW o \in BinaryExpression(op, l, r)
  PROVE  Ordered(o.calls, l, r, TRUE)
<1>1. PICK P, Q : P = ToPrimitive(l, "none") /\ Q = ToPrimitive(r, "none")
  OBVIOUS
<1>2. PICK S : S = ApplyAssignmentOperator(op, P.value, Q.value)
  OBVIOUS
<1>3. o \in Afterwards(P, Q, S)
  BY <1>1, <1>2, BinaryIs
<1>4. Converts(P) /\ Converts(Q)
  BY <1>1, PrimitiveConverts
<1>5. P.kind = "value" /\ Q.kind = "value" => \A s \in S : Simple(s)
  BY <1>2, <1>4, AssignmentSimple DEF Converts
<1> QED
  BY <1>1, <1>3, <1>5, AfterwardsOrdered

LEMMA CompoundOrdered ==
  ASSUME NEW op \in Arithmetic, NEW l \in Value, NEW r \in Value,
         NEW o \in ApplyAssignmentOperator(op, l, r)
  PROVE  Ordered(o.calls, l, r, TRUE)
<1>0. op \in Converting
  BY DEF Converting
<1>1. CASE op = "+" /\ (IsString(l) \/ IsString(r))
  <2>1. PICK P, Q : P = ToPrimitive(l, "string") /\ Q = ToPrimitive(r, "string")
    OBVIOUS
  <2>2. PICK S : S = {Gives(Str(PrimitiveToString(P.value) \o PrimitiveToString(Q.value)))}
    OBVIOUS
  <2>3. {Concatenated(l, r)} = Afterwards(P, Q, S)
    BY <2>1, <2>2, ConcatenatedIs
  <2>4. o \in Afterwards(P, Q, S)
    BY <1>1, <2>3 DEF ApplyAssignmentOperator
  <2>5. \A s \in S : Simple(s)
    BY <2>2, SimpleGives
  <2> QED
    BY <2>1, <2>4, <2>5, AfterwardsOrdered
<1>2. CASE ~(op = "+" /\ (IsString(l) \/ IsString(r)))
  <2>0. ApplyAssignmentOperator(op, l, r) = Numeric(op, l, r)
    BY <1>2 DEF ApplyAssignmentOperator
  <2>1. CASE l.is = "smi" /\ r.is = "smi"
    <3>1. o \in ApplyBinaryOperator(op, l, r)
      BY <2>0, <2>1 DEF Numeric
    <3>2. Simple(o)
      BY <1>0, <3>1, ResultsSimple
    <3>3. o.calls = <<>>
      BY <3>2, EndingParts DEF Simple
    <3> QED
      BY <3>3, NoCalls, SingleOrdered
  <2>2. CASE ~(l.is = "smi" /\ r.is = "smi")
    <3>1. PICK P, Q : P = ToPrimitive(l, "number") /\ Q = ToPrimitive(r, "number")
      OBVIOUS
    <3>2. PICK S : S = ApplyBinaryOperator(op, Double(PrimitiveToNumber(P.value)),
                                               Double(PrimitiveToNumber(Q.value)))
      OBVIOUS
    <3>3. o \in Afterwards(P, Q, S)
      BY <2>0, <2>2, <3>1, <3>2, NumericIs
    <3>4. \A s \in S : Simple(s)
      BY <1>0, <3>2, ResultsSimple
    <3> QED
      BY <3>1, <3>3, <3>4, AfterwardsOrdered
  <2> QED
    BY <2>1, <2>2
<1> QED
  BY <1>1, <1>2

\* s after the conversions, when these succeed.
LEMMA CombinedAfterwards ==
  ASSUME NEW l \in Value, NEW r \in Value, NEW hint,
         NEW P, P = ToPrimitive(l, hint), NEW Q, Q = ToPrimitive(r, hint), NEW s, Simple(s)
  PROVE  {Combined(P, Q, s)} = Afterwards(P, Q, {s})
<1>1. CASE P.kind # "value"
  BY <1>1 DEF Combined, Afterwards
<1>2. CASE P.kind = "value" /\ Q.kind # "value"
  BY <1>2 DEF Combined, Afterwards
<1>3. CASE P.kind = "value" /\ Q.kind = "value"
  <2>1. WellFormed(P) /\ WellFormed(Q)
    BY PrimitiveWellFormed
  <2>2. PICK k, v, c, b : k = s.kind /\ v = s.value /\ c = Q.calls /\ b = P.calls
    OBVIOUS
  <2>3. s = Ending(k, v, <<>>)
    BY <2>2 DEF Simple
  <2>4. After(Q, s) = Ending(k, v, c)
    BY <2>1, <2>2, AfterSimple DEF WellFormed
  <2>5. After(Calling(b), Ending(k, v, c)) = Ending(k, v, b \o c)
    BY CallingEnding
  <2>6. After(P, After(Q, s)) = Ending(k, v, b \o c)
    BY <2>2, <2>4, <2>5, AfterCalls
  <2>7. PICK d : d = BothCalls(P, Q)
    OBVIOUS
  <2>8. d = b \o c
    BY <2>2, <2>7 DEF BothCalls
  <2>9. d \in Seq(CallSet)
    BY <2>1, <2>2, <2>8, ConcatProperties DEF WellFormed
  <2>10. Calling(d).calls = d
    BY EndingParts DEF Calling
  <2>11. Calling(d).calls \in Seq(CallSet)
    BY <2>9, <2>10
  <2>12. After(Calling(d), s) = Ending(k, v, d)
    BY <2>2, <2>10, <2>11, AfterSimple
  <2>13. Combined(P, Q, s) = After(P, After(Q, s))
    BY <1>3 DEF Combined
  <2>14. Combined(P, Q, s) = After(Calling(d), s)
    BY <2>6, <2>8, <2>12, <2>13
  <2>15. Afterwards(P, Q, {s}) = {After(Calling(d), s)}
    BY <1>3, <2>7 DEF Afterwards
  <2> QED
    BY <2>14, <2>15
<1> QED
  BY <1>1, <1>2, <1>3

\* == converts both operands, or none.
LEMMA EqualityOrdered ==
  ASSUME NEW l \in Value, NEW r \in Value
  PROVE  Ordered(IsAbstractSameValue(l, r).calls, l, r, TRUE)
<1>1. CASE IsObject(l) /\ (IsObject(r) \/ IsNothing(r))
  <2>1. PICK v : IsAbstractSameValue(l, r) = Gives(v)
    BY <1>1 DEF IsAbstractSameValue
  <2>2. IsAbstractSameValue(l, r).calls = <<>>
    BY <2>1, SimpleGives
  <2> QED
    BY <2>2, NoCalls, SingleOrdered
<1>2. CASE ~(IsObject(l) /\ (IsObject(r) \/ IsNothing(r)))
  <2>1. PICK P, Q : P = ToPrimitive(l, "none") /\ Q = ToPrimitive(r, "none")
    OBVIOUS
  <2>2. PICK s : s = Gives(Bool(ComparePrimitives(P.value, Q.value)))
    OBVIOUS
  <2>3. IsAbstractSameValue(l, r) = Combined(P, Q, s)
    BY <1>2, <2>1, <2>2 DEF IsAbstractSameValue, Combined, Then
  <2>4. Simple(s)
    BY <2>2, SimpleGives
  <2>5. IsAbstractSameValue(l, r) \in Afterwards(P, Q, {s})
    BY <2>1, <2>3, <2>4, CombinedAfterwards
  <2>6. \A x \in {s} : Simple(x)
    BY <2>4
  <2> QED
    BY <2>1, <2>5, <2>6, AfterwardsOrdered
<1> QED
  BY <1>1, <1>2

LEMMA InequalityOrdered ==
  ASSUME NEW l \in Value, NEW r \in Value,
         NEW o, o = Then(IsAbstractSameValue(l, r), LAMBDA b : Gives(Bool(~b.bool)))
  PROVE  Ordered(o.calls, l, r, TRUE)
<1>1. PICK e : e = IsAbstractSameValue(l, r)
  OBVIOUS
<1>2. PICK g : g = Gives(Bool(~e.value.bool))
  OBVIOUS
<1>3. o = IF e.kind = "value" THEN After(e, g) ELSE e
  BY <1>1, <1>2 DEF Then
<1>4. Ordered(e.calls, l, r, TRUE)
  BY <1>1, EqualityOrdered
<1>5. e.calls \in Seq(CallSet)
  BY <1>4 DEF Ordered
<1>6. Simple(g)
  BY <1>2, SimpleGives
<1>7. After(e, g) = Ending(g.kind, g.value, e.calls)
  BY <1>5, <1>6, AfterSimple
<1>8. After(e, g).calls = e.calls
  BY <1>7, EndingParts
<1> QED
  BY <1>3, <1>4, <1>8

LEMMA InstanceOfSimple ==
  ASSUME NEW l, NEW r PROVE Simple(InstanceOf(l, r))
  BY SimpleGives DEF InstanceOf

LEMMA InOrdered ==
  ASSUME NEW l \in Value, NEW r \in Value, NEW two
  PROVE  Ordered(InOperator(l, r).calls, l, r, two)
<1>1. PICK P : P = ToPrimitive(l, "string")
  OBVIOUS
<1>2. PICK N : N = ToString(l)
  OBVIOUS
<1>3. N.calls = P.calls
  BY <1>1, <1>2, StringIs, EndingParts
<1>4. ProperCalls(P.calls, Subject(l)) /\ WellFormed(P)
  BY <1>1, PrimitiveCalls, PrimitiveWellFormed
<1>5. PICK s : InOperator(l, r) = After(N, s) /\ Simple(s)
  <2>1. CASE N.kind # "value" \/ IsNothing(r)
    BY <1>2, <2>1, SimpleGives DEF InOperator
  <2>2. CASE ~(N.kind # "value" \/ IsNothing(r))
    <3>1. PICK b : InOperator(l, r) = After(N, Gives(b))
      BY <1>2, <2>2 DEF InOperator
    <3> QED
      BY <3>1, SimpleGives
  <2> QED
    BY <2>1, <2>2
<1>6. N.calls \in Seq(CallSet)
  BY <1>3, <1>4 DEF WellFormed
<1>7. After(N, s) = Ending(s.kind, s.value, N.calls)
  BY <1>5, <1>6, AfterSimple
<1>8. InOperator(l, r).calls = P.calls
  BY <1>3, <1>5, <1>7, EndingParts
<1> QED
  BY <1>4, <1>8, SingleOrdered

\* Operators on one operand.
LEMMA UnaryOrdered ==
  ASSUME NEW v \in Value, NEW op \in UnaryOperators, NEW o \in UnaryExpression(op, v)
  PROVE  Ordered(o.calls, v, v, FALSE)
<1>1. PICK P : P = ToPrimitive(v, "number")
  OBVIOUS
<1>2. PICK N : N = ToNumber(v)
  OBVIOUS
<1>3. N.calls = P.calls
  BY <1>1, <1>2, NumberIs, EndingParts
<1>4. ProperCalls(P.calls, Subject(v)) /\ WellFormed(P)
  BY <1>1, PrimitiveCalls, PrimitiveWellFormed
<1>5. N.calls \in Seq(CallSet)
  BY <1>3, <1>4 DEF WellFormed
<1>6. o = N \/ \E z : o = Gives(z) \/ o = After(N, Gives(z))
  <2>1. CASE op = "void"
    BY <2>1 DEF UnaryExpression
  <2>2. CASE op = "!"
    BY <2>2 DEF UnaryExpression
  <2>3. CASE op = "?:"
    BY <2>3 DEF UnaryExpression
  <2>4. CASE op = "+"
    BY <1>2, <2>4 DEF UnaryExpression, Then
  <2>5. CASE op = "-"
    BY <1>2, <2>5 DEF UnaryExpression, Then
  <2>6. CASE op = "~"
    BY <1>2, <2>6 DEF UnaryExpression
  <2> QED
    BY <2>1, <2>2, <2>3, <2>4, <2>5, <2>6 DEF UnaryOperators
<1>7. ASSUME NEW z PROVE After(N, Gives(z)).calls = N.calls
  <2>1. PICK s : s = Gives(z)
    OBVIOUS
  <2>2. After(N, s) = Ending(s.kind, s.value, N.calls)
    BY <1>5, <2>1, AfterSimple, SimpleGives
  <2> QED
    BY <2>1, <2>2, EndingParts
<1>8. o.calls = P.calls \/ o.calls = <<>>
  BY <1>3, <1>6, <1>7, SimpleGives
<1> QED
  BY <1>4, <1>8, NoCalls, SingleOrdered

-----------------------------------------------------------------------------
\* An evaluation under way comes from the operator it names.
BinaryOperators == Converting \cup Equalities \cup {"instanceof", "in"}

OutcomesOf(e) ==
  CASE e.form = "binary" -> BinaryExpression(e.op, e.left, e.right)
    [] e.form = "compound" -> ApplyAssignmentOperator(e.op, e.left, e.right)
    [] e.form = "unary" -> UnaryExpression(e.op, e.left)
    [] e.form = "update" -> {ApplyUpdateOperator(e.op, e.left)}
    [] e.form = "typeof" -> {Gives(Str(Word(TypeOf(e.left))))}
    [] e.form = "literal" -> {Gives(NumberLiteral(NumberOf(e.left)))}

OperatorsOf(form) ==
  CASE form = "binary" -> BinaryOperators
    [] form = "compound" -> Arithmetic
    [] form = "unary" -> UnaryOperators
    [] form = "update" -> {"++", "--"}
    [] form = "typeof" -> {"typeof"}
    [] form = "literal" -> {"literal"}

Evaluated(e) ==
  /\ e.form \in {"binary", "compound", "unary", "update", "typeof", "literal"}
  /\ e.op \in OperatorsOf(e.form)
  /\ e.left \in Value /\ e.right \in Value
  /\ e.form \notin {"binary", "compound"} => e.right = e.left
  /\ e.form = "literal" => IsNumber(e.left)
  /\ e.outcome \in OutcomesOf(e)

Named(e) ==
  /\ e.form = "index"
  /\ \E k \in 0..MaxDigits : e.digits \in [1..k -> 0..9]
  /\ e.index = array_index(e.digits)

EvaluationInv == evaluation = NoEvaluation \/ Evaluated(evaluation) \/ Named(evaluation)

LEMMA EvaluatesGives ==
  ASSUME NEW form, NEW op, NEW l \in Value, NEW r \in Value, NEW S,
         form \in {"binary", "compound", "unary", "update", "typeof", "literal"},
         op \in OperatorsOf(form),
         form \notin {"binary", "compound"} => r = l,
         form = "literal" => IsNumber(l),
         Evaluates(form, op, l, r, S),
         S = OutcomesOf([form |-> form, op |-> op, left |-> l, right |-> r, outcome |-> NoEvaluation])
  PROVE  Evaluated(evaluation')
<1>1. PICK o \in S : evaluation' = [form |-> form, op |-> op, left |-> l, right |-> r, outcome |-> o]
  BY DEF Evaluates
<1>2. PICK e : e = evaluation'
  OBVIOUS
<1>3. PICK d : d = [form |-> form, op |-> op, left |-> l, right |-> r, outcome |-> NoEvaluation]
  OBVIOUS
<1>4. /\ e.form = form /\ e.op = op /\ e.left = l /\ e.right = r /\ e.outcome = o
      /\ d.form = form /\ d.op = op /\ d.left = l /\ d.right = r
  BY <1>1, <1>2, <1>3
<1>5. OutcomesOf(e) = OutcomesOf(d)
  BY <1>4 DEF OutcomesOf
<1>6. e.outcome \in OutcomesOf(e)
  BY <1>1, <1>3, <1>4, <1>5
<1> QED
  BY <1>2, <1>4, <1>6 DEF Evaluated

LEMMA EvaluateStep ==
  ASSUME Evaluate PROVE EvaluationInv'
<1>0. \A v \in Operands : v \in Value
  BY OperandsAssumption
<1>1. CASE \E l, r \in Operands :
             \E op \in Arithmetic \cup Relations \cup Equalities \cup {"instanceof", "in"} :
               EvaluateBinary(op, l, r)
  <2>1. PICK l \in Operands, r \in Operands,
             op \in Arithmetic \cup Relations \cup Equalities \cup {"instanceof", "in"} :
               EvaluateBinary(op, l, r)
    BY <1>1
  <2>2. op \in OperatorsOf("binary")
    BY DEF OperatorsOf, BinaryOperators, Converting
  <2>3. PICK e : e = [form |-> "binary", op |-> op, left |-> l, right |-> r, outcome |-> NoEvaluation]
    OBVIOUS
  <2>4. OutcomesOf(e) = BinaryExpression(op, l, r)
    BY <2>3 DEF OutcomesOf
  <2> QED
    BY <1>0, <2>1, <2>2, <2>3, <2>4, EvaluatesGives DEF EvaluateBinary, EvaluationInv
<1>2. CASE \E l, r \in Operands : \E op \in Arithmetic : EvaluateCompound(op, l, r)
  <2>1. PICK l \in Operands, r \in Operands, op \in Arithmetic : EvaluateCompound(op, l, r)
    BY <1>2
  <2>2. op \in OperatorsOf("compound")
    BY DEF OperatorsOf
  <2>3. PICK e : e = [form |-> "compound", op |-> op, left |-> l, right |-> r, outcome |-> NoEvaluation]
    OBVIOUS
  <2>4. OutcomesOf(e) = ApplyAssignmentOperator(op, l, r)
    BY <2>3 DEF OutcomesOf
  <2> QED
    BY <1>0, <2>1, <2>2, <2>3, <2>4, EvaluatesGives DEF EvaluateCompound, EvaluationInv
<1>3. CASE \E v \in Operands : \E op \in UnaryOperators : EvaluateUnary(op, v)
  <2>1. PICK v \in Operands, op \in UnaryOperators : EvaluateUnary(op, v)
    BY <1>3
  <2>2. op \in OperatorsOf("unary")
    BY DEF OperatorsOf
  <2>3. PICK e : e = [form |-> "unary", op |-> op, left |-> v, right |-> v, outcome |-> NoEvaluation]
    OBVIOUS
  <2>4. OutcomesOf(e) = UnaryExpression(op, v)
    BY <2>3 DEF OutcomesOf
  <2> QED
    BY <1>0, <2>1, <2>2, <2>3, <2>4, EvaluatesGives DEF EvaluateUnary, EvaluationInv
<1>4. CASE \E v \in Operands : \E op \in {"++", "--"} : EvaluateUpdate(op, v)
  <2>1. PICK v \in Operands, op \in {"++", "--"} : EvaluateUpdate(op, v)
    BY <1>4
  <2>2. op \in OperatorsOf("update")
    BY DEF OperatorsOf
  <2>3. PICK e : e = [form |-> "update", op |-> op, left |-> v, right |-> v, outcome |-> NoEvaluation]
    OBVIOUS
  <2>4. OutcomesOf(e) = {ApplyUpdateOperator(op, v)}
    BY <2>3 DEF OutcomesOf
  <2> QED
    BY <1>0, <2>1, <2>2, <2>3, <2>4, EvaluatesGives DEF EvaluateUpdate, EvaluationInv
<1>5. CASE \E v \in Operands : EvaluateTypeOf(v)
  <2>1. PICK v \in Operands : EvaluateTypeOf(v)
    BY <1>5
  <2>2. "typeof" \in OperatorsOf("typeof")
    BY DEF OperatorsOf
  <2>3. PICK e : e = [form |-> "typeof", op |-> "typeof", left |-> v, right |-> v, outcome |-> NoEvaluation]
    OBVIOUS
  <2>4. OutcomesOf(e) = {Gives(Str(Word(TypeOf(v))))}
    BY <2>3 DEF OutcomesOf
  <2> QED
    BY <1>0, <2>1, <2>2, <2>3, <2>4, EvaluatesGives DEF EvaluateTypeOf, EvaluationInv
<1>6. CASE \E v \in Operands : IsNumber(v) /\ EvaluateLiteral(v)
  <2>1. PICK v \in Operands : IsNumber(v) /\ EvaluateLiteral(v)
    BY <1>6
  <2>2. "literal" \in OperatorsOf("literal")
    BY DEF OperatorsOf
  <2>3. PICK e : e = [form |-> "literal", op |-> "literal", left |-> v, right |-> v, outcome |-> NoEvaluation]
    OBVIOUS
  <2>4. OutcomesOf(e) = {Gives(NumberLiteral(NumberOf(v)))}
    BY <2>3 DEF OutcomesOf
  <2> QED
    BY <1>0, <2>1, <2>2, <2>3, <2>4, EvaluatesGives DEF EvaluateLiteral, EvaluationInv
<1>7. CASE \E k \in 0..MaxDigits : \E digits \in [1..k -> 0..9] : NameElement(digits)
  BY <1>7 DEF NameElement, EvaluationInv, Named
<1> QED
  BY <1>1, <1>2, <1>3, <1>4, <1>5, <1>6, <1>7, Zenon DEF Evaluate

\* Whatever the operands and the methods of objects, what an operator has come to
\* is an outcome of the method of the evaluator that has its name, on the values
\* it was given (evalast.cc 516-835, 885-915, 1207-1214).
THEOREM OperatorsEvaluate == ExpressionSpec => []EvaluationInv
<1>1. ExpressionInit => EvaluationInv
  BY DEF ExpressionInit, Init, EvaluationInv
<1>2. EvaluationInv /\ [ExpressionNext]_<<evaluation, expression>> => EvaluationInv'
  <2> SUFFICES ASSUME EvaluationInv, [ExpressionNext]_<<evaluation, expression>>
               PROVE  EvaluationInv'
    OBVIOUS
  <2>1. CASE Next
    BY <2>1, EvaluateStep DEF Next, Proceed, EvaluationInv
  <2>2. CASE UNCHANGED evaluation
    BY <2>2 DEF EvaluationInv, Evaluated, Named
  <2> QED
    BY <2>1, <2>2 DEF ExpressionNext, Finish
<1> QED
  BY <1>1, <1>2, PTL DEF ExpressionSpec

LEMMA EvaluatedIfOutcome ==
  ASSUME EvaluationInv, HasOutcome PROVE Evaluated(E)
  BY DEF EvaluationInv, HasOutcome, Named, NoEvaluation, E

LEMMA SimpleOrdered ==
  ASSUME NEW o, Simple(o), NEW l, NEW r, NEW two
  PROVE  Ordered(o.calls, l, r, two)
<1>1. o.calls = <<>>
  BY EndingParts DEF Simple
<1> QED
  BY <1>1, NoCalls, SingleOrdered

LEMMA BinaryExpressionOrdered ==
  ASSUME NEW op \in BinaryOperators, NEW l \in Value, NEW r \in Value, NEW o \in BinaryExpression(op, l, r)
  PROVE  Ordered(o.calls, l, r, TRUE)
<1>1. CASE op \in Converting
  BY <1>1, BinaryOrdered
<1>2. CASE op \in {"===", "!=="}
  <2>1. Simple(o)
    BY <1>2, SimpleGives DEF BinaryExpression
  <2> QED
    BY <2>1, SimpleOrdered
<1>3. CASE op = "=="
  <2>1. o = IsAbstractSameValue(l, r)
    BY <1>3 DEF BinaryExpression
  <2> QED
    BY <2>1, EqualityOrdered
<1>4. CASE op = "!="
  <2>1. o = Then(IsAbstractSameValue(l, r), LAMBDA b : Gives(Bool(~b.bool)))
    BY <1>4 DEF BinaryExpression
  <2> QED
    BY <2>1, InequalityOrdered
<1>5. CASE op = "instanceof"
  <2>1. Simple(o)
    BY <1>5, InstanceOfSimple DEF BinaryExpression
  <2> QED
    BY <2>1, SimpleOrdered
<1>6. CASE op = "in"
  <2>1. o = InOperator(l, r)
    BY <1>6 DEF BinaryExpression
  <2> QED
    BY <2>1, InOrdered
<1> QED
  BY <1>1, <1>2, <1>3, <1>4, <1>5, <1>6 DEF BinaryOperators, Equalities

LEMMA EvaluatedOrdered ==
  ASSUME NEW e, Evaluated(e)
  PROVE  Ordered(e.outcome.calls, e.left, e.right, e.form \in {"binary", "compound"})
<1>1. PICK op, l, r, o : op = e.op /\ l = e.left /\ r = e.right /\ o = e.outcome
  OBVIOUS
<1>2. l \in Value /\ r \in Value
  BY <1>1 DEF Evaluated
<1>3. CASE e.form = "binary"
  <2>1. op \in BinaryOperators /\ o \in BinaryExpression(op, l, r)
    BY <1>1, <1>3 DEF Evaluated, OperatorsOf, OutcomesOf
  <2> QED
    BY <1>1, <1>2, <1>3, <2>1, BinaryExpressionOrdered
<1>4. CASE e.form = "compound"
  <2>1. op \in Arithmetic /\ o \in ApplyAssignmentOperator(op, l, r)
    BY <1>1, <1>4 DEF Evaluated, OperatorsOf, OutcomesOf
  <2> QED
    BY <1>1, <1>2, <1>4, <2>1, CompoundOrdered
<1>5. CASE e.form = "unary"
  <2>1. op \in UnaryOperators /\ o \in UnaryExpression(op, l) /\ r = l
    BY <1>1, <1>5 DEF Evaluated, OperatorsOf, OutcomesOf
  <2>2. (e.form \in {"binary", "compound"}) = FALSE
    BY <1>5
  <2>3. Ordered(o.calls, l, l, FALSE)
    BY <1>2, <2>1, UnaryOrdered
  <2> QED
    BY <1>1, <2>1, <2>2, <2>3
<1>6. CASE e.form \in {"update", "typeof", "literal"}
  <2>1. Simple(o)
    BY <1>1, <1>6, SimpleGives DEF Evaluated, OutcomesOf, ApplyUpdateOperator
  <2> QED
    BY <1>1, <1>6, <2>1, SimpleOrdered
<1> QED
  BY <1>3, <1>4, <1>5, <1>6 DEF Evaluated

\* For any operands and whatever the methods of objects do, no operator calls a
\* method after one that threw, or twice for an operand, or one of the left operand
\* after one of the right (context.cc 300-322, 594-659, evalast.cc 701-767, 812-834).
THEOREM OperatorsConvertInOrder == ExpressionSpec => []ConversionOrder
<1>1. EvaluationInv => ConversionOrder
  <2> SUFFICES ASSUME EvaluationInv, HasOutcome
               PROVE  ConversionOrder
    BY DEF ConversionOrder
  <2>1. Ordered(E.outcome.calls, E.left, E.right, E.form \in {"binary", "compound"})
    BY EvaluatedIfOutcome, EvaluatedOrdered
  <2> QED
    BY <2>1 DEF Ordered, ConversionOrder, TwoOperands
<1> QED
  BY <1>1, OperatorsEvaluate, PTL

-----------------------------------------------------------------------------
LEMMA EqualityEvaluated ==
  ASSUME EvaluationInv, HasOutcome, E.op \in Equalities
  PROVE  /\ E.form = "binary" /\ E.left \in Value /\ E.right \in Value
         /\ E.outcome \in BinaryExpression(E.op, E.left, E.right)
<1>1. Evaluated(E)
  BY EvaluatedIfOutcome
<1>2. E.form = "binary"
  BY <1>1 DEF Evaluated, OperatorsOf, Equalities, Arithmetic, IntOperators, UnaryOperators
<1> QED
  BY <1>1, <1>2 DEF Evaluated, OutcomesOf

\* On any two values, == and === and their negations call what the standard calls,
\* in its order, and give what it gives; but for two booleans, undefined against an
\* object, and text that is no number (context.cc 539-659).
THEOREM EqualityImplementsES5 == ExpressionSpec => []EqualityAsES5
<1>1. EvaluationInv => EqualityAsES5
  <2> SUFFICES ASSUME EvaluationInv, HasOutcome, E.op \in Equalities, ~Departs
               PROVE  SameOutcome(E.outcome, Reference)
    BY DEF EqualityAsES5
  <2>1. PICK op, l, r, o : op = E.op /\ l = E.left /\ r = E.right /\ o = E.outcome
    OBVIOUS
  <2>2. /\ E.form = "binary" /\ l \in Value /\ r \in Value
        /\ o \in BinaryExpression(op, l, r) /\ op \in Equalities
    BY <2>1, EqualityEvaluated
  <2>3. Reference = ES5Binary(op, l, r)
    BY <2>1, <2>2 DEF Reference, TwoOperands
  <2>4. CASE op \in {"===", "!=="}
    <3>1. ~(l.is = "bool" /\ r.is = "bool")
      BY <2>1, <2>2, <2>4 DEF Departs, Relations
    <3>2. IsStrictSameValue(l, r) = ES5Strict(l, r)
      BY <2>2, <3>1, StrictEqualityAsES5
    <3>3. CASE op = "==="
      <4>1. o = Gives(Bool(IsStrictSameValue(l, r)))
        BY <2>2, <3>3 DEF BinaryExpression
      <4>2. Reference = Gives(Bool(ES5Strict(l, r)))
        BY <2>3, <3>3 DEF ES5Binary
      <4> QED
        BY <2>1, <3>2, <4>1, <4>2 DEF SameOutcome
    <3>4. CASE op = "!=="
      <4>1. o = Gives(Bool(~IsStrictSameValue(l, r)))
        BY <2>2, <3>4 DEF BinaryExpression
      <4>2. Reference = Gives(Bool(~ES5Strict(l, r)))
        BY <2>3, <3>4 DEF ES5Binary
      <4> QED
        BY <2>1, <3>2, <4>1, <4>2 DEF SameOutcome
    <3> QED
      BY <2>4, <3>3, <3>4
  <2>5. CASE op \in {"==", "!="}
    <3>1. L = ToPrimitive(l, "none").value /\ R = ToPrimitive(r, "none").value
      BY <2>1, <2>2 DEF L, R, Primitive
    <3>2. /\ ~(IsNothing(l) /\ IsObject(r))
          /\ ~(IsString(L) # IsString(R) /\ (Misread(L) \/ Misread(R)))
      BY <2>1, <2>2, <2>5 DEF Departs, Relations
    <3>3. IsAbstractSameValue(l, r) = ES5Equal(l, r)
      BY <2>2, <3>1, <3>2, AbstractEqualityAsES5
    <3>4. CASE op = "=="
      <4>1. o = IsAbstractSameValue(l, r)
        BY <2>2, <3>4 DEF BinaryExpression
      <4>2. Reference = ES5Equal(l, r)
        BY <2>3, <3>4 DEF ES5Binary
      <4> QED
        BY <2>1, <3>3, <4>1, <4>2 DEF SameOutcome
    <3>5. CASE op = "!="
      <4>1. o = Then(IsAbstractSameValue(l, r), LAMBDA b : Gives(Bool(~b.bool)))
        BY <2>2, <3>5 DEF BinaryExpression
      <4>2. Reference = Then(ES5Equal(l, r), LAMBDA b : Gives(Bool(~b.bool)))
        BY <2>3, <3>5 DEF ES5Binary
      <4>3. o = Reference
        BY <3>3, <4>1, <4>2 DEF Then
      <4> QED
        BY <2>1, <4>3 DEF SameOutcome
    <3> QED
      BY <2>5, <3>4, <3>5
  <2> QED
    BY <2>2, <2>4, <2>5 DEF Equalities
<1> QED
  BY <1>1, OperatorsEvaluate, PTL

-----------------------------------------------------------------------------
\* Numbers.
LEMMA PowerOfTwo ==
  ASSUME NEW k \in Nat PROVE 2^k \in Nat \ {0}
<1>1. IsFiniteSet(1..k) /\ Cardinality(1..k) = k
  <2>1. (IF 1 > k THEN 0 ELSE k - 1 + 1) = k
    OBVIOUS
  <2> QED
    BY <2>1, FS_Interval
<1>2. IsFiniteSet(SUBSET (1..k)) /\ Cardinality(SUBSET (1..k)) = 2^k
  BY <1>1, FS_SUBSET
<1>3. {} \in SUBSET (1..k)
  OBVIOUS
<1>4. Cardinality(SUBSET (1..k)) \in Nat /\ Cardinality(SUBSET (1..k)) # 0
  BY <1>2, <1>3, FS_CardinalityType, FS_EmptySet
<1> QED
  BY <1>2, <1>4

LEMMA PowerDoubles ==
  ASSUME NEW k \in Nat PROVE 2^(k + 1) = 2 * 2^k
<1> DEFINE A == SUBSET (1..k)
           B == {S \cup {k + 1} : S \in A}
<1>1. /\ IsFiniteSet(1..k) /\ Cardinality(1..k) = k
      /\ IsFiniteSet(1..(k + 1)) /\ Cardinality(1..(k + 1)) = k + 1
  <2>1. (IF 1 > k THEN 0 ELSE k - 1 + 1) = k /\ (IF 1 > k + 1 THEN 0 ELSE k + 1 - 1 + 1) = k + 1
    OBVIOUS
  <2> QED
    BY <2>1, FS_Interval
<1>2. /\ IsFiniteSet(A) /\ Cardinality(A) = 2^k
      /\ IsFiniteSet(SUBSET (1..(k + 1))) /\ Cardinality(SUBSET (1..(k + 1))) = 2^(k + 1)
  BY <1>1, FS_SUBSET
<1>3. SUBSET (1..(k + 1)) = A \cup B
  <2>1. ASSUME NEW S \in SUBSET (1..(k + 1)) PROVE S \in A \cup B
    <3>1. CASE k + 1 \in S
      <4>1. S \ {k + 1} \in A /\ S = (S \ {k + 1}) \cup {k + 1}
        BY <3>1
      <4> QED
        BY <4>1
    <3>2. CASE k + 1 \notin S
      BY <3>2
    <3> QED
      BY <3>1, <3>2
  <2>2. ASSUME NEW S \in A \cup B PROVE S \in SUBSET (1..(k + 1))
    OBVIOUS
  <2> QED
    BY <2>1, <2>2
<1>4. A \cap B = {}
  <2>1. \A S \in A : k + 1 \notin S
    OBVIOUS
  <2>2. \A S \in B : k + 1 \in S
    OBVIOUS
  <2> QED
    BY <2>1, <2>2
<1>5. IsFiniteSet(B) /\ Cardinality(B) = Cardinality(A)
  <2> DEFINE f == [S \in A |-> S \cup {k + 1}]
  <2>1. f \in Bijection(A, B)
    <3>1. \A S, T \in A : f[S] = f[T] => S = T
      <4> SUFFICES ASSUME NEW S \in A, NEW T \in A, S \cup {k + 1} = T \cup {k + 1} PROVE S = T
        OBVIOUS
      <4>1. k + 1 \notin S /\ k + 1 \notin T
        OBVIOUS
      <4> QED
        BY <4>1
    <3>2. f \in [A -> B] /\ \A t \in B : \E s \in A : f[s] = t
      OBVIOUS
    <3> HIDE DEF f, A, B
    <3> QED
      BY <3>1, <3>2 DEF Bijection, Injection, Surjection, IsInjective
  <2> HIDE DEF f, A, B
  <2>2. ExistsBijection(A, B)
    BY <2>1 DEF ExistsBijection
  <2> QED
    BY <1>2, <2>2, FS_Bijection
<1>6. Cardinality(A \cup B) = Cardinality(A) + Cardinality(B)
  <2> HIDE DEF A, B
  <2>1. Cardinality(A) \in Nat /\ Cardinality(B) \in Nat
    BY <1>2, <1>5, FS_CardinalityType
  <2>2. Cardinality(A \cap B) = 0
    BY <1>4, FS_EmptySet
  <2>3. Cardinality(A \cup B) = Cardinality(A) + Cardinality(B) - Cardinality(A \cap B)
    BY <1>2, <1>5, FS_Union
  <2> QED
    BY <1>2, <1>5, <2>1, <2>2, <2>3
<1>7. 2^k \in Nat
  BY PowerOfTwo
<1>8. Cardinality(SUBSET (1..(k + 1))) = Cardinality(A) + Cardinality(B)
  BY <1>3, <1>6
<1>9. PICK p, q : p = 2^k /\ q = 2^(k + 1)
  OBVIOUS
<1> HIDE DEF A, B
<1>10. q = p + p /\ p \in Nat
  BY <1>2, <1>5, <1>7, <1>8, <1>9
<1>11. q = 2 * p
  BY <1>10
<1> QED
  BY <1>9, <1>11

\* Half is the number of ints that are not negative.
Half == 2^(Width - 1)

LEMMA IntsAre ==
  /\ Half \in Nat \ {0} /\ 2^Width = 2 * Half
  /\ IntMin = -Half /\ IntMax = Half - 1 /\ Ints = (-Half)..(Half - 1) /\ Ints \subseteq Int
<1>1. Width - 1 \in Nat /\ (Width - 1) + 1 = Width
  BY ConversionBoundsAssumption
<1>2. Half \in Nat \ {0}
  BY <1>1, PowerOfTwo DEF Half
<1>3. 2^Width = 2 * Half
  <2>1. 2^((Width - 1) + 1) = 2 * 2^(Width - 1)
    BY <1>1, PowerDoubles
  <2> QED
    BY <1>1, <2>1 DEF Half
<1> QED
  BY <1>2, <1>3 DEF IntMin, IntMax, Ints, Half

LEMMA WrappedIs ==
  ASSUME NEW n \in Ints PROVE Wrapped(n) = n
<1>1. PICK h, w : h = Half /\ w = 2^Width
  OBVIOUS
<1>2. h \in Nat \ {0} /\ w = 2 * h /\ IntMin = -h /\ n \in (-h)..(h - 1)
  BY <1>1, IntsAre
<1>3. (n - IntMin) % w = n - IntMin
  BY <1>2
<1> QED
  BY <1>1, <1>2, <1>3 DEF Wrapped

\* The greatest element.
LEMMA MaxIs ==
  ASSUME NEW S \in SUBSET Int, NEW m \in S, \A y \in S : y <= m
  PROVE  Max(S) = m
<1>1. PICK x : x = Max(S)
  OBVIOUS
<1>2. x \in S /\ \A y \in S : x >= y
  BY <1>1 DEF Max
<1> QED
  BY <1>1, <1>2

LEMMA LowestWhole ==
  ASSUME NEW n \in Int PROVE Lowest(n, 1) = Whole(n)
<1>1. PICK S : S = {k \in 1..1 : n % k = 0 /\ 1 % k = 0}
  OBVIOUS
<1>2. S \in SUBSET Int /\ 1 \in S /\ \A y \in S : y <= 1
  BY <1>1
<1>3. Max(S) = 1
  BY <1>2, MaxIs
<1>4. Lowest(n, 1) = <<n \div 1, 1 \div 1>>
  BY <1>1, <1>3 DEF Lowest
<1> QED
  BY <1>4 DEF Whole

LEMMA WholeArithmetic ==
  ASSUME NEW m \in Int, NEW n \in Int
  PROVE  /\ Plus(Whole(m), Whole(n)) = Whole(m + n)
         /\ Times(Whole(m), Whole(n)) = Whole(m * n)
         /\ Negated(Whole(m)) = Whole(-m)
         /\ IsFinite(Whole(m)) /\ IsWhole(Whole(m)) /\ Truncated(Whole(m)) = m
<1>1. Whole(m)[1] = m /\ Whole(m)[2] = 1 /\ Whole(n)[1] = n /\ Whole(n)[2] = 1
  BY DEF Whole
<1>2. IsFinite(Whole(m)) /\ IsWhole(Whole(m))
  BY <1>1 DEF IsFinite, IsWhole
<1>3. Plus(Whole(m), Whole(n)) = Lowest(m * 1 + n * 1, 1 * 1)
  BY <1>1, <1>2, Zenon DEF Plus
<1>4. Times(Whole(m), Whole(n)) = Lowest(m * n, 1 * 1)
  BY <1>1, Zenon DEF Times
<1>5. m * 1 + n * 1 = m + n /\ 1 * 1 = 1 /\ m + n \in Int /\ m * n \in Int
  OBVIOUS
<1>6. Negated(Whole(m)) = Whole(-m)
  BY <1>1 DEF Negated, Whole
<1>7. Truncated(Whole(m)) = m
  BY <1>1 DEF Truncated, Sgn, Magnitude
<1> QED
  BY <1>2, <1>3, <1>4, <1>5, <1>6, <1>7, LowestWhole

\* The part of Lowest that is a greatest common divisor.
Common(n, d) == {k \in 1..d : n % k = 0 /\ d % k = 0}

LEMMA GreatestCommon ==
  ASSUME NEW n \in Int, NEW d \in Nat \ {0}
  PROVE  \E g \in Common(n, d) :
           /\ \A k \in Common(n, d) : k <= g
           /\ Lowest(n, d) = <<n \div g, d \div g>>
<1>1. 1 \in Common(n, d)
  BY DEF Common
<1>2. Common(n, d) \in SUBSET (1..d)
  BY DEF Common
<1>3. PICK g \in Common(n, d) : \A k \in Common(n, d) : k <= g
  BY <1>1, <1>2, Maximum
<1>4. Max(Common(n, d)) = g
  BY <1>2, <1>3, MaxIs
<1>5. Lowest(n, d) = <<n \div Max(Common(n, d)), d \div Max(Common(n, d))>>
  BY DEF Lowest, Common
<1> QED
  BY <1>3, <1>4, <1>5

LEMMA DivisorSmall ==
  ASSUME NEW d \in Nat \ {0}, NEW c \in Nat \ {0}, d % c = 0
  PROVE  c \in 1..d /\ d = c * (d \div c) /\ d \div c \in Nat \ {0}
<1>1. PICK q : q = d \div c
  OBVIOUS
<1>2. q \in Nat /\ d = c * q
  BY <1>1
<1>3. q # 0
  BY <1>2
<1>4. c <= c * q
  BY <1>2, <1>3
<1> QED
  BY <1>1, <1>2, <1>3, <1>4

\* Lowest terms have no common divisor.
LEMMA LowestTerms ==
  ASSUME NEW x \in Number, x[2] # 0, NEW c \in Nat \ {0}, x[1] % c = 0, x[2] % c = 0
  PROVE  c = 1
<1>1. PICK n, d : n = x[1] /\ d = x[2]
  OBVIOUS
<1>2. n \in Int /\ d \in Nat \ {0} /\ x = <<n, d>> /\ Lowest(n, d) = <<n, d>>
  BY <1>1 DEF Number
<1>3. PICK g \in Common(n, d) : (\A k \in Common(n, d) : k <= g) /\ Lowest(n, d) = <<n \div g, d \div g>>
  BY <1>2, GreatestCommon
<1>4. d = d \div g /\ d % g = 0 /\ g \in Nat \ {0}
  BY <1>2, <1>3 DEF Common
<1>5. d = g * d
  BY <1>2, <1>4, DivisorSmall
<1>6. g = 1
  BY <1>2, <1>4, <1>5
<1>7. c \in Common(n, d)
  BY <1>1, <1>2, DivisorSmall DEF Common
<1> QED
  BY <1>3, <1>6, <1>7 DEF Common

\* What makes multiples of a fraction whole is a multiple of its denominator.
LEMMA DenominatorDivides ==
  ASSUME NEW x \in Number, x[2] # 0, NEW k \in Nat \ {0}, NEW m \in Int, k * x[1] = x[2] * m
  PROVE  k % x[2] = 0
<1>1. PICK n, d : n = x[1] /\ d = x[2]
  OBVIOUS
<1>2. n \in Int /\ d \in Nat \ {0}
  BY <1>1 DEF Number
<1> DEFINE S == {j \in Nat \ {0} : \E w \in Int : j * n = d * w}
<1>3. d \in S /\ k \in S /\ S \in SUBSET Nat
  <2>1. d * n = d * n /\ n \in Int
    BY <1>2
  <2> QED
    BY <1>1, <1>2, <2>1
<1>4. PICK a \in S : \A j \in S : a <= j
  <2> HIDE DEF S
  <2> QED
    BY <1>3, Minimum
<1>5. PICK v \in Int : a * n = d * v
  BY <1>4
<1>6. a \in Nat \ {0}
  BY <1>4
<1>7. ASSUME NEW j \in S PROVE j % a = 0
  <2>1. PICK w \in Int : j * n = d * w
    OBVIOUS
  <2>2. PICK q, r : q = j \div a /\ r = j % a
    OBVIOUS
  <2>3. j \in Nat /\ q \in Nat /\ r \in Nat /\ r < a /\ j = a * q + r
    BY <1>6, <2>2
  <2>4. r * n = d * (w - q * v)
    <3>1. j * n = (a * q + r) * n
      BY <2>3
    <3>2. (a * q + r) * n = q * (a * n) + r * n
      BY <1>2, <1>6, <2>3
    <3>3. r * n = d * w - q * (d * v)
      BY <1>2, <1>5, <2>1, <2>3, <3>1, <3>2
    <3>4. d * w - q * (d * v) = d * (w - q * v)
      BY <1>2, <2>1, <2>3, <1>5
    <3> QED
      BY <3>3, <3>4
  <2>5. r # 0 => r \in S
    <3>1. w - q * v \in Int
      BY <2>1, <2>3, <1>5
    <3> QED
      BY <2>3, <2>4, <3>1
  <2>6. r = 0
    BY <1>4, <1>6, <2>3, <2>5
  <2> QED
    BY <2>2, <2>6
<1>8. d % a = 0 /\ k % a = 0
  BY <1>3, <1>7
<1>9. PICK c : c = d \div a
  OBVIOUS
<1>10. c \in Nat \ {0} /\ d = a * c
  BY <1>2, <1>6, <1>8, <1>9, DivisorSmall
<1>11. n = c * v
  <2>1. a * n = a * (c * v)
    <3>1. (a * c) * v = a * (c * v)
      BY <1>5, <1>6, <1>10
    <3> QED
      BY <1>5, <1>10, <3>1
  <2>2. c * v \in Int
    BY <1>5, <1>10
  <2> HIDE DEF S
  <2> QED
    BY <1>2, <1>6, <2>1, <2>2
<1>12. n % c = 0 /\ d % c = 0
  BY <1>2, <1>5, <1>6, <1>10, <1>11
<1>13. c = 1
  BY <1>1, <1>10, <1>12, LowestTerms
<1>14. d = a
  BY <1>6, <1>10, <1>13
<1> QED
  BY <1>1, <1>8, <1>14

\* A number is written in lowest terms in one way.
LEMMA SameFraction ==
  ASSUME NEW x \in Number, NEW y \in Number, x[2] # 0, y[2] # 0, x[1] * y[2] = y[1] * x[2]
  PROVE  x = y
<1>1. PICK m, d, n, e : m = x[1] /\ d = x[2] /\ n = y[1] /\ e = y[2]
  OBVIOUS
<1>2. /\ m \in Int /\ n \in Int /\ d \in Nat \ {0} /\ e \in Nat \ {0}
      /\ x = <<m, d>> /\ y = <<n, e>> /\ m * e = n * d
  BY <1>1 DEF Number
<1>3. e * m = d * n /\ d * n = e * m
  BY <1>2
<1>4. e % d = 0
  BY <1>1, <1>2, <1>3, DenominatorDivides
<1>5. d % e = 0
  BY <1>1, <1>2, <1>3, DenominatorDivides
<1>6. d = e
  <2>1. d \in 1..e /\ e \in 1..d
    BY <1>2, <1>4, <1>5, DivisorSmall
  <2> QED
    BY <2>1
<1>7. m = n
  BY <1>2, <1>3, <1>6
<1> QED
  BY <1>2, <1>6, <1>7

LEMMA NumberMembers ==
  /\ NaN \in Number /\ Infinity \in Number /\ Negated(Infinity) \in Number
  /\ \A n \in Int : Whole(n) \in Number
<1>1. \A n \in Int : Whole(n) \in Number
  BY LowestWhole DEF Number, Whole
<1>2. Lowest(0, 0) = <<0, 0>> /\ Lowest(1, 0) = <<1, 0>> /\ Lowest(-1, 0) = <<-1, 0>>
  BY DEF Lowest, Sgn
<1>3. NaN \in Number /\ Infinity \in Number
  BY <1>2 DEF Number, NaN, Infinity
<1>4. Negated(Infinity) = <<-1, 0>>
  BY DEF Negated, Infinity
<1>5. <<-1, 0>> \in Number
  BY <1>2 DEF Number
<1> QED
  BY <1>1, <1>3, <1>4, <1>5

\* The infinite numbers.
LEMMA InfiniteCases ==
  ASSUME NEW x \in Number, x[2] = 0
  PROVE  x = NaN \/ x = Infinity \/ x = <<-1, 0>>
<1>1. x[1] \in Int /\ x = <<x[1], x[2]>> /\ x = Lowest(x[1], x[2])
  BY DEF Number
<1>2. x = <<Sgn(x[1]), 0>>
  BY <1>1 DEF Lowest
<1>3. Sgn(x[1]) \in {-1, 0, 1}
  BY <1>1 DEF Sgn
<1> QED
  BY <1>2, <1>3 DEF NaN, Infinity

LEMMA NumberParts ==
  ASSUME NEW x \in Number
  PROVE  x[1] \in Int /\ x[2] \in Nat /\ x = <<x[1], x[2]>>
  BY DEF Number

\* Numbers that are not NaN are in one order.
LEMMA OrderTotal ==
  ASSUME NEW x \in Number, NEW y \in Number, x # NaN, y # NaN
  PROVE  /\ Less(x, y) \/ Less(y, x) \/ x = y
         /\ ~(Less(x, y) /\ Less(y, x)) /\ ~Less(x, x)
<1>1. CASE x[2] # 0 /\ y[2] # 0
  <2>1. IsFinite(x) /\ IsFinite(y)
    BY <1>1, NumberParts DEF IsFinite
  <2>2. PICK a, b : a = x[1] * y[2] /\ b = y[1] * x[2]
    OBVIOUS
  <2>3. a \in Int /\ b \in Int
    BY <2>2, NumberParts
  <2>4. (Less(x, y) <=> a < b) /\ (Less(y, x) <=> b < a)
    BY <2>1, <2>2 DEF Less
  <2>5. a = b => x = y
    BY <1>1, <2>2, SameFraction
  <2>6. ~Less(x, x)
    <3>1. x[1] * x[2] \in Int
      BY NumberParts
    <3>2. PICK c : c = x[1] * x[2]
      OBVIOUS
    <3>3. Less(x, x) <=> c < c
      BY <2>1, <3>2 DEF Less
    <3> QED
      BY <3>1, <3>2, <3>3
  <2> QED
    BY <2>3, <2>4, <2>5, <2>6
<1>2. CASE x[2] = 0 /\ y[2] # 0
  <2>1. IsFinite(y) /\ ~IsFinite(x)
    BY <1>2, NumberParts DEF IsFinite
  <2>2. x = <<1, 0>> \/ x = <<-1, 0>>
    BY <1>2, InfiniteCases DEF Infinity
  <2>3. y[1] \in Int /\ y[2] \in Nat /\ y[2] > 0
    BY <1>2, NumberParts
  <2>4. (Less(x, y) <=> x[1] * y[2] < y[1] * x[2]) /\ (Less(y, x) <=> y[1] * x[2] < x[1] * y[2])
    BY <2>1 DEF Less
  <2>5. y[1] * x[2] = 0 /\ x[1] * y[2] \in {y[2], -y[2]}
    BY <2>2, <2>3
  <2>6. ~Less(x, x)
    BY <2>1, <2>2 DEF Less
  <2> QED
    BY <2>3, <2>4, <2>5, <2>6
<1>3. CASE x[2] # 0 /\ y[2] = 0
  <2>1. IsFinite(x) /\ ~IsFinite(y)
    BY <1>3, NumberParts DEF IsFinite
  <2>2. y = <<1, 0>> \/ y = <<-1, 0>>
    BY <1>3, InfiniteCases DEF Infinity
  <2>3. x[1] \in Int /\ x[2] \in Nat /\ x[2] > 0
    BY <1>3, NumberParts
  <2>4. (Less(x, y) <=> x[1] * y[2] < y[1] * x[2]) /\ (Less(y, x) <=> y[1] * x[2] < x[1] * y[2])
    BY <2>1 DEF Less
  <2>5. x[1] * y[2] = 0 /\ y[1] * x[2] \in {x[2], -x[2]}
    BY <2>2, <2>3
  <2>6. ~Less(x, x)
    <3>1. PICK c : c = x[1] * x[2]
      OBVIOUS
    <3>2. c \in Int
      BY <2>3, <3>1
    <3>3. Less(x, x) <=> c < c
      BY <2>1, <3>1 DEF Less
    <3> QED
      BY <3>2, <3>3
  <2> QED
    BY <2>3, <2>4, <2>5, <2>6
<1>4. CASE x[2] = 0 /\ y[2] = 0
  <2>1. (x = <<1, 0>> \/ x = <<-1, 0>>) /\ (y = <<1, 0>> \/ y = <<-1, 0>>)
    BY <1>4, InfiniteCases DEF Infinity
  <2>2. ~IsFinite(x) /\ ~IsFinite(y)
    BY <1>4 DEF IsFinite
  <2>3. (Less(x, y) <=> x[1] < y[1]) /\ (Less(y, x) <=> y[1] < x[1]) /\ (Less(x, x) <=> x[1] < x[1])
    BY <2>2 DEF Less
  <2> QED
    BY <2>1, <2>3
<1> QED
  BY <1>1, <1>2, <1>3, <1>4

\* 11.8.5
LEMMA RelationAsES5 ==
  ASSUME NEW op \in Relations, NEW x \in Number, NEW y \in Number
  PROVE  Related(op, x, y) <=> ES5Relation(op, x, y)
<1>1. CASE op = "<"
  BY <1>1 DEF Related, ES5Relation
<1>2. CASE op = ">"
  BY <1>2 DEF Related, ES5Relation
<1>3. CASE op \in {"<=", ">="}
  <2>1. CASE x = NaN \/ y = NaN
    <3>1. ~Less(x, y) /\ ~Less(y, x) /\ ~SameNumber(x, y)
      BY <2>1 DEF Less, SameNumber
    <3> QED
      BY <1>3, <2>1, <3>1 DEF Related, ES5Relation
  <2>2. CASE x # NaN /\ y # NaN
    <3>1. /\ Less(x, y) \/ Less(y, x) \/ x = y
          /\ ~(Less(x, y) /\ Less(y, x)) /\ ~Less(x, x)
      BY <2>2, OrderTotal
    <3>2. SameNumber(x, y) <=> x = y
      BY <2>2 DEF SameNumber
    <3>3. CASE op = "<="
      <4>1. Related(op, x, y) <=> Less(x, y) \/ SameNumber(x, y)
        BY <3>3 DEF Related
      <4>2. ES5Relation(op, x, y) <=> ~Less(y, x)
        BY <2>2, <3>3 DEF ES5Relation
      <4> QED
        BY <3>1, <3>2, <4>1, <4>2
    <3>4. CASE op = ">="
      <4>1. Related(op, x, y) <=> Less(y, x) \/ SameNumber(x, y)
        BY <3>4 DEF Related
      <4>2. ES5Relation(op, x, y) <=> ~Less(x, y)
        BY <2>2, <3>4 DEF ES5Relation
      <4> QED
        BY <3>1, <3>2, <4>1, <4>2
    <3> QED
      BY <1>3, <3>3, <3>4
  <2> QED
    BY <2>1, <2>2
<1> QED
  BY <1>1, <1>2, <1>3 DEF Relations

\* What a primitive value is as a number.
LEMMA NumberTyped ==
  ASSUME NEW p \in Value, ~IsObject(p)
  PROVE  PrimitiveToNumber(p) \in Number
<1>1. CASE p = Undefined
  BY <1>1, NumberMembers DEF PrimitiveToNumber, Undefined, IsNumber, IsString
<1>2. CASE p = Null
  BY <1>2, NumberMembers DEF PrimitiveToNumber, Null, IsNumber, IsString
<1>3. CASE p.is = "bool" /\ p.bool \in BOOLEAN
  BY <1>3, NumberMembers DEF PrimitiveToNumber, IsNumber, IsString
<1>4. CASE p.is = "smi" /\ p.int \in Ints
  <2>1. PrimitiveToNumber(p) = Whole(p.int)
    BY <1>4 DEF PrimitiveToNumber, IsNumber, IsString, NumberOf
  <2> QED
    BY <1>4, <2>1, NumberMembers, IntsAre
<1>5. CASE p.is = "double" /\ p.number \in Number
  BY <1>5 DEF PrimitiveToNumber, IsNumber, IsString, NumberOf
<1>6. CASE p.is = "string" /\ p.text \in Text
  <2>1. PrimitiveToNumber(p) = strtod(p.text)
    BY <1>6 DEF PrimitiveToNumber, IsNumber, IsString
  <2>2. CASE p.text = <<>>
    BY <2>1, <2>2, NumberMembers DEF strtod
  <2>3. CASE p.text # <<>>
    <3>1. p.text[1] \in [number : Number, word : STRING]
      <4>1. PICK S, t : S = [number : Number, word : STRING] /\ t = p.text
        OBVIOUS
      <4>2. t \in Seq(S) /\ t # <<>>
        BY <1>6, <2>3, <4>1 DEF Text
      <4>3. Len(t) \in Nat /\ Len(t) # 0 /\ DOMAIN t = 1..Len(t)
        BY <4>2
      <4>4. t[1] \in S
        BY <4>2, <4>3
      <4> QED
        BY <4>1, <4>4
    <3>2. PICK w : w = p.text[1]
      OBVIOUS
    <3>3. w.number \in Number
      BY <3>1, <3>2
    <3>4. strtod(p.text) \in {w.number, Infinity, Negated(Infinity), NaN, Whole(0)}
      BY <2>3, <3>2 DEF strtod
    <3> QED
      BY <2>1, <3>3, <3>4, NumberMembers
  <2> QED
    BY <2>2, <2>3
<1> QED
  BY <1>1, <1>2, <1>3, <1>4, <1>5, <1>6, ValueCases DEF IsObject

LEMMA SameRatio ==
  ASSUME NEW a \in Nat, NEW b \in Nat \ {0}, NEW g \in Nat \ {0}
  PROVE  (g * a) \div (g * b) = a \div b
<1>1. PICK q, r : q = a \div b /\ r = a % b
  OBVIOUS
<1>2. q \in Nat /\ r \in Nat /\ r < b /\ a = b * q + r
  BY <1>1
<1>3. PICK c, t : c = g * b /\ t = g * r
  OBVIOUS
<1>4. c \in Nat \ {0} /\ t \in Nat /\ t < c
  <2>1. g * r < g * b
    BY <1>2
  <2> QED
    BY <1>2, <1>3, <2>1
<1>5. g * a = c * q + t
  <2>1. g * a = g * (b * q + r)
    BY <1>2
  <2>2. g * (b * q + r) = (g * b) * q + g * r
    BY <1>2
  <2> QED
    BY <1>3, <2>1, <2>2
<1>6. (c * q + t) \div c = q
  BY <1>2, <1>4
<1> QED
  BY <1>1, <1>3, <1>5, <1>6

LEMMA SignedProduct ==
  ASSUME NEW a \in Int, NEW g \in Nat \ {0}
  PROVE  /\ Sgn(g * a) = Sgn(a) /\ Magnitude(g * a) = g * Magnitude(a)
         /\ Magnitude(a) \in Nat /\ Sgn(a) \in {-1, 0, 1}
<1>1. CASE a > 0
  <2>1. g * a > 0
    BY <1>1
  <2> QED
    BY <1>1, <2>1 DEF Sgn, Magnitude
<1>2. CASE a = 0
  BY <1>2 DEF Sgn, Magnitude
<1>3. CASE a < 0
  <2>1. g * a < 0 /\ g * a \in Int /\ g * (-a) = -(g * a)
    BY <1>3
  <2> QED
    BY <1>3, <2>1 DEF Sgn, Magnitude
<1> QED
  BY <1>1, <1>2, <1>3

LEMMA MultipleOf ==
  ASSUME NEW a \in Int, NEW g \in Nat \ {0}, a % g = 0
  PROVE  a = g * (a \div g) /\ a \div g \in Int
  OBVIOUS

\* The whole part of a fraction, in lowest terms or not.
LEMMA TruncatedLowest ==
  ASSUME NEW a \in Int, NEW b \in Nat \ {0}
  PROVE  Truncated(Lowest(a, b)) = Sgn(a) * (Magnitude(a) \div b)
<1>1. PICK g \in Common(a, b) : Lowest(a, b) = <<a \div g, b \div g>>
  BY GreatestCommon
<1>2. g \in Nat \ {0} /\ a % g = 0 /\ b % g = 0
  BY <1>1 DEF Common
<1>3. PICK c, d : c = a \div g /\ d = b \div g
  OBVIOUS
<1>4. c \in Int /\ d \in Nat \ {0} /\ a = g * c /\ b = g * d
  BY <1>2, <1>3, MultipleOf, DivisorSmall
<1>5. Truncated(Lowest(a, b)) = Sgn(c) * (Magnitude(c) \div d)
  BY <1>1, <1>3 DEF Truncated
<1>6. Sgn(a) = Sgn(c) /\ Magnitude(a) = g * Magnitude(c) /\ Magnitude(c) \in Nat
  BY <1>2, <1>4, SignedProduct
<1>7. Magnitude(a) \div b = Magnitude(c) \div d
  <2>1. PICK k : k = Magnitude(c)
    OBVIOUS
  <2>2. k \in Nat /\ Magnitude(a) = g * k
    BY <1>6, <2>1
  <2>3. (g * k) \div (g * d) = k \div d
    BY <1>2, <1>4, <2>2, SameRatio
  <2> QED
    BY <1>4, <2>1, <2>2, <2>3
<1> QED
  BY <1>5, <1>6, <1>7

\* A quotient that is whole.
LEMMA LowestExact ==
  ASSUME NEW a \in Int, NEW b \in Nat \ {0}, a % b = 0
  PROVE  Lowest(a, b) = Whole(a \div b)
<1>1. b \in Common(a, b) /\ Common(a, b) \in SUBSET Int /\ \A y \in Common(a, b) : y <= b
  BY DEF Common
<1>2. Max(Common(a, b)) = b
  BY <1>1, MaxIs
<1>3. Lowest(a, b) = <<a \div b, b \div b>>
  BY <1>2 DEF Lowest, Common
<1> QED
  BY <1>3 DEF Whole

LEMMA OverWhole ==
  ASSUME NEW m \in Int, NEW n \in Int, n # 0
  PROVE  \E a \in Int : /\ Over(Whole(m), Whole(n)) = Lowest(a, Magnitude(n))
                        /\ Magnitude(n) \in Nat \ {0} /\ a \in {m, -m}
                        /\ Sgn(a) = Sgn(m) * Sgn(n) /\ Magnitude(a) = Magnitude(m)
<1>1. CASE n > 0
  <2>1. Over(Whole(m), Whole(n)) = Lowest(1 * m * 1, 1 * 1 * n)
    BY <1>1 DEF Over, Whole
  <2>2. 1 * m * 1 = m /\ 1 * 1 * n = n /\ Magnitude(n) = n /\ Sgn(n) = 1
    BY <1>1 DEF Magnitude, Sgn
  <2>3. Sgn(m) = Sgn(m) * Sgn(n)
    BY <2>2 DEF Sgn
  <2> QED
    BY <1>1, <2>1, <2>2, <2>3
<1>2. CASE n < 0
  <2>1. Over(Whole(m), Whole(n)) = Lowest((-1) * m * 1, (-1) * 1 * n)
    BY <1>2 DEF Over, Whole
  <2>2. (-1) * m * 1 = -m /\ (-1) * 1 * n = -n /\ Magnitude(n) = -n /\ Sgn(n) = -1
    BY <1>2 DEF Magnitude, Sgn
  <2>3. Sgn(-m) = Sgn(m) * Sgn(n)
    BY <2>2 DEF Sgn
  <2>4. Magnitude(-m) = Magnitude(m)
    BY DEF Magnitude, Sgn
  <2> QED
    BY <1>2, <2>1, <2>2, <2>3, <2>4
<1> QED
  BY <1>1, <1>2

LEMMA TruncatedOver ==
  ASSUME NEW m \in Int, NEW n \in Int, n # 0
  PROVE  /\ Truncated(Over(Whole(m), Whole(n))) = Quotient(m, n)
         /\ Quotient(m, n) \in Int
<1>1. PICK a \in Int : /\ Over(Whole(m), Whole(n)) = Lowest(a, Magnitude(n))
                       /\ Magnitude(n) \in Nat \ {0}
                       /\ Sgn(a) = Sgn(m) * Sgn(n) /\ Magnitude(a) = Magnitude(m)
  BY OverWhole
<1>2. Truncated(Over(Whole(m), Whole(n))) = Sgn(m) * Sgn(n) * (Magnitude(m) \div Magnitude(n))
  BY <1>1, TruncatedLowest
<1>3. Magnitude(m) \in Nat /\ Sgn(m) \in Int /\ Sgn(n) \in Int
  BY DEF Magnitude, Sgn
<1>4. Quotient(m, n) \in Int
  BY <1>1, <1>3 DEF Quotient
<1> QED
  BY <1>2, <1>4 DEF Quotient

LEMMA OverExact ==
  ASSUME NEW m \in Int, NEW n \in Int, n # 0, m % Magnitude(n) = 0
  PROVE  Over(Whole(m), Whole(n)) = Whole(Quotient(m, n))
<1>1. PICK a \in Int : /\ Over(Whole(m), Whole(n)) = Lowest(a, Magnitude(n))
                       /\ Magnitude(n) \in Nat \ {0} /\ a \in {m, -m}
  BY OverWhole
<1>2. PICK b, k : b = Magnitude(n) /\ k = m \div b
  OBVIOUS
<1>3. b \in Nat \ {0} /\ k \in Int /\ m = b * k
  BY <1>1, <1>2, MultipleOf
<1>4. a % b = 0
  <2>1. CASE a = m
    BY <1>2, <2>1
  <2>2. CASE a = -m
    <3>1. a = b * (-k) /\ -k \in Int
      BY <1>3, <2>2
    <3> QED
      BY <1>3, <3>1
  <2> QED
    BY <1>1, <2>1, <2>2
<1>5. Lowest(a, b) = Whole(a \div b)
  BY <1>3, <1>4, LowestExact
<1>6. Truncated(Whole(a \div b)) = a \div b
  BY <1>3, WholeArithmetic
<1>7. a \div b = Quotient(m, n)
  BY <1>1, <1>2, <1>5, <1>6, TruncatedOver
<1> QED
  BY <1>1, <1>2, <1>5, <1>7

\* What the operator makes of two numbers, for the standard.
ES5Of(op, x, y) == IF op = "+" THEN Plus(x, y) ELSE ES5Arithmetic(op, x, y)

\* Ints that the code computes with as the standard does.
Agrees(op, m, n) ==
  /\ ~Overflows(op, m, n)
  /\ op = "/" => ~DivisionTraps(m, n) /\ m % Magnitude(n) = 0
  /\ op = "%" => ~DivisionTraps(m, n)
  /\ op \in {"<<", ">>", ">>>"} => n \in 0..(Width - 1)
  /\ op = ">>>" => m >= 0

LEMMA SumOfInts ==
  ASSUME NEW m \in Ints, NEW n \in Ints
  PROVE  /\ m + n \in Ints => Smi(Wrapped(m + n)) = Smi(m + n) /\ Plus(Whole(m), Whole(n)) = Whole(m + n)
         /\ m - n \in Ints => Wrapped(m - n) = m - n /\ Plus(Whole(m), Negated(Whole(n))) = Whole(m - n)
         /\ m * n \in Ints => Wrapped(m * n) = m * n /\ Times(Whole(m), Whole(n)) = Whole(m * n)
<1>1. m \in Int /\ n \in Int /\ -n \in Int /\ m + (-n) = m - n
  BY IntsAre
<1>2. Negated(Whole(n)) = Whole(-n) /\ Plus(Whole(m), Whole(-n)) = Whole(m + (-n))
  BY <1>1, WholeArithmetic
<1> QED
  BY <1>1, <1>2, WholeArithmetic, WrappedIs

LEMMA SmisOne == \A z : Smis({z}) = {Gives(Smi(z))} /\ Smis({z} \cup {}) = {Gives(Smi(z))}
  BY DEF Smis

LEMMA ShiftCount ==
  ASSUME NEW n \in 0..(Width - 1) PROVE n % Width = n
  BY ConversionBoundsAssumption

LEMMA IntOfWhole ==
  ASSUME NEW n \in Ints PROVE ES5Int(Whole(n)) = n
<1>1. n \in Int
  BY IntsAre
<1>2. IsFinite(Whole(n)) /\ Truncated(Whole(n)) = n
  BY <1>1, WholeArithmetic
<1> QED
  BY <1>2, WrappedIs DEF ES5Int

LEMMA RemainderOfInts ==
  ASSUME NEW m \in Ints, NEW n \in Ints, n # 0
  PROVE  ES5Remainder(Whole(m), Whole(n)) = Whole(m - n * Quotient(m, n))
<1>1. m \in Int /\ n \in Int
  BY IntsAre
<1>2. PICK q : q = Quotient(m, n)
  OBVIOUS
<1>3. q \in Int /\ Truncated(Over(Whole(m), Whole(n))) = q
  BY <1>1, <1>2, TruncatedOver
<1>4. PICK t : t = n * q
  OBVIOUS
<1>5. t \in Int /\ -t \in Int /\ m + (-t) = m - t
  BY <1>1, <1>3, <1>4
<1>6. IsFinite(Whole(m)) /\ IsFinite(Whole(n)) /\ Whole(n) # NaN /\ Whole(n) # Whole(0)
  <2>1. Whole(n) # NaN /\ Whole(n) # Whole(0)
    BY DEF Whole, NaN
  <2> QED
    BY <1>1, <2>1, WholeArithmetic
<1>7. ES5Remainder(Whole(m), Whole(n)) = Plus(Whole(m), Negated(Times(Whole(n), Whole(q))))
  BY <1>3, <1>6, Zenon DEF ES5Remainder
<1>8. Times(Whole(n), Whole(q)) = Whole(t) /\ Negated(Whole(t)) = Whole(-t) /\ Plus(Whole(m), Whole(-t)) = Whole(m + (-t))
  BY <1>1, <1>3, <1>4, <1>5, WholeArithmetic
<1> QED
  BY <1>2, <1>4, <1>5, <1>7, <1>8

LEMMA IntsAsES5 ==
  ASSUME NEW op \in Arithmetic, NEW m \in Ints, NEW n \in Ints, Agrees(op, m, n)
  PROVE  \E z : IntResults(op, m, n) = {Gives(Smi(z))} /\ Whole(z) = ES5Of(op, Whole(m), Whole(n))
<1>0. m \in Int /\ n \in Int
  BY IntsAre
<1>1. CASE op = "+"
  <2>1. m + n \in Ints
    BY <1>1 DEF Agrees, Overflows
  <2>2. Wrapped(m + n) = m + n /\ Plus(Whole(m), Whole(n)) = Whole(m + n)
    BY <2>1, SumOfInts, WrappedIs
  <2>3. IntResults(op, m, n) = Smis({m + n})
    BY <1>1, <2>2 DEF IntResults
  <2> QED
    BY <1>1, <2>2, <2>3, SmisOne DEF ES5Of
<1>2. CASE op = "-"
  <2>1. m - n \in Ints
    BY <1>2 DEF Agrees, Overflows
  <2>2. Wrapped(m - n) = m - n /\ Plus(Whole(m), Negated(Whole(n))) = Whole(m - n)
    BY <2>1, SumOfInts
  <2>3. IntResults(op, m, n) = Smis({m - n})
    BY <1>2, <2>2 DEF IntResults
  <2>4. ES5Of(op, Whole(m), Whole(n)) = Plus(Whole(m), Negated(Whole(n)))
    BY <1>2 DEF ES5Of, ES5Arithmetic
  <2> QED
    BY <2>2, <2>3, <2>4, SmisOne
<1>3. CASE op = "*"
  <2>1. m * n \in Ints
    BY <1>3 DEF Agrees, Overflows
  <2>2. Wrapped(m * n) = m * n /\ Times(Whole(m), Whole(n)) = Whole(m * n)
    BY <2>1, SumOfInts
  <2>3. IntResults(op, m, n) = Smis({m * n})
    BY <1>3, <2>2 DEF IntResults
  <2>4. ES5Of(op, Whole(m), Whole(n)) = Times(Whole(m), Whole(n))
    BY <1>3 DEF ES5Of, ES5Arithmetic
  <2> QED
    BY <2>2, <2>3, <2>4, SmisOne
<1>4. CASE op = "/"
  <2>1. ~DivisionTraps(m, n) /\ m % Magnitude(n) = 0 /\ n # 0
    BY <1>4 DEF Agrees, DivisionTraps
  <2>2. IntResults(op, m, n) = Smis({Quotient(m, n)})
    BY <1>4, <2>1 DEF IntResults
  <2>3. ES5Of(op, Whole(m), Whole(n)) = Over(Whole(m), Whole(n))
    BY <1>4 DEF ES5Of, ES5Arithmetic
  <2> QED
    BY <1>0, <2>1, <2>2, <2>3, SmisOne, OverExact
<1>5. CASE op = "%"
  <2>1. ~DivisionTraps(m, n) /\ n # 0
    BY <1>5 DEF Agrees, DivisionTraps
  <2>2. IntResults(op, m, n) = Smis({m - n * Quotient(m, n)})
    BY <1>5, <2>1 DEF IntResults
  <2>3. ES5Of(op, Whole(m), Whole(n)) = ES5Remainder(Whole(m), Whole(n))
    BY <1>5 DEF ES5Of, ES5Arithmetic
  <2> QED
    BY <2>1, <2>2, <2>3, SmisOne, RemainderOfInts
<1>6. ES5Int(Whole(m)) = m /\ ES5Int(Whole(n)) = n
  BY IntOfWhole
<1>7. CASE op = "<<"
  <2>1. n \in 0..(Width - 1)
    BY <1>7 DEF Agrees
  <2>2. IntResults(op, m, n) = Smis({Wrapped(m * 2^(n % Width))} \cup {})
    BY <1>7, <2>1 DEF IntResults
  <2>3. ES5Of(op, Whole(m), Whole(n)) = Whole(Wrapped(m * 2^(n % Width)))
    BY <1>6, <1>7 DEF ES5Of, ES5Arithmetic
  <2> QED
    BY <2>2, <2>3, SmisOne
<1>8. CASE op = ">>"
  <2>1. n \in 0..(Width - 1)
    BY <1>8 DEF Agrees
  <2>2. IntResults(op, m, n) = Smis({m \div 2^(n % Width)} \cup {})
    BY <1>8, <2>1 DEF IntResults
  <2>3. ES5Of(op, Whole(m), Whole(n)) = Whole(m \div 2^(n % Width))
    BY <1>6, <1>8 DEF ES5Of, ES5Arithmetic
  <2> QED
    BY <2>2, <2>3, SmisOne
<1>9. CASE op = ">>>"
  <2>1. n \in 0..(Width - 1) /\ m >= 0
    BY <1>9 DEF Agrees
  <2>2. IntResults(op, m, n) = Smis({m \div 2^(n % Width)} \cup {})
    BY <1>9, <2>1 DEF IntResults
  <2>3. ES5Of(op, Whole(m), Whole(n)) = Whole(Bits(m) \div 2^(n % Width))
    BY <1>6, <1>9 DEF ES5Of, ES5Arithmetic
  <2>4. Bits(m) = m
    <3>1. PICK h, w : h = Half /\ w = 2^Width
      OBVIOUS
    <3>2. h \in Nat \ {0} /\ w = 2 * h /\ m \in (-h)..(h - 1)
      BY <3>1, IntsAre
    <3>3. m % w = m
      BY <2>1, <3>2
    <3> QED
      BY <3>1, <3>3 DEF Bits
  <2> QED
    BY <2>2, <2>3, <2>4, SmisOne
<1>10. CASE op = "&"
  <2>1. IntResults(op, m, n) = Smis({BitAnd(m, n)})
    BY <1>10 DEF IntResults
  <2>2. ES5Of(op, Whole(m), Whole(n)) = Whole(BitAnd(m, n))
    BY <1>6, <1>10 DEF ES5Of, ES5Arithmetic
  <2> QED
    BY <2>1, <2>2, SmisOne
<1>11. CASE op = "^"
  <2>1. IntResults(op, m, n) = Smis({BitXor(m, n)})
    BY <1>11 DEF IntResults
  <2>2. ES5Of(op, Whole(m), Whole(n)) = Whole(BitXor(m, n))
    BY <1>6, <1>11 DEF ES5Of, ES5Arithmetic
  <2> QED
    BY <2>1, <2>2, SmisOne
<1>12. CASE op = "|"
  <2>1. IntResults(op, m, n) = Smis({BitOr(m, n)})
    BY <1>12 DEF IntResults
  <2>2. ES5Of(op, Whole(m), Whole(n)) = Whole(BitOr(m, n))
    BY <1>6, <1>12 DEF ES5Of, ES5Arithmetic
  <2> QED
    BY <2>1, <2>2, SmisOne
<1> QED
  BY <1>1, <1>2, <1>3, <1>4, <1>5, <1>7, <1>8, <1>9, <1>10, <1>11, <1>12 DEF Arithmetic, IntOperators

FitsInt(x) == IsFinite(x) /\ Truncated(x) \in Ints

\* Numbers on which the operators for ints work as the standard's do.
DoublesAgree(op, x, y) ==
  op \in IntOperators =>
    /\ FitsInt(x) /\ FitsInt(y)
    /\ op = "%" => IsWhole(x) /\ IsWhole(y) /\ ~DivisionTraps(Truncated(x), Truncated(y))
    /\ op \in {"<<", ">>", ">>>"} => Truncated(y) \in 0..(Width - 1)
    /\ op = ">>>" => Truncated(x) >= 0

LEMMA DoubleInts ==
  ASSUME NEW op \in IntOperators, NEW x \in Number, NEW y \in Number, DoublesAgree(op, x, y)
  PROVE  DoubleResults(op, x, y) = {Gives(Double(ES5Of(op, x, y)))}
<1>1. PICK m, n : m = Truncated(x) /\ n = Truncated(y)
  OBVIOUS
<1>2. m \in Ints /\ n \in Ints /\ AsInts(x) = {m} /\ AsInts(y) = {n} /\ m \in Int /\ n \in Int
  BY <1>1, IntsAre DEF DoublesAgree, FitsInt, AsInts
<1>3. Agrees(op, m, n) /\ op \in Arithmetic
  BY <1>1 DEF DoublesAgree, Agrees, Overflows, IntOperators, Arithmetic
<1>4. PICK z : IntResults(op, m, n) = {Gives(Smi(z))} /\ Whole(z) = ES5Of(op, Whole(m), Whole(n))
  BY <1>2, <1>3, IntsAsES5
<1>5. ES5Of(op, Whole(m), Whole(n)) = ES5Of(op, x, y)
  <2>1. ES5Int(x) = m /\ ES5Int(y) = n /\ ES5Int(Whole(m)) = m /\ ES5Int(Whole(n)) = n
    BY <1>1, <1>2, IntOfWhole, WrappedIs DEF DoublesAgree, FitsInt, ES5Int
  <2>2. CASE op = "%"
    <3>1. x = Whole(x[1]) /\ y = Whole(y[1]) /\ x[1] \in Int /\ y[1] \in Int
      BY <2>2, NumberParts DEF DoublesAgree, IsWhole, Whole
    <3>2. x[1] = m /\ y[1] = n
      BY <1>1, <3>1, WholeArithmetic
    <3> QED
      BY <3>1, <3>2
  <2>3. CASE op \in {"<<", ">>", ">>>", "&", "^", "|"}
    BY <2>1, <2>3 DEF ES5Of, ES5Arithmetic
  <2> QED
    BY <2>2, <2>3 DEF IntOperators
<1>6. op \notin {"+", "-", "*", "/"}
  BY DEF IntOperators
<1>7. DoubleResults(op, x, y) =
        {IF i.kind = "value" THEN After(i, Gives(AsES5(i.value))) ELSE i :
           i \in UNION {IntResults(op, a, b) : a \in AsInts(x), b \in AsInts(y)}}
  BY <1>6 DEF DoubleResults, Then
<1>8. UNION {IntResults(op, a, b) : a \in AsInts(x), b \in AsInts(y)} = {Gives(Smi(z))}
  BY <1>2, <1>4
<1>9. PICK g : g = Gives(Smi(z))
  OBVIOUS
<1>10. g.kind = "value" /\ g.value = Smi(z)
  BY <1>9, SimpleGives
<1>11. DoubleResults(op, x, y) = {After(g, Gives(AsES5(Smi(z))))}
  BY <1>7, <1>8, <1>9, <1>10
<1>12. AsES5(Smi(z)) = Double(Whole(z))
  BY DEF AsES5, Smi
<1>13. After(g, Gives(Double(Whole(z)))) = Gives(Double(Whole(z)))
  BY <1>9, SimpleAfter
<1> QED
  BY <1>4, <1>5, <1>11, <1>12, <1>13

LEMMA DoublesAsES5 ==
  ASSUME NEW op \in Arithmetic, NEW x \in Number, NEW y \in Number, DoublesAgree(op, x, y)
  PROVE  DoubleResults(op, x, y) = {Gives(Double(ES5Of(op, x, y)))}
<1>1. CASE op = "+"
  BY <1>1 DEF DoubleResults, IntOperators, ES5Of
<1>2. CASE op = "-"
  BY <1>2 DEF DoubleResults, IntOperators, ES5Of, ES5Arithmetic
<1>3. CASE op = "*"
  BY <1>3 DEF DoubleResults, IntOperators, ES5Of, ES5Arithmetic
<1>4. CASE op = "/"
  BY <1>4 DEF DoubleResults, IntOperators, ES5Of, ES5Arithmetic
<1>5. CASE op \in IntOperators
  BY <1>5, DoubleInts
<1> QED
  BY <1>1, <1>2, <1>3, <1>4, <1>5 DEF Arithmetic

\* The result of the standard for two primitive values, but of strings.
NumericReference(op, x, y) ==
  IF op \in Relations THEN Bool(ES5Relation(op, x, y)) ELSE Double(ES5Of(op, x, y))

LEMMA OnDoubles ==
  ASSUME NEW op \in Converting, NEW x \in Number, NEW y \in Number, DoublesAgree(op, x, y)
  PROVE  ApplyBinaryOperator(op, Double(x), Double(y)) = {Gives(NumericReference(op, x, y))}
<1>0. NumberOf(Double(x)) = x /\ NumberOf(Double(y)) = y /\ Double(x).is = "double"
  BY DEF NumberOf, Double
<1>1. CASE op \in Relations
  <2>1. Related(op, x, y) = ES5Relation(op, x, y)
    <3>1. Related(op, x, y) <=> ES5Relation(op, x, y)
      BY <1>1, RelationAsES5
    <3>2. Related(op, x, y) \in BOOLEAN /\ ES5Relation(op, x, y) \in BOOLEAN
      BY <1>1 DEF Related, ES5Relation, Relations, Less, SameNumber
    <3> QED
      BY <3>1, <3>2
  <2> QED
    BY <1>0, <1>1, <2>1 DEF ApplyBinaryOperator, NumericReference
<1>2. CASE op \notin Relations
  <2>1. op \in Arithmetic
    BY <1>2 DEF Converting
  <2>2. ApplyBinaryOperator(op, Double(x), Double(y)) = DoubleResults(op, x, y)
    BY <1>0, <1>2 DEF ApplyBinaryOperator
  <2> QED
    BY <1>2, <2>1, <2>2, DoublesAsES5 DEF NumericReference
<1> QED
  BY <1>1, <1>2

LEMMA OnSmis ==
  ASSUME NEW op \in Converting, NEW m \in Ints, NEW n \in Ints, op \in Arithmetic => Agrees(op, m, n)
  PROVE  \E v : /\ ApplyBinaryOperator(op, Smi(m), Smi(n)) = {Gives(v)}
                /\ AsES5(v) = NumericReference(op, Whole(m), Whole(n))
<1>0. /\ NumberOf(Smi(m)) = Whole(m) /\ NumberOf(Smi(n)) = Whole(n)
      /\ Smi(m).is = "smi" /\ Smi(n).is = "smi" /\ Smi(m).int = m /\ Smi(n).int = n
  BY DEF NumberOf, Smi
<1>1. CASE op \in Relations
  <2>0. Whole(m) \in Number /\ Whole(n) \in Number
    BY IntsAre, NumberMembers
  <2>1. Related(op, Whole(m), Whole(n)) = ES5Relation(op, Whole(m), Whole(n))
    <3>1. Related(op, Whole(m), Whole(n)) <=> ES5Relation(op, Whole(m), Whole(n))
      BY <1>1, <2>0, RelationAsES5
    <3>2. Related(op, Whole(m), Whole(n)) \in BOOLEAN /\ ES5Relation(op, Whole(m), Whole(n)) \in BOOLEAN
      BY <1>1 DEF Related, ES5Relation, Relations, Less, SameNumber
    <3> QED
      BY <3>1, <3>2
  <2>2. PICK b : b = Bool(ES5Relation(op, Whole(m), Whole(n)))
    OBVIOUS
  <2>3. b.is = "bool"
    BY <2>2 DEF Bool
  <2>4. AsES5(b) = b
    BY <2>3 DEF AsES5
  <2> QED
    BY <1>0, <1>1, <2>1, <2>2, <2>4 DEF ApplyBinaryOperator, NumericReference
<1>2. CASE op \notin Relations
  <2>1. op \in Arithmetic
    BY <1>2 DEF Converting
  <2>2. ApplyBinaryOperator(op, Smi(m), Smi(n)) = IntResults(op, m, n)
    BY <1>0, <1>2 DEF ApplyBinaryOperator
  <2>3. PICK z : IntResults(op, m, n) = {Gives(Smi(z))} /\ Whole(z) = ES5Of(op, Whole(m), Whole(n))
    BY <2>1, IntsAsES5
  <2>4. AsES5(Smi(z)) = Double(Whole(z))
    BY DEF AsES5, Smi
  <2> QED
    BY <1>2, <2>2, <2>3, <2>4 DEF NumericReference
<1> QED
  BY <1>1, <1>2

LEMMA TextIs ==
  ASSUME NEW p \in Value, ~IsObject(p), ~Misspelt(p)
  PROVE  PrimitiveToString(p) = ES5Text(p)
<1>1. CASE p.is = "double"
  BY <1>1 DEF Misspelt
<1>2. CASE p.is = "smi"
  <2>1. p.int \in Int
    BY <1>2, ValueCases, IntsAre DEF Undefined, Null
  <2>2. NumberOf(p) = Whole(p.int) /\ IsNumber(p) /\ IsFinite(NumberOf(p))
    BY <1>2, <2>1, WholeArithmetic DEF NumberOf, IsNumber
  <2>3. PrimitiveToString(p) = Numeral(Whole(p.int))
    BY <1>2 DEF PrimitiveToString, IsNothing, IsString
  <2> QED
    BY <2>2, <2>3 DEF ES5Text
<1>3. CASE ~IsNumber(p)
  BY <1>3 DEF ES5Text
<1> QED
  BY <1>1, <1>2, <1>3 DEF IsNumber

\* Primitive values on which the code computes as the standard does.
Sound(op, p, q) ==
  IF op = "+" /\ (IsString(p) \/ IsString(q)) THEN ~Misspelt(p) /\ ~Misspelt(q)
  ELSE /\ ~Misread(p) /\ ~Misread(q)
       /\ IF BothSmis(p, q) THEN op \in Arithmetic => Agrees(op, p.int, q.int)
          ELSE DoublesAgree(op, PrimitiveToNumber(p), PrimitiveToNumber(q))

PrimitiveReference(op, p, q) ==
  IF op = "+" THEN ES5Sum(p, q) ELSE NumericReference(op, ES5Number(p), ES5Number(q))

LEMMA NumericReferenceIs ==
  ASSUME NEW op \in Converting, NEW p, NEW q, ~(op = "+" /\ (IsString(p) \/ IsString(q)))
  PROVE  PrimitiveReference(op, p, q) = NumericReference(op, ES5Number(p), ES5Number(q))
<1>1. CASE op = "+"
  <2>1. PrimitiveReference(op, p, q) = Double(Plus(ES5Number(p), ES5Number(q)))
    BY <1>1 DEF PrimitiveReference, ES5Sum
  <2>2. op \notin Relations
    BY <1>1 DEF Relations
  <2> QED
    BY <1>1, <2>1, <2>2 DEF NumericReference, ES5Of
<1>2. CASE op # "+"
  BY <1>2 DEF PrimitiveReference
<1> QED
  BY <1>1, <1>2

LEMMA ReferenceIsES5 ==
  ASSUME NEW op, NEW x, NEW y PROVE AsES5(NumericReference(op, x, y)) = NumericReference(op, x, y)
<1>1. PICK b, d : b = Bool(ES5Relation(op, x, y)) /\ d = Double(ES5Of(op, x, y))
  OBVIOUS
<1>2. b.is = "bool" /\ d.is = "double"
  BY <1>1 DEF Bool, Double
<1>3. AsES5(b) = b /\ AsES5(d) = d
  BY <1>2 DEF AsES5
<1> QED
  BY <1>1, <1>3 DEF NumericReference

LEMMA PrimitivesAsES5 ==
  ASSUME NEW op \in Converting, NEW p \in Value, NEW q \in Value, ~IsObject(p), ~IsObject(q), Sound(op, p, q)
  PROVE  \E v : /\ ApplyAssignmentOperator(op, p, q) = {Gives(v)}
                /\ AsES5(v) = AsES5(PrimitiveReference(op, p, q))
<1>1. CASE op = "+" /\ (IsString(p) \/ IsString(q))
  <2>1. ApplyAssignmentOperator(op, p, q) = {Gives(Str(PrimitiveToString(p) \o PrimitiveToString(q)))}
    BY <1>1, AssignmentIs
  <2>2. PrimitiveToString(p) = ES5Text(p) /\ PrimitiveToString(q) = ES5Text(q)
    BY <1>1, TextIs DEF Sound
  <2>3. PrimitiveReference(op, p, q) = Str(ES5Text(p) \o ES5Text(q))
    BY <1>1 DEF PrimitiveReference, ES5Sum
  <2> QED
    BY <2>1, <2>2, <2>3
<1>2. CASE ~(op = "+" /\ (IsString(p) \/ IsString(q)))
  <2>1. /\ ES5Number(p) = PrimitiveToNumber(p) /\ ES5Number(q) = PrimitiveToNumber(q)
        /\ PrimitiveToNumber(p) \in Number /\ PrimitiveToNumber(q) \in Number
    BY <1>2, NumberOfPrimitive, NumberTyped DEF Sound
  <2>2. PrimitiveReference(op, p, q) = NumericReference(op, PrimitiveToNumber(p), PrimitiveToNumber(q))
    BY <1>2, <2>1, NumericReferenceIs
  <2>3. CASE BothSmis(p, q)
    <3>1. /\ p.is = "smi" /\ q.is = "smi" /\ p.int \in Ints /\ q.int \in Ints
          /\ p = Smi(p.int) /\ q = Smi(q.int)
      BY <2>3, ValueCases DEF BothSmis, Undefined, Null
    <3>2. ApplyAssignmentOperator(op, p, q) = ApplyBinaryOperator(op, p, q)
      BY <1>2, <3>1, AssignmentIs
    <3>3. op \in Arithmetic => Agrees(op, p.int, q.int)
      BY <1>2, <2>3 DEF Sound
    <3>4. PrimitiveToNumber(p) = Whole(p.int) /\ PrimitiveToNumber(q) = Whole(q.int)
      BY <3>1 DEF PrimitiveToNumber, IsNumber, IsString, NumberOf
    <3>5. PICK v : /\ ApplyBinaryOperator(op, Smi(p.int), Smi(q.int)) = {Gives(v)}
                   /\ AsES5(v) = NumericReference(op, Whole(p.int), Whole(q.int))
      BY <3>1, <3>3, OnSmis
    <3> QED
      BY <2>2, <3>1, <3>2, <3>4, <3>5, ReferenceIsES5
  <2>4. CASE ~BothSmis(p, q)
    <3>1. ApplyAssignmentOperator(op, p, q) =
            ApplyBinaryOperator(op, Double(PrimitiveToNumber(p)), Double(PrimitiveToNumber(q)))
      BY <1>2, <2>4, AssignmentIs DEF BothSmis
    <3>2. DoublesAgree(op, PrimitiveToNumber(p), PrimitiveToNumber(q))
      BY <1>2, <2>4 DEF Sound
    <3> QED
      BY <2>1, <2>2, <3>1, <3>2, OnDoubles
  <2> QED
    BY <2>3, <2>4
<1> QED
  BY <1>1, <1>2

-----------------------------------------------------------------------------
\* The outcome of an operator is that of the standard when it is for what the
\* operands convert to.
LEMMA SameAfterwards ==
  ASSUME NEW l \in Value, NEW r \in Value, NEW hint,
         NEW P, P = ToPrimitive(l, hint), NEW Q, Q = ToPrimitive(r, hint),
         NEW S, NEW w, P.kind = "value" /\ Q.kind = "value" => \E v : S = {Gives(v)} /\ AsES5(v) = AsES5(w),
         NEW o \in Afterwards(P, Q, S)
  PROVE  SameOutcome(o, Combined(P, Q, Gives(w)))
<1>1. CASE P.kind # "value"
  BY <1>1 DEF Afterwards, Combined, SameOutcome
<1>2. CASE P.kind = "value" /\ Q.kind # "value"
  BY <1>2 DEF Afterwards, Combined, SameOutcome
<1>3. CASE P.kind = "value" /\ Q.kind = "value"
  <2>1. PICK v : S = {Gives(v)} /\ AsES5(v) = AsES5(w)
    BY <1>3
  <2>2. PICK c : c = BothCalls(P, Q)
    OBVIOUS
  <2>3. o = After(Calling(c), Gives(v))
    BY <1>3, <2>1, <2>2 DEF Afterwards
  <2>4. {Combined(P, Q, Gives(w))} = Afterwards(P, Q, {Gives(w)})
    BY CombinedAfterwards, SimpleGives
  <2>5. Combined(P, Q, Gives(w)) = After(Calling(c), Gives(w))
    BY <1>3, <2>2, <2>4 DEF Afterwards
  <2>6. WellFormed(P) /\ WellFormed(Q)
    BY PrimitiveWellFormed
  <2>7. c \in Seq(CallSet)
    BY <2>2, <2>6, ConcatProperties DEF BothCalls, WellFormed
  <2>8. Calling(c).calls = c
    BY EndingParts DEF Calling
  <2>9. Calling(c).calls \in Seq(CallSet)
    BY <2>7, <2>8
  <2>10. \A z : After(Calling(c), Gives(z)) = Ending("value", z, c)
    <3> SUFFICES ASSUME NEW z PROVE After(Calling(c), Gives(z)) = Ending("value", z, c)
      OBVIOUS
    <3>1. PICK g : g = Gives(z)
      OBVIOUS
    <3>2. After(Calling(c), g) = Ending(g.kind, g.value, Calling(c).calls)
      BY <2>9, <3>1, AfterSimple, SimpleGives
    <3> QED
      BY <2>8, <3>1, <3>2, SimpleGives
  <2> QED
    BY <2>1, <2>3, <2>5, <2>10, EndingParts DEF SameOutcome
<1> QED
  BY <1>1, <1>2, <1>3

LEMMA HintIrrelevant ==
  ASSUME NEW v \in Value, ~(IsObject(v) /\ v.id \in DateIds)
  PROVE  ToPrimitive(v, "none") = ToPrimitive(v, "number")
<1>1. CASE IsObject(v)
  <2>1. v.id \in ObjectIds
    BY <1>1, ValueCases DEF IsObject, Undefined, Null
  <2>2. /\ FirstMethod(v.id, "none") = FirstMethod(v.id, "number")
        /\ SecondMethod(v.id, "none") = SecondMethod(v.id, "number")
    BY <1>1 DEF FirstMethod, SecondMethod
  <2>3. DefaultValue(v.id, "none") = DefaultValue(v.id, "number")
    BY <2>1, <2>2, DefaultValueIs
  <2> QED
    BY <1>1, <2>3 DEF ToPrimitive
<1>2. CASE ~IsObject(v)
  BY <1>2 DEF ToPrimitive
<1> QED
  BY <1>1, <1>2

LEMMA BinaryReference ==
  ASSUME NEW op \in Converting, NEW l \in Value, NEW r \in Value, NEW hint,
         hint = IF op = "+" THEN "none" ELSE "number",
         NEW P, P = ToPrimitive(l, hint), NEW Q, Q = ToPrimitive(r, hint)
  PROVE  ES5Binary(op, l, r) = Combined(P, Q, Gives(PrimitiveReference(op, P.value, Q.value)))
<1>0. op \notin {"===", "!==", "==", "!=", "instanceof", "in"}
  BY DEF Converting, Arithmetic, Relations, IntOperators
<1>1. P = ES5Primitive(l, hint) /\ Q = ES5Primitive(r, hint)
  BY PrimitiveAsES5
<1>2. CASE op = "+"
  <2>1. ES5Binary(op, l, r) = ES5Both(l, r, "none", ES5Sum)
    BY <1>2 DEF ES5Binary
  <2>2. ES5Both(l, r, "none", ES5Sum) = Combined(P, Q, Gives(ES5Sum(P.value, Q.value)))
    BY <1>1, <1>2 DEF ES5Both, Combined, Then
  <2> QED
    BY <1>2, <2>1, <2>2 DEF PrimitiveReference
<1>3. CASE op \in Relations
  <2>0. op # "+" /\ op \in {"<", ">", "<=", ">="}
    BY <1>3 DEF Relations
  <2>1. ES5Binary(op, l, r) =
          ES5Both(l, r, "number", LAMBDA p, q : Bool(ES5Relation(op, ES5Number(p), ES5Number(q))))
    BY <1>0, <2>0 DEF ES5Binary
  <2>2. ES5Binary(op, l, r) = Combined(P, Q, Gives(Bool(ES5Relation(op, ES5Number(P.value), ES5Number(Q.value)))))
    BY <1>1, <2>0, <2>1 DEF ES5Both, Combined, Then
  <2> QED
    BY <1>3, <2>0, <2>2 DEF PrimitiveReference, NumericReference
<1>4. CASE op \notin Relations /\ op # "+"
  <2>0. op \notin {"<", ">", "<=", ">="}
    BY <1>4 DEF Relations
  <2>1. ES5Binary(op, l, r) =
          ES5Both(l, r, "number", LAMBDA p, q : Double(ES5Arithmetic(op, ES5Number(p), ES5Number(q))))
    BY <1>0, <1>4, <2>0 DEF ES5Binary
  <2>2. ES5Binary(op, l, r) = Combined(P, Q, Gives(Double(ES5Arithmetic(op, ES5Number(P.value), ES5Number(Q.value)))))
    BY <1>1, <1>4, <2>1 DEF ES5Both, Combined, Then
  <2> QED
    BY <1>4, <2>2 DEF PrimitiveReference, NumericReference, ES5Of
<1> QED
  BY <1>2, <1>3, <1>4

LEMMA ArithmeticIfNot ==
  ASSUME TwoOperands, E.op \in Converting, ~Departs
  PROVE  ~ArithmeticDeparts
<1>1. E.form \in {"binary", "compound"}
  BY DEF TwoOperands
<1>2. E.op \notin {"===", "!==", "==", "!=", "instanceof", "in"}
  BY DEF Converting, Arithmetic, Relations, IntOperators
<1>3. CASE E.op \in Relations
  BY <1>1, <1>2, <1>3 DEF Departs
<1>4. CASE E.op \notin Relations
  BY <1>1, <1>2, <1>4 DEF Departs
<1> QED
  BY <1>3, <1>4

\* Where nothing departs, the numbers are those that operators for ints know.
LEMMA NumbersAgree ==
  ASSUME ~ArithmeticDeparts
  PROVE  DoublesAgree(E.op, PrimitiveToNumber(L), PrimitiveToNumber(R))
<1> SUFFICES ASSUME E.op \in IntOperators
             PROVE  DoublesAgree(E.op, PrimitiveToNumber(L), PrimitiveToNumber(R))
  BY DEF DoublesAgree
<1>1. PICK x, y : x = PrimitiveToNumber(L) /\ y = PrimitiveToNumber(R)
  OBVIOUS
<1>2. HasInt(L) /\ HasInt(R)
  BY DEF ArithmeticDeparts
<1>3. FitsInt(x) /\ FitsInt(y)
  BY <1>1, <1>2 DEF HasInt, FitsInt
<1>4. E.op = "%" => IsInt(L) /\ IsInt(R) /\ ~DivisionTraps(IntOf(L), IntOf(R))
  BY DEF ArithmeticDeparts
<1>5. E.op \in {"<<", ">>", ">>>"} => IntOf(R) \in 0..(Width - 1)
  BY DEF ArithmeticDeparts
<1>6. E.op = ">>>" => ~(IntOf(L) < 0)
  BY DEF ArithmeticDeparts
<1>7. IntOf(L) = Truncated(x) /\ IntOf(R) = Truncated(y) /\ Truncated(x) \in Int
  BY <1>1, <1>3, IntsAre DEF IntOf, FitsInt
<1>8. E.op = ">>>" => Truncated(x) >= 0
  BY <1>6, <1>7
<1>9. E.op = "%" => IsWhole(x) /\ IsWhole(y)
  BY <1>1, <1>4 DEF IsInt
<1> QED
  BY <1>1, <1>3, <1>4, <1>5, <1>7, <1>8, <1>9 DEF DoublesAgree

LEMMA SmisAgree ==
  ASSUME ~ArithmeticDeparts, E.op \in Arithmetic, L \in Value, R \in Value, BothSmis(L, R),
         BothSmis(IF E.form = "binary" THEN L ELSE E.left, IF E.form = "binary" THEN R ELSE E.right),
         L = IF E.form = "binary" THEN L ELSE E.left,
         R = IF E.form = "binary" THEN R ELSE E.right
  PROVE  Agrees(E.op, L.int, R.int)
<1>1. PICK p, q : p = L /\ q = R
  OBVIOUS
<1>2. p.is = "smi" /\ q.is = "smi" /\ p.int \in Ints /\ q.int \in Ints
  BY <1>1, ValueCases DEF BothSmis, Undefined, Null
<1>3. PrimitiveToNumber(p) = Whole(p.int) /\ PrimitiveToNumber(q) = Whole(q.int)
  BY <1>2 DEF PrimitiveToNumber, IsNumber, IsString, NumberOf
<1>4. Truncated(Whole(p.int)) = p.int /\ Truncated(Whole(q.int)) = q.int
  BY <1>2, IntsAre, WholeArithmetic
<1>5. ~Overflows(E.op, p.int, q.int)
  BY <1>1 DEF ArithmeticDeparts
<1>6. E.op = "/" => ~DivisionTraps(p.int, q.int) /\ p.int % Magnitude(q.int) = 0
  BY <1>1 DEF ArithmeticDeparts
<1>7. DoublesAgree(E.op, Whole(p.int), Whole(q.int))
  BY <1>1, <1>3, NumbersAgree
<1>8. E.op = "%" => ~DivisionTraps(p.int, q.int)
  BY <1>4, <1>7 DEF DoublesAgree, IntOperators
<1>9. E.op \in {"<<", ">>", ">>>"} => q.int \in 0..(Width - 1)
  BY <1>4, <1>7 DEF DoublesAgree, IntOperators
<1>10. E.op = ">>>" => p.int >= 0
  BY <1>4, <1>7 DEF DoublesAgree, IntOperators
<1> QED
  BY <1>1, <1>5, <1>6, <1>8, <1>9, <1>10 DEF Agrees

LEMMA OperandsSound ==
  ASSUME ~ArithmeticDeparts, E.op \in Converting, L \in Value, R \in Value,
         L = IF E.form = "binary" THEN L ELSE E.left,
         R = IF E.form = "binary" THEN R ELSE E.right
  PROVE  Sound(E.op, L, R)
<1>1. CASE E.op = "+" /\ (IsString(L) \/ IsString(R))
  <2>1. ~Misspelt(L) /\ ~Misspelt(R)
    BY <1>1 DEF ArithmeticDeparts
  <2> QED
    BY <1>1, <2>1 DEF Sound
<1>2. CASE ~(E.op = "+" /\ (IsString(L) \/ IsString(R)))
  <2>1. ~Misread(L) /\ ~Misread(R)
    BY <1>2 DEF ArithmeticDeparts
  <2>2. DoublesAgree(E.op, PrimitiveToNumber(L), PrimitiveToNumber(R))
    BY NumbersAgree
  <2>3. BothSmis(L, R) /\ E.op \in Arithmetic => Agrees(E.op, L.int, R.int)
    BY SmisAgree
  <2> QED
    BY <1>2, <2>1, <2>2, <2>3 DEF Sound
<1> QED
  BY <1>1, <1>2

LEMMA BinaryAsES5 ==
  ASSUME Evaluated(E), E.form = "binary", E.op \in Converting, ~Departs
  PROVE  SameOutcome(E.outcome, Reference)
<1>1. PICK op, l, r, o : op = E.op /\ l = E.left /\ r = E.right /\ o = E.outcome
  OBVIOUS
<1>2. l \in Value /\ r \in Value /\ o \in BinaryExpression(op, l, r) /\ op \in Converting
  BY <1>1 DEF Evaluated, OutcomesOf
<1>3. ~ArithmeticDeparts
  BY ArithmeticIfNot DEF TwoOperands
<1>4. PICK P, Q : P = ToPrimitive(l, "none") /\ Q = ToPrimitive(r, "none")
  OBVIOUS
<1>5. L = P.value /\ R = Q.value
  BY <1>1, <1>4 DEF L, R, Primitive
<1>6. PICK hint : hint = IF op = "+" THEN "none" ELSE "number"
  OBVIOUS
<1>7. P = ToPrimitive(l, hint) /\ Q = ToPrimitive(r, hint)
  <2>1. CASE op = "+"
    BY <1>4, <1>6, <2>1
  <2>2. CASE op # "+"
    <3>1. ~(IsObject(l) /\ l.id \in DateIds) /\ ~(IsObject(r) /\ r.id \in DateIds)
      BY <1>1, <1>3, <2>2 DEF ArithmeticDeparts
    <3> QED
      BY <1>2, <1>4, <1>6, <2>2, <3>1, HintIrrelevant
  <2> QED
    BY <2>1, <2>2
<1>8. PICK w : w = PrimitiveReference(op, P.value, Q.value)
  OBVIOUS
<1>9. ES5Binary(op, l, r) = Combined(P, Q, Gives(w))
  BY <1>2, <1>6, <1>7, <1>8, BinaryReference
<1>10. Reference = Combined(P, Q, Gives(w))
  BY <1>1, <1>9 DEF Reference, TwoOperands
<1>11. PICK S : S = ApplyAssignmentOperator(op, P.value, Q.value)
  OBVIOUS
<1>12. o \in Afterwards(P, Q, S)
  BY <1>2, <1>4, <1>11, BinaryIs
<1>13. P.kind = "value" /\ Q.kind = "value" => \E v : S = {Gives(v)} /\ AsES5(v) = AsES5(w)
  <2> SUFFICES ASSUME P.kind = "value" /\ Q.kind = "value"
               PROVE  \E v : S = {Gives(v)} /\ AsES5(v) = AsES5(w)
    OBVIOUS
  <2>1. Converts(P) /\ Converts(Q)
    BY <1>2, <1>4, PrimitiveConverts
  <2>2. L \in Value /\ R \in Value /\ ~IsObject(L) /\ ~IsObject(R)
    BY <1>5, <2>1 DEF Converts
  <2>3. Sound(E.op, L, R)
    BY <1>3, <2>2, OperandsSound
  <2>4. Sound(op, P.value, Q.value)
    BY <1>1, <1>5, <2>3
  <2> QED
    BY <1>2, <1>5, <1>8, <1>11, <2>2, <2>4, PrimitivesAsES5
<1>14. SameOutcome(o, Combined(P, Q, Gives(w)))
  BY <1>2, <1>7, <1>12, <1>13, SameAfterwards
<1> QED
  BY <1>1, <1>10, <1>14

LEMMA CompoundAsES5 ==
  ASSUME Evaluated(E), E.form = "compound", ~Departs
  PROVE  SameOutcome(E.outcome, Reference)
<1>1. PICK op, l, r, o : op = E.op /\ l = E.left /\ r = E.right /\ o = E.outcome
  OBVIOUS
<1>2. /\ l \in Value /\ r \in Value /\ o \in ApplyAssignmentOperator(op, l, r)
      /\ op \in Arithmetic /\ op \in Converting
  BY <1>1 DEF Evaluated, OutcomesOf, OperatorsOf, Converting
<1>3. ~ArithmeticDeparts
  BY <1>1, <1>2, ArithmeticIfNot DEF TwoOperands
<1>4. PICK P, Q : P = ToPrimitive(l, "number") /\ Q = ToPrimitive(r, "number")
  OBVIOUS
<1>5. L = P.value /\ R = Q.value
  BY <1>1, <1>4 DEF L, R, Primitive
<1>6. PICK w : w = PrimitiveReference(op, P.value, Q.value)
  OBVIOUS
<1>7. CASE ~IsObject(l) /\ ~IsObject(r)
  <2>1. P = Gives(l) /\ Q = Gives(r) /\ P.value = l /\ Q.value = r
    BY <1>2, <1>4, <1>7, PrimitiveConverts, SimpleGives
  <2>2. \A hint : ToPrimitive(l, hint) = P /\ ToPrimitive(r, hint) = Q
    BY <1>2, <1>7, <2>1, PrimitiveConverts
  <2>3. PICK hint : hint = IF op = "+" THEN "none" ELSE "number"
    OBVIOUS
  <2>4. ES5Binary(op, l, r) = Combined(P, Q, Gives(w))
    BY <1>2, <1>6, <2>2, <2>3, BinaryReference
  <2>5. L \in Value /\ R \in Value /\ L = E.left /\ R = E.right
    BY <1>1, <1>2, <1>5, <2>1
  <2>6. Sound(E.op, L, R)
    BY <1>1, <1>2, <1>3, <2>5, OperandsSound
  <2>7. PICK v : /\ ApplyAssignmentOperator(op, l, r) = {Gives(v)} /\ AsES5(v) = AsES5(w)
    BY <1>1, <1>2, <1>6, <1>7, <2>1, <2>5, <2>6, PrimitivesAsES5
  <2>8. Combined(P, Q, Gives(w)) = Gives(w)
    BY <2>1, SimpleAfter, SimpleGives DEF Combined
  <2>9. SameOutcome(o, Gives(w))
    BY <1>2, <2>7, SimpleGives DEF SameOutcome
  <2> QED
    BY <1>1, <2>4, <2>8, <2>9 DEF Reference, TwoOperands
<1>8. CASE IsObject(l) \/ IsObject(r)
  <2>1. op # "+"
    BY <1>1, <1>3, <1>8 DEF ArithmeticDeparts
  <2>2. ES5Binary(op, l, r) = Combined(P, Q, Gives(w))
    BY <1>2, <1>4, <1>6, <2>1, BinaryReference
  <2>3. ~(l.is = "smi" /\ r.is = "smi")
    BY <1>8 DEF IsObject
  <2>4. PICK x, y : x = PrimitiveToNumber(P.value) /\ y = PrimitiveToNumber(Q.value)
    OBVIOUS
  <2>5. PICK S : S = ApplyBinaryOperator(op, Double(x), Double(y))
    OBVIOUS
  <2>6. Numeric(op, l, r) = Afterwards(P, Q, S)
    BY <1>2, <1>4, <2>3, <2>4, <2>5, NumericIs
  <2>7. o \in Afterwards(P, Q, S)
    BY <1>2, <2>1, <2>6 DEF ApplyAssignmentOperator
  <2>8. P.kind = "value" /\ Q.kind = "value" => \E v : S = {Gives(v)} /\ AsES5(v) = AsES5(w)
    <3> SUFFICES ASSUME P.kind = "value" /\ Q.kind = "value"
                 PROVE  S = {Gives(w)}
      OBVIOUS
    <3>1. Converts(P) /\ Converts(Q)
      BY <1>2, <1>4, PrimitiveConverts
    <3>2. P.value \in Value /\ Q.value \in Value /\ ~IsObject(P.value) /\ ~IsObject(Q.value)
      BY <3>1 DEF Converts
    <3>3. ~Misread(P.value) /\ ~Misread(Q.value)
      BY <1>1, <1>3, <1>5, <2>1 DEF ArithmeticDeparts
    <3>4. x \in Number /\ y \in Number /\ ES5Number(P.value) = x /\ ES5Number(Q.value) = y
      BY <2>4, <3>2, <3>3, NumberOfPrimitive, NumberTyped
    <3>5. DoublesAgree(op, x, y)
      BY <1>1, <1>3, <1>5, <2>4, NumbersAgree
    <3>6. S = {Gives(NumericReference(op, x, y))}
      BY <1>2, <2>5, <3>4, <3>5, OnDoubles
    <3>7. w = NumericReference(op, x, y)
      BY <1>6, <2>1, <3>4 DEF PrimitiveReference
    <3> QED
      BY <3>6, <3>7
  <2>9. SameOutcome(o, Combined(P, Q, Gives(w)))
    BY <1>2, <1>4, <2>7, <2>8, SameAfterwards
  <2> QED
    BY <1>1, <2>2, <2>9 DEF Reference, TwoOperands
<1> QED
  BY <1>7, <1>8

-----------------------------------------------------------------------------
\* What is on the chain that starts with p.
Chain(p) == {a \in ObjectIds : \A S \in Chains : p \in S => a \in S}

LEMMA ChainUnfolds ==
  ASSUME NEW p \in ObjectIds
  PROVE  Chain(p) = {p} \cup Ancestors[p]
<1> DEFINE T == {p} \cup Ancestors[p]
<1>1. Ancestors[p] = IF ProtoOf[p] = NoObjectId THEN {} ELSE Chain(ProtoOf[p])
  BY DEF Ancestors, Chain
<1>2. T \subseteq Chain(p)
  <2>1. p \in Chain(p)
    BY DEF Chain
  <2>2. ASSUME NEW a \in Ancestors[p] PROVE a \in Chain(p)
    <3>1. ProtoOf[p] # NoObjectId /\ a \in Chain(ProtoOf[p])
      BY <1>1
    <3> QED
      BY <3>1 DEF Chain, Chains
  <2> QED
    BY <2>1, <2>2
<1>3. T \in Chains
  <2>1. T \in SUBSET ObjectIds
    BY <1>2 DEF Chain
  <2>2. ASSUME NEW o \in T, ProtoOf[o] # NoObjectId PROVE ProtoOf[o] \in T
    <3>1. o \in ObjectIds /\ ProtoOf[o] \in ObjectIds
      BY <2>1, <2>2, PrototypesAssumption
    <3>2. ProtoOf[p] # NoObjectId /\ ProtoOf[o] \in Chain(ProtoOf[p])
      <4>1. CASE o = p
        BY <2>2, <3>1, <4>1 DEF Chain
      <4>2. CASE o \in Ancestors[p]
        <5>1. ProtoOf[p] # NoObjectId /\ o \in Chain(ProtoOf[p])
          BY <1>1, <4>2
        <5> QED
          BY <2>2, <3>1, <5>1 DEF Chain, Chains
      <4> QED
        BY <2>2, <4>1, <4>2
    <3> QED
      BY <1>1, <3>2
  <2> HIDE DEF T
  <2> QED
    BY <2>1, <2>2 DEF Chains
<1>4. Chain(p) \subseteq T
  <2>1. p \in T
    OBVIOUS
  <2> HIDE DEF T
  <2> QED
    BY <1>3, <2>1 DEF Chain
<1> QED
  BY <1>2, <1>4

LEMMA AncestorsUnfold ==
  ASSUME NEW o \in ObjectIds
  PROVE  Ancestors[o] = IF ProtoOf[o] = NoObjectId THEN {} ELSE {ProtoOf[o]} \cup Ancestors[ProtoOf[o]]
<1>1. Ancestors[o] = IF ProtoOf[o] = NoObjectId THEN {} ELSE Chain(ProtoOf[o])
  BY DEF Ancestors, Chain
<1>2. ProtoOf[o] # NoObjectId => ProtoOf[o] \in ObjectIds
  BY PrototypesAssumption
<1> QED
  BY <1>1, <1>2, ChainUnfolds

LEMMA InstanceOfAsES5 ==
  ASSUME NEW l \in Value, NEW r \in Value, IsObject(l), IsCallable(r), PrototypeProperty[r.id] # NoObjectId
  PROVE  InstanceOf(l, r) = ES5InstanceOf(l, r)
<1>1. l.id \in ObjectIds /\ l.is = "object" /\ IsObject(r)
  BY ValueCases DEF IsObject, Undefined, Null, IsCallable
<1>2. ToObject(l) = Gives(l)
  <2>1. ~IsNothing(l)
    BY <1>1 DEF IsNothing
  <2> QED
    BY <2>1 DEF ToObject
<1>3. PICK f, s : f = PrototypeProperty[r.id] /\ s = ProtoOf[l.id]
  OBVIOUS
<1>4. InstanceOf(l, r) = Gives(Bool(f \in (IF s = NoObjectId THEN {} ELSE {s} \cup Ancestors[s])))
  BY <1>1, <1>2, <1>3, SimpleGives DEF InstanceOf
<1>5. ES5InstanceOf(l, r) = Gives(Bool(f \in Ancestors[l.id]))
  BY <1>3 DEF ES5InstanceOf
<1> QED
  BY <1>1, <1>3, <1>4, <1>5, AncestorsUnfold

LEMMA InAsES5 ==
  ASSUME NEW l \in Value, NEW r \in Value, IsObject(r),
         ToString(l).kind = "value", ~Misspelt(ToPrimitive(l, "string").value),
         \A o \in Ancestors[r.id] : ToString(l).value.text \notin OwnNames[o]
  PROVE  InOperator(l, r) = ES5In(l, r)
<1>1. PICK P, N : P = ToPrimitive(l, "string") /\ N = ToString(l)
  OBVIOUS
<1>2. Converts(P) /\ WellFormed(P)
  BY <1>1, PrimitiveConverts, PrimitiveWellFormed
<1>3. P.kind = "value"
  BY <1>1, StringIs
<1>4. N = Ending("value", Str(PrimitiveToString(P.value)), P.calls)
  BY <1>1, <1>3, StringIs
<1>5. PrimitiveToString(P.value) = ES5Text(P.value)
  BY <1>1, <1>2, <1>3, TextIs DEF Converts
<1>6. PICK t : t = ES5Text(P.value)
  OBVIOUS
<1>7. N.kind = "value" /\ N.value.text = t /\ N.calls = P.calls
  <2>1. N.value = Str(t)
    BY <1>4, <1>5, <1>6, EndingParts
  <2> QED
    BY <1>4, <2>1, EndingParts DEF Str
<1>8. PICK g : g = Gives(Bool(t \in OwnNames[r.id]))
  OBVIOUS
<1>9. InOperator(l, r) = After(N, g)
  <2>1. ~IsNothing(r)
    BY DEF IsNothing, IsObject
  <2>2. InOperator(l, r) = After(N, Gives(Bool(CASE IsObject(r) -> N.value.text \in OwnNames[r.id]
                                                 [] IsString(r) -> N.value.text = Word("length")
                                                 [] OTHER -> FALSE)))
    BY <1>1, <1>7, <2>1 DEF InOperator
  <2>3. (CASE IsObject(r) -> N.value.text \in OwnNames[r.id]
           [] IsString(r) -> N.value.text = Word("length")
           [] OTHER -> FALSE) = (t \in OwnNames[r.id])
    BY <1>7 DEF IsObject, IsString
  <2> QED
    BY <1>8, <2>2, <2>3
<1>10. (\E o \in {r.id} \cup Ancestors[r.id] : t \in OwnNames[o]) = (t \in OwnNames[r.id])
  <2>1. \A o \in Ancestors[r.id] : t \notin OwnNames[o]
    BY <1>1, <1>7
  <2>2. PICK A : A = Ancestors[r.id]
    OBVIOUS
  <2>3. (\E o \in {r.id} \cup A : t \in OwnNames[o]) <=> (t \in OwnNames[r.id])
    BY <2>1, <2>2
  <2>4. (\E o \in {r.id} \cup A : t \in OwnNames[o]) = (t \in OwnNames[r.id])
    <3>1. CASE t \in OwnNames[r.id]
      BY <2>3, <3>1
    <3>2. CASE t \notin OwnNames[r.id]
      <4>1. (t \in OwnNames[r.id]) = FALSE
        BY <3>2
      <4>2. (\E o \in {r.id} \cup A : t \in OwnNames[o]) = FALSE
        BY <2>3, <3>2
      <4> QED
        BY <4>1, <4>2, Zenon
    <3> QED
      BY <3>1, <3>2
  <2> QED
    BY <2>2, <2>4
<1>11. ES5In(l, r) = After(P, Gives(Bool(\E o \in {r.id} \cup Ancestors[r.id] : t \in OwnNames[o])))
  <2>1. ES5Primitive(l, "string") = P
    BY <1>1, PrimitiveAsES5
  <2> QED
    BY <1>3, <1>6, <2>1 DEF ES5In, Then
<1>12. ES5In(l, r) = After(P, g)
  BY <1>8, <1>10, <1>11
<1>13. After(N, g) = After(P, g)
  <2>1. After(N, g) = After(Calling(N.calls), g) /\ After(P, g) = After(Calling(P.calls), g)
    BY AfterCalls
  <2> QED
    BY <1>7, <2>1
<1> QED
  BY <1>9, <1>12, <1>13

LEMMA TypeOfAsES5 ==
  ASSUME NEW v \in Value PROVE TypeOf(v) = ES5Type(v)
<1>1. CASE v = Undefined
  BY <1>1 DEF TypeOf, ES5Type, IsNumber, IsString, IsObject, IsCallable, Undefined, Null
<1>2. CASE v = Null
  BY <1>2 DEF TypeOf, ES5Type, IsNumber, IsString, IsObject, IsCallable, Undefined, Null
<1>3. CASE v.is \in {"bool", "smi", "double", "string", "object"}
  <2>1. v # Null
    BY <1>3 DEF Null
  <2> QED
    BY <1>3, <2>1 DEF TypeOf, ES5Type, IsNumber, IsString, IsObject, IsCallable
<1> QED
  BY <1>1, <1>2, <1>3, ValueCases

LEMMA BooleanAsES5 ==
  ASSUME NEW v \in Value PROVE ToBoolean(v) = ES5Boolean(v)
<1> DEFINE falses == {Undefined, Null, Bool(FALSE), Str(<<>>), Double(Whole(0)), Double(NaN)}
<1>1. CASE v = Undefined
  BY <1>1 DEF ToBoolean, ES5Boolean, AsES5, IsNothing, IsString, IsObject, Undefined, Null
<1>2. CASE v = Null
  BY <1>2 DEF ToBoolean, ES5Boolean, AsES5, IsNothing, IsString, IsObject, Undefined, Null
<1>3. CASE v.is = "bool" /\ v.bool \in BOOLEAN /\ v = Bool(v.bool)
  <2>1. ToBoolean(v) = v.bool
    BY <1>3 DEF ToBoolean, IsNothing, IsString, IsObject
  <2>2. AsES5(v) = v
    BY <1>3 DEF AsES5
  <2>3. (v \notin falses) = v.bool
    <3>1. v \notin {Undefined, Null, Str(<<>>), Double(Whole(0)), Double(NaN)}
      BY <1>3 DEF Undefined, Null, Str, Double
    <3>2. v = Bool(FALSE) <=> ~v.bool
      BY <1>3 DEF Bool
    <3>3. (v \notin falses) <=> v.bool
      BY <3>1, <3>2
    <3> HIDE DEF falses
    <3> QED
      BY <1>3, <3>3
  <2> QED
    BY <2>1, <2>2, <2>3 DEF ES5Boolean
<1>4. CASE v.is = "smi" /\ v.int \in Ints /\ v = Smi(v.int)
  <2>1. ToBoolean(v) = (v.int # 0)
    BY <1>4 DEF ToBoolean, IsNothing, IsString, IsObject
  <2>2. AsES5(v) = Double(Whole(v.int))
    BY <1>4 DEF AsES5
  <2>3. PICK d : d = Double(Whole(v.int))
    OBVIOUS
  <2>4. d.is = "double" /\ d.number = Whole(v.int)
    BY <2>3 DEF Double
  <2>5. d \notin {Undefined, Null, Bool(FALSE), Str(<<>>)}
    BY <2>4 DEF Undefined, Null, Bool, Str
  <2>6. d # Double(NaN)
    <3>1. Double(NaN).number = NaN
      BY DEF Double
    <3>2. Whole(v.int) # NaN
      BY DEF Whole, NaN
    <3> QED
      BY <2>4, <3>1, <3>2
  <2>7. d = Double(Whole(0)) <=> v.int = 0
    <3>1. Double(Whole(0)).number = Whole(0)
      BY DEF Double
    <3>2. Whole(v.int) = Whole(0) <=> v.int = 0
      BY DEF Whole
    <3> QED
      BY <2>3, <2>4, <3>1, <3>2
  <2>8. (d \notin falses) <=> v.int # 0
    BY <2>5, <2>6, <2>7
  <2>9. ES5Boolean(v) = (d \notin falses)
    BY <2>2, <2>3 DEF ES5Boolean
  <2> HIDE DEF falses
  <2> QED
    BY <2>1, <2>8, <2>9
<1>5. CASE v.is = "double" /\ v.number \in Number /\ v = Double(v.number)
  <2>1. ToBoolean(v) = (v.number \notin {Whole(0), NaN})
    BY <1>5 DEF ToBoolean, IsNothing, IsString, IsObject
  <2>2. AsES5(v) = v
    BY <1>5 DEF AsES5
  <2>3. v \notin {Undefined, Null, Bool(FALSE), Str(<<>>)}
    BY <1>5 DEF Undefined, Null, Bool, Str
  <2>4. \A x : v = Double(x) <=> v.number = x
    <3>1. \A x : Double(x).number = x
      BY DEF Double
    <3> QED
      BY <1>5, <3>1
  <2>5. (v \notin falses) <=> v.number \notin {Whole(0), NaN}
    BY <2>3, <2>4
  <2>6. ES5Boolean(v) = (v \notin falses)
    BY <2>2 DEF ES5Boolean
  <2> HIDE DEF falses
  <2> QED
    BY <2>1, <2>5, <2>6
<1>6. CASE v.is = "string" /\ v.text \in Text /\ v = Str(v.text)
  <2>1. ToBoolean(v) = (v.text # <<>>)
    BY <1>6 DEF ToBoolean, IsNothing, IsString, IsObject
  <2>2. AsES5(v) = v
    BY <1>6 DEF AsES5
  <2>3. v \notin {Undefined, Null, Bool(FALSE), Double(Whole(0)), Double(NaN)}
    BY <1>6 DEF Undefined, Null, Bool, Double
  <2>4. v = Str(<<>>) <=> v.text = <<>>
    <3>1. Str(<<>>).text = <<>>
      BY DEF Str
    <3> QED
      BY <1>6, <3>1
  <2>5. (v \notin falses) <=> v.text # <<>>
    BY <2>3, <2>4
  <2>6. ES5Boolean(v) = (v \notin falses)
    BY <2>2 DEF ES5Boolean
  <2> HIDE DEF falses
  <2> QED
    BY <2>1, <2>5, <2>6
<1>7. CASE v.is = "object"
  <2>1. ToBoolean(v) = TRUE
    BY <1>7 DEF ToBoolean, IsNothing, IsString, IsObject
  <2>2. AsES5(v) = v
    BY <1>7 DEF AsES5
  <2>3. v \notin falses
    BY <1>7 DEF Undefined, Null, Bool, Double, Str
  <2> QED
    BY <2>1, <2>2, <2>3 DEF ES5Boolean
<1> QED
  BY <1>1, <1>2, <1>3, <1>4, <1>5, <1>6, <1>7, ValueCases

LEMMA LiteralAsES5 ==
  ASSUME NEW v \in Value, IsNumber(v)
  PROVE  AsES5(NumberLiteral(NumberOf(v))) = AsES5(AsES5(v))
<1>1. PICK x : x = NumberOf(v)
  OBVIOUS
<1>2. x \in Number /\ AsES5(v) = Double(x)
  <2>1. CASE v.is = "smi"
    <3>1. v.int \in Int
      BY <2>1, ValueCases, IntsAre DEF Undefined, Null
    <3> QED
      BY <1>1, <2>1, <3>1, NumberMembers DEF NumberOf, AsES5
  <2>2. CASE v.is = "double"
    <3>1. v.number \in Number /\ v = Double(v.number)
      BY <2>2, ValueCases DEF Undefined, Null
    <3> QED
      BY <1>1, <2>2, <3>1 DEF NumberOf, AsES5
  <2> QED
    BY <2>1, <2>2 DEF IsNumber
<1>3. AsES5(Double(x)) = Double(x)
  BY DEF AsES5, Double
<1>4. CASE IsWhole(x) /\ x[1] \in Ints
  <2>1. x = Whole(x[1])
    BY <1>2, <1>4, NumberParts DEF IsWhole, Whole
  <2>2. AsES5(Smi(x[1])) = Double(Whole(x[1]))
    BY DEF AsES5, Smi
  <2> QED
    BY <1>1, <1>2, <1>3, <1>4, <2>1, <2>2 DEF NumberLiteral
<1>5. CASE ~(IsWhole(x) /\ x[1] \in Ints)
  BY <1>1, <1>2, <1>3, <1>5 DEF NumberLiteral
<1> QED
  BY <1>4, <1>5

\* ++ and -- of numbers
LEMMA UpdateAsES5 ==
  ASSUME NEW v \in Value, NEW op \in {"++", "--"}, IsNumber(v),
         v.is = "smi" => ~Overflows("+", v.int, IF op = "++" THEN 1 ELSE -1)
  PROVE  SameOutcome(ApplyUpdateOperator(op, v), ES5Unary(op, v))
<1>1. PICK by : by = IF op = "++" THEN 1 ELSE -1
  OBVIOUS
<1>2. by \in Int
  BY <1>1
<1>3. PICK n : n = NumberOf(v)
  OBVIOUS
<1>4. ES5Number(v) = n
  BY <1>3 DEF ES5Number, IsNumber, IsString, Null, Undefined, Bool
<1>5. ES5Primitive(v, "number") = Gives(v)
  BY DEF ES5Primitive, IsNumber, IsObject
<1>6. ES5Unary(op, v) = Gives(Double(Plus(n, Whole(by))))
  <2>1. PICK g : g = Gives(v)
    OBVIOUS
  <2>2. g.kind = "value" /\ g.value = v
    BY <2>1, SimpleGives
  <2>3. CASE op = "++"
    <3>1. ES5Unary(op, v) = After(g, Gives(Double(Plus(n, Whole(1)))))
      BY <1>4, <1>5, <2>1, <2>2, <2>3 DEF ES5Unary, Then
    <3> QED
      BY <1>1, <2>1, <2>3, <3>1, SimpleAfter
  <2>4. CASE op = "--"
    <3>1. ES5Unary(op, v) = After(g, Gives(Double(Plus(n, Whole(-1)))))
      BY <1>4, <1>5, <2>1, <2>2, <2>4 DEF ES5Unary, Then
    <3> QED
      BY <1>1, <2>1, <2>4, <3>1, SimpleAfter
  <2> QED
    BY <2>3, <2>4
<1>7. CASE v.is = "smi"
  <2>1. v.int \in Int /\ n = Whole(v.int)
    BY <1>3, <1>7, ValueCases, IntsAre DEF Undefined, Null, NumberOf
  <2>2. v.int + by \in Ints
    BY <1>1, <1>7 DEF Overflows
  <2>3. ApplyUpdateOperator(op, v) = Gives(Smi(v.int + by))
    BY <1>1, <1>7, <2>2, WrappedIs DEF ApplyUpdateOperator
  <2>4. Plus(n, Whole(by)) = Whole(v.int + by)
    BY <1>2, <2>1, WholeArithmetic
  <2>5. AsES5(Smi(v.int + by)) = Double(Whole(v.int + by)) /\ AsES5(Double(Whole(v.int + by))) = Double(Whole(v.int + by))
    BY DEF AsES5, Smi, Double
  <2> QED
    BY <1>6, <2>3, <2>4, <2>5, SimpleGives DEF SameOutcome
<1>8. CASE v.is = "double"
  <2>1. n = v.number
    BY <1>3, <1>8 DEF NumberOf
  <2>2. ApplyUpdateOperator(op, v) = Gives(Double(Plus(n, Whole(by))))
    BY <1>1, <1>8, <2>1 DEF ApplyUpdateOperator
  <2> QED
    BY <1>6, <2>2 DEF SameOutcome
<1> QED
  BY <1>7, <1>8 DEF IsNumber

LEMMA AfterGives ==
  ASSUME NEW r, r.calls \in Seq(CallSet), NEW z
  PROVE  After(r, Gives(z)) = Ending("value", z, r.calls)
<1>1. PICK g : g = Gives(z)
  OBVIOUS
<1>2. After(r, g) = Ending(g.kind, g.value, r.calls)
  BY <1>1, AfterSimple, SimpleGives
<1> QED
  BY <1>1, <1>2, SimpleGives

LEMMA UnaryNumber ==
  ASSUME NEW v \in Value, NEW op \in {"+", "-", "~"}, NEW P, P = ToPrimitive(v, "number"),
         ~Misread(P.value), op = "~" => HasInt(P.value),
         NEW o \in UnaryExpression(op, v)
  PROVE  SameOutcome(o, ES5Unary(op, v))
<1>1. PICK N : N = ToNumber(v)
  OBVIOUS
<1>2. WellFormed(P) /\ Converts(P) /\ ES5Primitive(v, "number") = P
  BY PrimitiveWellFormed, PrimitiveConverts, PrimitiveAsES5
<1>3. CASE P.kind # "value"
  <2>1. N = P
    BY <1>1, <1>3, NumberIs
  <2>2. o = P
    <3>1. CASE op = "+"
      BY <1>1, <1>3, <2>1, <3>1 DEF UnaryExpression, Then
    <3>2. CASE op = "-"
      BY <1>1, <1>3, <2>1, <3>2 DEF UnaryExpression, Then
    <3>3. CASE op = "~"
      BY <1>1, <1>3, <2>1, <3>3 DEF UnaryExpression
    <3> QED
      BY <3>1, <3>2, <3>3
  <2>3. ES5Unary(op, v) = P
    BY <1>2, <1>3 DEF ES5Unary, Then
  <2> QED
    BY <2>2, <2>3 DEF SameOutcome
<1>4. CASE P.kind = "value"
  <2>1. PICK x : x = PrimitiveToNumber(P.value)
    OBVIOUS
  <2>2. ES5Number(P.value) = x /\ x \in Number
    BY <1>2, <1>4, <2>1, NumberOfPrimitive, NumberTyped DEF Converts
  <2>3. N = Ending("value", Double(x), P.calls)
    BY <1>1, <1>4, <2>1, NumberIs
  <2>4. N.kind = "value" /\ N.value.number = x /\ N.calls = P.calls
    <3>1. N.value = Double(x)
      BY <2>3, EndingParts
    <3> QED
      BY <2>3, <3>1, EndingParts DEF Double
  <2>5. P.calls \in Seq(CallSet) /\ N.calls \in Seq(CallSet)
    BY <1>2, <2>4 DEF WellFormed
  <2>6. \A z : /\ After(N, Gives(z)) = Ending("value", z, P.calls)
               /\ After(P, Gives(z)) = Ending("value", z, P.calls)
    BY <2>4, <2>5, AfterGives
  <2>7. CASE op = "+"
    <3>1. o = After(N, Gives(Double(x)))
      BY <1>1, <2>4, <2>7 DEF UnaryExpression, Then
    <3>2. ES5Unary(op, v) = After(P, Gives(Double(x)))
      BY <1>2, <1>4, <2>2, <2>7 DEF ES5Unary, Then
    <3> QED
      BY <2>6, <3>1, <3>2 DEF SameOutcome
  <2>8. CASE op = "-"
    <3>1. o = After(N, Gives(Double(Negated(x))))
      BY <1>1, <2>4, <2>8 DEF UnaryExpression, Then
    <3>2. ES5Unary(op, v) = After(P, Gives(Double(Negated(x))))
      BY <1>2, <1>4, <2>2, <2>8 DEF ES5Unary, Then
    <3> QED
      BY <2>6, <3>1, <3>2 DEF SameOutcome
  <2>9. CASE op = "~"
    <3>1. IsFinite(x) /\ Truncated(x) \in Ints
      BY <2>1, <2>9 DEF HasInt
    <3>2. PICK n : n = Truncated(x)
      OBVIOUS
    <3>3. AsInts(x) = {n} /\ ES5Int(x) = n
      BY <3>1, <3>2, WrappedIs DEF AsInts, ES5Int
    <3>4. o = After(N, Gives(Smi(-1 - n)))
      BY <1>1, <2>4, <2>9, <3>3 DEF UnaryExpression
    <3>5. ES5Unary(op, v) = After(P, Gives(Double(Whole(-1 - n))))
      BY <1>2, <1>4, <2>2, <2>9, <3>3 DEF ES5Unary, Then
    <3>6. AsES5(Smi(-1 - n)) = Double(Whole(-1 - n)) /\ AsES5(Double(Whole(-1 - n))) = Double(Whole(-1 - n))
      BY DEF AsES5, Smi, Double
    <3> QED
      BY <2>6, <3>4, <3>5, <3>6, EndingParts DEF SameOutcome
  <2> QED
    BY <2>7, <2>8, <2>9
<1> QED
  BY <1>3, <1>4

LEMMA UnaryAsES5 ==
  ASSUME Evaluated(E), E.form = "unary", ~Departs
  PROVE  SameOutcome(E.outcome, Reference)
<1>1. PICK op, v, o : op = E.op /\ v = E.left /\ o = E.outcome
  OBVIOUS
<1>2. v \in Value /\ op \in UnaryOperators /\ o \in UnaryExpression(op, v)
  BY <1>1 DEF Evaluated, OperatorsOf, OutcomesOf
<1>3. Reference = ES5Unary(op, v)
  BY <1>1 DEF Reference, TwoOperands
<1>4. CASE op = "void"
  <2>1. o = Gives(Undefined)
    BY <1>2, <1>4 DEF UnaryExpression
  <2>2. ES5Unary(op, v) = Gives(Undefined)
    BY <1>4 DEF ES5Unary
  <2> QED
    BY <1>1, <1>3, <2>1, <2>2 DEF SameOutcome
<1>5. CASE op = "!"
  <2>1. o = Gives(Bool(~ToBoolean(v)))
    BY <1>2, <1>5 DEF UnaryExpression
  <2>2. ES5Unary(op, v) = Gives(Bool(~ES5Boolean(v)))
    BY <1>5 DEF ES5Unary
  <2> QED
    BY <1>1, <1>2, <1>3, <2>1, <2>2, BooleanAsES5 DEF SameOutcome
<1>6. CASE op = "?:"
  <2>1. o = Gives(Bool(ToBoolean(v)))
    BY <1>2, <1>6 DEF UnaryExpression
  <2>2. ES5Unary(op, v) = Gives(Bool(ES5Boolean(v)))
    BY <1>6 DEF ES5Unary
  <2> QED
    BY <1>1, <1>2, <1>3, <2>1, <2>2, BooleanAsES5 DEF SameOutcome
<1>7. CASE op \in {"+", "-", "~"}
  <2>1. PICK P : P = ToPrimitive(v, "number")
    OBVIOUS
  <2>2. L = P.value
    BY <1>1, <2>1 DEF L, Primitive
  <2>3. ~(E.op \in {"+", "-", "~"} /\ (Misread(L) \/ (E.op = "~" /\ ~HasInt(L))))
    BY <1>1, <1>7 DEF Departs, Relations
  <2>4. ~Misread(P.value) /\ (op = "~" => HasInt(P.value))
    BY <1>1, <1>7, <2>2, <2>3
  <2> QED
    BY <1>1, <1>2, <1>3, <1>7, <2>1, <2>4, UnaryNumber
<1> QED
  BY <1>2, <1>4, <1>5, <1>6, <1>7 DEF UnaryOperators

LEMMA OtherBinaryAsES5 ==
  ASSUME Evaluated(E), E.form = "binary", E.op \in {"instanceof", "in"}, ~Departs
  PROVE  SameOutcome(E.outcome, Reference)
<1>1. PICK op, l, r, o : op = E.op /\ l = E.left /\ r = E.right /\ o = E.outcome
  OBVIOUS
<1>2. l \in Value /\ r \in Value /\ o \in BinaryExpression(op, l, r)
  BY <1>1 DEF Evaluated, OutcomesOf
<1>3. Reference = ES5Binary(op, l, r)
  BY <1>1 DEF Reference, TwoOperands
<1>4. CASE op = "instanceof"
  <2>1. IsObject(l) /\ IsCallable(r) /\ PrototypeProperty[r.id] # NoObjectId
    BY <1>1, <1>4 DEF Departs, Relations
  <2>2. o = InstanceOf(l, r)
    BY <1>2, <1>4 DEF BinaryExpression
  <2>3. ES5Binary(op, l, r) = ES5InstanceOf(l, r)
    BY <1>4 DEF ES5Binary
  <2> QED
    BY <1>1, <1>2, <1>3, <2>1, <2>2, <2>3, InstanceOfAsES5 DEF SameOutcome
<1>5. CASE op = "in"
  <2>1. /\ IsObject(r) /\ ToString(l).kind = "value"
        /\ ~Misspelt(ToPrimitive(l, "string").value)
        /\ ~(\E a \in Ancestors[r.id] : ToString(l).value.text \in OwnNames[a])
    BY <1>1, <1>5 DEF Departs, Relations
  <2>2. o = InOperator(l, r)
    BY <1>2, <1>5 DEF BinaryExpression
  <2>3. ES5Binary(op, l, r) = ES5In(l, r)
    BY <1>5 DEF ES5Binary
  <2> QED
    BY <1>1, <1>2, <1>3, <2>1, <2>2, <2>3, InAsES5 DEF SameOutcome
<1> QED
  BY <1>1, <1>4, <1>5

LEMMA SingleAsES5 ==
  ASSUME Evaluated(E), E.form \in {"update", "typeof", "literal"}, ~Departs
  PROVE  SameOutcome(E.outcome, Reference)
<1>1. PICK op, v, o : op = E.op /\ v = E.left /\ o = E.outcome
  OBVIOUS
<1>2. v \in Value
  BY <1>1 DEF Evaluated
<1>3. Reference = ES5Unary(op, v)
  BY <1>1 DEF Reference, TwoOperands
<1>4. CASE E.form = "update"
  <2>1. op \in {"++", "--"} /\ o = ApplyUpdateOperator(op, v)
    BY <1>1, <1>4 DEF Evaluated, OperatorsOf, OutcomesOf
  <2>2. /\ IsNumber(v)
        /\ v.is = "smi" => ~Overflows("+", v.int, IF op = "++" THEN 1 ELSE -1)
    BY <1>1, <1>4, <2>1 DEF Departs, Relations
  <2> QED
    BY <1>1, <1>2, <1>3, <2>1, <2>2, UpdateAsES5
<1>5. CASE E.form = "typeof"
  <2>1. op = "typeof" /\ o = Gives(Str(Word(TypeOf(v))))
    BY <1>1, <1>5 DEF Evaluated, OperatorsOf, OutcomesOf
  <2>2. ES5Unary(op, v) = Gives(Str(Word(ES5Type(v))))
    BY <2>1 DEF ES5Unary
  <2> QED
    BY <1>1, <1>2, <1>3, <2>1, <2>2, TypeOfAsES5 DEF SameOutcome
<1>6. CASE E.form = "literal"
  <2>1. op = "literal" /\ o = Gives(NumberLiteral(NumberOf(v))) /\ IsNumber(v)
    BY <1>1, <1>6 DEF Evaluated, OperatorsOf, OutcomesOf
  <2>2. ES5Unary(op, v) = Gives(AsES5(v))
    BY <2>1 DEF ES5Unary
  <2> QED
    BY <1>1, <1>2, <1>3, <2>1, <2>2, LiteralAsES5, SimpleGives DEF SameOutcome
<1> QED
  BY <1>4, <1>5, <1>6

\* For ints of any width and any operands, every other operator, assignment with
\* an operator, ++, -- and literal gives what the standard gives, by way of the same
\* calls, where nothing that Departs names is the case: two ints are computed with as
\* doubles are, and the code's order of conversions, its tests of types and its chain
\* of prototypes come to the standard's (evalast.cc 516-835, 885-915, 1207-1214).
THEOREM OperatorsImplementES5 == ExpressionSpec => []OperatorsAsES5
<1>1. EvaluationInv => OperatorsAsES5
  <2> SUFFICES ASSUME EvaluationInv, HasOutcome, E.op \notin Equalities, ~Departs
               PROVE  SameOutcome(E.outcome, Reference)
    BY DEF OperatorsAsES5
  <2>1. Evaluated(E)
    BY EvaluatedIfOutcome
  <2>2. CASE E.form = "binary"
    <3>1. E.op \in Converting \/ E.op \in {"instanceof", "in"}
      BY <2>1, <2>2 DEF Evaluated, OperatorsOf, BinaryOperators
    <3> QED
      BY <2>1, <2>2, <3>1, BinaryAsES5, OtherBinaryAsES5
  <2>3. CASE E.form = "compound"
    BY <2>1, <2>3, CompoundAsES5
  <2>4. CASE E.form = "unary"
    BY <2>1, <2>4, UnaryAsES5
  <2>5. CASE E.form \in {"update", "typeof", "literal"}
    BY <2>1, <2>5, SingleAsES5
  <2> QED
    BY <2>1, <2>2, <2>3, <2>4, <2>5 DEF Evaluated
<1> QED
  BY <1>1, OperatorsEvaluate, PTL

-----------------------------------------------------------------------------
\* The same value, but for the representation of a number.
Alike(v, w) ==
  \/ v = w
  \/ \E n \in Ints : v \in {Smi(n), Double(Whole(n))} /\ w \in {Smi(n), Double(Whole(n))}

LEMMA OtherAlike ==
  ASSUME NEW v \in Value PROVE Alike(v, Other(v))
<1>1. CASE HasOther(v)
  <2>1. CASE v.is = "smi"
    <3>1. v.int \in Ints /\ v = Smi(v.int)
      BY <2>1, ValueCases DEF Undefined, Null
    <3>2. Other(v) = Double(Whole(v.int))
      BY <1>1, <2>1 DEF Other, AsES5
    <3> QED
      BY <3>1, <3>2 DEF Alike
  <2>2. CASE v.is = "double"
    <3>1. v.number \in Number /\ v = Double(v.number)
      BY <2>2, ValueCases DEF Undefined, Null
    <3>2. NumberOf(v) = v.number
      BY <2>2 DEF NumberOf
    <3>3. v.number = <<v.number[1], v.number[2]>>
      BY <3>1, NumberParts
    <3>4. v.number[2] = 1 /\ v.number[1] \in Ints
      BY <1>1, <3>2 DEF HasOther, IsWhole
    <3>5. PICK n \in Ints : n = v.number[1]
      BY <3>4
    <3>6. v = Double(Whole(n))
      BY <3>1, <3>3, <3>4, <3>5 DEF Whole
    <3>7. Other(v) = Smi(n)
      BY <1>1, <2>2, <3>5 DEF Other
    <3> QED
      BY <3>6, <3>7 DEF Alike
  <2> QED
    BY <1>1, <2>1, <2>2 DEF HasOther, IsNumber
<1>2. CASE ~HasOther(v)
  BY <1>2 DEF Other, Alike
<1> QED
  BY <1>1, <1>2

LEMMA RepresentationParts ==
  ASSUME NEW n \in Ints, NEW v \in {Smi(n), Double(Whole(n))}
  PROVE  /\ v \in Value /\ IsNumber(v) /\ NumberOf(v) = Whole(n)
         /\ ~IsObject(v) /\ ~IsString(v) /\ ~IsNothing(v) /\ v.is # "bool"
         /\ v.is = "smi" => v = Smi(n)
         /\ HasOther(v)
<1>1. n \in Int
  BY IntsAre
<1>2. Whole(n) \in Number
  BY <1>1, NumberMembers
<1>3. Whole(n)[1] = n /\ Whole(n)[2] = 1
  BY DEF Whole
<1>4. v \in Value
  BY <1>2 DEF Value, Smi, Double
<1>5. NumberOf(v) = Whole(n) /\ IsNumber(v)
  BY DEF NumberOf, IsNumber, Smi, Double
<1>6. ~IsObject(v) /\ ~IsString(v) /\ ~IsNothing(v) /\ v.is # "bool" /\ (v.is = "smi" => v = Smi(n))
  BY DEF IsObject, IsString, IsNothing, Smi, Double
<1>7. HasOther(v)
  BY <1>3, <1>5 DEF HasOther, IsWhole
<1> QED
  BY <1>4, <1>5, <1>6, <1>7

LEMMA AlikeParts ==
  ASSUME NEW v \in Value, NEW w, Alike(v, w)
  PROVE  /\ w \in Value
         /\ IsObject(w) = IsObject(v) /\ IsString(w) = IsString(v) /\ IsNothing(w) = IsNothing(v)
         /\ IsNumber(w) = IsNumber(v) /\ (w.is = "bool") = (v.is = "bool")
         /\ IsNumber(v) => NumberOf(w) = NumberOf(v)
         /\ w # v => IsNumber(v)
<1>1. CASE w = v
  BY <1>1
<1>2. CASE w # v
  <2>1. PICK n \in Ints : v \in {Smi(n), Double(Whole(n))} /\ w \in {Smi(n), Double(Whole(n))}
    BY <1>2 DEF Alike
  <2>2. /\ w \in Value /\ IsNumber(w) /\ NumberOf(w) = Whole(n)
        /\ ~IsObject(w) /\ ~IsString(w) /\ ~IsNothing(w) /\ w.is # "bool"
    BY <2>1, RepresentationParts
  <2>3. /\ IsNumber(v) /\ NumberOf(v) = Whole(n)
        /\ ~IsObject(v) /\ ~IsString(v) /\ ~IsNothing(v) /\ v.is # "bool"
    BY <2>1, RepresentationParts
  <2> QED
    BY <1>2, <2>2, <2>3 DEF IsObject, IsString, IsNothing, IsNumber
<1> QED
  BY <1>1, <1>2

LEMMA AlikeNumber ==
  ASSUME NEW v \in Value, NEW w, Alike(v, w)
  PROVE  PrimitiveToNumber(w) = PrimitiveToNumber(v)
<1>1. CASE w = v
  BY <1>1
<1>2. CASE w # v
  BY <1>2, AlikeParts DEF PrimitiveToNumber, IsNumber, IsString
<1> QED
  BY <1>1, <1>2

LEMMA AlikeText ==
  ASSUME NEW v \in Value, NEW w, Alike(v, w), ~IsObject(v), ~Misspelt(v), ~Misspelt(w)
  PROVE  PrimitiveToString(w) = PrimitiveToString(v)
<1>1. CASE w = v
  BY <1>1
<1>2. CASE w # v
  <2>1. PICK n \in Ints : v \in {Smi(n), Double(Whole(n))} /\ w \in {Smi(n), Double(Whole(n))}
    BY <1>2 DEF Alike
  <2>2. \A u \in {Smi(n), Double(Whole(n))} : ~Misspelt(u) => PrimitiveToString(u) = Numeral(Whole(n))
    <3> TAKE u \in {Smi(n), Double(Whole(n))}
    <3>0. HAVE ~Misspelt(u)
    <3>1. u \in Value /\ ~IsObject(u) /\ IsNumber(u) /\ NumberOf(u) = Whole(n)
      BY RepresentationParts
    <3>2. n \in Int
      BY IntsAre
    <3>3. IsFinite(NumberOf(u))
      BY <3>1, <3>2, WholeArithmetic
    <3>4. ES5Text(u) = Numeral(Whole(n))
      BY <3>1, <3>3 DEF ES5Text
    <3> QED
      BY <3>0, <3>1, <3>4, TextIs
  <2> QED
    BY <2>1, <2>2
<1> QED
  BY <1>1, <1>2

-----------------------------------------------------------------------------
\* The result on two ints and on the same two as doubles.
LEMMA WholeInts ==
  ASSUME NEW m \in Ints PROVE AsInts(Whole(m)) = {m}
<1>1. m \in Int
  BY IntsAre
<1> QED
  BY <1>1, WholeArithmetic DEF AsInts

LEMMA IntsTyped ==
  ASSUME NEW op \in IntOperators, NEW m \in Ints, NEW n \in Ints, NEW i \in IntResults(op, m, n)
  PROVE  i = Crash \/ \E z : i = Gives(Smi(z))
  BY DEF IntResults, Smis, IntOperators

LEMMA AsDoubles ==
  ASSUME NEW op \in IntOperators, NEW m \in Ints, NEW n \in Ints
  PROVE  DoubleResults(op, Whole(m), Whole(n)) =
           {IF i.kind = "value" THEN After(i, Gives(AsES5(i.value))) ELSE i : i \in IntResults(op, m, n)}
<1>1. op \notin {"+", "-", "*", "/"}
  BY DEF IntOperators
<1>2. PICK x, y : x = Whole(m) /\ y = Whole(n)
  OBVIOUS
<1>3. AsInts(x) = {m} /\ AsInts(y) = {n}
  BY <1>2, WholeInts
<1>4. PICK S : S = IntResults(op, m, n)
  OBVIOUS
<1>5. UNION {IntResults(op, a, b) : a \in AsInts(x), b \in AsInts(y)} = S
  BY <1>3, <1>4
<1>6. DoubleResults(op, x, y) =
        {Then(i, LAMBDA v : Gives(AsES5(v))) :
           i \in UNION {IntResults(op, a, b) : a \in AsInts(x), b \in AsInts(y)}}
  BY <1>1 DEF DoubleResults
<1>7. DoubleResults(op, x, y) =
        {IF i.kind = "value" THEN After(i, Gives(AsES5(i.value))) ELSE i :
           i \in UNION {IntResults(op, a, b) : a \in AsInts(x), b \in AsInts(y)}}
  BY <1>6 DEF Then
<1> QED
  BY <1>2, <1>4, <1>5, <1>7

LEMMA ResultsAlike ==
  ASSUME NEW op \in Converting, NEW m \in Ints, NEW n \in Ints, op # "/", ~Overflows(op, m, n),
         NEW S, S = ApplyBinaryOperator(op, Smi(m), Smi(n)),
         NEW D, D = ApplyBinaryOperator(op, Double(Whole(m)), Double(Whole(n)))
  PROVE  /\ \A i \in S : \E d \in D : SameOutcome(i, d)
         /\ \A d \in D : \E i \in S : SameOutcome(d, i)
<1>1. CASE op \in Relations
  <2>1. NumberOf(Smi(m)) = Whole(m) /\ NumberOf(Double(Whole(m))) = Whole(m)
        /\ NumberOf(Smi(n)) = Whole(n) /\ NumberOf(Double(Whole(n))) = Whole(n)
    BY DEF NumberOf, Smi, Double
  <2>2. PICK o : o = Gives(Bool(Related(op, Whole(m), Whole(n))))
    OBVIOUS
  <2>3. S = {o} /\ D = {o}
    BY <1>1, <2>1, <2>2 DEF ApplyBinaryOperator
  <2> QED
    BY <2>3 DEF SameOutcome
<1>2. CASE op \in {"+", "-", "*"}
  <2>1. op \in Arithmetic /\ op \notin Relations /\ op \notin IntOperators
    BY <1>2 DEF Arithmetic, Relations, IntOperators
  <2>2. Agrees(op, m, n)
    BY <1>2 DEF Agrees
  <2>3. m \in Int /\ n \in Int
    BY IntsAre
  <2>4. Whole(m) \in Number /\ Whole(n) \in Number
    BY <2>3, NumberMembers
  <2>5. DoublesAgree(op, Whole(m), Whole(n))
    BY <2>1 DEF DoublesAgree
  <2>6. S = IntResults(op, m, n)
    BY <2>1 DEF ApplyBinaryOperator, Smi
  <2>7. D = DoubleResults(op, Whole(m), Whole(n))
    BY <2>1 DEF ApplyBinaryOperator, Double, NumberOf
  <2>8. PICK z : S = {Gives(Smi(z))} /\ Whole(z) = ES5Of(op, Whole(m), Whole(n))
    BY <2>1, <2>2, <2>6, IntsAsES5
  <2>9. D = {Gives(Double(Whole(z)))}
    BY <2>1, <2>4, <2>5, <2>7, <2>8, DoublesAsES5
  <2>10. AsES5(Smi(z)) = Double(Whole(z)) /\ AsES5(Double(Whole(z))) = Double(Whole(z))
    BY DEF AsES5, Smi, Double
  <2> QED
    BY <2>8, <2>9, <2>10, SimpleGives DEF SameOutcome
<1>3. CASE op \in IntOperators
  <2>1. op \notin Relations
    BY <1>3 DEF Relations, IntOperators
  <2>2. S = IntResults(op, m, n)
    BY <2>1 DEF ApplyBinaryOperator, Smi
  <2>3. D = DoubleResults(op, Whole(m), Whole(n))
    BY <2>1 DEF ApplyBinaryOperator, Double, NumberOf
  <2>4. D = {IF i.kind = "value" THEN After(i, Gives(AsES5(i.value))) ELSE i : i \in S}
    BY <1>3, <2>2, <2>3, AsDoubles
  <2>5. ASSUME NEW i \in S
        PROVE  SameOutcome(i, IF i.kind = "value" THEN After(i, Gives(AsES5(i.value))) ELSE i)
    <3>1. i = Crash \/ \E z : i = Gives(Smi(z))
      BY <1>3, <2>2, <2>5, IntsTyped
    <3>2. CASE i = Crash
      <4>1. i.kind # "value"
        BY <3>2, SimpleGives
      <4> QED
        BY <4>1 DEF SameOutcome
    <3>3. CASE \E z : i = Gives(Smi(z))
      <4>1. PICK z : i = Gives(Smi(z))
        BY <3>3
      <4>2. i.kind = "value" /\ i.value = Smi(z)
        BY <4>1, SimpleGives
      <4>3. PICK w : w = AsES5(i.value)
        OBVIOUS
      <4>4. After(i, Gives(w)) = Gives(w)
        BY <4>1, SimpleAfter
      <4>5. AsES5(w) = AsES5(i.value)
        BY <4>2, <4>3 DEF AsES5, Smi, Double
      <4> QED
        BY <4>1, <4>2, <4>3, <4>4, <4>5, SimpleGives DEF SameOutcome
    <3> QED
      BY <3>1, <3>2, <3>3
  <2>6. \A i \in S : \E d \in D : SameOutcome(i, d)
    BY <2>4, <2>5
  <2>7. \A d \in D : \E i \in S : SameOutcome(i, d)
    BY <2>4, <2>5
  <2> QED
    BY <2>6, <2>7 DEF SameOutcome
<1> QED
  BY <1>1, <1>2, <1>3 DEF Converting, Arithmetic

\* Operands that an operator computes with as with any alike.
Indifferent(op, v, w) ==
  /\ op # "/"
  /\ HasOther(v) /\ HasOther(w) => ~Overflows(op, NumberOf(v)[1], NumberOf(w)[1])
  /\ ~Misspelt(v) /\ ~Misspelt(w)

LEMMA NumericAlike ==
  ASSUME NEW op \in Converting, NEW p \in Value, NEW q \in Value, NEW v, NEW w,
         Alike(p, v), Alike(q, w), ~IsObject(p), ~IsObject(q), Indifferent(op, p, q),
         ~(op = "+" /\ (IsString(p) \/ IsString(q))),
         NEW s \in ApplyAssignmentOperator(op, p, q)
  PROVE  \E t \in ApplyAssignmentOperator(op, v, w) : SameOutcome(s, t)
<1>1. /\ v \in Value /\ w \in Value /\ ~IsObject(v) /\ ~IsObject(w)
      /\ ~(op = "+" /\ (IsString(v) \/ IsString(w)))
  BY AlikeParts
<1>2. PICK x, y : x = PrimitiveToNumber(p) /\ y = PrimitiveToNumber(q)
  OBVIOUS
<1>3. PrimitiveToNumber(v) = x /\ PrimitiveToNumber(w) = y
  BY <1>2, AlikeNumber
<1>4. PICK D : D = ApplyBinaryOperator(op, Double(x), Double(y))
  OBVIOUS
<1>5. ~(p.is = "smi" /\ q.is = "smi") => ApplyAssignmentOperator(op, p, q) = D
  BY <1>2, <1>4, AssignmentIs
<1>6. ~(v.is = "smi" /\ w.is = "smi") => ApplyAssignmentOperator(op, v, w) = D
  BY <1>1, <1>3, <1>4, AssignmentIs
<1>7. CASE v = p /\ w = q
  BY <1>7 DEF SameOutcome
<1>8. CASE ~(p.is = "smi" /\ q.is = "smi") /\ ~(v.is = "smi" /\ w.is = "smi")
  BY <1>5, <1>6, <1>8 DEF SameOutcome
<1>9. CASE p.is = "smi" /\ q.is = "smi" /\ ~(v = p /\ w = q)
  <2>1. PICK m \in Ints, n \in Ints : p = Smi(m) /\ q = Smi(n)
    BY <1>9, ValueCases DEF Undefined, Null
  <2>2. NumberOf(p) = Whole(m) /\ NumberOf(q) = Whole(n) /\ x = Whole(m) /\ y = Whole(n)
    BY <1>2, <2>1 DEF NumberOf, Smi, PrimitiveToNumber, IsNumber, IsString
  <2>3. HasOther(p) /\ HasOther(q)
    BY <2>1, RepresentationParts
  <2>4. ~Overflows(op, m, n) /\ op # "/"
    BY <2>2, <2>3 DEF Indifferent, Whole
  <2>5. ~(v.is = "smi" /\ w.is = "smi")
    <3>1. v = p \/ \E k \in Ints : p \in {Smi(k), Double(Whole(k))} /\ v \in {Smi(k), Double(Whole(k))}
      BY DEF Alike
    <3>2. w = q \/ \E k \in Ints : q \in {Smi(k), Double(Whole(k))} /\ w \in {Smi(k), Double(Whole(k))}
      BY DEF Alike
    <3>3. v.is = "smi" => v = p
      BY <1>9, <3>1, RepresentationParts
    <3>4. w.is = "smi" => w = q
      BY <1>9, <3>2, RepresentationParts
    <3> QED
      BY <1>9, <3>3, <3>4
  <2>6. ApplyAssignmentOperator(op, p, q) = ApplyBinaryOperator(op, Smi(m), Smi(n))
    BY <1>9, <2>1, AssignmentIs
  <2>7. ApplyAssignmentOperator(op, v, w) = ApplyBinaryOperator(op, Double(Whole(m)), Double(Whole(n)))
    BY <1>4, <1>6, <2>2, <2>5
  <2> QED
    BY <2>4, <2>6, <2>7, ResultsAlike
<1>10. CASE v.is = "smi" /\ w.is = "smi" /\ ~(p.is = "smi" /\ q.is = "smi")
  <2>1. PICK m \in Ints, n \in Ints : v = Smi(m) /\ w = Smi(n)
    BY <1>1, <1>10, ValueCases DEF Undefined, Null
  <2>2. NumberOf(v) = Whole(m) /\ NumberOf(w) = Whole(n) /\ IsNumber(v) /\ IsNumber(w)
        /\ x = Whole(m) /\ y = Whole(n)
    BY <1>3, <2>1 DEF NumberOf, Smi, PrimitiveToNumber, IsNumber, IsString
  <2>3. IsNumber(p) /\ IsNumber(q) /\ NumberOf(p) = Whole(m) /\ NumberOf(q) = Whole(n)
    BY <2>2, AlikeParts
  <2>4. HasOther(p) /\ HasOther(q)
    BY <2>3 DEF HasOther, IsWhole, Whole
  <2>5. ~Overflows(op, m, n) /\ op # "/"
    BY <2>3, <2>4 DEF Indifferent, Whole
  <2>6. ApplyAssignmentOperator(op, v, w) = ApplyBinaryOperator(op, Smi(m), Smi(n))
    BY <1>1, <1>10, <2>1, AssignmentIs
  <2>7. ApplyAssignmentOperator(op, p, q) = ApplyBinaryOperator(op, Double(Whole(m)), Double(Whole(n)))
    BY <1>4, <1>5, <1>10, <2>2
  <2> QED
    BY <2>5, <2>6, <2>7, ResultsAlike
<1> QED
  BY <1>7, <1>8, <1>9, <1>10

LEMMA AssignmentAlike ==
  ASSUME NEW op \in Converting, NEW p \in Value, NEW q \in Value, NEW v, NEW w,
         Alike(p, v), Alike(q, w), ~IsObject(p), ~IsObject(q), Indifferent(op, p, q),
         ~Misspelt(v), ~Misspelt(w),
         NEW s \in ApplyAssignmentOperator(op, p, q)
  PROVE  \E t \in ApplyAssignmentOperator(op, v, w) : SameOutcome(s, t)
<1>1. CASE op = "+" /\ (IsString(p) \/ IsString(q))
  <2>1. /\ v \in Value /\ w \in Value /\ ~IsObject(v) /\ ~IsObject(w)
        /\ IsString(v) \/ IsString(w)
    BY <1>1, AlikeParts
  <2>2. PrimitiveToString(v) = PrimitiveToString(p) /\ PrimitiveToString(w) = PrimitiveToString(q)
    BY AlikeText DEF Indifferent
  <2>3. ApplyAssignmentOperator(op, p, q) = {Gives(Str(PrimitiveToString(p) \o PrimitiveToString(q)))}
    BY <1>1, AssignmentIs
  <2>4. ApplyAssignmentOperator(op, v, w) = {Gives(Str(PrimitiveToString(v) \o PrimitiveToString(w)))}
    BY <1>1, <2>1, AssignmentIs
  <2> QED
    BY <2>2, <2>3, <2>4 DEF SameOutcome
<1> QED
  BY <1>1, NumericAlike

\* What alike operands convert to.
LEMMA PrimitiveAlike ==
  ASSUME NEW v \in Value, NEW w, Alike(v, w), NEW hint,
         NEW P, P = ToPrimitive(v, hint), NEW Q, Q = ToPrimitive(w, hint)
  PROVE  /\ Q.kind = P.kind /\ Q.calls = P.calls /\ Alike(P.value, Q.value)
         /\ P.kind # "value" => Q = P
         /\ w # v => P = Gives(v) /\ Q = Gives(w)
<1>1. CASE w = v
  BY <1>1 DEF Alike
<1>2. CASE w # v
  <2>1. w \in Value /\ IsNumber(v) /\ ~IsObject(v) /\ ~IsObject(w)
    BY <1>2, AlikeParts DEF IsObject, IsNumber
  <2>2. P = Gives(v) /\ Q = Gives(w)
    BY <2>1, PrimitiveConverts
  <2> QED
    BY <2>2, SimpleGives
<1> QED
  BY <1>1, <1>2

LEMMA AfterwardsAlike ==
  ASSUME NEW P, NEW Q, NEW M, NEW N, NEW S, NEW T,
         WellFormed(P), WellFormed(Q), M.kind = P.kind, N.kind = Q.kind,
         M.calls = P.calls, N.calls = Q.calls,
         P.kind # "value" => M = P, Q.kind # "value" => N = Q,
         P.kind = "value" /\ Q.kind = "value" =>
           /\ \A s \in S : Simple(s) /\ \E t \in T : SameOutcome(s, t)
           /\ \A t \in T : Simple(t),
         NEW o \in Afterwards(P, Q, S)
  PROVE  \E u \in Afterwards(M, N, T) : SameOutcome(o, u)
<1>1. CASE P.kind # "value"
  BY <1>1 DEF Afterwards, SameOutcome
<1>2. CASE P.kind = "value" /\ Q.kind # "value"
  <2>1. o = After(P, Q) /\ Afterwards(M, N, T) = {After(M, N)}
    BY <1>2 DEF Afterwards
  <2>2. After(M, N) = After(P, Q)
    <3>1. After(M, Q) = After(Calling(P.calls), Q) /\ After(P, Q) = After(Calling(P.calls), Q)
      BY AfterCalls
    <3> QED
      BY <1>2, <3>1
  <2> QED
    BY <2>1, <2>2 DEF SameOutcome
<1>3. CASE P.kind = "value" /\ Q.kind = "value"
  <2>1. PICK c : c = BothCalls(P, Q)
    OBVIOUS
  <2>2. BothCalls(M, N) = c
    BY <2>1 DEF BothCalls
  <2>3. PICK s \in S : o = After(Calling(c), s)
    BY <1>3, <2>1 DEF Afterwards
  <2>4. PICK t \in T : SameOutcome(s, t)
    BY <1>3
  <2>5. After(Calling(c), t) \in Afterwards(M, N, T)
    BY <1>3, <2>2 DEF Afterwards
  <2>6. PICK ks, vs, kt, vt : ks = s.kind /\ vs = s.value /\ kt = t.kind /\ vt = t.value
    OBVIOUS
  <2>12. PICK n : n = <<>>
    OBVIOUS
  <2>7. s = Ending(ks, vs, n) /\ t = Ending(kt, vt, n)
    BY <1>3, <2>6, <2>12 DEF Simple
  <2>11. PICK a, b : a = After(Calling(c), s) /\ b = After(Calling(c), t)
    OBVIOUS
  <2>14. After(Calling(c), Ending(ks, vs, n)) = Ending(ks, vs, c \o n)
    BY CallingEnding
  <2>15. After(Calling(c), Ending(kt, vt, n)) = Ending(kt, vt, c \o n)
    BY CallingEnding
  <2>16. PICK d : d = c \o n
    OBVIOUS
  <2>13. a = Ending(ks, vs, d) /\ b = Ending(kt, vt, d)
    BY <2>7, <2>11, <2>14, <2>15, <2>16
  <2>8. a.kind = ks /\ a.value = vs /\ a.calls = d
    BY <2>13, EndingParts
  <2>10. b.kind = kt /\ b.value = vt /\ b.calls = d
    BY <2>13, EndingParts
  <2>9. SameOutcome(o, After(Calling(c), t))
    BY <2>3, <2>4, <2>6, <2>8, <2>10, <2>11 DEF SameOutcome
  <2> QED
    BY <2>5, <2>9
<1> QED
  BY <1>1, <1>2, <1>3

LEMMA ConvertingAlike ==
  ASSUME NEW op \in Converting, NEW l \in Value, NEW r \in Value, NEW v, NEW w, Alike(l, v), Alike(r, w),
         NEW P, P = ToPrimitive(l, "none"), NEW Q, Q = ToPrimitive(r, "none"),
         Indifferent(op, P.value, Q.value),
         ~Misspelt(ToPrimitive(v, "none").value), ~Misspelt(ToPrimitive(w, "none").value),
         NEW o \in BinaryExpression(op, l, r)
  PROVE  \E u \in BinaryExpression(op, v, w) : SameOutcome(o, u)
<1>1. v \in Value /\ w \in Value
  BY AlikeParts
<1>2. PICK M, N : M = ToPrimitive(v, "none") /\ N = ToPrimitive(w, "none")
  OBVIOUS
<1>3. /\ M.kind = P.kind /\ M.calls = P.calls /\ Alike(P.value, M.value) /\ (P.kind # "value" => M = P)
      /\ N.kind = Q.kind /\ N.calls = Q.calls /\ Alike(Q.value, N.value) /\ (Q.kind # "value" => N = Q)
  BY <1>2, PrimitiveAlike
<1>4. WellFormed(P) /\ WellFormed(Q) /\ Converts(P) /\ Converts(Q) /\ Converts(M) /\ Converts(N)
  BY <1>1, <1>2, PrimitiveWellFormed, PrimitiveConverts
<1>5. PICK S, T : S = ApplyAssignmentOperator(op, P.value, Q.value) /\ T = ApplyAssignmentOperator(op, M.value, N.value)
  OBVIOUS
<1>6. BinaryExpression(op, l, r) = Afterwards(P, Q, S) /\ BinaryExpression(op, v, w) = Afterwards(M, N, T)
  BY <1>1, <1>2, <1>5, BinaryIs
<1>7. ASSUME P.kind = "value", Q.kind = "value"
      PROVE  /\ \A s \in S : Simple(s) /\ \E t \in T : SameOutcome(s, t)
             /\ \A t \in T : Simple(t)
  <2>1. /\ P.value \in Value /\ ~IsObject(P.value) /\ Q.value \in Value /\ ~IsObject(Q.value)
        /\ M.value \in Value /\ ~IsObject(M.value) /\ N.value \in Value /\ ~IsObject(N.value)
    BY <1>3, <1>4, <1>7 DEF Converts
  <2>2. ~Misspelt(M.value) /\ ~Misspelt(N.value)
    BY <1>2
  <2>3. (\A s \in S : Simple(s)) /\ (\A t \in T : Simple(t))
    BY <1>5, <2>1, AssignmentSimple
  <2>4. \A s \in S : \E t \in T : SameOutcome(s, t)
    BY <1>3, <1>5, <2>1, <2>2, AssignmentAlike
  <2> QED
    BY <2>3, <2>4
<1> QED
  BY <1>3, <1>4, <1>6, <1>7, AfterwardsAlike

LEMMA StrictAlike ==
  ASSUME NEW l \in Value, NEW r \in Value, NEW v, NEW w, Alike(l, v), Alike(r, w)
  PROVE  IsStrictSameValue(v, w) <=> IsStrictSameValue(l, r)
<1>1. /\ IsNumber(v) = IsNumber(l) /\ IsNumber(w) = IsNumber(r)
      /\ IsNumber(l) => NumberOf(v) = NumberOf(l)
      /\ IsNumber(r) => NumberOf(w) = NumberOf(r)
      /\ (v.is = "bool") = (l.is = "bool") /\ (w.is = "bool") = (r.is = "bool")
      /\ v # l => IsNumber(l)
      /\ w # r => IsNumber(r)
  BY AlikeParts
<1>2. CASE IsNumber(l)
  <2>1. IsStrictSameValue(l, r) <=> IsNumber(r) /\ SameNumber(NumberOf(l), NumberOf(r))
    BY <1>2 DEF IsStrictSameValue, IsNumber
  <2>2. IsStrictSameValue(v, w) <=> IsNumber(w) /\ SameNumber(NumberOf(v), NumberOf(w))
    BY <1>1, <1>2 DEF IsStrictSameValue, IsNumber
  <2> QED
    BY <1>1, <1>2, <2>1, <2>2
<1>3. CASE ~IsNumber(l)
  <2>1. v = l
    BY <1>1, <1>3
  <2>2. CASE w = r
    BY <2>1, <2>2
  <2>3. CASE w # r
    <3>1. IsNumber(r) /\ IsNumber(w)
      BY <1>1, <2>3
    <3>2. r # l /\ w # l /\ r.is # "bool" /\ w.is # "bool"
      BY <1>3, <3>1 DEF IsNumber
    <3> QED
      BY <1>3, <2>1, <3>2 DEF IsStrictSameValue
  <2> QED
    BY <2>2, <2>3
<1> QED
  BY <1>2, <1>3

LEMMA CompareAlike ==
  ASSUME NEW p \in Value, NEW q \in Value, NEW v, NEW w, Alike(p, v), Alike(q, w)
  PROVE  ComparePrimitives(v, w) <=> ComparePrimitives(p, q)
<1>1. /\ IsNothing(v) = IsNothing(p) /\ IsNothing(w) = IsNothing(q)
      /\ IsString(v) = IsString(p) /\ IsString(w) = IsString(q)
      /\ v # p => IsNumber(p)
      /\ w # q => IsNumber(q)
  BY AlikeParts
<1>2. PrimitiveToNumber(v) = PrimitiveToNumber(p) /\ PrimitiveToNumber(w) = PrimitiveToNumber(q)
  BY AlikeNumber
<1>3. CASE IsNothing(p) \/ IsNothing(q)
  BY <1>1, <1>3 DEF ComparePrimitives
<1>4. CASE ~(IsNothing(p) \/ IsNothing(q)) /\ IsString(p) /\ IsString(q)
  <2>1. v = p /\ w = q
    BY <1>1, <1>4 DEF IsString, IsNumber
  <2> QED
    BY <2>1
<1>5. CASE ~(IsNothing(p) \/ IsNothing(q)) /\ ~(IsString(p) /\ IsString(q))
  BY <1>1, <1>2, <1>5 DEF ComparePrimitives
<1> QED
  BY <1>3, <1>4, <1>5

\* == by way of what its operands convert to.
LEMMA EqualityIs ==
  ASSUME NEW l \in Value, NEW r \in Value, ~(IsObject(l) /\ (IsObject(r) \/ IsNothing(r))),
         NEW P, P = ToPrimitive(l, "none"), NEW Q, Q = ToPrimitive(r, "none")
  PROVE  IsAbstractSameValue(l, r) = Combined(P, Q, Gives(Bool(ComparePrimitives(P.value, Q.value))))
  BY DEF IsAbstractSameValue, Then, Combined

LEMMA SameIfBool ==
  ASSUME NEW a, NEW b, a \in BOOLEAN, b \in BOOLEAN, a <=> b
  PROVE  a = b
  OBVIOUS

LEMMA ComparesBoolean ==
  ASSUME NEW p, NEW q PROVE ComparePrimitives(p, q) \in BOOLEAN
<1>1. CASE IsNothing(p) \/ IsNothing(q)
  BY <1>1 DEF ComparePrimitives, IsNothing
<1>2. CASE ~(IsNothing(p) \/ IsNothing(q))
  BY <1>2 DEF ComparePrimitives, SameNumber
<1> QED
  BY <1>1, <1>2

LEMMA StrictBoolean ==
  ASSUME NEW l, NEW r PROVE IsStrictSameValue(l, r) \in BOOLEAN
<1>1. CASE IsNumber(l)
  BY <1>1 DEF IsStrictSameValue, IsNumber
<1>2. CASE l.is = "bool"
  BY <1>2 DEF IsStrictSameValue, IsNumber
<1>3. CASE ~IsNumber(l) /\ l.is # "bool"
  BY <1>3 DEF IsStrictSameValue
<1> QED
  BY <1>1, <1>2, <1>3

LEMMA EqualityAlike ==
  ASSUME NEW l \in Value, NEW r \in Value, NEW v, NEW w, Alike(l, v), Alike(r, w)
  PROVE  IsAbstractSameValue(v, w) = IsAbstractSameValue(l, r)
<1>1. /\ v \in Value /\ w \in Value /\ IsObject(v) = IsObject(l) /\ IsObject(w) = IsObject(r)
      /\ IsNothing(w) = IsNothing(r) /\ (v # l => IsNumber(l)) /\ (w # r => IsNumber(r))
  BY AlikeParts
<1>2. CASE v = l /\ w = r
  BY <1>2
<1>3. CASE ~(v = l /\ w = r)
  <2>1. ~(IsObject(l) /\ (IsObject(r) \/ IsNothing(r)))
    BY <1>1, <1>3 DEF IsObject, IsNothing, IsNumber
  <2>2. ~(IsObject(v) /\ (IsObject(w) \/ IsNothing(w)))
    BY <1>1, <2>1
  <2>3. PICK P, Q, M, N : /\ P = ToPrimitive(l, "none") /\ Q = ToPrimitive(r, "none")
                          /\ M = ToPrimitive(v, "none") /\ N = ToPrimitive(w, "none")
    OBVIOUS
  <2>4. /\ M.kind = P.kind /\ M.calls = P.calls /\ Alike(P.value, M.value) /\ (P.kind # "value" => M = P)
        /\ N.kind = Q.kind /\ N.calls = Q.calls /\ Alike(Q.value, N.value) /\ (Q.kind # "value" => N = Q)
    BY <2>3, PrimitiveAlike
  <2>5. Converts(P) /\ Converts(Q)
    BY <2>3, PrimitiveConverts
  <2>6. PICK s : s = Gives(Bool(ComparePrimitives(P.value, Q.value)))
    OBVIOUS
  <2>7. IsAbstractSameValue(l, r) = Combined(P, Q, s)
    BY <2>1, <2>3, <2>6, EqualityIs
  <2>8. PICK t : t = Gives(Bool(ComparePrimitives(M.value, N.value)))
    OBVIOUS
  <2>9. IsAbstractSameValue(v, w) = Combined(M, N, t)
    BY <1>1, <2>2, <2>3, <2>8, EqualityIs
  <2>10. CASE P.kind = "value" /\ Q.kind = "value"
    <3>1. P.value \in Value /\ Q.value \in Value
      BY <2>5, <2>10 DEF Converts
    <3>2. ComparePrimitives(M.value, N.value) <=> ComparePrimitives(P.value, Q.value)
      BY <2>4, <3>1, CompareAlike
    <3>3. ComparePrimitives(M.value, N.value) = ComparePrimitives(P.value, Q.value)
      BY <3>2, ComparesBoolean, SameIfBool
    <3>4. t = s
      BY <2>6, <2>8, <3>3
    <3>5. After(N, s) = After(Q, s)
      BY <2>4, AfterCalls
    <3>6. After(M, After(Q, s)) = After(P, After(Q, s))
      BY <2>4, AfterCalls
    <3> QED
      BY <2>4, <2>7, <2>9, <2>10, <3>4, <3>5, <3>6 DEF Combined
  <2>11. CASE P.kind = "value" /\ Q.kind # "value"
    <3>1. After(M, Q) = After(P, Q)
      BY <2>4, AfterCalls
    <3> QED
      BY <2>4, <2>7, <2>9, <2>11, <3>1 DEF Combined
  <2>12. CASE P.kind # "value"
    BY <2>4, <2>7, <2>9, <2>12 DEF Combined
  <2> QED
    BY <2>10, <2>11, <2>12
<1> QED
  BY <1>2, <1>3

LEMMA InstanceOfAlike ==
  ASSUME NEW l \in Value, NEW r \in Value, NEW v, NEW w, Alike(l, v), Alike(r, w)
  PROVE  InstanceOf(v, w) = InstanceOf(l, r)
<1>1. /\ IsNumber(v) = IsNumber(l) /\ IsObject(w) = IsObject(r)
      /\ IsObject(v) = IsObject(l) /\ IsNothing(v) = IsNothing(l)
      /\ (v # l => IsNumber(l)) /\ (w # r => IsNumber(r))
  BY AlikeParts
<1>2. ToObject(v) = ToObject(l)
  BY <1>1 DEF ToObject, IsNumber, IsObject, IsNothing
<1>3. CASE w # r
  <2>1. ~IsObject(w) /\ ~IsObject(r)
    BY <1>1, <1>3 DEF IsObject, IsNumber
  <2> QED
    BY <2>1 DEF InstanceOf
<1>4. CASE w = r /\ v # l
  <2>1. v.is # "object" /\ l.is # "object"
    BY <1>1, <1>4 DEF IsObject, IsNumber
  <2>2. PICK s : s = ToObject(l).value.proto
    OBVIOUS
  <2>3. (IF v.is = "object" THEN ProtoOf[v.id] ELSE ToObject(v).value.proto) = s
    BY <1>2, <2>1, <2>2
  <2>4. (IF l.is = "object" THEN ProtoOf[l.id] ELSE ToObject(l).value.proto) = s
    BY <2>1, <2>2
  <2> QED
    BY <1>2, <1>4, <2>3, <2>4 DEF InstanceOf
<1> QED
  BY <1>3, <1>4

LEMMA InAlike ==
  ASSUME NEW l \in Value, NEW r \in Value, NEW v, NEW w, Alike(l, v), Alike(r, w),
         v # l => ~Misspelt(l) /\ ~Misspelt(v)
  PROVE  InOperator(v, w) = InOperator(l, r)
<1>1. /\ v \in Value
      /\ IsObject(v) = IsObject(l) /\ IsObject(w) = IsObject(r) /\ IsNothing(w) = IsNothing(r)
      /\ IsString(w) = IsString(r) /\ (v # l => IsNumber(l)) /\ (w # r => IsNumber(r))
  BY AlikeParts
<1>2. ToString(v) = ToString(l)
  <2>1. CASE v = l
    BY <2>1
  <2>2. CASE v # l
    <3>1. ~IsObject(l) /\ ~IsObject(v)
      BY <1>1, <2>2 DEF IsObject, IsNumber
    <3>2. ToPrimitive(l, "string") = Gives(l) /\ ToPrimitive(v, "string") = Gives(v)
      BY <1>1, <3>1, PrimitiveConverts
    <3>3. PrimitiveToString(v) = PrimitiveToString(l)
      BY <2>2, <3>1, AlikeText
    <3>4. /\ ToString(l) = Ending("value", Str(PrimitiveToString(l)), <<>>)
          /\ ToString(v) = Ending("value", Str(PrimitiveToString(v)), <<>>)
      BY <1>1, <3>2, StringIs, SimpleGives
    <3> QED
      BY <3>3, <3>4
  <2> QED
    BY <2>1, <2>2
<1>3. CASE w = r
  BY <1>2, <1>3 DEF InOperator
<1>4. CASE w # r
  <2>1. ~IsObject(w) /\ ~IsObject(r) /\ ~IsNothing(w) /\ ~IsNothing(r) /\ ~IsString(w) /\ ~IsString(r)
    BY <1>1, <1>4 DEF IsObject, IsNumber, IsNothing, IsString
  <2> QED
    BY <1>2, <2>1 DEF InOperator
<1> QED
  BY <1>3, <1>4

LEMMA BinaryAlike ==
  ASSUME NEW op \in BinaryOperators, NEW l \in Value, NEW r \in Value, NEW v, NEW w, Alike(l, v), Alike(r, w),
         Indifferent(op, ToPrimitive(l, "none").value, ToPrimitive(r, "none").value),
         ~Misspelt(ToPrimitive(v, "none").value), ~Misspelt(ToPrimitive(w, "none").value),
         NEW o \in BinaryExpression(op, l, r)
  PROVE  \E u \in BinaryExpression(op, v, w) : SameOutcome(o, u)
<1>1. CASE op \in Converting
  BY <1>1, ConvertingAlike
<1>2. CASE op \in {"===", "!=="}
  <2>1. IsStrictSameValue(v, w) <=> IsStrictSameValue(l, r)
    BY StrictAlike
  <2>2. CASE op = "==="
    <3>1. o = Gives(Bool(IsStrictSameValue(l, r)))
      BY <2>2 DEF BinaryExpression
    <3>2. Gives(Bool(IsStrictSameValue(v, w))) \in BinaryExpression(op, v, w)
      BY <2>2 DEF BinaryExpression
    <3>3. IsStrictSameValue(v, w) = IsStrictSameValue(l, r)
      BY <2>1, StrictBoolean, SameIfBool
    <3> QED
      BY <3>1, <3>2, <3>3 DEF SameOutcome
  <2>3. CASE op = "!=="
    <3>1. o = Gives(Bool(~IsStrictSameValue(l, r)))
      BY <2>3 DEF BinaryExpression
    <3>2. Gives(Bool(~IsStrictSameValue(v, w))) \in BinaryExpression(op, v, w)
      BY <2>3 DEF BinaryExpression
    <3>3. IsStrictSameValue(v, w) = IsStrictSameValue(l, r)
      BY <2>1, StrictBoolean, SameIfBool
    <3> QED
      BY <3>1, <3>2, <3>3 DEF SameOutcome
  <2> QED
    BY <1>2, <2>2, <2>3
<1>3. CASE op \in {"==", "!=", "instanceof", "in"}
  <2>1. IsAbstractSameValue(v, w) = IsAbstractSameValue(l, r)
    BY EqualityAlike
  <2>2. InstanceOf(v, w) = InstanceOf(l, r)
    BY InstanceOfAlike
  <2>3. v # l => ~Misspelt(l) /\ ~Misspelt(v)
    <3>1. v # l => ToPrimitive(l, "none") = Gives(l) /\ ToPrimitive(v, "none") = Gives(v)
      BY PrimitiveAlike
    <3> QED
      BY <3>1, SimpleGives DEF Indifferent
  <2>4. InOperator(v, w) = InOperator(l, r)
    BY <2>3, InAlike
  <2>5. BinaryExpression(op, v, w) = BinaryExpression(op, l, r)
    BY <1>3, <2>1, <2>2, <2>4 DEF BinaryExpression
  <2> QED
    BY <2>5 DEF SameOutcome
<1> QED
  BY <1>1, <1>2, <1>3 DEF BinaryOperators, Equalities

\* What Other does to what an operand converts to.
LEMMA OtherPrimitive ==
  ASSUME NEW v \in Value, NEW hint
  PROVE  ToPrimitive(Other(v), hint).value \in {ToPrimitive(v, hint).value, Other(ToPrimitive(v, hint).value)}
<1>1. Alike(v, Other(v))
  BY OtherAlike
<1>2. CASE Other(v) = v
  BY <1>2
<1>3. CASE Other(v) # v
  <2>1. ToPrimitive(v, hint) = Gives(v) /\ ToPrimitive(Other(v), hint) = Gives(Other(v))
    BY <1>1, <1>3, PrimitiveAlike
  <2> QED
    BY <2>1, SimpleGives
<1> QED
  BY <1>2, <1>3

\* For ints of any width and any operands, a program cannot tell a smi from a double
\* of the same number by what an operator calls and comes to, but where
\* RepresentationMatters says so (evalast.cc 571-699, 754-764, context.cc 459-501).
THEOREM RepresentationsAgree == ExpressionSpec => []RepresentationIrrelevant
<1>1. EvaluationInv => RepresentationIrrelevant
  <2> SUFFICES ASSUME EvaluationInv, E.form = "binary", ~RepresentationMatters
               PROVE  /\ \E o \in BinaryExpression(E.op, Other(E.left), E.right) : SameOutcome(E.outcome, o)
                      /\ \E o \in BinaryExpression(E.op, E.left, Other(E.right)) : SameOutcome(E.outcome, o)
    BY DEF RepresentationIrrelevant
  <2>1. PICK op, l, r, o : op = E.op /\ l = E.left /\ r = E.right /\ o = E.outcome
    OBVIOUS
  <2>2. Evaluated(E)
    BY EvaluatedIfOutcome DEF HasOutcome
  <2>3. op \in BinaryOperators /\ l \in Value /\ r \in Value /\ o \in BinaryExpression(op, l, r)
    BY <2>1, <2>2 DEF Evaluated, OperatorsOf, OutcomesOf
  <2>4. L = ToPrimitive(l, "none").value /\ R = ToPrimitive(r, "none").value
    BY <2>1 DEF L, R, Primitive
  <2>5. /\ op # "/"
        /\ op \in {"+", "-", "*"} /\ HasOther(L) /\ HasOther(R) =>
             ~Overflows(op, NumberOf(L)[1], NumberOf(R)[1])
        /\ ~Misspelt(L) /\ ~Misspelt(R) /\ ~Misspelt(Other(L)) /\ ~Misspelt(Other(R))
    BY <2>1 DEF RepresentationMatters
  <2>6. Indifferent(op, L, R)
    BY <2>5 DEF Indifferent, Overflows
  <2>7. Alike(l, l) /\ Alike(r, r) /\ Alike(l, Other(l)) /\ Alike(r, Other(r))
    BY <2>3, OtherAlike DEF Alike
  <2>8. ~Misspelt(ToPrimitive(Other(l), "none").value)
    BY <2>3, <2>4, <2>5, OtherPrimitive
  <2>9. ~Misspelt(ToPrimitive(Other(r), "none").value)
    BY <2>3, <2>4, <2>5, OtherPrimitive
  <2>10. \E u \in BinaryExpression(op, Other(l), r) : SameOutcome(o, u)
    BY <2>3, <2>4, <2>5, <2>6, <2>7, <2>8, BinaryAlike
  <2>11. \E u \in BinaryExpression(op, l, Other(r)) : SameOutcome(o, u)
    BY <2>3, <2>4, <2>5, <2>6, <2>7, <2>9, BinaryAlike
  <2> QED
    BY <2>1, <2>10, <2>11
<1> QED
  BY <1>1, OperatorsEvaluate, PTL

-----------------------------------------------------------------------------
\* How a function goes on from what it is before, at P[k] where k is not in B.
Start(n, A) == [0..n -> A]
Step(n, A) == [0..n -> [A -> A]]
Before(n, B) == {P \in [0..n -> Int] : \A k \in (0..n) \ B : P[k] \in 0..(k - 1)}
Recursive(f, n, A, B, Z, P, G) ==
  /\ f \in [0..n -> A]
  /\ \A k \in 0..n : f[k] = IF k \in B THEN Z[k] ELSE G[k][f[P[k]]]

\* A function that is defined from what it is at smaller numbers exists.
LEMMA RecursiveFunction ==
  ASSUME NEW n \in Nat, NEW A, NEW B \in SUBSET (0..n), NEW Z \in Start(n, A),
         NEW P \in Before(n, B), NEW G \in Step(n, A)
  PROVE  \E f : Recursive(f, n, A, B, Z, P, G)
<1> USE DEF Start, Step, Before, Recursive
<1> DEFINE Defined(f, j) ==
             /\ f \in [0..j -> A]
             /\ \A k \in 0..j : f[k] = IF k \in B THEN Z[k] ELSE G[k][f[P[k]]]
           T == {j \in 0..n : ~\E f : Defined(f, j)}
<1>1. CASE T # {}
  <2>1. T \in SUBSET Nat
    OBVIOUS
  <2>2. PICK j \in T : \A m \in T : j <= m
    <3> HIDE DEF T
    <3> QED
      BY <1>1, <2>1, Minimum
  <2>3. j \in 0..n /\ j \in Nat
    OBVIOUS
  <2>4. CASE j \in B
    <3>1. \E g : \A k \in 0..(j - 1) :
            /\ g[k] \in A
            /\ g[k] = IF k \in B THEN Z[k] ELSE G[k][g[P[k]]]
      <4>1. CASE j = 0
        BY <4>1
      <4>2. CASE j # 0
        <5>1. j - 1 \notin T /\ j - 1 \in 0..n
          <6>1. j - 1 \in 0..n /\ ~(j <= j - 1)
            BY <2>3, <4>2
          <6> HIDE DEF T
          <6> QED
            BY <2>2, <6>1
        <5>2. PICK g : Defined(g, j - 1)
          BY <5>1
        <5> QED
          BY <5>2
      <4> QED
        BY <4>1, <4>2
    <3>2. PICK g : \A k \in 0..(j - 1) :
            /\ g[k] \in A
            /\ g[k] = IF k \in B THEN Z[k] ELSE G[k][g[P[k]]]
      BY <3>1
    <3> DEFINE f == [k \in 0..j |-> IF k = j THEN Z[j] ELSE g[k]]
    <3>3. \A k \in 0..j : k = j \/ k \in 0..(j - 1)
      BY <2>3
    <3>4. f \in [0..j -> A]
      BY <2>3, <3>2, <3>3
    <3>5. ASSUME NEW k \in 0..j PROVE f[k] = IF k \in B THEN Z[k] ELSE G[k][f[P[k]]]
      <4>1. CASE k = j
        BY <2>4, <4>1
      <4>2. CASE k # j /\ k \in B
        BY <3>2, <3>3, <4>2
      <4>3. CASE k # j /\ k \notin B
        <5>1. k \in 0..(j - 1) /\ k \in 0..n
          BY <2>3, <3>3, <4>3
        <5>2. P[k] \in 0..(k - 1) /\ P[k] \in 0..j /\ P[k] # j
          BY <2>3, <4>3, <5>1
        <5>3. f[P[k]] = g[P[k]] /\ f[k] = g[k]
          BY <4>3, <5>2
        <5> QED
          BY <3>2, <4>3, <5>1, <5>3
      <4> QED
        BY <4>1, <4>2, <4>3
    <3>6. Defined(f, j)
      BY <3>4, <3>5
    <3> QED
      BY <3>6
  <2>5. CASE j \notin B
    <3>0. P[j] \in 0..(j - 1) /\ j # 0
      BY <2>3, <2>5
    <3>1. j - 1 \notin T /\ j - 1 \in 0..n
      <4>1. j - 1 \in 0..n /\ ~(j <= j - 1)
        BY <2>3, <3>0
      <4> HIDE DEF T
      <4> QED
        BY <2>2, <4>1
    <3>2. PICK g : Defined(g, j - 1)
      BY <3>1
    <3> DEFINE f == [k \in 0..j |-> IF k = j THEN G[j][g[P[j]]] ELSE g[k]]
    <3>3. \A k \in 0..j : k = j \/ k \in 0..(j - 1)
      BY <2>3
    <3>4. f \in [0..j -> A]
      <4>1. G[j][g[P[j]]] \in A
        BY <2>3, <3>0, <3>2
      <4> QED
        BY <2>3, <3>2, <3>3, <4>1
    <3>5. ASSUME NEW k \in 0..j PROVE f[k] = IF k \in B THEN Z[k] ELSE G[k][f[P[k]]]
      <4>1. CASE k = j
        <5>1. f[P[j]] = g[P[j]]
          BY <2>3, <3>0
        <5> QED
          BY <2>5, <4>1, <5>1
      <4>2. CASE k # j /\ k \in B
        BY <3>2, <3>3, <4>2
      <4>3. CASE k # j /\ k \notin B
        <5>1. k \in 0..(j - 1) /\ k \in 0..n
          BY <2>3, <3>3, <4>3
        <5>2. P[k] \in 0..(k - 1) /\ P[k] \in 0..j /\ P[k] # j
          BY <2>3, <4>3, <5>1
        <5>3. f[P[k]] = g[P[k]] /\ f[k] = g[k]
          BY <4>3, <5>2
        <5> QED
          BY <3>2, <4>3, <5>1, <5>3
      <4> QED
        BY <4>1, <4>2, <4>3
    <3>6. Defined(f, j)
      BY <3>4, <3>5
    <3> QED
      BY <3>6
  <2> QED
    BY <2>4, <2>5
<1>2. CASE T = {}
  <2>0. n \in 0..n
    OBVIOUS
  <2>1. PICK f : Defined(f, n)
    <3>1. n \in T \/ \E f : Defined(f, n)
      BY <2>0
    <3> QED
      BY <1>2, <3>1
  <2> QED
    BY <2>1
<1> QED
  BY <1>1, <1>2

Along(f, n, A, z, G) ==
  /\ f \in [0..n -> A]
  /\ f[0] = z
  /\ \A k \in 1..n : f[k] = G[k][f[k - 1]]

\* So does one that is defined from what it is at the number before.
LEMMA FunctionAlong ==
  ASSUME NEW n \in Nat, NEW A, NEW z \in A, NEW G \in Step(n, A)
  PROVE  \E f : Along(f, n, A, z, G)
<1>1. PICK B, Z, P : B = {0} /\ Z = [k \in 0..n |-> z] /\ P = [k \in 0..n |-> k - 1]
  OBVIOUS
<1>2. Z \in Start(n, A)
  BY <1>1 DEF Start
<1>3. B \in SUBSET (0..n) /\ P \in Before(n, B)
  BY <1>1 DEF Before
<1>4. PICK f : Recursive(f, n, A, B, Z, P, G)
  BY <1>2, <1>3, RecursiveFunction
<1>5. f[0] = z
  <2>1. 0 \in 0..n /\ 0 \in B
    BY <1>1
  <2>2. Z[0] = z
    BY <1>1, <2>1
  <2> QED
    BY <1>4, <2>1, <2>2 DEF Recursive
<1>6. ASSUME NEW k \in 1..n PROVE f[k] = G[k][f[k - 1]]
  <2>1. k \in 0..n /\ k \notin B /\ P[k] = k - 1
    BY <1>1
  <2> QED
    BY <1>4, <2>1 DEF Recursive
<1> QED
  BY <1>4, <1>5, <1>6 DEF Along, Recursive

Digit == 0..9

\* The number that the digits before each are.
LEMMA PrefixesAre ==
  ASSUME NEW d \in Seq(Digit)
  PROVE  \E f \in [0..Len(d) -> Nat] :
           /\ f[0] = 0
           /\ \A k \in 1..Len(d) : f[k] = 10 * f[k - 1] + d[k]
           /\ ValueOfDigits(d) = f[Len(d)]
<1>1. PICK n \in Nat : n = Len(d)
  OBVIOUS
<1>2. \A k \in 1..n : d[k] \in Digit
  BY <1>1
<1> DEFINE G == [k \in 0..n |-> [a \in Nat |-> IF k = 0 THEN 0 ELSE 10 * a + d[k]]]
           Body(f) == [k \in 0..n |-> IF k = 0 THEN 0 ELSE 10 * f[k - 1] + d[k]]
<1>3. G \in [0..n -> [Nat -> Nat]]
  <2>1. ASSUME NEW k \in 0..n, NEW a \in Nat PROVE (IF k = 0 THEN 0 ELSE 10 * a + d[k]) \in Nat
    <3>1. CASE k # 0
      <4>1. PICK e : e = d[k]
        OBVIOUS
      <4>2. e \in 0..9
        BY <1>2, <3>1, <4>1 DEF Digit
      <4>3. 10 * a + e \in Nat
        BY <4>2
      <4> QED
        BY <3>1, <4>1, <4>3
    <3> QED
      BY <3>1
  <2> QED
    BY <2>1
<1>4. PICK g \in [0..n -> Nat] : g[0] = 0 /\ \A k \in 1..n : g[k] = G[k][g[k - 1]]
  <2> HIDE DEF G
  <2>1. G \in Step(n, Nat)
    BY <1>3 DEF Step
  <2>2. PICK g : Along(g, n, Nat, 0, G)
    BY <2>1, FunctionAlong
  <2> QED
    BY <2>2 DEF Along
<1>5. g = Body(g)
  <2>1. ASSUME NEW k \in 0..n PROVE g[k] = IF k = 0 THEN 0 ELSE 10 * g[k - 1] + d[k]
    <3>1. CASE k # 0
      <4>1. k - 1 \in 0..n /\ k \in 1..n
        BY <3>1
      <4>2. g[k - 1] \in Nat
        BY <4>1
      <4>3. G[k][g[k - 1]] = 10 * g[k - 1] + d[k]
        BY <3>1, <4>2
      <4> QED
        BY <1>4, <3>1, <4>1, <4>3
    <3> QED
      BY <1>4, <3>1
  <2>2. g = [k \in 0..n |-> g[k]]
    OBVIOUS
  <2> QED
    BY <2>1, <2>2
<1>6. PICK f : f = CHOOSE h : h = Body(h)
  OBVIOUS
<1>7. f = Body(f)
  <2> HIDE DEF Body
  <2> QED
    BY <1>5, <1>6
<1>8. ValueOfDigits(d) = f[n]
  BY <1>1, <1>6 DEF ValueOfDigits
<1>9. f[0] = 0 /\ DOMAIN f = 0..n
  BY <1>7
<1>10. \A k \in 1..n : f[k] = 10 * f[k - 1] + d[k]
  BY <1>7
<1>11. \A k \in 0..n : f[k] \in Nat
  <2> DEFINE T == {k \in 0..n : f[k] \notin Nat}
  <2>1. CASE T # {}
    <3>1. T \in SUBSET Nat
      OBVIOUS
    <3>2. PICK j \in T : \A m \in T : j <= m
      <4> HIDE DEF T
      <4> QED
        BY <2>1, <3>1, Minimum
    <3>3. j # 0 /\ j \in 1..n
      BY <1>9
    <3>4. j - 1 \notin T /\ j - 1 \in 0..n
      BY <3>2, <3>3
    <3>5. f[j] \in Nat
      <4>1. PICK a, e : a = f[j - 1] /\ e = d[j]
        OBVIOUS
      <4>2. a \in Nat /\ e \in 0..9
        BY <1>2, <3>3, <3>4, <4>1 DEF Digit
      <4>3. 10 * a + e \in Nat
        BY <4>2
      <4> QED
        BY <1>10, <3>3, <4>1, <4>3
    <3> QED
      BY <3>5
  <2> QED
    BY <2>1
<1>12. f \in [0..n -> Nat]
  <2>1. f = [k \in 0..n |-> f[k]]
    BY <1>7
  <2> QED
    BY <1>11, <2>1
<1> QED
  BY <1>1, <1>8, <1>9, <1>10, <1>12

\* Prefixes of a number are no larger than it is.
Prefixes(d, f) ==
  /\ f \in [0..Len(d) -> Nat]
  /\ f[0] = 0
  /\ \A k \in 1..Len(d) : f[k] = 10 * f[k - 1] + d[k]

LEMMA PrefixesGrow ==
  ASSUME NEW d \in Seq(Digit), NEW f, Prefixes(d, f), NEW k \in 0..Len(d)
  PROVE  f[k] <= f[Len(d)]
<1>1. PICK n \in Nat : n = Len(d)
  OBVIOUS
<1>2. \A j \in 1..n : d[j] \in Digit
  BY <1>1
<1> DEFINE T == {j \in 0..n : ~(f[n - j] <= f[n])}
<1>3. CASE T # {}
  <2>1. T \in SUBSET Nat
    OBVIOUS
  <2>2. PICK j \in T : \A m \in T : j <= m
    <3> HIDE DEF T
    <3> QED
      BY <1>3, <2>1, Minimum
  <2>3. j \in 0..n /\ j \in Nat /\ n \in 0..n /\ f[n] \in Nat
    BY <1>1 DEF Prefixes
  <2>4. j # 0
    BY <2>3
  <2>5. j - 1 \notin T /\ j - 1 \in 0..n
    <3>1. j - 1 \in 0..n /\ ~(j <= j - 1)
      BY <2>3, <2>4
    <3> HIDE DEF T
    <3> QED
      BY <2>2, <3>1
  <2>6. PICK i : i = n - (j - 1) /\ n - j = i - 1 /\ i \in 1..n /\ i - 1 \in 0..n
    BY <2>3, <2>4
  <2>7. f[i] <= f[n] /\ f[i] = 10 * f[i - 1] + d[i]
    BY <1>1, <2>5, <2>6 DEF Prefixes
  <2>8. PICK a, b, e : a = f[i - 1] /\ b = f[i] /\ e = d[i]
    OBVIOUS
  <2> HIDE DEF T
  <2>9. a \in Nat /\ b \in Nat /\ e \in 0..9
    <3>1. f \in [0..n -> Nat] /\ i \in 0..n /\ d[i] \in 0..9
      BY <1>1, <1>2, <2>6 DEF Digit, Prefixes
    <3> QED
      BY <2>6, <2>8, <3>1
  <2>10. a <= b
    <3>1. b = 10 * a + e
      BY <2>7, <2>8
    <3> QED
      BY <2>9, <3>1
  <2>11. f[n - j] <= f[n]
    BY <2>3, <2>6, <2>7, <2>8, <2>9, <2>10
  <2> QED
    BY <2>11 DEF T
<1>4. CASE T = {}
  <2>1. n - k \in 0..n /\ n - (n - k) = k
    BY <1>1
  <2> QED
    BY <1>1, <1>4, <2>1
<1> QED
  BY <1>3, <1>4

\* One more digit of a number that is a uint32_t.
LEMMA WrappedDigit ==
  ASSUME NEW a \in Nat, NEW e \in 0..9, 10 * a + e < 2^Width
  PROVE  Wrapped(Wrapped(a) * 10 + e) = Wrapped(10 * a + e)
<1>1. PICK h : h = Half
  OBVIOUS
<1>2. h \in Nat \ {0} /\ Ints = (-h)..(h - 1) /\ 10 * a + e < 2 * h
  BY <1>1, IntsAre
<1>3. a < h
  BY <1>2
<1>4. a \in Ints
  BY <1>2, <1>3
<1>5. Wrapped(a) = a
  BY <1>4, WrappedIs
<1>6. a * 10 + e = 10 * a + e
  OBVIOUS
<1> QED
  BY <1>5, <1>6

LEMMA BitsWrapped ==
  ASSUME NEW y \in Nat, y < 2^Width
  PROVE  Bits(Wrapped(y)) = y
<1>1. PICK h, w : h = Half /\ w = 2^Width
  OBVIOUS
<1>2. h \in Nat \ {0} /\ w = 2 * h /\ IntMin = -h /\ y < w
  BY <1>1, IntsAre
<1>3. Wrapped(y) = ((y + h) % w) - h
  BY <1>1, <1>2 DEF Wrapped
<1>4. CASE y < h
  <2>1. (y + h) % w = y + h
    BY <1>2, <1>4
  <2>2. Wrapped(y) = y
    BY <1>2, <1>3, <2>1
  <2>3. y % w = y
    BY <1>2
  <2> QED
    BY <1>1, <2>2, <2>3 DEF Bits
<1>5. CASE ~(y < h)
  <2>1. (y + h) % w = y - h
    BY <1>2, <1>5
  <2>2. Wrapped(y) = y - w
    BY <1>2, <1>3, <2>1
  <2>3. (y - w) % w = y
    BY <1>2
  <2> QED
    BY <1>1, <2>2, <2>3 DEF Bits
<1> QED
  BY <1>4, <1>5

\* What array_index sums up are the ints of the prefixes, while these are uint32_t.
LEMMA IndexIs ==
  ASSUME NEW d \in Seq(Digit), NEW f, Prefixes(d, f), f[Len(d)] < 2^Width
  PROVE  array_index(d) = IF d = <<>> \/ (d[1] = 0 /\ Len(d) > 1) THEN NoIndex ELSE f[Len(d)]
<1>1. PICK n \in Nat : n = Len(d)
  OBVIOUS
<1>2. \A k \in 1..n : d[k] \in Digit
  BY <1>1
<1>w. PICK w : w = 2^Width
  OBVIOUS
<1>w0. w \in Nat
  BY <1>w, IntsAre
<1> DEFINE Body(s) == [k \in 0..n |-> IF k = 0 THEN 0 ELSE Wrapped(s[k - 1] * 10 + d[k])]
<1>3. ASSUME NEW k \in 0..n PROVE f[k] \in Nat /\ f[k] < w
  <2>1. f[k] <= f[n] /\ f[k] \in Nat /\ f[n] \in Nat
    <3>1. k \in 0..Len(d) /\ n \in 0..n
      BY <1>1
    <3>2. f[k] <= f[Len(d)]
      BY <3>1, PrefixesGrow
    <3> QED
      BY <1>1, <3>1, <3>2 DEF Prefixes
  <2> QED
    BY <1>1, <1>w, <1>w0, <2>1
<1>4. ASSUME NEW k \in 1..n
      PROVE  Wrapped(Wrapped(f[k - 1]) * 10 + d[k]) = Wrapped(f[k])
  <2>1. PICK a, e : a = f[k - 1] /\ e = d[k]
    OBVIOUS
  <2>2. k - 1 \in 0..n /\ k \in 0..n
    OBVIOUS
  <2>3. a \in Nat /\ e \in 0..9 /\ f[k] = 10 * a + e
    BY <1>1, <1>2, <1>3, <2>1, <2>2 DEF Digit, Prefixes
  <2>4. 10 * a + e < 2^Width
    BY <1>3, <1>w, <2>2, <2>3
  <2> QED
    BY <2>1, <2>3, <2>4, WrappedDigit
<1>5. Wrapped(0) = 0
  <2>1. 0 \in Ints
    BY IntsAre
  <2> QED
    BY <2>1, WrappedIs
<1>6. PICK g : g = [k \in 0..n |-> Wrapped(f[k])]
  OBVIOUS
<1>7. g = Body(g)
  <2>1. ASSUME NEW k \in 0..n
        PROVE  Wrapped(f[k]) = IF k = 0 THEN 0 ELSE Wrapped(g[k - 1] * 10 + d[k])
    <3>1. CASE k = 0
      BY <1>5, <3>1 DEF Prefixes
    <3>2. CASE k # 0
      <4>1. k \in 1..n /\ k - 1 \in 0..n
        BY <3>2
      <4>2. g[k - 1] = Wrapped(f[k - 1])
        BY <1>6, <4>1
      <4> QED
        BY <1>4, <3>2, <4>1, <4>2
    <3> QED
      BY <3>1, <3>2
  <2> QED
    BY <1>6, <2>1
<1>8. PICK s : s = CHOOSE h : h = Body(h)
  OBVIOUS
<1>9. s = Body(s)
  <2> HIDE DEF Body
  <2> QED
    BY <1>7, <1>8
<1>10. ASSUME NEW k \in 0..n PROVE s[k] = Wrapped(f[k])
  <2> DEFINE T == {j \in 0..n : s[j] # Wrapped(f[j])}
  <2>1. CASE T # {}
    <3>1. T \in SUBSET Nat
      OBVIOUS
    <3>2. PICK j \in T : \A m \in T : j <= m
      <4> HIDE DEF T
      <4> QED
        BY <2>1, <3>1, Minimum
    <3>3. j \in 0..n /\ s[j] # Wrapped(f[j])
      OBVIOUS
    <3>4. j # 0
      <4>1. s[0] = 0 /\ f[0] = 0
        BY <1>9 DEF Prefixes
      <4> QED
        BY <1>5, <3>3, <4>1
    <3>5. j - 1 \notin T /\ j - 1 \in 0..n /\ j \in 1..n
      <4>1. j - 1 \in 0..n /\ ~(j <= j - 1) /\ j \in 1..n
        BY <3>3, <3>4
      <4> HIDE DEF T
      <4> QED
        BY <3>2, <4>1
    <3>6. s[j - 1] = Wrapped(f[j - 1])
      BY <3>5
    <3>7. s[j] = Wrapped(s[j - 1] * 10 + d[j])
      BY <1>9, <3>3, <3>4
    <3> QED
      BY <1>4, <3>3, <3>5, <3>6, <3>7
  <2>2. CASE T = {}
    BY <2>2
  <2> QED
    BY <2>1, <2>2
<1>11. Bits(s[n]) = f[n]
  <2>1. n \in 0..n
    OBVIOUS
  <2> QED
    BY <1>3, <1>10, <1>w, <2>1, BitsWrapped
<1>12. CASE d = <<>> \/ (d[1] = 0 /\ Len(d) > 1)
  BY <1>12 DEF array_index
<1>13. CASE ~(d = <<>> \/ (d[1] = 0 /\ Len(d) > 1))
  <2>1. array_index(d) = Bits(s[n])
    BY <1>1, <1>8, <1>13 DEF array_index
  <2> QED
    BY <1>1, <1>11, <1>13, <2>1
<1> QED
  BY <1>12, <1>13

\* How numbers up to n are written.
Written(D, n) ==
  \A m \in 0..n : D[m] = IF m < 10 THEN <<m>> ELSE Append(D[m \div 10], m % 10)

LEMMA Tenth ==
  ASSUME NEW m \in Nat, m >= 10
  PROVE  m \div 10 \in 1..(m - 1) /\ m % 10 \in 0..9
OBVIOUS

LEMMA DigitsExist ==
  ASSUME NEW n \in Nat
  PROVE  \E D : Written(D, n) /\ uint32_to_u16string(n) = D[n]
<1> DEFINE Body(D) == [m \in 0..n |-> IF m < 10 THEN <<m>> ELSE Append(D[m \div 10], m % 10)]
<1>1. PICK A, B, Z, P, G :
        /\ A = Seq(Nat)
        /\ B = {m \in 0..n : m < 10}
        /\ Z = [m \in 0..n |-> <<m>>]
        /\ P = [m \in 0..n |-> m \div 10]
        /\ G = [m \in 0..n |-> [s \in Seq(Nat) |-> Append(s, m % 10)]]
  OBVIOUS
<1>2. Z \in Start(n, A)
  BY <1>1 DEF Start
<1>3. B \in SUBSET (0..n)
  BY <1>1
<1>4. P \in Before(n, B)
  <2>1. ASSUME NEW m \in (0..n) \ B PROVE P[m] \in 0..(m - 1)
    <3>1. m \in Nat /\ m >= 10 /\ P[m] = m \div 10
      BY <1>1
    <3> QED
      BY <3>1, Tenth
  <2>2. P \in [0..n -> Int]
    BY <1>1
  <2> QED
    BY <2>1, <2>2 DEF Before
<1>5. G \in Step(n, A)
  <2>1. ASSUME NEW m \in 0..n, NEW s \in Seq(Nat) PROVE Append(s, m % 10) \in Seq(Nat)
    <3>1. m % 10 \in Nat
      OBVIOUS
    <3> QED
      BY <3>1
  <2> QED
    BY <1>1, <2>1 DEF Step
<1>6. PICK f : Recursive(f, n, A, B, Z, P, G)
  BY <1>2, <1>3, <1>4, <1>5, RecursiveFunction
<1>7. f = Body(f)
  <2>1. ASSUME NEW m \in 0..n
        PROVE  f[m] = IF m < 10 THEN <<m>> ELSE Append(f[m \div 10], m % 10)
    <3>1. CASE m < 10
      <4>1. m \in B /\ Z[m] = <<m>>
        BY <1>1, <3>1
      <4> QED
        BY <1>6, <3>1, <4>1 DEF Recursive
    <3>2. CASE ~(m < 10)
      <4>1. m \notin B /\ P[m] = m \div 10
        BY <1>1, <3>2
      <4>2. m \div 10 \in 0..n
        <5>1. m \in Nat /\ m >= 10
          BY <3>2
        <5>2. m \div 10 \in 1..(m - 1)
          BY <5>1, Tenth
        <5> QED
          BY <5>2
      <4>3. PICK s : s = f[m \div 10]
        OBVIOUS
      <4>4. s \in Seq(Nat)
        BY <1>1, <1>6, <4>2, <4>3 DEF Recursive
      <4>5. G[m][s] = Append(s, m % 10)
        BY <1>1, <4>4
      <4>6. f[m] = G[m][s]
        BY <1>6, <4>1, <4>3 DEF Recursive
      <4> QED
        BY <3>2, <4>3, <4>5, <4>6
    <3> QED
      BY <3>1, <3>2
  <2>2. DOMAIN f = 0..n /\ f = [m \in 0..n |-> f[m]]
    BY <1>6 DEF Recursive
  <2> QED
    BY <2>1, <2>2
<1>8. PICK D : D = CHOOSE h : h = Body(h)
  OBVIOUS
<1>9. D = Body(D)
  <2> HIDE DEF Body
  <2> QED
    BY <1>7, <1>8
<1>10. Written(D, n)
  <2>1. ASSUME NEW m \in 0..n
        PROVE  D[m] = IF m < 10 THEN <<m>> ELSE Append(D[m \div 10], m % 10)
    BY <1>9
  <2> QED
    BY <2>1 DEF Written
<1>11. uint32_to_u16string(n) = D[n]
  BY <1>8 DEF uint32_to_u16string
<1> QED
  BY <1>10, <1>11

\* No number but 0 is written with a first digit 0.
LEMMA FirstDigit ==
  ASSUME NEW n \in Nat, NEW D, Written(D, n), NEW m \in 0..n
  PROVE  /\ D[m] \in Seq(Nat) /\ Len(D[m]) >= 1
         /\ m # 0 => D[m][1] # 0
         /\ m = 0 => D[m] = <<0>>
<1> DEFINE Good(i) == D[i] \in Seq(Nat) /\ Len(D[i]) >= 1 /\ (i # 0 => D[i][1] # 0)
           T == {i \in 0..n : ~Good(i)}
<1>1. CASE T # {}
  <2>1. T \in SUBSET Nat
    OBVIOUS
  <2>2. PICK j \in T : \A i \in T : j <= i
    <3> HIDE DEF T
    <3> QED
      BY <1>1, <2>1, Minimum
  <2>3. j \in 0..n /\ ~Good(j)
    OBVIOUS
  <2>4. CASE j < 10
    <3>1. D[j] = <<j>>
      BY <2>3, <2>4 DEF Written
    <3>2. PICK s : s = D[j]
      OBVIOUS
    <3>3. s \in Seq(Nat) /\ Len(s) = 1 /\ s[1] = j
      BY <2>3, <3>1, <3>2
    <3> QED
      BY <2>3, <3>2, <3>3
  <2>5. CASE ~(j < 10)
    <3>1. PICK q : q = j \div 10
      OBVIOUS
    <3>2. q \in 1..(j - 1) /\ j % 10 \in 0..9
      BY <2>3, <2>5, <3>1, Tenth
    <3>3. q \in 0..n /\ ~(j <= q) /\ q # 0
      BY <2>3, <3>2
    <3>4. Good(q)
      <4>1. q \notin T
        <5> HIDE DEF T
        <5> QED
          BY <2>2, <3>3
      <4> QED
        BY <3>3, <4>1
    <3>5. PICK s, t, e : s = D[q] /\ t = D[j] /\ e = j % 10
      OBVIOUS
    <3>6. t = Append(s, e)
      BY <2>3, <2>5, <3>1, <3>5 DEF Written
    <3>7. s \in Seq(Nat) /\ Len(s) >= 1 /\ s[1] # 0 /\ e \in Nat
      BY <3>2, <3>3, <3>4, <3>5
    <3>8. t \in Seq(Nat) /\ Len(t) >= 1 /\ t[1] = s[1]
      BY <3>6, <3>7
    <3> QED
      BY <2>3, <3>5, <3>7, <3>8
  <2> QED
    BY <2>4, <2>5
<1>2. CASE T = {}
  <2>1. m = 0 => D[m] = <<0>>
    <3>1. 0 \in 0..n
      OBVIOUS
    <3>2. D[0] = <<0>>
      <4>1. \A i \in 0..n : i < 10 => D[i] = <<i>>
        BY DEF Written
      <4> QED
        BY <3>1, <4>1
    <3> QED
      BY <3>2
  <2>2. Good(m)
    BY <1>2
  <2> QED
    BY <2>1, <2>2
<1> QED
  BY <1>1, <1>2

LEMMA OneDigit ==
  ASSUME NEW s \in Seq(Digit), Len(s) = 1
  PROVE  s = <<s[1]>>
<1>1. PICK e, t : e = s[1] /\ t = <<s[1]>>
  OBVIOUS
<1>2. e \in Digit
  BY <1>1
<1>3. t \in Seq(Digit) /\ Len(t) = 1 /\ \A i \in 1..1 : t[i] = s[i]
  BY <1>1, <1>2
<1>4. t = s
  BY <1>3
<1> QED
  BY <1>1, <1>4

\* Digits with no 0 before them are how their number is written.
LEMMA WrittenPrefixes ==
  ASSUME NEW d \in Seq(Digit), NEW f, Prefixes(d, f), Len(d) >= 1, d[1] # 0,
         NEW D, Written(D, f[Len(d)])
  PROVE  D[f[Len(d)]] = d
<1>1. PICK n \in Nat : n = Len(d)
  OBVIOUS
<1>2. \A k \in 1..n : d[k] \in Digit
  BY <1>1
<1>m. PICK m : m = f[n]
  OBVIOUS
<1>m0. m \in Nat /\ \A k \in 0..n : f[k] \in 0..m
  <2>1. ASSUME NEW k \in 0..n PROVE f[k] \in Nat /\ f[k] <= m
    BY <1>1, <1>m, PrefixesGrow DEF Prefixes
  <2>2. n \in 0..n
    OBVIOUS
  <2>3. m \in Nat
    BY <1>m, <2>1, <2>2
  <2> QED
    BY <2>1, <2>3
<1>3. Written(D, m)
  BY <1>1, <1>m
<1>4. \A k \in 1..n : f[k] = 10 * f[k - 1] + d[k]
  BY <1>1 DEF Prefixes
<1> DEFINE Good(k) == f[k] >= 1 /\ D[f[k]] = SubSeq(d, 1, k)
           T == {k \in 1..n : ~Good(k)}
<1>5. CASE T # {}
  <2>1. T \in SUBSET Nat
    OBVIOUS
  <2>2. PICK j \in T : \A i \in T : j <= i
    <3> HIDE DEF T
    <3> QED
      BY <1>5, <2>1, Minimum
  <2>3. j \in 1..n /\ ~Good(j)
    OBVIOUS
  <2>4. PICK a, b, e : a = f[j - 1] /\ b = f[j] /\ e = d[j]
    OBVIOUS
  <2>5. e \in 0..9 /\ a \in Nat /\ b = 10 * a + e /\ b \in 0..m
    BY <1>2, <1>4, <1>m0, <2>3, <2>4 DEF Digit
  <2>6. CASE j = 1
    <3>1. a = 0 /\ e # 0
      BY <2>4, <2>6 DEF Prefixes
    <3>2. b = e /\ b >= 1 /\ b < 10
      BY <2>5, <3>1
    <3>3. D[b] = <<e>>
      BY <1>3, <2>5, <3>2 DEF Written
    <3>4. SubSeq(d, 1, 1) = <<e>>
      <4>1. PICK s : s = SubSeq(d, 1, 1)
        OBVIOUS
      <4>2. s \in Seq(Digit) /\ Len(s) = 1 /\ s[1] = e
        BY <1>1, <2>3, <2>4, <2>6, <4>1
      <4> QED
        BY <4>1, <4>2, OneDigit
    <3> QED
      BY <2>3, <2>4, <2>6, <3>2, <3>3, <3>4
  <2>7. CASE j # 1
    <3>1. j - 1 \in 1..n /\ ~(j <= j - 1)
      BY <2>3, <2>7
    <3>2. Good(j - 1)
      <4>1. j - 1 \notin T
        <5> HIDE DEF T
        <5> QED
          BY <2>2, <3>1
      <4> QED
        BY <3>1, <4>1
    <3>3. a >= 1 /\ D[a] = SubSeq(d, 1, j - 1)
      BY <2>4, <3>2
    <3>4. b >= 10 /\ ~(b < 10) /\ b >= 1
      BY <2>5, <3>3
    <3>5. b \div 10 = a /\ b % 10 = e
      BY <2>5
    <3>6. D[b] = Append(D[a], e)
      BY <1>3, <2>5, <3>4, <3>5 DEF Written
    <3>7. SubSeq(d, 1, j) = Append(SubSeq(d, 1, j - 1), e)
      <4>1. PICK s : s = SubSeq(d, 1, j - 1)
        OBVIOUS
      <4>2. s \in Seq(Digit) /\ Len(s) = j - 1 /\ \A i \in 1..(j - 1) : s[i] = d[i]
        BY <1>1, <2>3, <3>1, <4>1
      <4>3. PICK t : t = SubSeq(d, 1, j)
        OBVIOUS
      <4>4. t \in Seq(Digit) /\ Len(t) = j /\ \A i \in 1..j : t[i] = d[i]
        BY <1>1, <2>3, <4>3
      <4>5. PICK u : u = Append(s, e)
        OBVIOUS
      <4>6. e \in Digit
        BY <2>5 DEF Digit
      <4>7. u \in Seq(Digit) /\ Len(u) = j /\ \A i \in 1..j : u[i] = IF i = j THEN e ELSE s[i]
        BY <2>3, <4>2, <4>5, <4>6
      <4>8. \A i \in 1..j : t[i] = u[i]
        BY <2>3, <2>4, <4>2, <4>4, <4>7
      <4>9. t = u
        BY <4>4, <4>7, <4>8
      <4> QED
        BY <4>1, <4>3, <4>5, <4>9
    <3> QED
      BY <2>3, <2>4, <3>3, <3>4, <3>6, <3>7
  <2> QED
    BY <2>6, <2>7
<1>6. CASE T = {}
  <2>1. n \in 1..n
    BY <1>1
  <2>2. Good(n)
    BY <1>6, <2>1
  <2>3. SubSeq(d, 1, n) = d
    BY <1>1
  <2> QED
    BY <1>1, <2>2, <2>3
<1> QED
  BY <1>5, <1>6

\* array_index finds the number of a name that is written as numbers are.
LEMMA IndexOfName ==
  ASSUME NEW d \in Seq(Digit), ValueOfDigits(d) < 2^Width
  PROVE  array_index(d) =
           IF d = uint32_to_u16string(ValueOfDigits(d)) THEN ValueOfDigits(d) ELSE NoIndex
<1>1. PICK f : Prefixes(d, f) /\ ValueOfDigits(d) = f[Len(d)]
  BY PrefixesAre DEF Prefixes
<1>2. PICK m : m = f[Len(d)]
  OBVIOUS
<1>3. m \in Nat /\ m \in 0..m
  <2>1. Len(d) \in 0..Len(d)
    OBVIOUS
  <2> QED
    BY <1>1, <1>2, <2>1 DEF Prefixes
<1>4. PICK D : Written(D, m) /\ uint32_to_u16string(m) = D[m]
  BY <1>3, DigitsExist
<1>5. /\ D[m] \in Seq(Nat) /\ Len(D[m]) >= 1
      /\ m # 0 => D[m][1] # 0
      /\ m = 0 => D[m] = <<0>>
  BY <1>3, <1>4, FirstDigit
<1>6. array_index(d) = IF d = <<>> \/ (d[1] = 0 /\ Len(d) > 1) THEN NoIndex ELSE m
  BY <1>1, <1>2, IndexIs
<1>7. CASE d = <<>>
  <2>1. D[m] # d
    BY <1>5, <1>7
  <2> QED
    BY <1>1, <1>2, <1>4, <1>6, <1>7, <2>1
<1>l. PICK l \in Nat : l = Len(d)
  OBVIOUS
<1>8. CASE d[1] = 0 /\ l > 1
  <2>1. D[m] # d
    <3>1. PICK s : s = D[m]
      OBVIOUS
    <3>2. CASE m # 0
      BY <1>5, <1>8, <3>2
    <3>3. CASE m = 0
      <4>1. s = <<0>>
        BY <1>5, <3>1, <3>3
      <4>2. Len(s) = 1
        BY <4>1
      <4>3. Len(s) # Len(d)
        BY <1>l, <1>8, <4>2
      <4>4. s # d
        BY <4>3
      <4> QED
        BY <3>1, <4>4
    <3> QED
      BY <3>2, <3>3
  <2> QED
    BY <1>1, <1>2, <1>4, <1>6, <1>l, <1>8, <2>1
<1>9. CASE d # <<>> /\ d[1] # 0
  <2>1. Len(d) >= 1
    BY <1>9
  <2>2. D[m] = d
    BY <1>1, <1>2, <1>4, <1>9, <2>1, WrittenPrefixes
  <2> QED
    BY <1>1, <1>2, <1>4, <1>6, <1>9, <2>2
<1>10. CASE d # <<>> /\ d[1] = 0 /\ ~(l > 1)
  <2>1. Len(d) = 1
    <3>1. Len(d) # 0
      BY <1>10, EmptySeq
    <3> QED
      BY <1>l, <1>10, <3>1
  <2>2. 1 \in 1..1 /\ f[1] = 10 * f[0] + d[1] /\ f[0] = 0
    BY <1>1, <2>1 DEF Prefixes
  <2>3. m = 0
    BY <1>2, <1>10, <2>1, <2>2
  <2>4. d = <<0>>
    BY <1>10, <2>1, OneDigit
  <2>5. D[m] = d
    BY <1>5, <2>3, <2>4
  <2> QED
    BY <1>1, <1>2, <1>4, <1>6, <1>l, <1>10, <2>5
<1> QED
  BY <1>7, <1>8, <1>9, <1>10

\* A name below 2^Width is taken for that of an element just when it is how the
\* element's number is written, however many digits it has: the int that sums them
\* up has the bits of the number, though it overflows on the way, and with no 0
\* before them the digits are the ones uint32_to_u16string gives (context.cc 26-53).
THEOREM NamesAreIndices == ExpressionSpec => []IndexNames
<1>1. EvaluationInv => IndexNames
  <2> SUFFICES ASSUME EvaluationInv, E.form = "index", ValueOfDigits(E.digits) < 2^Width
               PROVE  E.index = IF E.digits = uint32_to_u16string(ValueOfDigits(E.digits))
                                THEN ValueOfDigits(E.digits) ELSE NoIndex
    BY DEF IndexNames
  <2>1. Named(E)
    BY DEF EvaluationInv, Evaluated, E, NoEvaluation
  <2>2. PICK k \in 0..MaxDigits : E.digits \in [1..k -> 0..9]
    BY <2>1 DEF Named
  <2>3. PICK d : d = E.digits
    OBVIOUS
  <2>4. d \in Seq(Digit)
    <3>1. k \in Nat
      BY OperandsAssumption
    <3>2. d \in [1..k -> Digit]
      BY <2>2, <2>3 DEF Digit
    <3> QED
      BY <3>1, <3>2
  <2>5. array_index(d) = IF d = uint32_to_u16string(ValueOfDigits(d)) THEN ValueOfDigits(d) ELSE NoIndex
    BY <2>3, <2>4, IndexOfName
  <2> QED
    BY <2>1, <2>3, <2>5 DEF Named
<1> QED
  BY <1>1, OperatorsEvaluate, PTL

-----------------------------------------------------------------------------
\* What happens of an expression, one after the other.
Listed(c) == \E S : c \in Seq(S)
Formed(r) == r = Ending(r.kind, r.value, r.calls) /\ Listed(r.calls)

LEMMA ListedConcat ==
  ASSUME NEW c, Listed(c), NEW d, Listed(d), NEW g, g = c \o d
  PROVE  /\ Listed(g)
         /\ Len(c) \in Nat /\ Len(d) \in Nat /\ Len(g) = Len(c) + Len(d)
         /\ DOMAIN c = 1..Len(c) /\ DOMAIN d = 1..Len(d) /\ DOMAIN g = 1..Len(g)
         /\ \A i \in 1..(Len(c) + Len(d)) : g[i] = IF i <= Len(c) THEN c[i] ELSE d[i - Len(c)]
<1>1. PICK S, T : c \in Seq(S) /\ d \in Seq(T)
  BY DEF Listed
<1>2. PICK U : U = S \cup T
  OBVIOUS
<1>3. c \in Seq(U)
  BY <1>1, <1>2
<1>4. d \in Seq(U)
  BY <1>1, <1>2
<1>5. /\ g \in Seq(U)
      /\ Len(g) = Len(c) + Len(d)
      /\ \A i \in 1..(Len(c) + Len(d)) : g[i] = IF i <= Len(c) THEN c[i] ELSE d[i - Len(c)]
  BY <1>3, <1>4, ConcatProperties
<1>6. Listed(g)
  BY <1>5 DEF Listed
<1> QED
  BY <1>3, <1>4, <1>5, <1>6

LEMMA NothingConcat ==
  ASSUME NEW c, Listed(c)
  PROVE  <<>> \o c = c /\ c \o <<>> = c
<1>1. PICK S : c \in Seq(S)
  BY DEF Listed
<1> QED
  BY <1>1, ConcatEmptySeq

LEMMA ConcatThrice ==
  ASSUME NEW c, Listed(c), NEW d, Listed(d), NEW e, Listed(e)
  PROVE  (c \o d) \o e = c \o (d \o e)
<1>1. PICK S, T, U : c \in Seq(S) /\ d \in Seq(T) /\ e \in Seq(U)
  BY DEF Listed
<1>2. PICK V : V = (S \cup T) \cup U
  OBVIOUS
<1>3. c \in Seq(V)
  BY <1>1, <1>2
<1>4. d \in Seq(V)
  BY <1>1, <1>2
<1>5. e \in Seq(V)
  BY <1>1, <1>2
<1> QED
  BY <1>3, <1>4, <1>5, ConcatAssociative

LEMMA OneListed ==
  ASSUME NEW e
  PROVE  Listed(<<e>>) /\ Listed(<<>>) /\ Len(<<e>>) = 1 /\ <<e>>[1] = e
<1>1. PICK S : S = {e}
  OBVIOUS
<1>2. <<e>> \in Seq(S)
  BY <1>1
<1>3. <<>> \in Seq(S)
  OBVIOUS
<1> QED
  BY <1>2, <1>3 DEF Listed

LEMMA FormedEnding ==
  ASSUME NEW k, NEW v, NEW c, Listed(c)
  PROVE  Formed(Ending(k, v, c))
  BY EndingParts DEF Formed

LEMMA AfterFormed ==
  ASSUME NEW r, Listed(r.calls), NEW s, Formed(s)
  PROVE  /\ After(r, s) = Ending(s.kind, s.value, r.calls \o s.calls)
         /\ Formed(After(r, s))
         /\ After(r, s).kind = s.kind /\ After(r, s).value = s.value
         /\ After(r, s).calls = r.calls \o s.calls
<1>1. PICK k, v, c, d : k = s.kind /\ v = s.value /\ c = s.calls /\ d = r.calls
  OBVIOUS
<1>2. s = Ending(k, v, c) /\ Listed(c) /\ Listed(d)
  BY <1>1 DEF Formed
<1>3. PICK g : g = d \o c
  OBVIOUS
<1>4. Listed(g)
  BY <1>2, <1>3, ListedConcat
<1>5. After(Calling(d), Ending(k, v, c)) = Ending(k, v, d \o c)
  BY CallingEnding
<1>6. After(r, s) = Ending(k, v, g)
  BY <1>1, <1>2, <1>3, <1>5, AfterCalls
<1>7. PICK e : e = After(r, s)
  OBVIOUS
<1>8. e = Ending(k, v, g)
  BY <1>6, <1>7
<1>9. e.kind = k /\ e.value = v /\ e.calls = g
  BY <1>8, EndingParts
<1>10. Formed(e)
  BY <1>4, <1>8, FormedEnding
<1> QED
  BY <1>1, <1>3, <1>7, <1>8, <1>9, <1>10

-----------------------------------------------------------------------------
\* e before f.
InOrder(e, f) ==
  /\ ~Threw(e)
  /\ DOMAIN e \cap {"put", "delete", "run"} = {}
  /\ {"part"} \subseteq DOMAIN e \cap DOMAIN f => e.part < f.part
  /\ "get" \in DOMAIN e /\ "put" \in DOMAIN f => e.get = f.put /\ e.name = f.name
Orderly(c) == \A i, j \in DOMAIN c : i < j => InOrder(c[i], c[j])

PartEvent(k, t) == [part |-> k, throws |-> t]
GetEvent(o, n) == [get |-> o, name |-> n]
PutEvent(o, n, v) == [put |-> o, name |-> n, value |-> v]
DeleteEvent(o, n) == [delete |-> o, name |-> n]
RunEvent(how, f, this, args) == [run |-> how, function |-> f, this |-> this, args |-> args]

\* What happens on the way, to parts lo..hi and the member m, and what ends an expression.
ReadEvent(e, lo, hi, m) ==
  \/ \E k \in lo..hi : e = PartEvent(k, TRUE) \/ e = PartEvent(k, FALSE)
  \/ e \in CallSet
  \/ e = GetEvent(m.object, m.name)
LastEvent(e, m) ==
  \/ \E v : e = PutEvent(m.object, m.name, v)
  \/ \E o, n : e = DeleteEvent(o, n)
  \/ \E h, f, t, a : e = RunEvent(h, f, t, a)

LEMMA PartShape ==
  ASSUME NEW k, NEW t
  PROVE  /\ DOMAIN PartEvent(k, t) = {"part", "throws"}
         /\ PartEvent(k, t).part = k /\ PartEvent(k, t).throws = t /\ Threw(PartEvent(k, t)) = t
  BY DEF PartEvent, Threw

LEMMA CallShape ==
  ASSUME NEW e \in CallSet
  PROVE  DOMAIN e = {"id", "method"} /\ Threw(e) = Throwing(e)
<1>1. DOMAIN e = {"id", "method"}
  BY DEF CallSet
<1> QED
  BY <1>1 DEF Threw

LEMMA GetShape ==
  ASSUME NEW o, NEW n
  PROVE  /\ DOMAIN GetEvent(o, n) = {"get", "name"}
         /\ GetEvent(o, n).get = o /\ GetEvent(o, n).name = n
         /\ Threw(GetEvent(o, n)) = (GetGives[Id(o)].kind = "throws")
  BY DEF GetEvent, Threw

LEMMA LastShapes ==
  ASSUME NEW o, NEW n, NEW v, NEW h, NEW f, NEW t, NEW a
  PROVE  /\ DOMAIN PutEvent(o, n, v) = {"put", "name", "value"}
         /\ PutEvent(o, n, v).put = o /\ PutEvent(o, n, v).name = n
         /\ DOMAIN DeleteEvent(o, n) = {"delete", "name"}
         /\ DOMAIN RunEvent(h, f, t, a) = {"run", "function", "this", "args"}
  BY DEF PutEvent, DeleteEvent, RunEvent

\* What happens from part lo on.
EventFrom(e, lo, m) == (\E hi \in Int : ReadEvent(e, lo, hi, m)) \/ LastEvent(e, m)

Reading(r, lo, hi, m) ==
  /\ Formed(r)
  /\ Orderly(r.calls)
  /\ \A i \in DOMAIN r.calls : ReadEvent(r.calls[i], lo, hi, m)
  /\ r.kind = "value" => \A i \in DOMAIN r.calls : ~Threw(r.calls[i])
Going(r, lo, m) ==
  /\ Formed(r)
  /\ Orderly(r.calls)
  /\ \A i \in DOMAIN r.calls : EventFrom(r.calls[i], lo, m)

LEMMA ReadFields ==
  ASSUME NEW lo \in Int, NEW hi \in Int, NEW m, NEW e, ReadEvent(e, lo, hi, m)
  PROVE  /\ DOMAIN e \cap {"put", "delete", "run"} = {}
         /\ "part" \in DOMAIN e => e.part \in lo..hi
         /\ "get" \in DOMAIN e => e.get = m.object /\ e.name = m.name
<1>1. CASE \E k \in lo..hi : e = PartEvent(k, TRUE) \/ e = PartEvent(k, FALSE)
  <2>1. PICK k \in lo..hi : e = PartEvent(k, TRUE) \/ e = PartEvent(k, FALSE)
    BY <1>1
  <2>2. DOMAIN e = {"part", "throws"} /\ e.part = k
    <3>1. PICK t : e = PartEvent(k, t)
      BY <2>1
    <3> QED
      BY <3>1, PartShape
  <2> QED
    BY <2>2
<1>2. CASE e \in CallSet
  BY <1>2, CallShape
<1>3. CASE e = GetEvent(m.object, m.name)
  BY <1>3, GetShape
<1> QED
  BY <1>1, <1>2, <1>3 DEF ReadEvent

LEMMA FromFields ==
  ASSUME NEW lo \in Int, NEW m, NEW e, EventFrom(e, lo, m)
  PROVE  /\ "part" \in DOMAIN e => e.part \in Int /\ e.part >= lo
         /\ "put" \in DOMAIN e => e.put = m.object /\ e.name = m.name
<1>1. CASE \E hi \in Int : ReadEvent(e, lo, hi, m)
  BY <1>1, ReadFields
<1>2. CASE \E v : e = PutEvent(m.object, m.name, v)
  BY <1>2, LastShapes
<1>3. CASE \E o, n : e = DeleteEvent(o, n)
  BY <1>3, LastShapes
<1>4. CASE \E h, f, t, a : e = RunEvent(h, f, t, a)
  BY <1>4, LastShapes
<1> QED
  BY <1>1, <1>2, <1>3, <1>4 DEF EventFrom, LastEvent

LEMMA ReadBeforeFrom ==
  ASSUME NEW lo \in Int, NEW k \in Int, NEW m, NEW e, ReadEvent(e, lo, k, m), ~Threw(e),
         NEW f, EventFrom(f, k + 1, m)
  PROVE  InOrder(e, f)
<1>1. /\ DOMAIN e \cap {"put", "delete", "run"} = {}
      /\ "part" \in DOMAIN e => e.part \in lo..k
      /\ "get" \in DOMAIN e => e.get = m.object /\ e.name = m.name
  BY ReadFields
<1>2. /\ "part" \in DOMAIN f => f.part \in Int /\ f.part >= k + 1
      /\ "put" \in DOMAIN f => f.put = m.object /\ f.name = m.name
  BY FromFields
<1>3. {"part"} \subseteq DOMAIN e \cap DOMAIN f => e.part < f.part
  <2> SUFFICES ASSUME "part" \in DOMAIN e, "part" \in DOMAIN f PROVE e.part < f.part
    OBVIOUS
  <2> QED
    BY <1>1, <1>2
<1> QED
  BY <1>1, <1>2, <1>3 DEF InOrder

LEMMA Wider ==
  ASSUME NEW lo \in Int, NEW hi \in Int, NEW a \in Int, NEW b \in Int, a <= lo, hi <= b, NEW m, NEW e,
         ReadEvent(e, lo, hi, m)
  PROVE  ReadEvent(e, a, b, m)
<1>1. lo..hi \subseteq a..b
  OBVIOUS
<1> QED
  BY <1>1 DEF ReadEvent

LEMMA WiderFrom ==
  ASSUME NEW lo \in Int, NEW a \in Int, a <= lo, NEW m, NEW e, EventFrom(e, lo, m)
  PROVE  EventFrom(e, a, m)
<1>1. CASE \E hi \in Int : ReadEvent(e, lo, hi, m)
  <2>1. PICK hi \in Int : ReadEvent(e, lo, hi, m)
    BY <1>1
  <2>2. ReadEvent(e, a, hi, m)
    BY <2>1, Wider
  <2> QED
    BY <2>2 DEF EventFrom
<1>2. CASE LastEvent(e, m)
  BY <1>2 DEF EventFrom
<1> QED
  BY <1>1, <1>2 DEF EventFrom

AllInOrder(c, d) == \A i \in DOMAIN c, j \in DOMAIN d : InOrder(c[i], d[j])
OneOf(g, k, c) == \E i \in DOMAIN c : g[k] = c[i]

LEMMA OrderlyConcat ==
  ASSUME NEW c, Listed(c), Orderly(c), NEW d, Listed(d), Orderly(d), NEW g, g = c \o d,
         AllInOrder(c, d)
  PROVE  /\ Orderly(g)
         /\ \A k \in DOMAIN g : OneOf(g, k, c) \/ OneOf(g, k, d)
<1>1. /\ Len(c) \in Nat /\ Len(d) \in Nat /\ Len(g) = Len(c) + Len(d)
      /\ DOMAIN c = 1..Len(c) /\ DOMAIN d = 1..Len(d) /\ DOMAIN g = 1..Len(g)
      /\ \A i \in 1..(Len(c) + Len(d)) : g[i] = IF i <= Len(c) THEN c[i] ELSE d[i - Len(c)]
  BY ListedConcat
<1>2. PICK m, n : m = Len(c) /\ n = Len(d)
  OBVIOUS
<1>3. ASSUME NEW k \in DOMAIN g
      PROVE  \/ k <= m /\ k \in DOMAIN c /\ g[k] = c[k]
             \/ k > m /\ k - m \in DOMAIN d /\ g[k] = d[k - m]
  BY <1>1, <1>2
<1>4. ASSUME NEW i \in DOMAIN g, NEW j \in DOMAIN g, i < j PROVE InOrder(g[i], g[j])
  <2>0. i \in Int /\ j \in Int /\ m \in Int
    BY <1>1, <1>2
  <2>1. CASE j <= m
    <3>1. i <= m
      BY <2>0, <2>1, <1>4
    <3> QED
      BY <1>3, <1>4, <2>0, <2>1, <3>1 DEF Orderly
  <2>2. CASE i > m
    <3>1. j > m /\ i - m < j - m
      BY <2>0, <2>2, <1>4
    <3>2. g[i] = d[i - m] /\ g[j] = d[j - m] /\ i - m \in DOMAIN d /\ j - m \in DOMAIN d
      BY <1>3, <2>0, <2>2, <3>1
    <3>3. PICK x, y : x = i - m /\ y = j - m
      OBVIOUS
    <3> QED
      BY <3>1, <3>2, <3>3 DEF Orderly
  <2>3. CASE i <= m /\ j > m
    <3>1. g[i] = c[i] /\ i \in DOMAIN c
      BY <1>3, <2>0, <2>3
    <3>2. g[j] = d[j - m] /\ j - m \in DOMAIN d
      BY <1>3, <2>0, <2>3
    <3>3. PICK y : y = j - m
      OBVIOUS
    <3> QED
      BY <3>1, <3>2, <3>3 DEF AllInOrder
  <2> QED
    BY <2>0, <2>1, <2>2, <2>3
<1>5. Orderly(g)
  BY <1>4 DEF Orderly
<1> QED
  BY <1>3, <1>5 DEF OneOf

\* What is read is followed by what is done with later parts.
LEMMA ThenGoing ==
  ASSUME NEW lo \in Int, NEW k \in Int, lo <= k + 1, NEW m, NEW r, Reading(r, lo, k, m), r.kind = "value",
         NEW s, Going(s, k + 1, m)
  PROVE  Going(After(r, s), lo, m)
<1>1. PICK c, d, g : c = r.calls /\ d = s.calls /\ g = c \o d
  OBVIOUS
<1>2. Listed(c) /\ Listed(d) /\ Orderly(c) /\ Orderly(d) /\ Formed(s)
  BY <1>1 DEF Reading, Going, Formed
<1>3. /\ \A i \in DOMAIN c : ReadEvent(c[i], lo, k, m) /\ ~Threw(c[i])
      /\ \A j \in DOMAIN d : EventFrom(d[j], k + 1, m)
  BY <1>1 DEF Reading, Going
<1>4. AllInOrder(c, d)
  BY <1>3, ReadBeforeFrom DEF AllInOrder
<1>5. /\ Orderly(g)
      /\ \A i \in DOMAIN g : OneOf(g, i, c) \/ OneOf(g, i, d)
  BY <1>1, <1>2, <1>4, OrderlyConcat
<1>6. \A j \in DOMAIN c : EventFrom(c[j], lo, m)
  BY <1>3 DEF EventFrom
<1>7. \A j \in DOMAIN d : EventFrom(d[j], lo, m)
  <2>1. k + 1 \in Int
    OBVIOUS
  <2> QED
    BY <1>3, <2>1, WiderFrom
<1>8. Formed(After(r, s)) /\ After(r, s).calls = g
  BY <1>1, <1>2, AfterFormed
<1> QED
  BY <1>5, <1>6, <1>7, <1>8 DEF Going, OneOf

LEMMA ThenReading ==
  ASSUME NEW lo \in Int, NEW k \in Int, NEW hi \in Int, lo <= k + 1, k <= hi, NEW m,
         NEW r, Reading(r, lo, k, m), r.kind = "value",
         NEW s, Reading(s, k + 1, hi, m)
  PROVE  Reading(After(r, s), lo, hi, m)
<1>1. PICK c, d, g : c = r.calls /\ d = s.calls /\ g = c \o d
  OBVIOUS
<1>2. Listed(c) /\ Listed(d) /\ Orderly(c) /\ Orderly(d) /\ Formed(s)
  BY <1>1 DEF Reading, Formed
<1>3. /\ \A i \in DOMAIN c : ReadEvent(c[i], lo, k, m) /\ ~Threw(c[i])
      /\ \A j \in DOMAIN d : ReadEvent(d[j], k + 1, hi, m)
      /\ s.kind = "value" => \A j \in DOMAIN d : ~Threw(d[j])
  BY <1>1 DEF Reading
<1>4. AllInOrder(c, d)
  <2>1. \A j \in DOMAIN d : EventFrom(d[j], k + 1, m)
    BY <1>3 DEF EventFrom
  <2> QED
    BY <1>3, <2>1, ReadBeforeFrom DEF AllInOrder
<1>5. /\ Orderly(g)
      /\ \A i \in DOMAIN g : OneOf(g, i, c) \/ OneOf(g, i, d)
  BY <1>1, <1>2, <1>4, OrderlyConcat
<1>6. ASSUME NEW j \in DOMAIN c PROVE ReadEvent(c[j], lo, hi, m)
  BY <1>3, Wider
<1>7. ASSUME NEW j \in DOMAIN d PROVE ReadEvent(d[j], lo, hi, m)
  <2>1. PICK l \in Int : l = k + 1
    OBVIOUS
  <2>2. ReadEvent(d[j], l, hi, m) /\ lo <= l
    BY <1>3, <2>1
  <2> QED
    BY <2>2, Wider
<1>8. Formed(After(r, s)) /\ After(r, s).calls = g /\ After(r, s).kind = s.kind
  BY <1>1, <1>2, AfterFormed
<1>9. s.kind = "value" => \A i \in DOMAIN g : ~Threw(g[i])
  BY <1>3, <1>5 DEF OneOf
<1> QED
  BY <1>5, <1>6, <1>7, <1>8, <1>9 DEF Reading, OneOf

LEMMA ReadingGoing ==
  ASSUME NEW lo \in Int, NEW hi \in Int, NEW m, NEW r, Reading(r, lo, hi, m)
  PROVE  Going(r, lo, m)
  BY DEF Reading, Going, EventFrom

LEMMA ReadingWider ==
  ASSUME NEW lo \in Int, NEW hi \in Int, NEW a \in Int, NEW b \in Int, a <= lo, hi <= b, NEW m, NEW r,
         Reading(r, lo, hi, m)
  PROVE  Reading(r, a, b, m)
  BY Wider DEF Reading

\* Nothing happens, or one thing.
LEMMA NothingReading ==
  ASSUME NEW r, Simple(r), NEW lo, NEW hi, NEW m
  PROVE  Reading(r, lo, hi, m)
<1>1. r.calls = <<>> /\ r = Ending(r.kind, r.value, <<>>) /\ Listed(<<>>)
  <2>1. PICK k, v, c : k = r.kind /\ v = r.value /\ c = <<>>
    OBVIOUS
  <2>2. r = Ending(k, v, c)
    BY <2>1 DEF Simple
  <2>3. r.calls = c
    BY <2>2, EndingParts
  <2> QED
    BY <2>1, <2>2, <2>3, OneListed
<1>2. Formed(r)
  BY <1>1 DEF Formed
<1>3. DOMAIN r.calls = {}
  BY <1>1
<1> QED
  BY <1>2, <1>3 DEF Reading, Orderly

LEMMA OneReading ==
  ASSUME NEW k, NEW v, NEW e, NEW lo, NEW hi, NEW m, ReadEvent(e, lo, hi, m),
         k = "value" => ~Threw(e)
  PROVE  Reading(Ending(k, v, <<e>>), lo, hi, m)
<1>1. PICK c : c = <<e>>
  OBVIOUS
<1>2. Listed(c) /\ DOMAIN c = {1} /\ c[1] = e
  BY <1>1, OneListed
<1>3. PICK r : r = Ending(k, v, c)
  OBVIOUS
<1>4. Formed(r) /\ r.kind = k /\ r.calls = c
  BY <1>2, <1>3, FormedEnding, EndingParts
<1>5. Orderly(c)
  BY <1>2 DEF Orderly
<1> QED
  BY <1>1, <1>2, <1>3, <1>4, <1>5 DEF Reading

LEMMA OneGoing ==
  ASSUME NEW k, NEW v, NEW e, NEW lo, NEW m, LastEvent(e, m)
  PROVE  Going(Ending(k, v, <<e>>), lo, m)
<1>1. PICK c : c = <<e>>
  OBVIOUS
<1>2. Listed(c) /\ DOMAIN c = {1} /\ c[1] = e
  BY <1>1, OneListed
<1>3. PICK r : r = Ending(k, v, c)
  OBVIOUS
<1>4. Formed(r) /\ r.kind = k /\ r.calls = c
  BY <1>2, <1>3, FormedEnding, EndingParts
<1>5. Orderly(c)
  BY <1>2 DEF Orderly
<1> QED
  BY <1>1, <1>2, <1>3, <1>4, <1>5 DEF Going, EventFrom

LEMMA EventIs ==
  ASSUME NEW e
  PROVE  /\ \A v : Event(e, Gives(v)) = Ending("value", v, <<e>>)
         /\ Event(e, Throws) = Ending("throws", Undefined, <<e>>)
<1>1. [Gives(Undefined) EXCEPT !.calls = <<e>>] = Ending("value", Undefined, <<e>>)
  BY DEF Gives, Ending
<1>2. PICK j, w : j = "value" /\ w = Undefined
  OBVIOUS
<1>3. \A r : Event(e, r) = After(Ending(j, w, <<e>>), r)
  BY <1>1, <1>2 DEF Event
<1> QED
  BY <1>3, AfterOne

IsPart(p) == p \in Parts \cup (Keys \ {Fixed})

LEMMA PartTyped ==
  ASSUME NEW p, IsPart(p)
  PROVE  p = Throws \/ (p = Gives(p.value) /\ p.value \in Value)
  BY PartsAssumption DEF IsPart

LEMMA PartIs ==
  ASSUME NEW p, IsPart(p), NEW k
  PROVE  /\ p.kind \in {"value", "throws"}
         /\ p.kind = "value" => /\ p.value \in Value
                                /\ Part(k, p) = Ending("value", p.value, <<PartEvent(k, FALSE)>>)
         /\ p.kind = "throws" => Part(k, p) = Ending("throws", Undefined, <<PartEvent(k, TRUE)>>)
<1>1. CASE p = Throws
  <2>1. p.kind = "throws"
    BY <1>1, SimpleGives
  <2>2. [part |-> k, throws |-> p.kind = "throws"] = PartEvent(k, TRUE)
    BY <2>1 DEF PartEvent
  <2>3. Part(k, p) = Event(PartEvent(k, TRUE), p)
    BY <2>2 DEF Part
  <2> QED
    BY <1>1, <2>1, <2>3, EventIs
<1>2. CASE p = Gives(p.value) /\ p.value \in Value
  <2>0. PICK v : v = p.value
    OBVIOUS
  <2>1. p.kind = "value"
    <3>1. Gives(v).kind = "value"
      BY SimpleGives
    <3> QED
      BY <1>2, <2>0, <3>1
  <2>2. [part |-> k, throws |-> p.kind = "throws"] = PartEvent(k, FALSE)
    BY <2>1 DEF PartEvent
  <2>3. Part(k, p) = Event(PartEvent(k, FALSE), Gives(v))
    BY <1>2, <2>0, <2>2 DEF Part
  <2>4. Part(k, p) = Ending("value", v, <<PartEvent(k, FALSE)>>)
    BY <2>3, EventIs
  <2> QED
    BY <1>2, <2>0, <2>1, <2>4
<1> QED
  BY <1>1, <1>2, PartTyped

LEMMA PartParts ==
  ASSUME NEW p, IsPart(p), NEW k
  PROVE  Part(k, p).kind = p.kind /\ (p.kind = "value" => Part(k, p).value = p.value)
<1>1. CASE p.kind = "value"
  <2>1. PICK v, c : v = p.value /\ c = <<PartEvent(k, FALSE)>>
    OBVIOUS
  <2>2. Part(k, p) = Ending("value", v, c)
    BY <1>1, <2>1, PartIs
  <2> QED
    BY <1>1, <2>1, <2>2, EndingParts
<1>2. CASE p.kind = "throws"
  <2>1. PICK c : c = <<PartEvent(k, TRUE)>>
    OBVIOUS
  <2>2. Part(k, p) = Ending("throws", Undefined, c)
    BY <1>2, <2>1, PartIs
  <2> QED
    BY <1>2, <2>2, EndingParts
<1> QED
  BY <1>1, <1>2, PartIs

LEMMA PartReading ==
  ASSUME NEW p, IsPart(p), NEW k \in Int, NEW m
  PROVE  Reading(Part(k, p), k, k, m)
<1>0. k \in k..k
  OBVIOUS
<1>1. CASE p.kind = "value"
  <2>1. PICK v, e : v = p.value /\ e = PartEvent(k, FALSE)
    OBVIOUS
  <2>2. ReadEvent(e, k, k, m)
    BY <1>0, <2>1 DEF ReadEvent
  <2>3. ~Threw(e)
    BY <2>1, PartShape
  <2>4. Part(k, p) = Ending("value", v, <<e>>)
    BY <1>1, <2>1, PartIs
  <2> QED
    BY <2>2, <2>3, <2>4, OneReading
<1>2. CASE p.kind = "throws"
  <2>1. PICK e : e = PartEvent(k, TRUE)
    OBVIOUS
  <2>2. ReadEvent(e, k, k, m)
    BY <1>0, <2>1 DEF ReadEvent
  <2>4. Part(k, p) = Ending("throws", Undefined, <<e>>)
    BY <1>2, <2>1, PartIs
  <2> QED
    BY <2>2, <2>4, OneReading
<1> QED
  BY <1>1, <1>2, PartIs

\* Calls of methods, in order.
LEMMA CallsReading ==
  ASSUME NEW r, WellFormed(r), NEW lo, NEW hi, NEW m,
         \A i, j \in DOMAIN r.calls : i < j => ~Throwing(r.calls[i]),
         r.kind = "value" => NoneThrew(r.calls)
  PROVE  Reading(r, lo, hi, m)
<1>1. PICK c : c = r.calls
  OBVIOUS
<1>2. c \in Seq(CallSet) /\ Formed(r)
  BY <1>1 DEF WellFormed, Formed, Listed
<1>3. \A i \in DOMAIN c : c[i] \in CallSet
  BY <1>2
<1>4. \A i \in DOMAIN c : Threw(c[i]) = Throwing(c[i]) /\ DOMAIN c[i] = {"id", "method"}
  BY <1>3, CallShape
<1>5. Orderly(c)
  <2> SUFFICES ASSUME NEW i \in DOMAIN c, NEW j \in DOMAIN c, i < j PROVE InOrder(c[i], c[j])
    BY DEF Orderly
  <2>1. ~Threw(c[i]) /\ DOMAIN c[i] = {"id", "method"}
    BY <1>1, <1>4
  <2> QED
    BY <2>1 DEF InOrder
<1> QED
  BY <1>1, <1>2, <1>3, <1>4, <1>5 DEF Reading, ReadEvent, NoneThrew

LEMMA StringReading ==
  ASSUME NEW v \in Value, NEW lo, NEW hi, NEW m
  PROVE  Reading(ToString(v), lo, hi, m)
<1>1. PICK P, S : P = ToPrimitive(v, "string") /\ S = ToString(v)
  OBVIOUS
<1>2. ProperCalls(P.calls, Subject(v)) /\ (P.kind = "value" => NoneThrew(P.calls)) /\ WellFormed(P)
  BY <1>1, PrimitiveCalls, PrimitiveWellFormed
<1>3. S.calls = P.calls /\ S.kind = P.kind /\ WellFormed(S)
  <2>1. CASE P.kind = "value"
    <3>1. PICK w, c : w = Str(PrimitiveToString(P.value)) /\ c = P.calls
      OBVIOUS
    <3>2. S = Ending("value", w, c)
      BY <1>1, <2>1, <3>1, StringIs
    <3>3. S.kind = "value" /\ S.value = w /\ S.calls = c
      BY <3>2, EndingParts
    <3> QED
      BY <1>2, <2>1, <3>1, <3>2, <3>3 DEF WellFormed
  <2>2. CASE P.kind # "value"
    BY <1>1, <1>2, <2>2, StringIs
  <2> QED
    BY <2>1, <2>2
<1>4. Reading(S, lo, hi, m)
  BY <1>2, <1>3, CallsReading DEF ProperCalls
<1> QED
  BY <1>1, <1>4

\* Operators in an assignment.
LEMMA CompoundQuiet ==
  ASSUME NEW op \in Arithmetic, NEW l \in Value, NEW r \in Value,
         NEW o \in ApplyAssignmentOperator(op, l, r)
  PROVE  WellFormed(o) /\ (o.kind = "value" => NoneThrew(o.calls))
<1> DEFINE Done(z) == WellFormed(z) /\ (z.kind = "value" => NoneThrew(z.calls))
<1>0. op \in Converting
  BY DEF Converting
<1>1. ASSUME NEW z, Simple(z) PROVE Done(z)
  <2>1. PICK k, w, c : k = z.kind /\ w = z.value /\ c = <<>>
    OBVIOUS
  <2>2. z = Ending(k, w, c)
    BY <1>1, <2>1 DEF Simple
  <2>3. z.calls = c
    BY <2>2, EndingParts
  <2> QED
    <3>1. c \in Seq(CallSet) /\ NoneThrew(c)
      BY <2>1, NoCalls DEF ProperCalls
    <3>2. z = Ending(z.kind, z.value, z.calls)
      BY <2>1, <2>2, <2>3
    <3> QED
      BY <2>3, <3>1, <3>2 DEF WellFormed
<1>2. ASSUME NEW hint, NEW P, P = ToPrimitive(l, hint), NEW Q, Q = ToPrimitive(r, hint),
             NEW S, \A s \in S : Simple(s), NEW z \in Afterwards(P, Q, S)
      PROVE  Done(z)
  <2>1. /\ WellFormed(P) /\ WellFormed(Q)
        /\ (P.kind = "value" => NoneThrew(P.calls)) /\ (Q.kind = "value" => NoneThrew(Q.calls))
    BY <1>2, PrimitiveCalls, PrimitiveWellFormed
  <2>2. PICK c, d, g : c = P.calls /\ d = Q.calls /\ g = c \o d
    OBVIOUS
  <2>3. c \in Seq(CallSet) /\ d \in Seq(CallSet)
    BY <2>1, <2>2 DEF WellFormed
  <2>4. /\ g \in Seq(CallSet) /\ Len(g) = Len(c) + Len(d)
        /\ \A i \in 1..(Len(c) + Len(d)) : g[i] = IF i <= Len(c) THEN c[i] ELSE d[i - Len(c)]
    BY <2>2, <2>3, ConcatProperties
  <2>5. P.kind = "value" /\ Q.kind = "value" => NoneThrew(g)
    <3> SUFFICES ASSUME NoneThrew(c), NoneThrew(d), NEW i \in DOMAIN g PROVE ~Throwing(g[i])
      BY <2>1, <2>2 DEF NoneThrew
    <3>1. PICK a \in Nat, b \in Nat : a = Len(c) /\ b = Len(d) /\ DOMAIN c = 1..a /\ DOMAIN d = 1..b
      BY <2>3
    <3>2. DOMAIN g = 1..(a + b) /\ \A j \in 1..(a + b) : g[j] = IF j <= a THEN c[j] ELSE d[j - a]
      BY <2>4, <3>1
    <3>3. CASE i <= a
      BY <3>1, <3>2, <3>3 DEF NoneThrew
    <3>4. CASE i > a
      <4>1. i - a \in DOMAIN d /\ g[i] = d[i - a]
        BY <3>1, <3>2, <3>4
      <4> QED
        BY <4>1 DEF NoneThrew
    <3> QED
      BY <3>1, <3>2, <3>3, <3>4
  <2>6. CASE P.kind # "value"
    BY <2>1, <2>6, <1>2 DEF Afterwards
  <2>7. CASE P.kind = "value" /\ Q.kind # "value"
    <3>1. z = After(P, Q)
      BY <1>2, <2>7 DEF Afterwards
    <3>2. Formed(Q) /\ Listed(P.calls)
      BY <2>1 DEF WellFormed, Formed, Listed
    <3>3. z = Ending(Q.kind, Q.value, g) /\ z.kind = Q.kind /\ z.value = Q.value /\ z.calls = g
      BY <2>2, <3>1, <3>2, AfterFormed
    <3> QED
      BY <2>4, <2>7, <3>3 DEF WellFormed
  <2>8. CASE P.kind = "value" /\ Q.kind = "value"
    <3>1. BothCalls(P, Q) = g
      BY <2>2 DEF BothCalls
    <3>2. PICK s \in S : z = After(Calling(g), s)
      BY <1>2, <2>8, <3>1 DEF Afterwards
    <3>3. Simple(s) /\ Calling(g).calls = g
      BY <1>2, EndingParts DEF Calling
    <3>4. PICK k, w : k = s.kind /\ w = s.value
      OBVIOUS
    <3>5. z = Ending(k, w, g)
      BY <2>4, <3>2, <3>3, <3>4, AfterSimple
    <3>6. z.kind = k /\ z.value = w /\ z.calls = g
      BY <3>5, EndingParts
    <3> QED
      BY <2>4, <2>5, <2>8, <3>5, <3>6 DEF WellFormed
  <2> QED
    BY <2>6, <2>7, <2>8
<1> HIDE DEF Done
<1>3. CASE op = "+" /\ (IsString(l) \/ IsString(r))
  <2>1. PICK P, Q : P = ToPrimitive(l, "string") /\ Q = ToPrimitive(r, "string")
    OBVIOUS
  <2>2. PICK S : S = {Gives(Str(PrimitiveToString(P.value) \o PrimitiveToString(Q.value)))}
    OBVIOUS
  <2>3. {Concatenated(l, r)} = Afterwards(P, Q, S)
    BY <2>1, <2>2, ConcatenatedIs
  <2>4. o \in Afterwards(P, Q, S)
    BY <1>3, <2>3 DEF ApplyAssignmentOperator
  <2>5. \A s \in S : Simple(s)
    BY <2>2, SimpleGives
  <2>6. Done(o)
    BY <1>2, <2>1, <2>4, <2>5
  <2> QED
    BY <2>6 DEF Done
<1>4. CASE ~(op = "+" /\ (IsString(l) \/ IsString(r)))
  <2>0. ApplyAssignmentOperator(op, l, r) = Numeric(op, l, r)
    BY <1>4 DEF ApplyAssignmentOperator
  <2>1. CASE l.is = "smi" /\ r.is = "smi"
    <3>1. o \in ApplyBinaryOperator(op, l, r)
      BY <2>0, <2>1 DEF Numeric
    <3>2. Simple(o)
      BY <1>0, <3>1, ResultsSimple
    <3> QED
      BY <1>1, <3>2 DEF Done
  <2>2. CASE ~(l.is = "smi" /\ r.is = "smi")
    <3>1. PICK P, Q : P = ToPrimitive(l, "number") /\ Q = ToPrimitive(r, "number")
      OBVIOUS
    <3>2. PICK S : S = ApplyBinaryOperator(op, Double(PrimitiveToNumber(P.value)),
                                               Double(PrimitiveToNumber(Q.value)))
      OBVIOUS
    <3>3. o \in Afterwards(P, Q, S)
      BY <2>0, <2>2, <3>1, <3>2, NumericIs
    <3>4. \A s \in S : Simple(s)
      BY <1>0, <3>2, ResultsSimple
    <3>5. Done(o)
      BY <1>2, <3>1, <3>3, <3>4
    <3> QED
      BY <3>5 DEF Done
  <2> QED
    BY <2>1, <2>2
<1> QED
  BY <1>3, <1>4

LEMMA CompoundReading ==
  ASSUME NEW op \in Arithmetic, NEW l \in Value, NEW r \in Value,
         NEW o \in ApplyAssignmentOperator(op, l, r), NEW lo, NEW hi, NEW m
  PROVE  Reading(o, lo, hi, m)
<1>1. Ordered(o.calls, l, r, TRUE)
  BY CompoundOrdered
<1>2. WellFormed(o) /\ (o.kind = "value" => NoneThrew(o.calls))
  BY CompoundQuiet
<1> QED
  BY <1>1, <1>2, CallsReading DEF Ordered

LEMMA NoneListed == Listed(<<>>)
<1>1. PICK e : e = Undefined
  OBVIOUS
<1> QED
  BY <1>1, OneListed

LEMMA SimpleFormed ==
  ASSUME NEW s, Simple(s)
  PROVE  Formed(s) /\ s.calls = <<>>
<1>1. PICK k, w, n : k = s.kind /\ w = s.value /\ n = <<>>
  OBVIOUS
<1>2. s = Ending(k, w, n)
  BY <1>1 DEF Simple
<1>3. Listed(n)
  BY <1>1, NoneListed
<1>4. Formed(s)
  BY <1>2, <1>3, FormedEnding
<1>5. s.calls = n
  BY <1>2, EndingParts
<1> QED
  BY <1>1, <1>4, <1>5

LEMMA ComesIs ==
  ASSUME NEW does, NEW e
  PROVE  /\ does.kind = "value" => Event(e, Comes(does)) = Ending("value", does.value, <<e>>)
         /\ does.kind # "value" => Event(e, Comes(does)) = Ending("throws", Undefined, <<e>>)
  BY EventIs DEF Comes

LEMMA GetReading ==
  ASSUME NEW m, NEW lo, NEW hi, NEW n, n = m
  PROVE  Reading(Get(m.object, m.name), lo, hi, n)
<1>1. PICK e, does : e = GetEvent(m.object, m.name) /\ does = GetGives[Id(m.object)]
  OBVIOUS
<1>2. Get(m.object, m.name) = Event(e, Comes(does))
  BY <1>1 DEF Get, GetEvent
<1>3. ReadEvent(e, lo, hi, m)
  BY <1>1 DEF ReadEvent
<1>4. Threw(e) = (does.kind = "throws")
  BY <1>1, GetShape
<1>5. CASE does.kind = "value"
  <2>1. PICK v : v = does.value
    OBVIOUS
  <2>2. Get(m.object, m.name) = Ending("value", v, <<e>>)
    BY <1>2, <1>5, <2>1, ComesIs
  <2>3. ~Threw(e)
    BY <1>4, <1>5
  <2> QED
    BY <1>3, <2>2, <2>3, OneReading
<1>6. CASE does.kind # "value"
  <2>1. Get(m.object, m.name) = Ending("throws", Undefined, <<e>>)
    BY <1>2, <1>6, ComesIs
  <2> QED
    BY <1>3, <2>1, OneReading
<1> QED
  BY <1>5, <1>6

LEMMA GetTyped ==
  ASSUME NEW o, Id(o) \in ObjectIds, NEW n, Get(o, n).kind = "value"
  PROVE  Get(o, n).value \in Value
<1>1. PICK e, does : e = GetEvent(o, n) /\ does = GetGives[Id(o)]
  OBVIOUS
<1>2. Get(o, n) = Event(e, Comes(does))
  BY <1>1 DEF Get, GetEvent
<1>3. PICK c : c = <<e>>
  OBVIOUS
<1>4. CASE does.kind = "value"
  <2>1. PICK v : v = does.value
    OBVIOUS
  <2>2. Get(o, n) = Ending("value", v, c)
    BY <1>2, <1>3, <1>4, <2>1, ComesIs
  <2>3. Get(o, n).value = v
    BY <2>2, EndingParts
  <2>4. v \in Value
    BY <1>1, <1>4, <2>1, PartsAssumption
  <2> QED
    BY <2>3, <2>4
<1>5. CASE does.kind # "value"
  <2>1. Get(o, n) = Ending("throws", Undefined, c)
    BY <1>2, <1>3, <1>5, ComesIs
  <2> QED
    BY <2>1, EndingParts
<1> QED
  BY <1>4, <1>5

\* What is done last.
LEMMA LastGoing ==
  ASSUME NEW e, NEW does, NEW m, LastEvent(e, m), NEW lo
  PROVE  /\ Going(Event(e, Comes(does)), lo, m)
         /\ \A z : Event(e, Comes(does)).kind = "value" =>
              Going(After(Event(e, Comes(does)), Gives(z)), lo, m)
<1>1. PICK k, v : Event(e, Comes(does)) = Ending(k, v, <<e>>)
  BY ComesIs
<1>2. Going(Ending(k, v, <<e>>), lo, m)
  BY OneGoing
<1>3. ASSUME NEW z PROVE Going(After(Event(e, Comes(does)), Gives(z)), lo, m)
  <2>1. After(Ending(k, v, <<e>>), Gives(z)) = Ending("value", z, <<e>>)
    BY AfterOne
  <2>2. Going(Ending("value", z, <<e>>), lo, m)
    BY OneGoing
  <2> QED
    BY <1>1, <2>1, <2>2
<1> QED
  BY <1>1, <1>2, <1>3

LEMMA StoresGoing ==
  ASSUME NEW m, NEW v, NEW result, NEW lo
  PROVE  Going(Stores(m, v, result), lo, m)
<1>1. PICK e, does : e = PutEvent(m.object, m.name, v) /\ does = PutGives[Id(m.object)]
  OBVIOUS
<1>2. PICK p : p = Put(m.object, m.name, v)
  OBVIOUS
<1>3. p = Event(e, Comes(does))
  BY <1>1, <1>2 DEF Put, PutEvent
<1>4. Stores(m, v, result) = IF p.kind = "value" THEN After(p, Gives(result)) ELSE p
  BY <1>2 DEF Stores, Then
<1>5. LastEvent(e, m)
  BY <1>1 DEF LastEvent
<1> QED
  BY <1>3, <1>4, <1>5, LastGoing

-----------------------------------------------------------------------------
\* Members.
IsKey(q) == q = Fixed \/ IsPart(q)

LEMMA NameIs ==
  ASSUME NEW q, IsKey(q), NEW k
  PROVE  /\ q = Fixed => Name(k, q) = Gives(Str(Fixed.name))
         /\ q # Fixed =>
              /\ q.kind = "value" => Name(k, q) = After(Part(k, q), ToString(q.value))
              /\ q.kind # "value" => Name(k, q) = Part(k, q)
<1>1. CASE q = Fixed
  BY <1>1 DEF Name
<1>2. CASE q # Fixed
  <2>1. Part(k, q).kind = q.kind /\ (q.kind = "value" => Part(k, q).value = q.value)
    BY <1>2, PartParts DEF IsKey
  <2>2. Name(k, q) = IF Part(k, q).kind = "value" THEN After(Part(k, q), ToString(Part(k, q).value)) ELSE Part(k, q)
    BY <1>2 DEF Name, Then
  <2> QED
    BY <1>2, <2>1, <2>2
<1> QED
  BY <1>1, <1>2

LEMMA NameReading ==
  ASSUME NEW q, IsKey(q), NEW k \in Int, NEW m
  PROVE  Reading(Name(k, q), k, k, m)
<1>1. CASE q = Fixed
  BY <1>1, NameIs, SimpleGives, NothingReading
<1>2. CASE q # Fixed
  <2>0. IsPart(q)
    BY <1>2 DEF IsKey
  <2>1. Reading(Part(k, q), k, k, m)
    BY <2>0, PartReading
  <2>2. CASE q.kind = "value"
    <3>1. q.value \in Value
      BY <2>0, <2>2, PartIs
    <3>2. Reading(ToString(q.value), k + 1, k, m)
      BY <3>1, StringReading
    <3>3. Part(k, q).kind = "value"
      BY <2>0, <2>2, PartParts
    <3>4. Reading(After(Part(k, q), ToString(q.value)), k, k, m)
      BY <2>1, <3>2, <3>3, ThenReading
    <3> QED
      BY <1>2, <2>2, <3>4, NameIs
  <2>3. CASE q.kind # "value"
    BY <1>2, <2>1, <2>3, NameIs
  <2> QED
    BY <2>2, <2>3
<1> QED
  BY <1>1, <1>2

MemberRecord(v, text) == [object |-> ToObject(v).value, name |-> text, this |-> v]

LEMMA GivesThen ==
  ASSUME NEW v, NEW w
  PROVE  After(Gives(v), Gives(w)) = Gives(w) /\ After(Gives(v), Throws) = Throws
<1>1. PICK j : j = "value"
  OBVIOUS
<1>2. Gives(v) = Ending(j, v, <<>>)
  BY <1>1, SimpleEndings
<1>3. After(Ending(j, v, <<>>), Gives(w)) = Ending("value", w, <<>>)
  BY AfterNone
<1>4. After(Ending(j, v, <<>>), Throws) = Ending("throws", Undefined, <<>>)
  BY AfterNone
<1> QED
  BY <1>2, <1>3, <1>4, SimpleEndings

LEMMA SomeObject ==
  ASSUME NEW v \in Value, ~IsNothing(v)
  PROVE  /\ ToObject(v) = Gives(ToObject(v).value)
         /\ Id(ToObject(v).value) \in ObjectIds
<1>1. CASE IsObject(v)
  <2>1. ToObject(v) = Gives(v)
    BY <1>1 DEF ToObject
  <2>2. ToObject(v).value = v
    BY <2>1, SimpleGives
  <2>3. v.id \in ObjectIds
    BY <1>1, ValueCases DEF IsObject, Undefined, Null
  <2> QED
    BY <1>1, <2>1, <2>2, <2>3 DEF Id
<1>2. CASE ~IsObject(v)
  <2>1. PICK is : is = IF IsNumber(v) THEN "number" ELSE v.is
    OBVIOUS
  <2>2. is \in {"bool", "number", "string"}
    BY <1>2, <2>1, ValueCases DEF IsObject, IsNumber, IsNothing, Undefined, Null
  <2>3. PICK w : w = [is |-> "wrapper", proto |-> WrapperProto[is]]
    OBVIOUS
  <2>4. ToObject(v) = Gives(w)
    BY <1>2, <2>1, <2>3 DEF ToObject
  <2>5. ToObject(v).value = w
    BY <2>4, SimpleGives
  <2>6. Id(w) = WrapperProto[is]
    BY <2>3 DEF Id, IsObject
  <2> QED
    BY <2>2, <2>4, <2>5, <2>6, PartsAssumption
<1> QED
  BY <1>1, <1>2

LEMMA MemberIs ==
  ASSUME NEW x, IsPart(x.object), IsKey(x.property),
         NEW P, P = Part(1, x.object), NEW N, N = Name(2, x.property), NEW v, v = x.object.value
  PROVE  /\ x.object.kind # "value" => Member(x) = P
         /\ x.object.kind = "value" /\ N.kind # "value" => Member(x) = After(P, N)
         /\ x.object.kind = "value" /\ N.kind = "value" /\ IsNothing(v) =>
              Member(x) = After(P, After(N, Throws))
         /\ x.object.kind = "value" /\ N.kind = "value" /\ ~IsNothing(v) =>
              Member(x) = After(P, After(N, Gives(MemberRecord(v, N.value.text))))
<1> DEFINE Base(u, n) == Then(CheckObjectCoercible(u), LAMBDA b : Gives([base |-> b, name |-> n.text]))
           Named2(u) == Then(N, LAMBDA n : Base(u, n))
           Ref == EvalMemberExpressionToReference(x)
           Object(ref) == Then(ToObject(ref.base), LAMBDA o : Gives([object |-> o, name |-> ref.name, this |-> ref.base]))
<1>1. Ref = IF P.kind = "value" THEN After(P, Named2(P.value)) ELSE P
  BY DEF EvalMemberExpressionToReference, Then
<1>2. \A u : Named2(u) = IF N.kind = "value" THEN After(N, Base(u, N.value)) ELSE N
  BY DEF Then
<1>3. \A u, n : IsNothing(u) => Base(u, n) = Throws
  BY SimpleGives DEF Then, CheckObjectCoercible
<1>4. ASSUME NEW u, NEW n, ~IsNothing(u) PROVE Base(u, n) = Gives([base |-> u, name |-> n.text])
  <2>1. CheckObjectCoercible(u) = Gives(u)
    BY <1>4 DEF CheckObjectCoercible
  <2>2. Gives(u).kind = "value" /\ Gives(u).value = u
    BY SimpleGives
  <2>3. Base(u, n) = After(Gives(u), Gives([base |-> u, name |-> n.text]))
    BY <2>1, <2>2 DEF Then
  <2> QED
    BY <2>3, GivesThen
<1>5. Member(x) = IF Ref.kind = "value" THEN After(Ref, Object(Ref.value)) ELSE Ref
  BY DEF Member, Then
<1>6. P.kind = x.object.kind /\ (P.kind = "value" => P.value = v)
  BY PartParts
<1> HIDE DEF Base, Named2, Ref, Object
<1>7. CASE x.object.kind # "value"
  BY <1>1, <1>5, <1>6, <1>7
<1>8. CASE x.object.kind = "value" /\ N.kind # "value"
  <2>1. Ref = After(P, N)
    BY <1>1, <1>2, <1>6, <1>8
  <2>2. Ref.kind = N.kind
    <3>1. Reading(N, 2, 2, v) /\ Reading(P, 1, 1, v)
      BY NameReading, PartReading
    <3>2. Formed(N) /\ Listed(P.calls)
      BY <3>1 DEF Reading, Formed
    <3> QED
      <4>1. PICK z, k : z = After(P, N) /\ k = N.kind
        OBVIOUS
      <4>2. z.kind = k
        BY <3>2, <4>1, AfterFormed
      <4> QED
        BY <2>1, <4>1, <4>2
  <2> QED
    BY <1>5, <1>8, <2>1, <2>2
<1>9. CASE x.object.kind = "value" /\ N.kind = "value"
  <2>0. Reading(N, 2, 2, v) /\ Reading(P, 1, 1, v)
    BY NameReading, PartReading
  <2>1. Listed(N.calls) /\ Listed(P.calls)
    BY <2>0 DEF Reading, Formed
  <2>2. Ref = After(P, After(N, Base(v, N.value)))
    BY <1>1, <1>2, <1>6, <1>9
  <2>3. ASSUME NEW s, Simple(s)
        PROVE  /\ After(P, After(N, s)) = Ending(s.kind, s.value, P.calls \o N.calls)
               /\ Listed(P.calls \o N.calls)
    <3>1. PICK c, d, g : c = P.calls /\ d = N.calls /\ g = c \o d
      OBVIOUS
    <3>2. PICK k, w, n : k = s.kind /\ w = s.value /\ n = <<>>
      OBVIOUS
    <3>3. s = Ending(k, w, n)
      BY <2>3, <3>2 DEF Simple
    <3>4. Formed(s) /\ s.calls = n
      BY <2>3, <3>2, SimpleFormed
    <3>5. After(N, s) = Ending(k, w, d \o n) /\ Formed(After(N, s))
      BY <2>1, <3>1, <3>2, <3>4, AfterFormed
    <3>6. d \o n = d
      BY <2>1, <3>1, <3>2, NothingConcat
    <3>7. PICK t : t = After(N, s)
      OBVIOUS
    <3>8. t = Ending(k, w, d) /\ Formed(t)
      BY <3>5, <3>6, <3>7
    <3>9. t.kind = k /\ t.value = w /\ t.calls = d
      BY <3>8, EndingParts
    <3>10. After(P, t) = Ending(k, w, c \o d)
      <4>1. After(P, t) = Ending(t.kind, t.value, P.calls \o t.calls)
        BY <2>1, <3>8, AfterFormed
      <4> QED
        BY <3>1, <3>9, <4>1
    <3>11. Listed(g)
      BY <2>1, <3>1, ListedConcat
    <3> QED
      BY <3>1, <3>2, <3>7, <3>10, <3>11
  <2>4. CASE IsNothing(v)
    <3>1. Ref = After(P, After(N, Throws))
      BY <1>3, <2>2, <2>4
    <3>2. PICK g : g = P.calls \o N.calls
      OBVIOUS
    <3>3. Ref = Ending("throws", Undefined, g)
      BY <2>3, <3>1, <3>2, SimpleGives
    <3>4. Ref.kind = "throws"
      BY <3>3, EndingParts
    <3> QED
      BY <1>5, <1>9, <2>4, <3>1, <3>4
  <2>5. CASE ~IsNothing(v)
    <3>1. PICK ref, rec, o : /\ ref = [base |-> v, name |-> N.value.text]
                             /\ rec = MemberRecord(v, N.value.text)
                             /\ o = ToObject(v).value
      OBVIOUS
    <3>2. Ref = After(P, After(N, Gives(ref)))
      BY <1>4, <2>2, <2>5, <3>1
    <3>3. PICK g : g = P.calls \o N.calls
      OBVIOUS
    <3>4. Ref = Ending("value", ref, g) /\ Listed(g)
      BY <2>3, <3>2, <3>3, SimpleGives
    <3>5. Ref.kind = "value" /\ Ref.value = ref /\ Ref.calls = g
      BY <3>4, EndingParts
    <3>6. Object(ref) = Gives(rec)
      <4>1. v \in Value
        BY <1>9, PartIs
      <4>2. ToObject(v) = Gives(o)
        BY <2>5, <3>1, <4>1, SomeObject
      <4>3. Object(ref) = Then(ToObject(v), LAMBDA z : Gives([object |-> z, name |-> ref.name, this |-> v]))
        BY <3>1 DEF Object
      <4>4. Gives(o).kind = "value" /\ Gives(o).value = o
        BY SimpleGives
      <4>5. Object(ref) = After(Gives(o), Gives([object |-> o, name |-> ref.name, this |-> v]))
        BY <4>2, <4>3, <4>4 DEF Then
      <4>6. [object |-> o, name |-> ref.name, this |-> v] = rec
        BY <3>1 DEF MemberRecord
      <4> QED
        BY <4>5, <4>6, GivesThen
    <3>7. Member(x) = After(Ref, Gives(rec))
      BY <1>5, <3>5, <3>6
    <3>8. After(Ref, Gives(rec)) = Ending("value", rec, g)
      <4>1. PICK s, n : s = Gives(rec) /\ n = <<>>
        OBVIOUS
      <4>2. s = Ending("value", rec, n) /\ s.kind = "value" /\ s.value = rec /\ s.calls = n
        BY <4>1, SimpleEndings, SimpleGives
      <4>3. Formed(s)
        BY <4>1, SimpleGives, SimpleFormed
      <4>4. After(Ref, s) = Ending("value", rec, g \o n)
        <5>1. Listed(Ref.calls)
          BY <3>4, <3>5
        <5>2. After(Ref, s) = Ending(s.kind, s.value, Ref.calls \o s.calls)
          BY <4>3, <5>1, AfterFormed
        <5> QED
          BY <3>5, <4>2, <5>2
      <4>5. g \o n = g
        BY <3>4, <4>1, NothingConcat
      <4> QED
        BY <4>1, <4>4, <4>5
    <3>9. After(P, After(N, Gives(rec))) = Ending("value", rec, g)
      BY <2>3, <3>3, SimpleGives
    <3> QED
      BY <1>9, <2>5, <3>1, <3>7, <3>8, <3>9
  <2> QED
    BY <2>4, <2>5
<1> QED
  BY <1>7, <1>8, <1>9

LEMMA MemberReading ==
  ASSUME NEW x, IsPart(x.object), IsKey(x.property), NEW m
  PROVE  /\ Reading(Member(x), 1, 2, m)
         /\ Member(x).kind = "value" => Id(Member(x).value.object) \in ObjectIds
<1>1. PICK P, N, v, M : /\ P = Part(1, x.object) /\ N = Name(2, x.property)
                        /\ v = x.object.value /\ M = Member(x)
  OBVIOUS
<1>2. Reading(P, 1, 1, m) /\ Reading(N, 2, 2, m)
  BY <1>1, PartReading, NameReading
<1>3. /\ x.object.kind # "value" => M = P
      /\ x.object.kind = "value" /\ N.kind # "value" => M = After(P, N)
      /\ x.object.kind = "value" /\ N.kind = "value" /\ IsNothing(v) => M = After(P, After(N, Throws))
      /\ x.object.kind = "value" /\ N.kind = "value" /\ ~IsNothing(v) =>
           M = After(P, After(N, Gives(MemberRecord(v, N.value.text))))
  BY <1>1, MemberIs
<1>4. P.kind = x.object.kind
  BY <1>1, PartParts
<1>5. Formed(P) /\ Formed(N) /\ Listed(P.calls) /\ Listed(N.calls)
  BY <1>2 DEF Reading, Formed
<1>6. ASSUME NEW s, Simple(s), P.kind = "value", N.kind = "value"
      PROVE  /\ Reading(After(P, After(N, s)), 1, 2, m)
             /\ After(P, After(N, s)).kind = s.kind
             /\ After(P, After(N, s)).value = s.value
  <2>1. Reading(s, 3, 2, m)
    BY <1>6, NothingReading
  <2>2. Reading(After(N, s), 2, 2, m)
    BY <1>2, <1>6, <2>1, ThenReading
  <2>3. Reading(After(P, After(N, s)), 1, 2, m)
    BY <1>2, <1>6, <2>2, ThenReading
  <2>4. PICK t, k, w : t = After(N, s) /\ k = s.kind /\ w = s.value
    OBVIOUS
  <2>5. t.kind = k /\ t.value = w /\ Formed(t)
    BY <1>5, <1>6, <2>4, AfterFormed, SimpleFormed
  <2>6. After(P, t).kind = t.kind /\ After(P, t).value = t.value
    BY <1>5, <2>5, AfterFormed
  <2> QED
    BY <2>3, <2>4, <2>5, <2>6
<1>7. CASE x.object.kind # "value"
  <2>1. Reading(P, 1, 2, m)
    BY <1>2, ReadingWider
  <2> QED
    BY <1>1, <1>3, <1>4, <1>7, <2>1
<1>8. CASE x.object.kind = "value" /\ N.kind # "value"
  <2>1. Reading(After(P, N), 1, 2, m)
    <3>1. P.kind = "value" /\ Reading(P, 1, 1, m) /\ Reading(N, 2, 2, m)
      BY <1>2, <1>4, <1>8
    <3>2. Reading(N, 1 + 1, 2, m)
      BY <3>1
    <3> QED
      BY <3>1, <3>2, ThenReading
  <2>2. PICK z, k : z = After(P, N) /\ k = N.kind
    OBVIOUS
  <2>3. z.kind = k
    BY <1>5, <2>2, AfterFormed
  <2> QED
    BY <1>1, <1>3, <1>8, <2>1, <2>2, <2>3
<1>9. CASE x.object.kind = "value" /\ N.kind = "value" /\ IsNothing(v)
  BY <1>1, <1>3, <1>4, <1>6, <1>9, SimpleGives
<1>10. CASE x.object.kind = "value" /\ N.kind = "value" /\ ~IsNothing(v)
  <2>1. PICK rec : rec = MemberRecord(v, N.value.text)
    OBVIOUS
  <2>2. M = After(P, After(N, Gives(rec)))
    BY <1>3, <1>10, <2>1
  <2>3. Reading(M, 1, 2, m) /\ M.kind = "value" /\ M.value = rec
    BY <1>4, <1>6, <1>10, <2>2, SimpleGives
  <2>4. v \in Value
    BY <1>1, <1>10, PartIs
  <2>5. Id(rec.object) \in ObjectIds
    BY <1>10, <2>1, <2>4, SomeObject DEF MemberRecord
  <2> QED
    BY <1>1, <2>3, <2>5
<1> QED
  BY <1>7, <1>8, <1>9, <1>10

LEMMA MemberExpressionReading ==
  ASSUME NEW x, IsPart(x.object), IsKey(x.property), NEW m, m = Member(x).value
  PROVE  Reading(MemberExpression(x), 1, 2, m)
<1>1. PICK M : M = Member(x)
  OBVIOUS
<1>2. MemberExpression(x) = IF M.kind = "value" THEN After(M, Get(M.value.object, M.value.name)) ELSE M
  BY <1>1 DEF MemberExpression, Then
<1>3. Reading(M, 1, 2, m)
  BY <1>1, MemberReading
<1>4. Reading(Get(m.object, m.name), 3, 2, m)
  BY GetReading
<1>5. M.kind = "value" => Reading(After(M, Get(m.object, m.name)), 1, 2, m)
  BY <1>3, <1>4, ThenReading
<1> QED
  BY <1>1, <1>2, <1>3, <1>5

LEMMA DeleteGoing ==
  ASSUME NEW x, IsPart(x.object), IsKey(x.property)
  PROVE  Orderly(ApplyDeleteOperator(x).calls)
<1>1. PICK M, m : M = Member(x) /\ m = M.value
  OBVIOUS
<1>2. PICK e, does : e = DeleteEvent(m.object, m.name) /\ does = PutGives[Id(m.object)]
  OBVIOUS
<1>3. PICK D, z : D = Event(e, Comes(does)) /\ z = Bool(FALSE)
  OBVIOUS
<1>4. Delete(m.object, m.name) = D
  BY <1>2, <1>3 DEF Delete, DeleteEvent
<1> DEFINE Last(u) == Then(Delete(u.object, u.name), LAMBDA d : Gives(Bool(FALSE)))
<1>5. Last(m) = IF D.kind = "value" THEN After(D, Gives(z)) ELSE D
  BY <1>3, <1>4 DEF Then
<1>6. ApplyDeleteOperator(x) = IF M.kind = "value" THEN After(M, Last(m)) ELSE M
  BY <1>1 DEF ApplyDeleteOperator, Then
<1> HIDE DEF Last
<1>7. LastEvent(e, m)
  BY <1>2 DEF LastEvent
<1>8. Going(Last(m), 3, m)
  BY <1>3, <1>5, <1>7, LastGoing
<1>9. Reading(M, 1, 2, m)
  BY <1>1, MemberReading
<1>10. M.kind = "value" => Going(After(M, Last(m)), 1, m)
  BY <1>8, <1>9, ThenGoing
<1>11. Orderly(M.calls)
  BY <1>9 DEF Reading
<1> QED
  BY <1>6, <1>10, <1>11 DEF Going

LEMMA UpdateGoing ==
  ASSUME NEW x, IsPart(x.object), IsKey(x.property)
  PROVE  Orderly(UpdateExpression(x).calls)
<1>1. PICK M, m : M = Member(x) /\ m = M.value
  OBVIOUS
<1>2. PICK G, old : G = Get(m.object, m.name) /\ old = G.value
  OBVIOUS
<1>3. PICK U, v : U = ApplyUpdateOperator(x.op, old) /\ v = U.value
  OBVIOUS
<1> DEFINE Writes(n, o, u) == Stores(n, u, IF x.prefix THEN u ELSE o)
           Updates(n, o) == Then(ApplyUpdateOperator(x.op, o), LAMBDA u : Writes(n, o, u))
           Rest(n) == Then(Get(n.object, n.name), LAMBDA o : Updates(n, o))
<1>4. Updates(m, old) = IF U.kind = "value" THEN After(U, Writes(m, old, v)) ELSE U
  BY <1>3 DEF Then
<1>5. Rest(m) = IF G.kind = "value" THEN After(G, Updates(m, old)) ELSE G
  <2> HIDE DEF Updates
  <2> QED
    BY <1>2 DEF Then
<1>6. UpdateExpression(x) = IF M.kind = "value" THEN After(M, Rest(m)) ELSE M
  BY <1>1 DEF UpdateExpression, Then
<1>7. PICK result : Writes(m, old, v) = Stores(m, v, result)
  OBVIOUS
<1> HIDE DEF Writes, Updates, Rest
<1>8. Simple(U)
  BY <1>3, SimpleGives DEF ApplyUpdateOperator
<1>9. Going(Updates(m, old), 3, m)
  <2>1. Going(Stores(m, v, result), 3, m)
    BY StoresGoing
  <2>2. Reading(U, 3, 2, m)
    BY <1>8, NothingReading
  <2>3. Going(U, 3, m)
    BY <2>2, ReadingGoing
  <2>4. U.kind = "value" => Going(After(U, Stores(m, v, result)), 3, m)
    BY <2>1, <2>2, ThenGoing
  <2> QED
    BY <1>4, <1>7, <2>3, <2>4
<1>10. Going(Rest(m), 3, m)
  <2>1. Reading(G, 3, 2, m)
    BY <1>2, GetReading
  <2>2. Going(G, 3, m)
    BY <2>1, ReadingGoing
  <2>3. G.kind = "value" => Going(After(G, Updates(m, old)), 3, m)
    BY <1>9, <2>1, ThenGoing
  <2> QED
    BY <1>5, <2>2, <2>3
<1>11. Reading(M, 1, 2, m)
  BY <1>1, MemberReading
<1>12. M.kind = "value" => Going(After(M, Rest(m)), 1, m)
  BY <1>10, <1>11, ThenGoing
<1>13. Orderly(M.calls)
  BY <1>11 DEF Reading
<1> QED
  BY <1>6, <1>12, <1>13 DEF Going

-----------------------------------------------------------------------------
\* The first k parts, up to the first that throws.
Failed(parts, k) == {i \in 1..k : parts[i].kind = "throws"}
Stopped(parts, k) == IF Failed(parts, k) = {} THEN k ELSE Min(Failed(parts, k))
EventsUpTo(parts, before, k) ==
  [i \in 1..Stopped(parts, k) |-> PartEvent(before + i, i \in Failed(parts, k))]
PartsUpTo(parts, before, k) ==
  IF Failed(parts, k) = {}
  THEN Ending("value", [i \in 1..k |-> parts[i].value], EventsUpTo(parts, before, k))
  ELSE Ending("throws", Undefined, EventsUpTo(parts, before, k))

LEMMA LeastIs ==
  ASSUME NEW S \in SUBSET Nat, S # {}
  PROVE  Min(S) \in S /\ \A y \in S : Min(S) <= y
<1>1. PICK x \in S : \A y \in S : x <= y
  BY Minimum
<1> QED
  BY <1>1 DEF Min

LEMMA FirstFailed ==
  ASSUME NEW parts, NEW k \in Nat
  PROVE  /\ Stopped(parts, k) \in 0..k
         /\ Failed(parts, k) # {} =>
              /\ Stopped(parts, k) \in Failed(parts, k) /\ Stopped(parts, k) >= 1
              /\ \A i \in 1..Stopped(parts, k) : i \in Failed(parts, k) <=> i = Stopped(parts, k)
<1>1. PICK F : F = Failed(parts, k)
  OBVIOUS
<1>2. F \in SUBSET Nat /\ F \subseteq 1..k
  BY <1>1 DEF Failed
<1>3. CASE F = {}
  BY <1>1, <1>3 DEF Stopped
<1>4. CASE F # {}
  <2>1. PICK s : s = Min(F)
    OBVIOUS
  <2>2. s \in F /\ \A y \in F : s <= y
    BY <1>2, <1>4, <2>1, LeastIs
  <2>3. Stopped(parts, k) = s
    BY <1>1, <1>4, <2>1 DEF Stopped
  <2>4. s \in 1..k
    BY <1>2, <2>2
  <2>5. \A i \in 1..s : i \in F <=> i = s
    BY <1>2, <2>2, <2>4
  <2> QED
    BY <1>1, <1>4, <2>2, <2>3, <2>4, <2>5
<1> QED
  BY <1>3, <1>4

\* One more element.
Extends(g, c, k, e) ==
  /\ g = [i \in 1..(k + 1) |-> g[i]]
  /\ \A i \in 1..k : g[i] = c[i]
  /\ g[k + 1] = e

LEMMA SnocIs ==
  ASSUME NEW c, Listed(c), NEW e, NEW k \in Nat, Len(c) = k, NEW g, Extends(g, c, k, e)
  PROVE  c \o <<e>> = g /\ Append(c, e) = g
<1>1. PICK S : c \in Seq(S)
  BY DEF Listed
<1>2. PICK T : T = S \cup {e}
  OBVIOUS
<1>3. c \in Seq(T) /\ e \in T
  <2>1. c \in Seq(T)
    BY <1>1, <1>2
  <2> QED
    BY <1>2, <2>1
<1>4. PICK h : h = Append(c, e)
  OBVIOUS
<1>5. h \in Seq(T) /\ Len(h) = k + 1 /\ \A i \in 1..(k + 1) : h[i] = IF i = k + 1 THEN e ELSE c[i]
  BY <1>3, <1>4
<1>g. g = [i \in 1..(k + 1) |-> g[i]]
  BY DEF Extends
<1>6. ASSUME NEW i \in 1..(k + 1) PROVE h[i] = g[i]
  <2>1. i = k + 1 \/ i \in 1..k
    OBVIOUS
  <2> QED
    BY <1>5, <2>1 DEF Extends
<1>7. DOMAIN h = 1..(k + 1) /\ h = [i \in 1..(k + 1) |-> h[i]]
  BY <1>5
<1>8. h = g
  BY <1>6, <1>7, <1>g
<1>9. PICK t : t = <<e>>
  OBVIOUS
<1>10. t \in Seq(T) /\ Len(t) = 1 /\ t[1] = e
  BY <1>3, <1>9
<1>11. PICK u : u = c \o t
  OBVIOUS
<1>12. /\ u \in Seq(T) /\ Len(u) = Len(c) + Len(t)
       /\ \A i \in 1..(Len(c) + Len(t)) : u[i] = IF i <= Len(c) THEN c[i] ELSE t[i - Len(c)]
  BY <1>3, <1>10, <1>11, ConcatProperties
<1>13. Len(u) = k + 1 /\ \A i \in 1..(k + 1) : u[i] = g[i]
  <2>1. Len(u) = k + 1
    BY <1>10, <1>12
  <2>2. ASSUME NEW i \in 1..(k + 1) PROVE u[i] = g[i]
    <3>1. CASE i = k + 1
      <4>1. i - Len(c) = 1 /\ ~(i <= Len(c)) /\ i \in 1..(Len(c) + Len(t))
        BY <1>10, <3>1
      <4>2. u[i] = t[i - Len(c)]
        BY <1>12, <4>1
      <4> QED
        BY <1>10, <3>1, <4>1, <4>2 DEF Extends
    <3>2. CASE i # k + 1
      <4>1. i \in 1..k /\ i <= Len(c) /\ i \in 1..(Len(c) + Len(t))
        BY <1>10, <3>2
      <4>2. u[i] = c[i]
        BY <1>12, <4>1
      <4> QED
        BY <4>1, <4>2 DEF Extends
    <3> QED
      BY <3>1, <3>2
  <2> QED
    BY <2>1, <2>2
<1>14. DOMAIN u = 1..(k + 1) /\ u = [i \in 1..(k + 1) |-> u[i]]
  BY <1>12, <1>13
<1>15. u = g
  BY <1>13, <1>14, <1>g
<1> QED
  BY <1>4, <1>8, <1>9, <1>11, <1>15

IsParts(parts, n) == \A i \in 1..n : IsPart(parts[i])

LEMMA FunctionListed ==
  ASSUME NEW k \in Nat, NEW g, g = [i \in 1..k |-> g[i]]
  PROVE  Listed(g) /\ Len(g) = k
<1>1. PICK S : S = {g[i] : i \in 1..k}
  OBVIOUS
<1>2. g \in [1..k -> S]
  BY <1>1
<1>3. g \in Seq(S)
  BY <1>2
<1> QED
  BY <1>2, <1>3 DEF Listed

LEMMA EventsListed ==
  ASSUME NEW parts, NEW before, NEW k \in Nat
  PROVE  Listed(EventsUpTo(parts, before, k)) /\ Len(EventsUpTo(parts, before, k)) = Stopped(parts, k)
<1>1. PICK s \in Nat : s = Stopped(parts, k)
  BY FirstFailed
<1>2. PICK g : g = EventsUpTo(parts, before, k)
  OBVIOUS
<1>3. g = [i \in 1..s |-> g[i]]
  BY <1>1, <1>2 DEF EventsUpTo
<1> QED
  BY <1>1, <1>2, <1>3, FunctionListed

\* The parts before the next, and then it.
LEMMA NextPart ==
  ASSUME NEW parts, NEW n \in Nat, IsParts(parts, n), NEW before \in Int, NEW k \in 0..(n - 1)
  PROVE  PartsUpTo(parts, before, k + 1) =
           Then(PartsUpTo(parts, before, k), LAMBDA vs :
             Then(Part(before + (k + 1), parts[k + 1]), LAMBDA v : Gives(Append(vs, v))))
<1>1. PICK j \in Nat : j = k + 1
  OBVIOUS
<1>2. PICK p, r, F, H : /\ p = parts[j] /\ r = PartsUpTo(parts, before, k)
                        /\ F = Failed(parts, k) /\ H = Failed(parts, j)
  OBVIOUS
<1>3. IsPart(p) /\ p.kind \in {"value", "throws"}
  <2>1. j \in 1..n
    BY <1>1
  <2>2. IsPart(p)
    BY <1>2, <2>1 DEF IsParts
  <2> QED
    BY <2>2, PartIs
<1>4. \A i : i \in H <=> i \in F \/ (i = j /\ p.kind = "throws")
  BY <1>1, <1>2 DEF Failed
<1>5. PICK c, d : c = EventsUpTo(parts, before, k) /\ d = EventsUpTo(parts, before, j)
  OBVIOUS
<1>6. Listed(c) /\ Len(c) = Stopped(parts, k)
  BY <1>5, EventsListed
<1>7. k \in Nat /\ F \in SUBSET (1..k) /\ H \in SUBSET (1..j)
  BY <1>1, <1>2 DEF Failed
<1> DEFINE Last(vs) == Then(Part(before + j, p), LAMBDA v : Gives(Append(vs, v)))
<1>8. Then(r, Last) = IF r.kind = "value" THEN After(r, Last(r.value)) ELSE r
  BY DEF Then
<1>9. \A vs : Last(vs) = IF Part(before + j, p).kind = "value"
                         THEN After(Part(before + j, p), Gives(Append(vs, Part(before + j, p).value)))
                         ELSE Part(before + j, p)
  BY DEF Then
<1> HIDE DEF Last
<1>10. CASE F # {}
  <2>1. r = Ending("throws", Undefined, c)
    BY <1>2, <1>5, <1>10 DEF PartsUpTo
  <2>2. r.kind = "throws"
    BY <2>1, EndingParts
  <2>3. H # {}
    BY <1>4, <1>10
  <2>4. PICK s, t : s = Stopped(parts, k) /\ t = Stopped(parts, j)
    OBVIOUS
  <2>5. s \in F /\ \A i \in 1..s : i \in F <=> i = s
    BY <1>2, <1>7, <1>10, <2>4, FirstFailed
  <2>6. t \in H /\ \A i \in 1..t : i \in H <=> i = t
    BY <1>1, <1>2, <2>3, <2>4, FirstFailed
  <2>7. s \in 1..k /\ t \in 1..j
    BY <1>7, <2>5, <2>6
  <2>8. s = t
    <3>1. s \in H
      BY <1>4, <2>5
    <3>2. ~(s < t)
      BY <2>6, <2>7, <3>1
    <3>3. ~(t < s)
      <4>1. t < s => t \in F
        BY <1>1, <1>4, <2>6, <2>7
      <4> QED
        BY <2>5, <2>7, <4>1
    <3> QED
      BY <2>7, <3>2, <3>3
  <2>9. \A i \in 1..s : (i \in F) = (i \in H)
    BY <2>5, <2>6, <2>8
  <2>10. c = d
    BY <1>2, <1>5, <2>4, <2>8, <2>9 DEF EventsUpTo
  <2>11. PartsUpTo(parts, before, j) = Ending("throws", Undefined, d)
    BY <1>2, <1>5, <2>3 DEF PartsUpTo
  <2>12. PartsUpTo(parts, before, j) = Then(r, Last)
    BY <1>8, <2>1, <2>2, <2>10, <2>11
  <2> QED
    BY <1>1, <1>2, <2>12 DEF Last
<1>11. CASE F = {}
  <2>1. PICK vs : vs = [i \in 1..k |-> parts[i].value]
    OBVIOUS
  <2>2. r = Ending("value", vs, c)
    BY <1>2, <1>5, <1>11, <2>1 DEF PartsUpTo
  <2>3. r.kind = "value" /\ r.value = vs /\ r.calls = c
    BY <2>2, EndingParts
  <2>4. Stopped(parts, k) = k /\ Len(c) = k
    BY <1>2, <1>6, <1>11 DEF Stopped
  <2>5. \A i \in 1..k : c[i] = PartEvent(before + i, FALSE)
    <3>1. \A i \in 1..k : (i \in F) = FALSE
      BY <1>11
    <3> QED
      BY <1>2, <1>5, <2>4, <3>1 DEF EventsUpTo
  <2>6. CASE p.kind = "throws"
    <3>1. H = {j}
      BY <1>4, <1>11, <2>6
    <3>2. Stopped(parts, j) = j
      <4>1. Stopped(parts, j) \in H
        BY <1>2, <3>1, FirstFailed
      <4> QED
        BY <3>1, <4>1
    <3>3. PICK e : e = PartEvent(before + j, TRUE)
      OBVIOUS
    <3>4. d = [i \in 1..j |-> d[i]]
      BY <1>5, <3>2 DEF EventsUpTo
    <3>5. \A i \in 1..k : d[i] = c[i]
      <4>1. \A i \in 1..k : i \in 1..j /\ (i \in H) = FALSE
        BY <1>1, <3>1
      <4> QED
        BY <1>2, <1>5, <2>5, <3>2, <4>1 DEF EventsUpTo
    <3>6. d[j] = e
      <4>1. j \in 1..j /\ (j \in H) = TRUE
        BY <1>1, <3>1
      <4> QED
        BY <1>2, <1>5, <3>2, <3>3, <4>1 DEF EventsUpTo
    <3>7. c \o <<e>> = d
      <4>1. Extends(d, c, k, e)
        BY <1>1, <3>4, <3>5, <3>6 DEF Extends
      <4> QED
        BY <1>6, <1>7, <2>4, <4>1, SnocIs
    <3>8. PICK b, q : b = <<e>> /\ q = Part(before + j, p)
      OBVIOUS
    <3>9. q = Ending("throws", Undefined, b)
      BY <1>3, <2>6, <3>3, <3>8, PartIs
    <3>10. Formed(q) /\ q.kind = "throws" /\ q.value = Undefined /\ q.calls = b
      BY <3>8, <3>9, FormedEnding, OneListed, EndingParts
    <3>11. Last(vs) = q
      BY <1>9, <3>8, <3>10
    <3>12. After(r, q) = Ending("throws", Undefined, d)
      <4>1. After(r, q) = Ending(q.kind, q.value, r.calls \o q.calls)
        BY <1>6, <2>3, <3>10, AfterFormed
      <4> QED
        BY <2>3, <3>7, <3>8, <3>10, <4>1
    <3>13. PartsUpTo(parts, before, j) = Ending("throws", Undefined, d)
      BY <1>2, <1>5, <3>1 DEF PartsUpTo
    <3>14. PartsUpTo(parts, before, j) = Then(r, Last)
      BY <1>8, <2>3, <3>11, <3>12, <3>13
    <3> QED
      BY <1>1, <1>2, <3>14 DEF Last
  <2>7. CASE p.kind = "value"
    <3>1. H = {}
      BY <1>4, <1>11, <2>7
    <3>2. Stopped(parts, j) = j
      BY <1>2, <3>1 DEF Stopped
    <3>3. PICK e : e = PartEvent(before + j, FALSE)
      OBVIOUS
    <3>4. d = [i \in 1..j |-> d[i]]
      BY <1>5, <3>2 DEF EventsUpTo
    <3>5. \A i \in 1..j : d[i] = PartEvent(before + i, FALSE)
      <4>1. \A i \in 1..j : (i \in H) = FALSE
        BY <3>1
      <4> QED
        BY <1>2, <1>5, <3>2, <4>1 DEF EventsUpTo
    <3>6. (\A i \in 1..k : d[i] = c[i]) /\ d[j] = e
      <4>1. j \in 1..j /\ \A i \in 1..k : i \in 1..j
        BY <1>1
      <4> QED
        BY <2>5, <3>3, <3>5, <4>1
    <3>7. c \o <<e>> = d
      <4>1. Extends(d, c, k, e)
        BY <1>1, <3>4, <3>6 DEF Extends
      <4> QED
        BY <1>6, <1>7, <2>4, <4>1, SnocIs
    <3>8. PICK b, q, v : b = <<e>> /\ q = Part(before + j, p) /\ v = p.value
      OBVIOUS
    <3>9. q = Ending("value", v, b)
      BY <1>3, <2>7, <3>3, <3>8, PartIs
    <3>10. q.kind = "value" /\ q.value = v /\ q.calls = b /\ Listed(b)
      BY <3>8, <3>9, OneListed, EndingParts
    <3>11. PICK ws : ws = [i \in 1..j |-> parts[i].value]
      OBVIOUS
    <3>12. Append(vs, v) = ws
      <4>1. vs = [i \in 1..k |-> vs[i]]
        BY <2>1
      <4>2. Listed(vs) /\ Len(vs) = k
        BY <1>7, <4>1, FunctionListed
      <4>3. ws = [i \in 1..j |-> ws[i]] /\ ws[j] = v
        BY <1>1, <1>2, <3>8, <3>11
      <4>4. \A i \in 1..k : ws[i] = vs[i]
        <5>1. \A i \in 1..k : i \in 1..j
          BY <1>1
        <5> QED
          BY <2>1, <3>11, <5>1
      <4> QED
        <5>1. Extends(ws, vs, k, v)
          BY <1>1, <4>3, <4>4 DEF Extends
        <5> QED
          BY <1>7, <4>2, <5>1, SnocIs
    <3>13. Last(vs) = After(q, Gives(ws))
      BY <1>9, <3>8, <3>10, <3>12
    <3>14. PICK s, z : s = Gives(ws) /\ z = After(q, s)
      OBVIOUS
    <3>15. s.kind = "value" /\ s.value = ws /\ s.calls = <<>> /\ Formed(s)
      BY <3>14, SimpleGives, SimpleFormed
    <3>16. z.kind = "value" /\ z.value = ws /\ z.calls = b /\ Formed(z)
      <4>1. /\ After(q, s).kind = s.kind /\ After(q, s).value = s.value /\ Formed(After(q, s))
            /\ After(q, s).calls = q.calls \o s.calls
        BY <3>10, <3>15, AfterFormed
      <4>2. b \o <<>> = b
        BY <3>10, NothingConcat
      <4> QED
        BY <3>10, <3>14, <3>15, <4>1, <4>2
    <3>17. After(r, z) = Ending("value", ws, d)
      <4>1. After(r, z) = Ending(z.kind, z.value, r.calls \o z.calls)
        BY <1>6, <2>3, <3>16, AfterFormed
      <4> QED
        BY <2>3, <3>7, <3>8, <3>16, <4>1
    <3>18. PartsUpTo(parts, before, j) = Ending("value", ws, d)
      BY <1>2, <1>5, <3>1, <3>11 DEF PartsUpTo
    <3>19. PartsUpTo(parts, before, j) = Then(r, Last)
      BY <1>8, <2>3, <3>13, <3>14, <3>17, <3>18
    <3> QED
      BY <1>1, <1>2, <3>19 DEF Last
  <2> QED
    BY <1>3, <2>6, <2>7
<1> QED
  BY <1>10, <1>11

\* The k-th part after those before it.
AddPart(parts, before, k, r) ==
  Then(r, LAMBDA vs : Then(Part(before + k, parts[k]), LAMBDA v : Gives(Append(vs, v))))

LEMMA AddPartIs ==
  ASSUME NEW parts, NEW n \in Nat, IsParts(parts, n), NEW before \in Int, NEW k \in 1..n
  PROVE  PartsUpTo(parts, before, k) = AddPart(parts, before, k, PartsUpTo(parts, before, k - 1))
<1>1. PICK j \in 0..(n - 1) : j = k - 1
  <2>1. k - 1 \in 0..(n - 1)
    OBVIOUS
  <2> QED
    BY <2>1
<1>2. j + 1 = k
  BY <1>1
<1>3. PartsUpTo(parts, before, j + 1) = AddPart(parts, before, j + 1, PartsUpTo(parts, before, j))
  BY NextPart DEF AddPart, Then
<1> QED
  BY <1>1, <1>2, <1>3

LEMMA NoPartIs ==
  ASSUME NEW parts, NEW before
  PROVE  PartsUpTo(parts, before, 0) = Gives(<<>>)
<1>1. Failed(parts, 0) = {}
  BY DEF Failed
<1>2. EventsUpTo(parts, before, 0) = <<>>
  <2>1. Stopped(parts, 0) = 0
    BY <1>1 DEF Stopped
  <2> QED
    BY <2>1 DEF EventsUpTo
<1>3. [i \in 1..0 |-> parts[i].value] = <<>>
  OBVIOUS
<1> QED
  BY <1>1, <1>2, <1>3 DEF PartsUpTo, Ending, Gives

LEMMA ArgumentsAre ==
  ASSUME NEW parts, NEW n \in Nat, Len(parts) = n, IsParts(parts, n), NEW before \in Int
  PROVE  Arguments(parts, before) = PartsUpTo(parts, before, n)
<1> DEFINE Body(s) == [k \in 0..n |-> IF k = 0 THEN Gives(<<>>) ELSE AddPart(parts, before, k, s[k - 1])]
<1>1. PICK g : g = [k \in 0..n |-> PartsUpTo(parts, before, k)]
  OBVIOUS
<1>2. ASSUME NEW k \in 1..n
      PROVE  PartsUpTo(parts, before, k) = AddPart(parts, before, k, PartsUpTo(parts, before, k - 1))
  BY AddPartIs
<1>3. g = Body(g)
  <2>1. ASSUME NEW k \in 0..n
        PROVE  PartsUpTo(parts, before, k) =
                 IF k = 0 THEN Gives(<<>>) ELSE AddPart(parts, before, k, g[k - 1])
    <3>1. CASE k = 0
      BY <3>1, NoPartIs
    <3>2. CASE k # 0
      <4>1. k \in 1..n /\ k - 1 \in 0..n
        BY <3>2
      <4>2. g[k - 1] = PartsUpTo(parts, before, k - 1)
        BY <1>1, <4>1
      <4> QED
        BY <1>2, <3>2, <4>1, <4>2
    <3> QED
      BY <3>1, <3>2
  <2> QED
    BY <1>1, <2>1
<1>4. PICK s : s = CHOOSE h : h = Body(h)
  OBVIOUS
<1>5. s = Body(s)
  <2> HIDE DEF Body
  <2> QED
    BY <1>3, <1>4
<1>6. ASSUME NEW k \in 0..n PROVE s[k] = g[k]
  <2> DEFINE T == {j \in 0..n : s[j] # g[j]}
  <2>1. CASE T # {}
    <3>1. T \in SUBSET Nat
      OBVIOUS
    <3>2. PICK j \in T : \A m \in T : j <= m
      <4> HIDE DEF T
      <4> QED
        BY <2>1, <3>1, Minimum
    <3>3. j \in 0..n /\ s[j] # g[j]
      OBVIOUS
    <3>4. j # 0
      <4>1. s[0] = Gives(<<>>) /\ g[0] = Gives(<<>>)
        BY <1>3, <1>5
      <4> QED
        BY <3>3, <4>1
    <3>5. j - 1 \notin T /\ j - 1 \in 0..n
      <4>1. j - 1 \in 0..n /\ ~(j <= j - 1)
        BY <3>3, <3>4
      <4> HIDE DEF T
      <4> QED
        BY <3>2, <4>1
    <3>6. s[j - 1] = g[j - 1]
      BY <3>5
    <3>7. s[j] = AddPart(parts, before, j, s[j - 1]) /\ g[j] = AddPart(parts, before, j, g[j - 1])
      BY <1>3, <1>5, <3>3, <3>4
    <3> QED
      BY <3>3, <3>6, <3>7
  <2>2. CASE T = {}
    BY <2>2
  <2> QED
    BY <2>1, <2>2
<1>7. Arguments(parts, before) = s[n]
  <2>1. Arguments(parts, before) =
          (CHOOSE h : h = [k \in 0..Len(parts) |->
             IF k = 0 THEN Gives(<<>>) ELSE AddPart(parts, before, k, h[k - 1])])[Len(parts)]
    BY DEF Arguments, AddPart
  <2> QED
    BY <1>4, <2>1
<1> QED
  BY <1>1, <1>6, <1>7

LEMMA ListIs ==
  ASSUME NEW parts \in Lists
  PROVE  Len(parts) \in Nat /\ IsParts(parts, Len(parts)) /\ (parts # <<>> => Len(parts) >= 1)
<1>1. PICK k \in 0..MaxParts : parts \in [1..k -> Parts]
  BY DEF Lists
<1>2. k \in Nat /\ Len(parts) = k
  BY <1>1, PartsAssumption
<1>3. \A i \in 1..k : parts[i] \in Parts
  BY <1>1
<1>4. IsParts(parts, k)
  BY <1>3 DEF IsParts, IsPart
<1>5. k = 0 => parts = <<>>
  BY <1>1
<1> QED
  BY <1>2, <1>4, <1>5

LEMMA PartsReading ==
  ASSUME NEW parts, NEW n \in Nat, IsParts(parts, n), NEW before \in Int, NEW m
  PROVE  Reading(PartsUpTo(parts, before, n), before + 1, before + n, m)
<1>1. PICK r, d, F, s : /\ r = PartsUpTo(parts, before, n) /\ d = EventsUpTo(parts, before, n)
                        /\ F = Failed(parts, n) /\ s = Stopped(parts, n)
  OBVIOUS
<1>2. Listed(d) /\ Len(d) = s
  BY <1>1, EventsListed
<1>3. s \in 0..n /\ (F # {} => s \in F /\ \A i \in 1..s : i \in F <=> i = s)
  BY <1>1, FirstFailed
<1>4. d = [i \in 1..s |-> PartEvent(before + i, i \in F)]
  BY <1>1 DEF EventsUpTo
<1>5. r.calls = d /\ (r.kind = "value" => F = {}) /\ Formed(r)
  BY <1>1, <1>2, EndingParts, FormedEnding DEF PartsUpTo
<1>6. DOMAIN d = 1..s /\ \A i \in 1..s : d[i] = PartEvent(before + i, i \in F)
  BY <1>4
<1>7. \A i \in 1..s : Threw(d[i]) = (i \in F)
  BY <1>6, PartShape
<1>8. ASSUME NEW i \in 1..s PROVE ReadEvent(d[i], before + 1, before + n, m)
  <2>1. before + i \in (before + 1)..(before + n)
    BY <1>3
  <2>2. d[i] = PartEvent(before + i, TRUE) \/ d[i] = PartEvent(before + i, FALSE)
    <3>1. (i \in F) = TRUE \/ (i \in F) = FALSE
      OBVIOUS
    <3> QED
      BY <1>6, <3>1
  <2> QED
    BY <2>1, <2>2 DEF ReadEvent
<1>9. Orderly(d)
  <2>1. ASSUME NEW i \in 1..s, NEW j \in 1..s, i < j PROVE InOrder(d[i], d[j])
    <3>1. i \notin F
      <4>1. i # s
        BY <1>3, <2>1
      <4> QED
        BY <1>3, <4>1
    <3>2. ~Threw(d[i])
      BY <1>7, <3>1
    <3>3. /\ DOMAIN d[i] = {"part", "throws"} /\ d[i].part = before + i /\ d[j].part = before + j
      BY <1>6, PartShape
    <3>4. DOMAIN d[i] \cap {"put", "delete", "run"} = {} /\ "get" \notin DOMAIN d[i]
      BY <3>3
    <3>5. d[i].part < d[j].part
      BY <1>3, <2>1, <3>3
    <3> QED
      BY <3>2, <3>4, <3>5 DEF InOrder
  <2> QED
    BY <1>6, <2>1 DEF Orderly
<1>10. F = {} => \A i \in 1..s : ~Threw(d[i])
  BY <1>7
<1>11. Reading(r, before + 1, before + n, m)
  BY <1>5, <1>6, <1>8, <1>9, <1>10 DEF Reading
<1> QED
  BY <1>1, <1>11

LEMMA ArgumentsReading ==
  ASSUME NEW parts \in Lists, NEW before \in Int, NEW m
  PROVE  Reading(Arguments(parts, before), before + 1, before + Len(parts), m)
<1>1. PICK n \in Nat : n = Len(parts) /\ IsParts(parts, n)
  BY ListIs
<1>2. Arguments(parts, before) = PartsUpTo(parts, before, n)
  BY <1>1, ArgumentsAre
<1>3. Reading(PartsUpTo(parts, before, n), before + 1, before + n, m)
  BY <1>1, PartsReading
<1> QED
  BY <1>1, <1>2, <1>3

-----------------------------------------------------------------------------
\* Assignments.
LEMMA WritesGoing ==
  ASSUME NEW m, NEW s, Reading(s, 4, 3, m), NEW t, t = Then(s, LAMBDA v : Stores(m, v, v))
  PROVE  Going(t, 4, m)
<1>1. PICK v : v = s.value
  OBVIOUS
<1>2. PICK w : w = Stores(m, v, v)
  OBVIOUS
<1>3. t = IF s.kind = "value" THEN After(s, w) ELSE s
  BY <1>1, <1>2 DEF Then
<1>4. Going(w, 4, m)
  BY <1>2, StoresGoing
<1>5. Going(s, 4, m)
  BY ReadingGoing
<1>6. s.kind = "value" => Going(After(s, w), 4, m)
  <2>1. PICK j \in Int, k \in Int : j = 4 /\ k = 3
    OBVIOUS
  <2>2. j <= k + 1 /\ k + 1 = 4
    BY <2>1
  <2>3. Going(w, k + 1, m) /\ Reading(s, j, k, m)
    BY <1>4, <2>1, <2>2
  <2>4. s.kind = "value" => Going(After(s, w), j, m)
    BY <2>2, <2>3, ThenGoing
  <2> QED
    BY <2>1, <2>4
<1> QED
  BY <1>3, <1>5, <1>6

LEMMA AssignmentGoing ==
  ASSUME NEW x, IsPart(x.object), IsKey(x.property), IsPart(x.right), x.op = "=" \/ x.op \in Arithmetic,
         NEW o \in AssignmentExpression(x)
  PROVE  Orderly(o.calls)
<1>1. PICK M, m : M = Member(x) /\ m = M.value
  OBVIOUS
<1>2. PICK G, l : G = Get(m.object, m.name) /\ l = G.value
  OBVIOUS
<1>3. PICK T, r : T = Part(3, x.right) /\ r = T.value
  OBVIOUS
<1> DEFINE Plain(n) == Then(Part(3, x.right), LAMBDA v : Stores(n, v, v))
           Ops(n, a, b) == {Then(s, LAMBDA v : Stores(n, v, v)) : s \in ApplyAssignmentOperator(x.op, a, b)}
           Right(n, a) == ThenAny(Part(3, x.right), LAMBDA b : Ops(n, a, b))
           Rest(n) == IF x.op = "=" THEN {Plain(n)} ELSE ThenAny(Get(n.object, n.name), LAMBDA a : Right(n, a))
<1>4. Right(m, l) = IF T.kind = "value" THEN {After(T, s) : s \in Ops(m, l, r)} ELSE {T}
  <2> HIDE DEF Ops
  <2> QED
    BY <1>3 DEF ThenAny
<1>5. Rest(m) = IF x.op = "=" THEN {Plain(m)}
                ELSE IF G.kind = "value" THEN {After(G, s) : s \in Right(m, l)} ELSE {G}
  <2> HIDE DEF Right, Plain
  <2> QED
    BY <1>2 DEF ThenAny
<1>6. AssignmentExpression(x) = IF M.kind = "value" THEN {After(M, s) : s \in Rest(m)} ELSE {M}
  BY <1>1 DEF AssignmentExpression, ThenAny
<1>7. Plain(m) = IF T.kind = "value" THEN After(T, Stores(m, r, r)) ELSE T
  BY <1>3 DEF Then
<1>8. \A s \in Ops(m, l, r) : \E z \in ApplyAssignmentOperator(x.op, l, r) :
        s = Then(z, LAMBDA v : Stores(m, v, v))
  OBVIOUS
<1> HIDE DEF Plain, Ops, Right, Rest
<1>9. Reading(T, 3, 3, m)
  BY <1>3, PartReading
<1>10. Going(T, 3, m)
  BY <1>9, ReadingGoing
<1>11. Going(Plain(m), 3, m)
  <2>1. Going(Stores(m, r, r), 3 + 1, m)
    <3>1. 3 + 1 = 4 /\ Going(Stores(m, r, r), 4, m)
      BY StoresGoing
    <3> QED
      BY <3>1
  <2>2. T.kind = "value" => Going(After(T, Stores(m, r, r)), 3, m)
    BY <1>9, <2>1, ThenGoing
  <2> QED
    BY <1>7, <1>10, <2>2
<1>12. Reading(M, 1, 2, m) /\ (M.kind = "value" => Id(m.object) \in ObjectIds)
  BY <1>1, MemberReading
<1>13. Reading(G, 3, 2, m)
  BY <1>2, GetReading
<1>14. ASSUME x.op # "=", M.kind = "value", G.kind = "value", NEW s \in Right(m, l)
       PROVE  Going(s, 3, m)
  <2>1. l \in Value
    BY <1>2, <1>12, <1>14, GetTyped
  <2>2. CASE T.kind = "value"
    <3>1. r \in Value
      <4>1. T.kind = x.right.kind /\ (x.right.kind = "value" => T.value = x.right.value)
        BY <1>3, PartParts
      <4>2. x.right.kind = "value" => x.right.value \in Value
        BY PartIs
      <4> QED
        BY <1>3, <2>2, <4>1, <4>2
    <3>2. PICK t \in Ops(m, l, r) : s = After(T, t)
      BY <1>4, <1>14, <2>2
    <3>3. PICK z \in ApplyAssignmentOperator(x.op, l, r) : t = Then(z, LAMBDA v : Stores(m, v, v))
      BY <1>8, <3>2
    <3>4. Reading(z, 4, 3, m)
      BY <1>14, <2>1, <3>1, <3>3, CompoundReading
    <3>5. Going(t, 4, m)
      BY <3>3, <3>4, WritesGoing
    <3>6. Going(t, 3 + 1, m)
      BY <3>5
    <3> QED
      BY <1>9, <2>2, <3>2, <3>6, ThenGoing
  <2>3. CASE T.kind # "value"
    BY <1>4, <1>10, <1>14, <2>3
  <2> QED
    BY <2>2, <2>3
<1>15. ASSUME M.kind = "value", NEW s \in Rest(m) PROVE Going(s, 3, m)
  <2>1. CASE x.op = "="
    BY <1>5, <1>11, <1>15, <2>1
  <2>2. CASE x.op # "=" /\ G.kind # "value"
    BY <1>5, <1>13, <1>15, <2>2, ReadingGoing
  <2>3. CASE x.op # "=" /\ G.kind = "value"
    <3>1. PICK t \in Right(m, l) : s = After(G, t)
      BY <1>5, <1>15, <2>3
    <3>2. Going(t, 3, m)
      BY <1>14, <1>15, <2>3, <3>1
    <3>3. Going(t, 2 + 1, m)
      BY <3>2
    <3> QED
      BY <1>13, <2>3, <3>1, <3>3, ThenGoing
  <2> QED
    BY <2>1, <2>2, <2>3
<1>16. CASE M.kind = "value"
  <2>1. PICK s \in Rest(m) : o = After(M, s)
    BY <1>6, <1>16
  <2>2. Going(s, 2 + 1, m)
    BY <1>15, <1>16, <2>1
  <2>3. Going(o, 1, m)
    BY <1>12, <1>16, <2>1, <2>2, ThenGoing
  <2> QED
    BY <2>3 DEF Going
<1>17. CASE M.kind # "value"
  BY <1>6, <1>12, <1>17 DEF Reading
<1> QED
  BY <1>16, <1>17

-----------------------------------------------------------------------------
\* Calls.
Invoke(how, u, this, parts, before) ==
  Then(CheckCallable(u), LAMBDA f :
    Then(Arguments(parts, before), LAMBDA args : Run(how, f, this, args)))

LEMMA InvokeGoing ==
  ASSUME NEW how, NEW u, NEW this, NEW parts \in Lists, NEW before \in Int, NEW m
  PROVE  Going(Invoke(how, u, this, parts, before), before + 1, m)
<1>1. PICK A, v, C, f : /\ A = Arguments(parts, before) /\ v = A.value
                        /\ C = CheckCallable(u) /\ f = C.value
  OBVIOUS
<1> DEFINE Rest(g) == Then(Arguments(parts, before), LAMBDA args : Run(how, g, this, args))
<1>2. Rest(f) = IF A.kind = "value" THEN After(A, Run(how, f, this, v)) ELSE A
  BY <1>1 DEF Then
<1>3. Invoke(how, u, this, parts, before) = IF C.kind = "value" THEN After(C, Rest(f)) ELSE C
  BY <1>1 DEF Invoke, Then
<1> HIDE DEF Rest
<1>4. PICK n \in Nat : n = Len(parts)
  BY ListIs
<1>5. PICK lo \in Int : lo = before + 1
  OBVIOUS
<1>6. PICK hi \in Int : hi = before + n
  OBVIOUS
<1>7. Reading(A, lo, hi, m) /\ lo <= hi + 1
  BY <1>1, <1>4, <1>5, <1>6, ArgumentsReading
<1>8. PICK e, does : e = RunEvent(how, f, this, v) /\ does = CallGives[f.id]
  OBVIOUS
<1>9. Run(how, f, this, v) = Event(e, Comes(does))
  BY <1>8 DEF Run, RunEvent
<1>10. LastEvent(e, m)
  BY <1>8 DEF LastEvent
<1>11. Going(Run(how, f, this, v), hi + 1, m)
  BY <1>9, <1>10, LastGoing
<1>12. Going(Rest(f), lo, m)
  <2>1. A.kind = "value" => Going(After(A, Run(how, f, this, v)), lo, m)
    BY <1>7, <1>11, ThenGoing
  <2>2. Going(A, lo, m)
    BY <1>7, ReadingGoing
  <2> QED
    BY <1>2, <2>1, <2>2
<1>13. Reading(C, lo, before, m)
  <2>1. Simple(C)
    BY <1>1, SimpleGives DEF CheckCallable
  <2> QED
    BY <2>1, NothingReading
<1>14. C.kind = "value" => Going(After(C, Rest(f)), lo, m)
  <2>1. Going(Rest(f), before + 1, m) /\ lo <= before + 1
    BY <1>5, <1>12
  <2> QED
    BY <1>13, <2>1, ThenGoing
<1>15. Going(C, lo, m)
  BY <1>13, ReadingGoing
<1> QED
  BY <1>3, <1>5, <1>14, <1>15

LEMMA InvokedOrderly ==
  ASSUME NEW C, NEW before \in {1, 2}, NEW m, Reading(C, 1, before, m),
         NEW how, NEW parts \in Lists, NEW c, c = C.value
  PROVE  /\ Orderly(C.calls)
         /\ \A u, t : C.kind = "value" => Orderly(After(C, Invoke(how, u, t, parts, before)).calls)
<1>1. Orderly(C.calls)
  BY DEF Reading
<1>2. ASSUME NEW u, NEW t, C.kind = "value"
      PROVE  Orderly(After(C, Invoke(how, u, t, parts, before)).calls)
  <2>1. PICK I : I = Invoke(how, u, t, parts, before)
    OBVIOUS
  <2>2. Going(I, before + 1, m)
    BY <2>1, InvokeGoing
  <2>3. Going(After(C, I), 1, m)
    <3>1. before \in Int /\ 1 <= before + 1
      OBVIOUS
    <3> QED
      BY <1>2, <2>2, <3>1, ThenGoing
  <2> QED
    BY <2>1, <2>3 DEF Going
<1> QED
  BY <1>1, <1>2

LEMMA NewOrderly ==
  ASSUME NEW x, IsPart(x.callee), x.arguments \in Lists
  PROVE  Orderly(NewExpression(x).calls)
<1>1. PICK P, u, parts : P = Part(1, x.callee) /\ u = P.value /\ parts = x.arguments
  OBVIOUS
<1>2. NewExpression(x) =
        Then(P, LAMBDA v : Invoke("Construct", v, Undefined, parts, 1))
  BY <1>1 DEF NewExpression, Invoke, Then
<1>3. NewExpression(x) = IF P.kind = "value" THEN After(P, Invoke("Construct", u, Undefined, parts, 1)) ELSE P
  BY <1>1, <1>2 DEF Then
<1>4. PICK m : m = Undefined
  OBVIOUS
<1>5. Reading(P, 1, 1, m)
  BY <1>1, PartReading
<1>6. /\ Orderly(P.calls)
      /\ \A v, t : P.kind = "value" => Orderly(After(P, Invoke("Construct", v, t, parts, 1)).calls)
  BY <1>1, <1>5, InvokedOrderly
<1> QED
  BY <1>3, <1>6

Callee(x) ==
  IF x.form = "callMember"
  THEN Then(Member(x), LAMBDA m :
         Then(Get(m.object, m.name), LAMBDA f : Gives([f |-> f, this |-> m.this])))
  ELSE Then(Part(1, x.callee), LAMBDA f : Gives([f |-> f, this |-> Undefined]))

LEMMA CallIs ==
  ASSUME NEW x, x.form \in {"call", "callMember"}, NEW C, C = Callee(x),
         NEW before, before = IF x.form = "call" THEN 1 ELSE 2
  PROVE  /\ C.kind = "value" =>
              CallExpression(x) = After(C, Invoke("Call", C.value.f, C.value.this, x.arguments, before))
         /\ C.kind # "value" => CallExpression(x) = C
<1> DEFINE Rest(c) == Invoke("Call", c.f, c.this, x.arguments, before)
<1>1. CallExpression(x) = Then(C, Rest)
  BY DEF CallExpression, Callee, Invoke
<1>2. Then(C, Rest) = IF C.kind = "value" THEN After(C, Rest(C.value)) ELSE C
  BY DEF Then
<1> QED
  BY <1>1, <1>2

LEMMA CalleeReading ==
  ASSUME NEW x, x.form = "callMember" => IsPart(x.object) /\ IsKey(x.property),
         x.form = "call" => IsPart(x.callee), x.form \in {"call", "callMember"},
         NEW m, m = Member(x).value
  PROVE  Reading(Callee(x), 1, IF x.form = "call" THEN 1 ELSE 2, m)
<1>1. CASE x.form = "callMember"
  <2>1. PICK M : M = Member(x)
    OBVIOUS
  <2>2. PICK G : G = Get(m.object, m.name)
    OBVIOUS
  <2> DEFINE Rest(n) == Then(Get(n.object, n.name), LAMBDA f : Gives([f |-> f, this |-> n.this]))
  <2>3. Rest(m) = IF G.kind = "value" THEN After(G, Gives([f |-> G.value, this |-> m.this])) ELSE G
    BY <2>2 DEF Then
  <2>4. Callee(x) = IF M.kind = "value" THEN After(M, Rest(m)) ELSE M
    BY <1>1, <2>1 DEF Callee, Then
  <2> HIDE DEF Rest
  <2>5. PICK s : s = Gives([f |-> G.value, this |-> m.this])
    OBVIOUS
  <2>6. Reading(s, 3, 2, m)
    BY <2>5, SimpleGives, NothingReading
  <2>7. Reading(G, 3, 2, m)
    BY <2>2, GetReading
  <2>8. Reading(Rest(m), 3, 2, m)
    <3>1. Reading(s, 2 + 1, 2, m)
      BY <2>6
    <3>2. G.kind = "value" => Reading(After(G, s), 3, 2, m)
      BY <2>7, <3>1, ThenReading
    <3> QED
      BY <2>3, <2>5, <2>7, <3>2
  <2>9. Reading(M, 1, 2, m)
    BY <1>1, <2>1, MemberReading
  <2>10. M.kind = "value" => Reading(After(M, Rest(m)), 1, 2, m)
    <3>1. Reading(Rest(m), 2 + 1, 2, m)
      BY <2>8
    <3> QED
      BY <2>9, <3>1, ThenReading
  <2>11. Reading(Callee(x), 1, 2, m)
    BY <2>4, <2>9, <2>10
  <2> QED
    BY <1>1, <2>11
<1>2. CASE x.form = "call"
  <2>1. PICK P, s : P = Part(1, x.callee) /\ s = Gives([f |-> P.value, this |-> Undefined])
    OBVIOUS
  <2>2. Callee(x) = IF P.kind = "value" THEN After(P, s) ELSE P
    BY <1>2, <2>1 DEF Callee, Then
  <2>3. Reading(P, 1, 1, m)
    BY <1>2, <2>1, PartReading
  <2>4. Reading(s, 1 + 1, 1, m)
    BY <2>1, SimpleGives, NothingReading
  <2>5. P.kind = "value" => Reading(After(P, s), 1, 1, m)
    BY <2>3, <2>4, ThenReading
  <2>6. Reading(Callee(x), 1, 1, m)
    BY <2>2, <2>3, <2>5
  <2> QED
    BY <1>2, <2>6
<1> QED
  BY <1>1, <1>2

LEMMA CallOrderly ==
  ASSUME NEW x, x.form = "callMember" => IsPart(x.object) /\ IsKey(x.property),
         x.form = "call" => IsPart(x.callee), x.form \in {"call", "callMember"}, x.arguments \in Lists
  PROVE  Orderly(CallExpression(x).calls)
<1>1. PICK C, m, before : /\ C = Callee(x) /\ m = Member(x).value
                          /\ before = IF x.form = "call" THEN 1 ELSE 2
  OBVIOUS
<1>2. Reading(C, 1, before, m) /\ before \in {1, 2}
  BY <1>1, CalleeReading
<1>3. /\ Orderly(C.calls)
      /\ \A u, t : C.kind = "value" => Orderly(After(C, Invoke("Call", u, t, x.arguments, before)).calls)
  BY <1>2, InvokedOrderly
<1>4. /\ C.kind = "value" =>
           CallExpression(x) = After(C, Invoke("Call", C.value.f, C.value.this, x.arguments, before))
      /\ C.kind # "value" => CallExpression(x) = C
  BY <1>1, CallIs
<1> QED
  BY <1>3, <1>4

-----------------------------------------------------------------------------
\* && || ?: and commas.
LEMMA BranchOrderly ==
  ASSUME NEW p, IsPart(p), NEW s, NEW m, Reading(s, 2, 3, m), NEW P, P = Part(1, p)
  PROVE  Orderly(P.calls) /\ (P.kind = "value" => Orderly(After(P, s).calls))
<1>1. Reading(P, 1, 1, m)
  BY PartReading
<1>2. Going(s, 1 + 1, m)
  <2>1. 1 + 1 = 2 /\ Going(s, 2, m)
    BY ReadingGoing
  <2> QED
    BY <2>1
<1>3. P.kind = "value" => Going(After(P, s), 1, m)
  BY <1>1, <1>2, ThenGoing
<1> QED
  BY <1>1, <1>3 DEF Going, Reading

LEMMA LaterReading ==
  ASSUME NEW p, IsPart(p), NEW k \in {2, 3}, NEW m
  PROVE  Reading(Part(k, p), 2, 3, m)
<1>1. k \in Int /\ 2 <= k /\ k <= 3
  OBVIOUS
<1>2. Reading(Part(k, p), k, k, m)
  BY <1>1, PartReading
<1> QED
  BY <1>1, <1>2, ReadingWider

LEMMA LogicalOrderly ==
  ASSUME NEW x, IsPart(x.left), IsPart(x.right)
  PROVE  Orderly(LogicalExpression(x).calls)
<1>1. PICK P, v, s : /\ P = Part(1, x.left) /\ v = P.value
                     /\ s = IF (x.op = "&&") # ToBoolean(v) THEN Gives(v) ELSE Part(2, x.right)
  OBVIOUS
<1>2. LogicalExpression(x) = IF P.kind = "value" THEN After(P, s) ELSE P
  BY <1>1 DEF LogicalExpression, Then
<1>3. PICK m : m = Undefined
  OBVIOUS
<1>4. Reading(Gives(v), 2, 3, m)
  BY SimpleGives, NothingReading
<1>5. Reading(Part(2, x.right), 2, 3, m)
  BY LaterReading
<1>6. Reading(s, 2, 3, m)
  BY <1>1, <1>4, <1>5
<1>7. Orderly(P.calls) /\ (P.kind = "value" => Orderly(After(P, s).calls))
  BY <1>1, <1>6, BranchOrderly
<1> QED
  BY <1>2, <1>7

LEMMA ConditionalOrderly ==
  ASSUME NEW x, IsPart(x.test), IsPart(x.consequent), IsPart(x.alternate)
  PROVE  Orderly(ConditionalExpression(x).calls)
<1>1. PICK P, v, s : /\ P = Part(1, x.test) /\ v = P.value
                     /\ s = IF ToBoolean(v) THEN Part(2, x.consequent) ELSE Part(3, x.alternate)
  OBVIOUS
<1>2. ConditionalExpression(x) = IF P.kind = "value" THEN After(P, s) ELSE P
  BY <1>1 DEF ConditionalExpression, Then
<1>3. PICK m : m = Undefined
  OBVIOUS
<1>4. Reading(Part(2, x.consequent), 2, 3, m) /\ Reading(Part(3, x.alternate), 2, 3, m)
  BY LaterReading
<1>5. Reading(s, 2, 3, m)
  BY <1>1, <1>4
<1>6. Orderly(P.calls) /\ (P.kind = "value" => Orderly(After(P, s).calls))
  BY <1>1, <1>5, BranchOrderly
<1> QED
  BY <1>2, <1>6

LEMMA SequenceOrderly ==
  ASSUME NEW x, x.parts \in Lists
  PROVE  Orderly(SequenceExpression(x).calls)
<1>1. PICK A, s : A = Arguments(x.parts, 0) /\ s = Gives(A.value[Len(A.value)])
  OBVIOUS
<1>2. SequenceExpression(x) = IF A.kind = "value" THEN After(A, s) ELSE A
  BY <1>1 DEF SequenceExpression, Then
<1>3. PICK n \in Nat : n = Len(x.parts)
  BY ListIs
<1>4. PICK m : m = Undefined
  OBVIOUS
<1>5. Reading(A, 1, n, m)
  <2>1. PICK parts \in Lists, before \in Int : parts = x.parts /\ before = 0
    OBVIOUS
  <2>2. Reading(Arguments(parts, before), before + 1, before + Len(parts), m)
    BY ArgumentsReading
  <2>3. before + 1 = 1 /\ before + Len(parts) = n
    BY <1>3, <2>1
  <2> QED
    BY <1>1, <2>1, <2>2, <2>3
<1>6. Reading(s, n + 1, n, m)
  BY <1>1, SimpleGives, NothingReading
<1>7. A.kind = "value" => Reading(After(A, s), 1, n, m)
  <2>1. 1 <= n + 1 /\ n <= n
    OBVIOUS
  <2> QED
    BY <1>5, <1>6, <2>1, ThenReading
<1> QED
  BY <1>2, <1>5, <1>7 DEF Reading

-----------------------------------------------------------------------------
LEMMA KeyIs ==
  ASSUME NEW q \in Keys
  PROVE  IsKey(q)
BY DEF IsKey, IsPart

LEMMA ExpressionOrderly ==
  ASSUME NEW x \in AllExpressions, NEW o \in EvalExpression(x)
  PROVE  Orderly(o.calls)
<1>0. \A p \in Parts : IsPart(p)
  BY DEF IsPart
<1>1. CASE x \in [form : {"member", "delete"}, object : Parts, property : Keys]
  <2>1. IsPart(x.object) /\ IsKey(x.property)
    BY <1>0, <1>1, KeyIs
  <2>2. CASE x.form = "member"
    <3>1. o = MemberExpression(x)
      BY <2>2 DEF EvalExpression
    <3>2. PICK m : m = Member(x).value
      OBVIOUS
    <3>3. Reading(o, 1, 2, m)
      BY <2>1, <3>1, <3>2, MemberExpressionReading
    <3> QED
      BY <3>3 DEF Reading
  <2>3. CASE x.form = "delete"
    <3>1. o = ApplyDeleteOperator(x)
      BY <2>3 DEF EvalExpression
    <3> QED
      BY <2>1, <3>1, DeleteGoing
  <2> QED
    BY <1>1, <2>2, <2>3
<1>2. CASE x \in [form : {"assignment"}, op : {"="} \cup Arithmetic, object : Parts, property : Keys, right : Parts]
  <2>1. /\ IsPart(x.object) /\ IsKey(x.property) /\ IsPart(x.right)
        /\ x.op = "=" \/ x.op \in Arithmetic
        /\ x.form = "assignment"
    BY <1>0, <1>2, KeyIs
  <2>2. o \in AssignmentExpression(x)
    BY <2>1 DEF EvalExpression
  <2> QED
    BY <2>1, <2>2, AssignmentGoing
<1>3. CASE x \in [form : {"update"}, op : {"++", "--"}, object : Parts, property : Keys, prefix : BOOLEAN]
  <2>1. IsPart(x.object) /\ IsKey(x.property) /\ x.form = "update"
    BY <1>0, <1>3, KeyIs
  <2>2. o = UpdateExpression(x)
    BY <2>1 DEF EvalExpression
  <2> QED
    BY <2>1, <2>2, UpdateGoing
<1>4. CASE x \in [form : {"callMember"}, object : Parts, property : Keys, arguments : Lists]
  <2>1. IsPart(x.object) /\ IsKey(x.property) /\ x.form = "callMember" /\ x.arguments \in Lists
    BY <1>0, <1>4, KeyIs
  <2>2. o = CallExpression(x)
    BY <2>1 DEF EvalExpression
  <2> QED
    BY <2>1, <2>2, CallOrderly
<1>5. CASE x \in [form : {"call", "new"}, callee : Parts, arguments : Lists]
  <2>1. IsPart(x.callee) /\ x.form \in {"call", "new"} /\ x.arguments \in Lists
    BY <1>0, <1>5
  <2>2. CASE x.form = "call"
    <3>1. o = CallExpression(x)
      BY <2>2 DEF EvalExpression
    <3> QED
      BY <2>1, <2>2, <3>1, CallOrderly
  <2>3. CASE x.form = "new"
    <3>1. o = NewExpression(x)
      BY <2>3 DEF EvalExpression
    <3> QED
      BY <2>1, <3>1, NewOrderly
  <2> QED
    BY <2>1, <2>2, <2>3
<1>6. CASE x \in [form : {"logical"}, op : {"&&", "||"}, left : Parts, right : Parts]
  <2>1. IsPart(x.left) /\ IsPart(x.right) /\ x.form = "logical"
    BY <1>0, <1>6
  <2>2. o = LogicalExpression(x)
    BY <2>1 DEF EvalExpression
  <2> QED
    BY <2>1, <2>2, LogicalOrderly
<1>7. CASE x \in [form : {"conditional"}, test : Parts, consequent : Parts, alternate : Parts]
  <2>1. IsPart(x.test) /\ IsPart(x.consequent) /\ IsPart(x.alternate) /\ x.form = "conditional"
    BY <1>0, <1>7
  <2>2. o = ConditionalExpression(x)
    BY <2>1 DEF EvalExpression
  <2> QED
    BY <2>1, <2>2, ConditionalOrderly
<1>8. CASE x \in [form : {"sequence"}, parts : Lists \ {<<>>}]
  <2>1. x.parts \in Lists /\ x.form = "sequence"
    BY <1>8
  <2>2. o = SequenceExpression(x)
    BY <2>1 DEF EvalExpression
  <2> QED
    BY <2>1, <2>2, SequenceOrderly
<1> QED
  BY <1>1, <1>2, <1>3, <1>4, <1>5, <1>6, <1>7, <1>8 DEF AllExpressions

\* What an expression came to is one of its outcomes.
ExpressionInv ==
  expression # NoExpression =>
    /\ expression.of \in AllExpressions
    /\ expression.outcome \in EvalExpression(expression.of)

LEMMA ExpressionInductive == ExpressionSpec => []ExpressionInv
<1>1. ExpressionInit => ExpressionInv
  BY DEF ExpressionInit, ExpressionInv
<1>2. ExpressionInv /\ [ExpressionNext]_<<evaluation, expression>> => ExpressionInv'
  <2> SUFFICES ASSUME ExpressionInv, [ExpressionNext]_<<evaluation, expression>>
               PROVE  ExpressionInv'
    OBVIOUS
  <2>1. CASE UNCHANGED expression
    BY <2>1 DEF ExpressionInv
  <2>2. CASE EvaluateExpression
    <3>1. PICK x \in AllExpressions : \E o \in EvalExpression(x) :
            expression' = [form |-> x.form, of |-> x, outcome |-> o]
      BY <2>2 DEF EvaluateExpression
    <3>2. PICK o \in EvalExpression(x) : expression' = [form |-> x.form, of |-> x, outcome |-> o]
      BY <3>1
    <3>3. expression'.of = x /\ expression'.outcome = o
      BY <3>2
    <3> QED
      BY <3>3 DEF ExpressionInv
  <2>3. CASE Finish
    BY <2>3 DEF Finish, ExpressionInv
  <2> QED
    BY <2>1, <2>2, <2>3 DEF ExpressionNext
<1> QED
  BY <1>1, <1>2, PTL DEF ExpressionSpec

\* Whatever the expression, nothing happens after an exception, its parts are
\* evaluated once each and from the left, and what writes, deletes or calls comes
\* last, to what was read (evalast.cc 483-513, 837-1056, 1171-1190).
THEOREM EventsComeInOrder == ExpressionSpec => []EventsInOrder
<1>1. ExpressionInv => EventsInOrder
  <2> SUFFICES ASSUME ExpressionInv, expression # NoExpression
               PROVE  Orderly(expression.outcome.calls)
    BY DEF EventsInOrder, Orderly, InOrder
  <2>1. PICK x, o : x = expression.of /\ o = expression.outcome
    OBVIOUS
  <2>2. x \in AllExpressions /\ o \in EvalExpression(x)
    BY <2>1 DEF ExpressionInv
  <2> QED
    BY <2>1, <2>2, ExpressionOrderly
<1> QED
  BY <1>1, ExpressionInductive, PTL

-----------------------------------------------------------------------------
\* Expressions and the standard.
LEMMA GivesAfter ==
  ASSUME NEW s, Formed(s), NEW v
  PROVE  After(Gives(v), s) = s
<1>1. PICK n : n = <<>>
  OBVIOUS
<1>2. Gives(v).calls = n
  BY <1>1 DEF Gives
<1>3. Listed(n)
  BY <1>1, NoneListed
<1>4. After(Gives(v), s) = Ending(s.kind, s.value, n \o s.calls)
  BY <1>2, <1>3, AfterFormed
<1>5. n \o s.calls = s.calls
  BY <1>1, NothingConcat DEF Formed
<1> QED
  BY <1>4, <1>5 DEF Formed

\* What happens before, and then an outcome with nothing on the way.
LEMMA AfterQuiet ==
  ASSUME NEW r, Listed(r.calls), NEW s, Simple(s)
  PROVE  After(r, s) = Ending(s.kind, s.value, r.calls)
<1>1. PICK c, n, g : c = r.calls /\ n = <<>> /\ g = c \o n
  OBVIOUS
<1>2. g = c
  BY <1>1, NothingConcat
<1>3. Formed(s) /\ s.calls = n
  BY <1>1, SimpleFormed
<1>5. After(r, s) = Ending(s.kind, s.value, c \o n)
  BY <1>1, <1>3, AfterFormed
<1> QED
  BY <1>1, <1>2, <1>5

LEMMA AfterComes ==
  ASSUME NEW r, Listed(r.calls), NEW v
  PROVE  After(r, Gives(v)) = Ending("value", v, r.calls) /\ After(r, Throws) = Ending("throws", Undefined, r.calls)
<1>1. Simple(Gives(v)) /\ Gives(v).kind = "value" /\ Gives(v).value = v
  BY SimpleGives
<1>2. Simple(Throws) /\ Throws.kind = "throws" /\ Throws.value = Undefined
  BY SimpleGives
<1>3. After(r, Gives(v)) = Ending("value", v, r.calls)
  BY <1>1, AfterQuiet
<1>4. After(r, Throws) = Ending("throws", Undefined, r.calls)
  BY <1>2, AfterQuiet
<1> QED
  BY <1>3, <1>4

LEMMA PartFormed ==
  ASSUME NEW p, IsPart(p), NEW k \in Int
  PROVE  Formed(Part(k, p))
<1>1. PICK m : m = Undefined
  OBVIOUS
<1> QED
  BY <1>1, PartReading DEF Reading

\* The property of a member before it becomes a name.
Property(q) == IF q = Fixed THEN Gives(Str(Fixed.name)) ELSE Part(2, q)
Spelt(q) == q.kind = "value" => ~Misspelt(ToPrimitive(q.value, "string").value)

LEMMA FixedIs ==
  /\ Fixed.kind = "fixed"
  /\ \A t : ES5Primitive(Str(t), "string") = Gives(Str(t)) /\ ES5Text(Str(t)) = t
<1>1. \A t : Str(t).is = "string" /\ Str(t).text = t
  BY DEF Str
<1>2. \A t : ES5Primitive(Str(t), "string") = Gives(Str(t))
  BY <1>1 DEF ES5Primitive, IsObject
<1>3. \A t : ES5Text(Str(t)) = t
  BY <1>1 DEF ES5Text, IsNumber, PrimitiveToString, IsNothing, IsString
<1>4. Fixed.kind = "fixed"
  BY DEF Fixed
<1> QED
  BY <1>2, <1>3, <1>4

LEMMA NameAsES5 ==
  ASSUME NEW q, IsKey(q), Spelt(q), NEW Q, Q = Property(q), NEW N, N = Name(2, q),
         NEW Z, Z = ES5Primitive(Q.value, "string")
  PROVE  /\ Formed(Q)
         /\ Q.kind # "value" => N = Q
         /\ Q.kind = "value" =>
              /\ Formed(Z)
              /\ Z.kind # "value" => N = After(Q, Z)
              /\ Z.kind = "value" => N = After(Q, After(Z, Gives(Str(ES5Text(Z.value)))))
<1>1. CASE q = Fixed
  <2>1. PICK t, w : t = Fixed.name /\ w = Str(t)
    OBVIOUS
  <2>2. Q = Gives(w) /\ N = Gives(w)
    BY <1>1, <2>1, NameIs DEF Property
  <2>3. Formed(Q) /\ Q.kind = "value" /\ Q.value = w
    BY <2>2, SimpleGives, SimpleFormed
  <2>4. Z = Gives(w) /\ ES5Text(w) = t
    BY <2>1, <2>3, FixedIs
  <2>5. Formed(Z) /\ Z.kind = "value" /\ Z.value = w
    BY <2>4, SimpleGives, SimpleFormed
  <2>6. After(Q, After(Z, Gives(w))) = Gives(w)
    BY <2>2, <2>4, GivesThen
  <2> QED
    BY <2>1, <2>2, <2>3, <2>4, <2>5, <2>6
<1>2. CASE q # Fixed
  <2>1. IsPart(q) /\ Q = Part(2, q)
    BY <1>2 DEF IsKey, Property
  <2>2. Formed(Q) /\ Q.kind = q.kind /\ (q.kind = "value" => Q.value = q.value)
    BY <2>1, PartFormed, PartParts
  <2>3. /\ q.kind = "value" => N = After(Q, ToString(q.value))
        /\ q.kind # "value" => N = Q
    BY <1>2, <2>1, NameIs
  <2>4. CASE q.kind = "value"
    <3>1. PICK v \in Value : v = q.value
      BY <2>1, <2>4, PartIs
    <3>2. PICK P : P = ToPrimitive(v, "string")
      OBVIOUS
    <3>3. Z = P
      BY <2>2, <2>4, <3>1, <3>2, PrimitiveAsES5
    <3>4. WellFormed(P) /\ Converts(P)
      BY <3>2, PrimitiveWellFormed, PrimitiveConverts
    <3>5. Formed(P)
      BY <3>4 DEF WellFormed, Formed, Listed
    <3>6. ToString(v) = IF P.kind = "value" THEN After(P, Gives(Str(PrimitiveToString(P.value)))) ELSE P
      BY <3>2 DEF ToString, Then
    <3>7. P.kind = "value" => PrimitiveToString(P.value) = ES5Text(P.value)
      <4>1. ~Misspelt(P.value)
        BY <2>4, <3>1, <3>2 DEF Spelt
      <4>2. P.kind = "value" => P.value \in Value /\ ~IsObject(P.value)
        BY <3>4 DEF Converts
      <4> QED
        BY <4>1, <4>2, TextIs
    <3> QED
      BY <2>2, <2>3, <2>4, <3>1, <3>3, <3>5, <3>6, <3>7
  <2> QED
    BY <2>2, <2>3, <2>4
<1> QED
  BY <1>1, <1>2

LEMMA ES5MemberIs ==
  ASSUME NEW x, IsPart(x.object), IsKey(x.property),
         NEW P, P = Part(1, x.object), NEW Q, Q = Property(x.property), NEW v, v = x.object.value,
         NEW Z, Z = ES5Primitive(Q.value, "string")
  PROVE  /\ x.object.kind # "value" => ES5Member(x) = P
         /\ x.object.kind = "value" /\ Q.kind # "value" => ES5Member(x) = After(P, Q)
         /\ x.object.kind = "value" /\ Q.kind = "value" /\ IsNothing(v) =>
              ES5Member(x) = After(P, After(Q, Throws))
         /\ x.object.kind = "value" /\ Q.kind = "value" /\ ~IsNothing(v) =>
              /\ Z.kind # "value" => ES5Member(x) = After(P, After(Q, Z))
              /\ Z.kind = "value" =>
                   ES5Member(x) = After(P, After(Q, After(Z, Gives(MemberRecord(v, ES5Text(Z.value))))))
<1> DEFINE Last(u, p) == Then(ES5Primitive(p, "string"), LAMBDA n : Gives(MemberRecord(u, ES5Text(n))))
           Checked(u, p) == IF IsNothing(u) THEN Throws ELSE Last(u, p)
           Named2(u) == Then(Property(x.property), LAMBDA p : Checked(u, p))
<1>1. ES5Member(x) = IF P.kind = "value" THEN After(P, Named2(P.value)) ELSE P
  BY DEF ES5Member, Then, Property, MemberRecord
<1>2. Named2(v) = IF Q.kind = "value" THEN After(Q, Checked(v, Q.value)) ELSE Q
  <2> HIDE DEF Checked
  <2> QED
    BY DEF Then
<1>3. Last(v, Q.value) = IF Z.kind = "value" THEN After(Z, Gives(MemberRecord(v, ES5Text(Z.value)))) ELSE Z
  BY DEF Then
<1>4. P.kind = x.object.kind /\ (P.kind = "value" => P.value = v)
  BY PartParts
<1>5. Checked(v, Q.value) = IF IsNothing(v) THEN Throws ELSE Last(v, Q.value)
  OBVIOUS
<1> HIDE DEF Last, Checked, Named2
<1> QED
  BY <1>1, <1>2, <1>3, <1>4, <1>5

LEMMA MemberAsES5 ==
  ASSUME NEW x, IsPart(x.object), IsKey(x.property), Spelt(x.property),
         ~(/\ x.object.kind = "value" /\ x.property.kind = "value"
           /\ IsNothing(x.object.value) /\ IsObject(x.property.value))
  PROVE  ES5Member(x) = Member(x)
<1>1. PICK P, q, Q, N, v, Z : /\ P = Part(1, x.object) /\ q = x.property /\ Q = Property(q)
                              /\ N = Name(2, q) /\ v = x.object.value /\ Z = ES5Primitive(Q.value, "string")
  OBVIOUS
<1>2. /\ Formed(Q)
      /\ Q.kind # "value" => N = Q
      /\ Q.kind = "value" =>
           /\ Formed(Z)
           /\ Z.kind # "value" => N = After(Q, Z)
           /\ Z.kind = "value" => N = After(Q, After(Z, Gives(Str(ES5Text(Z.value)))))
  BY <1>1, NameAsES5
<1>3. /\ x.object.kind # "value" => ES5Member(x) = P
      /\ x.object.kind = "value" /\ Q.kind # "value" => ES5Member(x) = After(P, Q)
      /\ x.object.kind = "value" /\ Q.kind = "value" /\ IsNothing(v) =>
           ES5Member(x) = After(P, After(Q, Throws))
      /\ x.object.kind = "value" /\ Q.kind = "value" /\ ~IsNothing(v) =>
           /\ Z.kind # "value" => ES5Member(x) = After(P, After(Q, Z))
           /\ Z.kind = "value" =>
                ES5Member(x) = After(P, After(Q, After(Z, Gives(MemberRecord(v, ES5Text(Z.value))))))
  BY <1>1, ES5MemberIs
<1>4. /\ x.object.kind # "value" => Member(x) = P
      /\ x.object.kind = "value" /\ N.kind # "value" => Member(x) = After(P, N)
      /\ x.object.kind = "value" /\ N.kind = "value" /\ IsNothing(v) => Member(x) = After(P, After(N, Throws))
      /\ x.object.kind = "value" /\ N.kind = "value" /\ ~IsNothing(v) =>
           Member(x) = After(P, After(N, Gives(MemberRecord(v, N.value.text))))
  BY <1>1, MemberIs
<1>5. CASE x.object.kind # "value"
  BY <1>3, <1>4, <1>5
<1>6. CASE x.object.kind = "value" /\ Q.kind # "value"
  BY <1>2, <1>3, <1>4, <1>6
<1>7. CASE x.object.kind = "value" /\ Q.kind = "value" /\ Z.kind # "value"
  <2>1. ~IsNothing(v)
    <3>1. q # Fixed
      <4>1. q = Fixed => Q = Gives(Str(Fixed.name)) /\ Q.value = Str(Fixed.name)
        BY <1>1, SimpleGives DEF Property
      <4>2. q = Fixed => Z = Gives(Str(Fixed.name))
        BY <1>1, <4>1, FixedIs
      <4> QED
        BY <1>7, <4>2, SimpleGives
    <3>2. IsPart(q) /\ Q = Part(2, q)
      BY <1>1, <3>1 DEF IsKey, Property
    <3>3. q.kind = "value" /\ Q.value = q.value
      BY <1>7, <3>2, PartParts
    <3>4. ~IsObject(q.value) => Z = Gives(q.value)
      BY <1>1, <3>3 DEF ES5Primitive
    <3>5. IsObject(q.value)
      BY <1>7, <3>4, SimpleGives
    <3> QED
      BY <1>1, <1>7, <3>3, <3>5
  <2>2. N = After(Q, Z)
    BY <1>2, <1>7
  <2>3. N.kind # "value"
    <3>1. After(Q, Z).kind = Z.kind
      BY <1>2, <1>7, AfterFormed DEF Formed
    <3> QED
      BY <1>7, <2>2, <3>1
  <2> QED
    BY <1>3, <1>4, <1>7, <2>1, <2>2, <2>3
<1>8. CASE x.object.kind = "value" /\ Q.kind = "value" /\ Z.kind = "value"
  <2>1. PICK t, w, y, Y : t = ES5Text(Z.value) /\ w = Str(t) /\ y = Gives(w) /\ Y = After(Z, y)
    OBVIOUS
  <2>0. PICK th : th = Throws
    OBVIOUS
  <2>2. PICK c, d, g : c = Q.calls /\ d = Z.calls /\ g = c \o d
    OBVIOUS
  <2>3. Listed(c) /\ Listed(d) /\ Listed(g) /\ Formed(Z)
    <3>1. Listed(c) /\ Listed(d) /\ Formed(Z)
      BY <1>2, <1>8, <2>2 DEF Formed
    <3> QED
      BY <2>2, <3>1, ListedConcat
  <2>4. Y = Ending("value", w, d)
    BY <2>0, <2>1, <2>2, <2>3, AfterComes
  <2>5. Formed(Y) /\ Y.kind = "value" /\ Y.value = w /\ Y.calls = d
    BY <2>3, <2>4, FormedEnding, EndingParts
  <2>6. N = Ending("value", w, g)
    <3>1. N = After(Q, Y)
      BY <1>2, <1>8, <2>1
    <3>2. After(Q, Y) = Ending(Y.kind, Y.value, Q.calls \o Y.calls)
      BY <2>2, <2>3, <2>5, AfterFormed
    <3> QED
      BY <2>2, <2>5, <3>1, <3>2
  <2>7. N.kind = "value" /\ N.value = w /\ N.calls = g /\ N.value.text = t
    <3>1. N.kind = "value" /\ N.value = w /\ N.calls = g
      BY <2>6, EndingParts
    <3>2. w.text = t
      BY <2>1 DEF Str
    <3> QED
      BY <3>1, <3>2
  <2>8. PICK rec, k : rec = MemberRecord(v, t) /\ k = Gives(rec)
    OBVIOUS
  <2>9. After(N, k) = After(Q, After(Z, k))
    <3>1. After(N, k) = Ending("value", rec, g)
      BY <2>0, <2>3, <2>7, <2>8, AfterComes
    <3>2. PICK T : T = After(Z, k)
      OBVIOUS
    <3>3. T = Ending("value", rec, d)
      BY <2>0, <2>2, <2>3, <2>8, <3>2, AfterComes
    <3>4. Formed(T) /\ T.kind = "value" /\ T.value = rec /\ T.calls = d
      BY <2>3, <3>3, FormedEnding, EndingParts
    <3>5. After(Q, T) = Ending(T.kind, T.value, Q.calls \o T.calls)
      BY <2>2, <2>3, <3>4, AfterFormed
    <3> QED
      BY <2>2, <3>1, <3>2, <3>4, <3>5
  <2>10. CASE ~IsNothing(v)
    BY <1>3, <1>4, <1>8, <2>1, <2>7, <2>8, <2>9, <2>10
  <2>11. CASE IsNothing(v)
    <3>1. ES5Member(x) = After(P, After(Q, Throws)) /\ Member(x) = After(P, After(N, Throws))
      BY <1>3, <1>4, <1>8, <2>7, <2>11
    <3>2. Z.calls = <<>>
      <4>1. ~IsObject(Q.value)
        <5>1. CASE q = Fixed
          <6>1. Q.value = Str(Fixed.name)
            BY <1>1, <5>1, SimpleGives DEF Property
          <6> QED
            BY <6>1 DEF Str, IsObject
        <5>2. CASE q # Fixed
          <6>1. IsPart(q) /\ Q = Part(2, q)
            BY <1>1, <5>2 DEF IsKey, Property
          <6>2. q.kind = "value" /\ Q.value = q.value
            BY <1>8, <6>1, PartParts
          <6> QED
            BY <1>1, <1>8, <2>11, <6>2
        <5> QED
          BY <5>1, <5>2
      <4>2. Z = Gives(Q.value)
        BY <1>1, <4>1 DEF ES5Primitive
      <4> QED
        BY <4>2 DEF Gives
    <3>3. g = c
      BY <2>2, <2>3, <3>2, NothingConcat
    <3>4. After(Q, th) = Ending("throws", Undefined, c) /\ After(N, th) = Ending("throws", Undefined, g)
      BY <2>0, <2>1, <2>2, <2>3, <2>7, AfterComes
    <3> QED
      BY <2>0, <3>1, <3>3, <3>4
  <2> QED
    BY <2>10, <2>11
<1> QED
  BY <1>5, <1>6, <1>7, <1>8

LEMMA MemberSame ==
  ASSUME NEW x, ES5Member(x) = Member(x)
  PROVE  Then(ES5Member(x), ES5Get) = MemberExpression(x)
<1>1. PICK M : M = Member(x)
  OBVIOUS
<1>2. MemberExpression(x) = IF M.kind = "value" THEN After(M, Get(M.value.object, M.value.name)) ELSE M
  BY <1>1 DEF MemberExpression, Then
<1>3. Then(ES5Member(x), ES5Get) = IF M.kind = "value" THEN After(M, Get(M.value.object, M.value.name)) ELSE M
  BY <1>1 DEF Then, ES5Get
<1> QED
  BY <1>2, <1>3

\* The outcomes are the same, but for their values.
Likewise(r, o) == r.kind = o.kind /\ r.calls = o.calls

LEMMA AfterLikewise ==
  ASSUME NEW r, NEW s, NEW t, Formed(s), Formed(t), Listed(r.calls), Likewise(s, t)
  PROVE  Likewise(After(r, s), After(r, t)) /\ Formed(After(r, s)) /\ Formed(After(r, t))
<1>1. PICK c, d, g : c = r.calls /\ d = s.calls /\ g = c \o d
  OBVIOUS
<1>2. d = t.calls /\ s.kind = t.kind
  BY <1>1 DEF Likewise
<1>3. After(r, s).calls = c \o d /\ After(r, s).kind = s.kind /\ Formed(After(r, s))
  BY <1>1, AfterFormed
<1>4. After(r, t).calls = c \o d /\ After(r, t).kind = t.kind /\ Formed(After(r, t))
  BY <1>1, <1>2, AfterFormed
<1> QED
  BY <1>2, <1>3, <1>4 DEF Likewise

LEMMA DeleteSame ==
  ASSUME NEW x, IsPart(x.object), IsKey(x.property), ES5Member(x) = Member(x)
  PROVE  Likewise(Then(ES5Member(x), LAMBDA m :
                    Then(Delete(m.object, m.name), LAMBDA d : Gives(Bool(TRUE)))),
                  ApplyDeleteOperator(x))
<1>1. PICK M, m : M = Member(x) /\ m = M.value
  OBVIOUS
<1>2. PICK e, does, D : /\ e = DeleteEvent(m.object, m.name) /\ does = PutGives[Id(m.object)]
                        /\ D = Event(e, Comes(does))
  OBVIOUS
<1>3. D = Delete(m.object, m.name)
  BY <1>2 DEF Delete, DeleteEvent
<1>4. PICK a, b : a = Gives(Bool(TRUE)) /\ b = Gives(Bool(FALSE))
  OBVIOUS
<1> DEFINE Done(n, z) == IF Delete(n.object, n.name).kind = "value" THEN After(Delete(n.object, n.name), z) ELSE Delete(n.object, n.name)
           Ours == Then(Member(x), LAMBDA n : Then(Delete(n.object, n.name), LAMBDA d : Gives(Bool(FALSE))))
           Theirs == Then(ES5Member(x), LAMBDA n : Then(Delete(n.object, n.name), LAMBDA d : Gives(Bool(TRUE))))
<1>5. Ours = IF M.kind = "value" THEN After(M, Done(m, b)) ELSE M
  BY <1>1, <1>4 DEF Then
<1>6. Theirs = IF M.kind = "value" THEN After(M, Done(m, a)) ELSE M
  BY <1>1, <1>4 DEF Then
<1>7. /\ Done(m, a) = IF D.kind = "value" THEN After(D, a) ELSE D
      /\ Done(m, b) = IF D.kind = "value" THEN After(D, b) ELSE D
  BY <1>3
<1>8. ApplyDeleteOperator(x) = Ours
  BY DEF ApplyDeleteOperator
<1> HIDE DEF Done, Ours
<1>9. Formed(a) /\ Formed(b) /\ Likewise(a, b)
  BY <1>4, SimpleGives, SimpleFormed DEF Likewise
<1>10. Formed(D)
  <2>1. LastEvent(e, m)
    BY <1>2 DEF LastEvent
  <2>2. \A lo : Going(D, lo, m)
    BY <1>2, <2>1, LastGoing
  <2> QED
    BY <2>2 DEF Going
<1>11. Formed(Done(m, a)) /\ Formed(Done(m, b)) /\ Likewise(Done(m, a), Done(m, b))
  <2>1. Likewise(D, D) /\ Listed(D.calls)
    BY <1>10 DEF Likewise, Formed
  <2>2. Likewise(After(D, a), After(D, b)) /\ Formed(After(D, a)) /\ Formed(After(D, b))
    BY <1>9, <2>1, AfterLikewise
  <2> QED
    BY <1>7, <1>10, <2>1, <2>2
<1>12. Formed(M) /\ Likewise(M, M) /\ Listed(M.calls)
  BY <1>1, MemberReading DEF Reading, Likewise, Formed
<1>13. Likewise(After(M, Done(m, a)), After(M, Done(m, b)))
  BY <1>11, <1>12, AfterLikewise
<1>14. Likewise(Theirs, Ours)
  BY <1>5, <1>6, <1>12, <1>13
<1> QED
  BY <1>8, <1>14

-----------------------------------------------------------------------------
LEMMA PartsAsES5 ==
  ASSUME NEW parts \in Lists, NEW before \in Int
  PROVE  ES5Parts(parts, before) = Arguments(parts, before)
<1>1. PICK k \in 0..MaxParts : parts \in [1..k -> Parts]
  BY DEF Lists
<1>2. k \in Nat /\ Len(parts) = k /\ DOMAIN parts = 1..k
  BY <1>1, PartsAssumption
<1>3. IsParts(parts, k)
  BY <1>2, ListIs
<1>4. Arguments(parts, before) = PartsUpTo(parts, before, k)
  BY <1>2, <1>3, ArgumentsAre
<1>5. PICK F, s, d : F = Failed(parts, k) /\ s = Stopped(parts, k) /\ d = EventsUpTo(parts, before, k)
  OBVIOUS
<1>6. F = {i \in DOMAIN parts : parts[i].kind = "throws"}
  BY <1>2, <1>5 DEF Failed
<1>7. s = IF F = {} THEN Len(parts) ELSE Min(F)
  BY <1>2, <1>5 DEF Stopped
<1>8. d = [i \in 1..s |-> [part |-> before + i, throws |-> i \in F]]
  BY <1>5 DEF EventsUpTo, PartEvent
<1>9. ES5Parts(parts, before) =
        [(IF F = {} THEN Gives([i \in DOMAIN parts |-> parts[i].value]) ELSE Throws) EXCEPT !.calls = d]
  BY <1>6, <1>7, <1>8 DEF ES5Parts
<1>10. \A v : [Gives(v) EXCEPT !.calls = d] = Ending("value", v, d)
  BY DEF Gives, Ending
<1>11. [Throws EXCEPT !.calls = d] = Ending("throws", Undefined, d)
  <2>1. PICK u : u = Undefined
    OBVIOUS
  <2>2. Throws = [kind |-> "throws", value |-> u, calls |-> <<>>]
    BY <2>1 DEF Throws
  <2> QED
    BY <2>1, <2>2 DEF Ending
<1>12. PartsUpTo(parts, before, k) =
         IF F = {} THEN Ending("value", [i \in 1..k |-> parts[i].value], d) ELSE Ending("throws", Undefined, d)
  BY <1>5 DEF PartsUpTo
<1>13. CASE F = {}
  BY <1>2, <1>4, <1>9, <1>10, <1>12, <1>13
<1>14. CASE F # {}
  BY <1>4, <1>9, <1>11, <1>12, <1>14
<1> QED
  BY <1>13, <1>14

LEMMA BranchesSame ==
  ASSUME NEW x
  PROVE  /\ x.form = "logical" /\ IsPart(x.left) => ES5Branches(x) = LogicalExpression(x)
         /\ x.form = "conditional" /\ IsPart(x.test) => ES5Branches(x) = ConditionalExpression(x)
         /\ x.form = "sequence" /\ x.parts \in Lists => ES5Branches(x) = SequenceExpression(x)
<1>1. ASSUME x.form = "logical", IsPart(x.left) PROVE ES5Branches(x) = LogicalExpression(x)
  <2>1. PICK P, v : P = Part(1, x.left) /\ v = P.value
    OBVIOUS
  <2>2. LogicalExpression(x) =
          IF P.kind = "value" THEN After(P, IF (x.op = "&&") # ToBoolean(v) THEN Gives(v) ELSE Part(2, x.right)) ELSE P
    BY <2>1 DEF LogicalExpression, Then
  <2>3. ES5Branches(x) =
          IF P.kind = "value" THEN After(P, IF ES5Boolean(v) = (x.op = "&&") THEN Part(2, x.right) ELSE Gives(v)) ELSE P
    BY <1>1, <2>1 DEF ES5Branches, Then
  <2>4. P.kind = "value" => ToBoolean(v) = ES5Boolean(v)
    <3>1. P.kind = "value" => v \in Value
      BY <1>1, <2>1, PartIs, PartParts
    <3> QED
      BY <3>1, BooleanAsES5
  <2>5. ES5Boolean(v) \in BOOLEAN
    BY DEF ES5Boolean
  <2>6. PICK t, b : t = ES5Boolean(v) /\ b = (x.op = "&&")
    OBVIOUS
  <2>7. (b # t) = ~(t = b)
    BY <2>6
  <2> QED
    BY <2>2, <2>3, <2>4, <2>6, <2>7
<1>2. ASSUME x.form = "conditional", IsPart(x.test) PROVE ES5Branches(x) = ConditionalExpression(x)
  <2>1. PICK P, v : P = Part(1, x.test) /\ v = P.value
    OBVIOUS
  <2>2. ConditionalExpression(x) =
          IF P.kind = "value" THEN After(P, IF ToBoolean(v) THEN Part(2, x.consequent) ELSE Part(3, x.alternate)) ELSE P
    BY <2>1 DEF ConditionalExpression, Then
  <2>3. ES5Branches(x) =
          IF P.kind = "value" THEN After(P, IF ES5Boolean(v) THEN Part(2, x.consequent) ELSE Part(3, x.alternate)) ELSE P
    BY <1>2, <2>1 DEF ES5Branches, Then
  <2>4. P.kind = "value" => ToBoolean(v) = ES5Boolean(v)
    <3>1. P.kind = "value" => v \in Value
      BY <1>2, <2>1, PartIs, PartParts
    <3> QED
      BY <3>1, BooleanAsES5
  <2> QED
    BY <2>2, <2>3, <2>4
<1>3. ASSUME x.form = "sequence", x.parts \in Lists PROVE ES5Branches(x) = SequenceExpression(x)
  <2>1. PICK A, B : A = Arguments(x.parts, 0) /\ B = ES5Parts(x.parts, 0)
    OBVIOUS
  <2>2. A = B
    <3>1. 0 \in Int
      OBVIOUS
    <3> QED
      BY <1>3, <2>1, <3>1, PartsAsES5
  <2>3. SequenceExpression(x) = IF A.kind = "value" THEN After(A, Gives(A.value[Len(A.value)])) ELSE A
    BY <2>1 DEF SequenceExpression, Then
  <2>4. ES5Branches(x) = IF B.kind = "value" THEN After(B, Gives(B.value[Len(B.value)])) ELSE B
    BY <1>3, <2>1 DEF ES5Branches, Then
  <2> QED
    BY <2>2, <2>3, <2>4
<1> QED
  BY <1>1, <1>2, <1>3

LEMMA StoresFormed ==
  ASSUME NEW m, NEW v, NEW result
  PROVE  Formed(Stores(m, v, result))
<1>1. PICK lo : lo = 1
  OBVIOUS
<1> QED
  BY <1>1, StoresGoing DEF Going

Writes(n, s) == IF s.kind = "value" THEN After(s, Stores(n, s.value, s.value)) ELSE s

LEMMA AssignmentSame ==
  ASSUME NEW x, IsPart(x.object), IsKey(x.property), IsPart(x.right), ES5Member(x) = Member(x)
  PROVE  ES5Assignment(x) = AssignmentExpression(x)
<1>1. PICK M, m : M = Member(x) /\ m = M.value
  OBVIOUS
<1>2. PICK G, l : G = Get(m.object, m.name) /\ l = G.value
  OBVIOUS
<1>3. PICK T, r : T = Part(3, x.right) /\ r = T.value
  OBVIOUS
<1> DEFINE Plain(n) == Then(Part(3, x.right), LAMBDA v : Stores(n, v, v))
           Ops(n, a, b) == {Then(s, LAMBDA v : Stores(n, v, v)) : s \in ApplyAssignmentOperator(x.op, a, b)}
           Right(n, a) == ThenAny(Part(3, x.right), LAMBDA b : Ops(n, a, b))
           Rest(n) == IF x.op = "=" THEN {Plain(n)} ELSE ThenAny(Get(n.object, n.name), LAMBDA a : Right(n, a))
           OpsES5(n, a, b) == {Then(s, LAMBDA v : Stores(n, v, v)) :
                                 s \in IF x.op = "=" THEN {Gives(b)} ELSE ApplyAssignmentOperator(x.op, a, b)}
           RightES5(n, a) == ThenAny(Part(3, x.right), LAMBDA b : OpsES5(n, a, b))
           RestES5(n) == ThenAny(IF x.op = "=" THEN Gives(Undefined) ELSE ES5Get(n), LAMBDA a : RightES5(n, a))
<1>4. Ops(m, l, r) = {Writes(m, s) : s \in ApplyAssignmentOperator(x.op, l, r)}
  BY DEF Then, Writes
<1>5. \A a : OpsES5(m, a, r) = {Writes(m, s) : s \in IF x.op = "=" THEN {Gives(r)} ELSE ApplyAssignmentOperator(x.op, a, r)}
  BY DEF Then, Writes
<1>6. Right(m, l) = IF T.kind = "value" THEN {After(T, s) : s \in Ops(m, l, r)} ELSE {T}
  <2> HIDE DEF Ops
  <2> QED
    BY <1>3 DEF ThenAny
<1>7. \A a : RightES5(m, a) = IF T.kind = "value" THEN {After(T, s) : s \in OpsES5(m, a, r)} ELSE {T}
  <2> HIDE DEF OpsES5
  <2> QED
    BY <1>3 DEF ThenAny
<1>8. Rest(m) = IF x.op = "=" THEN {Plain(m)}
                ELSE IF G.kind = "value" THEN {After(G, s) : s \in Right(m, l)} ELSE {G}
  <2> HIDE DEF Right, Plain
  <2> QED
    BY <1>2 DEF ThenAny
<1>9. x.op # "=" => RestES5(m) = IF G.kind = "value" THEN {After(G, s) : s \in RightES5(m, l)} ELSE {G}
  <2> HIDE DEF RightES5
  <2> QED
    BY <1>2 DEF ThenAny, ES5Get
<1>10. x.op = "=" => RestES5(m) = {After(Gives(Undefined), s) : s \in RightES5(m, Undefined)}
  <2>1. Gives(Undefined).kind = "value" /\ Gives(Undefined).value = Undefined
    BY SimpleGives
  <2> HIDE DEF RightES5
  <2> QED
    BY <2>1 DEF ThenAny
<1>11. AssignmentExpression(x) = IF M.kind = "value" THEN {After(M, s) : s \in Rest(m)} ELSE {M}
  BY <1>1 DEF AssignmentExpression, ThenAny
<1>12. ES5Assignment(x) = IF M.kind = "value" THEN {After(M, s) : s \in RestES5(m)} ELSE {M}
  <2>1. ES5Assignment(x) = ThenAny(ES5Member(x), RestES5)
    BY DEF ES5Assignment, Stores
  <2> HIDE DEF RestES5
  <2> QED
    BY <1>1, <2>1 DEF ThenAny
<1>13. Plain(m) = IF T.kind = "value" THEN After(T, Stores(m, r, r)) ELSE T
  BY <1>3 DEF Then
<1> HIDE DEF Plain, Ops, Right, Rest, OpsES5, RightES5, RestES5
<1>14. CASE x.op # "="
  <2>1. Ops(m, l, r) = OpsES5(m, l, r)
    BY <1>4, <1>5, <1>14
  <2>2. Right(m, l) = RightES5(m, l)
    BY <1>6, <1>7, <2>1
  <2>3. Rest(m) = RestES5(m)
    BY <1>8, <1>9, <1>14, <2>2
  <2> QED
    BY <1>11, <1>12, <2>3
<1>15. CASE x.op = "="
  <2>1. PICK u, g, w : u = Undefined /\ g = Gives(r) /\ w = Stores(m, r, r)
    OBVIOUS
  <2>2. Formed(w) /\ g.kind = "value" /\ g.value = r
    BY <2>1, StoresFormed, SimpleGives
  <2>3. Writes(m, g) = w
    <3>1. Writes(m, g) = After(Gives(r), w)
      BY <2>1, <2>2 DEF Writes
    <3> QED
      BY <2>2, <3>1, GivesAfter
  <2>4. OpsES5(m, u, r) = {w}
    <3>1. OpsES5(m, u, r) = {Writes(m, s) : s \in {g}}
      BY <1>5, <1>15, <2>1
    <3> QED
      BY <2>3, <3>1
  <2>5. RightES5(m, u) = {Plain(m)}
    <3>1. RightES5(m, u) = IF T.kind = "value" THEN {After(T, w)} ELSE {T}
      BY <1>7, <2>4
    <3> QED
      BY <1>13, <2>1, <3>1
  <2>6. Formed(Plain(m))
    <3>1. Formed(T) /\ Listed(T.calls)
      <4>1. 3 \in Int
        OBVIOUS
      <4> QED
        BY <1>3, <4>1, PartFormed DEF Formed
    <3>2. Formed(After(T, w))
      BY <2>2, <3>1, AfterFormed
    <3> QED
      BY <1>13, <2>1, <3>1, <3>2
  <2>7. After(Gives(Undefined), Plain(m)) = Plain(m)
    BY <2>6, GivesAfter
  <2>8. RestES5(m) = {Plain(m)}
    BY <1>10, <1>15, <2>1, <2>5, <2>7
  <2>9. Rest(m) = RestES5(m)
    BY <1>8, <1>15, <2>8
  <2> QED
    BY <1>11, <1>12, <2>9
<1> QED
  BY <1>14, <1>15

LEMMA UpdateSame ==
  ASSUME NEW x, IsPart(x.object), IsKey(x.property), ES5Member(x) = Member(x),
         MemberExpression(x).kind = "value" => IsNumber(MemberExpression(x).value)
  PROVE  ES5Update(x) = UpdateExpression(x)
<1>1. PICK M, m : M = Member(x) /\ m = M.value
  OBVIOUS
<1>2. PICK G, old : G = Get(m.object, m.name) /\ old = G.value
  OBVIOUS
<1>3. PICK U, v : U = ApplyUpdateOperator(x.op, old) /\ v = U.value
  OBVIOUS
<1> DEFINE Last(n, o, u) == Stores(n, u, IF x.prefix THEN u ELSE o)
           Updates(n, o) == Then(ApplyUpdateOperator(x.op, o), LAMBDA u : Last(n, o, u))
           Rest(n) == Then(Get(n.object, n.name), LAMBDA o : Updates(n, o))
           Converted(o) == IF IsNumber(o) THEN Gives(o) ELSE ToNumber(o)
           UpdatesES5(n, o) == Then(Converted(o), LAMBDA p : Updates(n, p))
           RestES5(n) == Then(ES5Get(n), LAMBDA o : UpdatesES5(n, o))
<1>4. Updates(m, old) = IF U.kind = "value" THEN After(U, Last(m, old, v)) ELSE U
  BY <1>3 DEF Then
<1>5. Rest(m) = IF G.kind = "value" THEN After(G, Updates(m, old)) ELSE G
  <2> HIDE DEF Updates
  <2> QED
    BY <1>2 DEF Then
<1>6. RestES5(m) = IF G.kind = "value" THEN After(G, UpdatesES5(m, old)) ELSE G
  <2> HIDE DEF UpdatesES5
  <2> QED
    BY <1>2 DEF Then, ES5Get
<1>7. UpdateExpression(x) = IF M.kind = "value" THEN After(M, Rest(m)) ELSE M
  BY <1>1 DEF UpdateExpression, Then
<1>8. ES5Update(x) = IF M.kind = "value" THEN After(M, RestES5(m)) ELSE M
  <2>1. ES5Update(x) = Then(ES5Member(x), RestES5)
    BY DEF ES5Update, Stores
  <2> HIDE DEF RestES5
  <2> QED
    BY <1>1, <2>1 DEF Then
<1>9. IsNumber(old) => UpdatesES5(m, old) = After(Gives(old), Updates(m, old))
  <2>1. Gives(old).kind = "value" /\ Gives(old).value = old
    BY SimpleGives
  <2> HIDE DEF Updates
  <2> QED
    BY <2>1 DEF Then
<1>10. PICK result : Last(m, old, v) = Stores(m, v, result)
  OBVIOUS
<1> HIDE DEF Last, Updates, Rest, UpdatesES5, RestES5
<1>11. Formed(Updates(m, old))
  <2>1. Formed(U) /\ Listed(U.calls)
    BY <1>3, SimpleGives, SimpleFormed DEF ApplyUpdateOperator, Formed
  <2>2. Formed(After(U, Last(m, old, v)))
    BY <1>10, <2>1, StoresFormed, AfterFormed
  <2> QED
    BY <1>4, <2>1, <2>2
<1>12. MemberExpression(x) = IF M.kind = "value" THEN After(M, G) ELSE M
  BY <1>1, <1>2 DEF MemberExpression, Then
<1>13. M.kind = "value" /\ G.kind = "value" => IsNumber(old)
  <2>1. Listed(M.calls) /\ Formed(G)
    <3>1. PICK k \in Int : k = 1
      OBVIOUS
    <3>2. Reading(M, 1, 2, m) /\ Reading(G, k, k, m)
      BY <1>1, <1>2, MemberReading, GetReading
    <3> QED
      BY <3>2 DEF Reading, Formed
  <2>2. PICK z : z = After(M, G)
    OBVIOUS
  <2>3. z.kind = G.kind /\ z.value = G.value
    BY <2>1, <2>2, AfterFormed
  <2> QED
    BY <1>2, <1>12, <2>2, <2>3
<1>14. M.kind = "value" => RestES5(m) = Rest(m)
  <2>1. IsNumber(old) => UpdatesES5(m, old) = Updates(m, old)
    BY <1>9, <1>11, GivesAfter
  <2> QED
    BY <1>5, <1>6, <1>13, <2>1
<1> QED
  BY <1>7, <1>8, <1>14

\* The callee in the standard, and what is done with it.
CalleeES5(x) ==
  IF x.form = "callMember"
  THEN Then(ES5Member(x), LAMBDA m : Then(ES5Get(m), LAMBDA f : Gives(<<f, m.this>>)))
  ELSE Then(Part(1, x.callee), LAMBDA f : Gives(<<f, Undefined>>))
InvokeES5(how, f, this, parts, before) ==
  Then(ES5Parts(parts, before), LAMBDA args : IF IsCallable(f) THEN Run(how, f, this, args) ELSE Throws)

LEMMA InvokeSame ==
  ASSUME NEW how, NEW u, NEW this, NEW parts \in Lists, NEW before \in Int,
         IsCallable(u) \/ parts = <<>>
  PROVE  InvokeES5(how, u, this, parts, before) = Invoke(how, u, this, parts, before)
<1>1. PICK A, v, C, f : /\ A = Arguments(parts, before) /\ v = A.value
                        /\ C = CheckCallable(u) /\ f = C.value
  OBVIOUS
<1>2. A = ES5Parts(parts, before)
  BY <1>1, PartsAsES5
<1> DEFINE Rest(g) == Then(Arguments(parts, before), LAMBDA args : Run(how, g, this, args))
<1>3. \A g : Rest(g) = IF A.kind = "value" THEN After(A, Run(how, g, this, v)) ELSE A
  BY <1>1 DEF Then
<1>4. Invoke(how, u, this, parts, before) = IF C.kind = "value" THEN After(C, Rest(f)) ELSE C
  BY <1>1 DEF Invoke, Then
<1>5. InvokeES5(how, u, this, parts, before) =
        IF A.kind = "value" THEN After(A, IF IsCallable(u) THEN Run(how, u, this, v) ELSE Throws) ELSE A
  BY <1>1, <1>2 DEF InvokeES5, Then
<1> HIDE DEF Rest
<1>6. CASE IsCallable(u)
  <2>1. C = Gives(u) /\ C.kind = "value" /\ f = u
    BY <1>1, <1>6, SimpleGives DEF CheckCallable
  <2>2. Formed(Rest(u))
    <3>1. PICK m : m = Undefined
      OBVIOUS
    <3>2. Reading(A, before + 1, before + Len(parts), m)
      BY <1>1, ArgumentsReading
    <3>3. Formed(A) /\ Listed(A.calls)
      BY <3>2 DEF Reading, Formed
    <3>4. Formed(Run(how, u, this, v))
      <4>1. PICK e, does : e = RunEvent(how, u, this, v) /\ does = CallGives[u.id]
        OBVIOUS
      <4>2. Run(how, u, this, v) = Event(e, Comes(does)) /\ LastEvent(e, m)
        BY <4>1 DEF Run, RunEvent, LastEvent
      <4>3. Going(Event(e, Comes(does)), before, m)
        BY <4>2, LastGoing
      <4> QED
        BY <4>2, <4>3 DEF Going
    <3>5. Formed(After(A, Run(how, u, this, v)))
      BY <3>3, <3>4, AfterFormed
    <3> QED
      BY <1>3, <3>3, <3>5
  <2>3. Invoke(how, u, this, parts, before) = Rest(u)
    <3>1. After(Gives(u), Rest(u)) = Rest(u)
      BY <2>2, GivesAfter
    <3> QED
      BY <1>4, <2>1, <3>1
  <2> QED
    BY <1>3, <1>5, <1>6, <2>3
<1>7. CASE ~IsCallable(u)
  <2>1. C = Throws /\ C.kind = "throws"
    BY <1>1, <1>7, SimpleGives DEF CheckCallable
  <2>2. Invoke(how, u, this, parts, before) = Throws
    BY <1>4, <2>1
  <2>3. parts = <<>> /\ Len(parts) = 0
    BY <1>7
  <2>4. A = Gives(<<>>)
    <3>1. IsParts(parts, 0) /\ 0 \in Nat
      BY DEF IsParts
    <3>2. Arguments(parts, before) = PartsUpTo(parts, before, 0)
      BY <2>3, <3>1, ArgumentsAre
    <3> QED
      BY <1>1, <3>2, NoPartIs
  <2>5. A.kind = "value" /\ After(A, Throws) = Throws
    BY <2>4, SimpleGives, GivesThen
  <2> QED
    BY <1>5, <1>7, <2>2, <2>5
<1> QED
  BY <1>6, <1>7

\* The values a callee gives in both.
Called(C, K, f, t) ==
  /\ C = Ending("value", [f |-> f, this |-> t], C.calls)
  /\ K = Ending("value", <<f, t>>, C.calls)

LEMMA PartCallee ==
  ASSUME NEW x, IsPart(x.callee), x.form \in {"call", "new"}, NEW P, P = Part(1, x.callee),
         NEW C, C = Callee(x), NEW K, K = CalleeES5(x)
  PROVE  /\ P.kind # "value" => C = P /\ K = P
         /\ P.kind = "value" => Called(C, K, P.value, Undefined) /\ C.calls = P.calls
<1>1. PICK f, r, s : f = P.value /\ r = [f |-> f, this |-> Undefined] /\ s = <<f, Undefined>>
  OBVIOUS
<1>2. C = IF P.kind = "value" THEN After(P, Gives(r)) ELSE P
  BY <1>1 DEF Callee, Then
<1>3. K = IF P.kind = "value" THEN After(P, Gives(s)) ELSE P
  BY <1>1 DEF CalleeES5, Then
<1>4. Listed(P.calls)
  <2>1. 1 \in Int
    OBVIOUS
  <2> QED
    BY <2>1, PartFormed DEF Formed
<1>5. After(P, Gives(r)) = Ending("value", r, P.calls) /\ After(P, Gives(s)) = Ending("value", s, P.calls)
  BY <1>4, AfterComes
<1>6. P.kind = "value" => C.calls = P.calls
  BY <1>2, <1>5, EndingParts
<1> QED
  BY <1>1, <1>2, <1>3, <1>5, <1>6 DEF Called

LEMMA MemberCallee ==
  ASSUME NEW x, IsPart(x.object), IsKey(x.property), x.form = "callMember", ES5Member(x) = Member(x),
         NEW Read, Read = MemberExpression(x), NEW C, C = Callee(x), NEW K, K = CalleeES5(x)
  PROVE  /\ Read.kind # "value" => C = Read /\ K = Read
         /\ Read.kind = "value" => Called(C, K, Read.value, Member(x).value.this)
<1>1. PICK M, m, G : M = Member(x) /\ m = M.value /\ G = Get(m.object, m.name)
  OBVIOUS
<1>2. PICK f, r, s : f = G.value /\ r = [f |-> f, this |-> m.this] /\ s = <<f, m.this>>
  OBVIOUS
<1>3. Read = IF M.kind = "value" THEN After(M, G) ELSE M
  BY <1>1 DEF MemberExpression, Then
<1> DEFINE Ours(n) == Then(Get(n.object, n.name), LAMBDA g : Gives([f |-> g, this |-> n.this]))
           Theirs(n) == Then(ES5Get(n), LAMBDA g : Gives(<<g, n.this>>))
<1>4. Ours(m) = IF G.kind = "value" THEN After(G, Gives(r)) ELSE G
  BY <1>1, <1>2 DEF Then
<1>5. Theirs(m) = IF G.kind = "value" THEN After(G, Gives(s)) ELSE G
  BY <1>1, <1>2 DEF Then, ES5Get
<1>6. C = IF M.kind = "value" THEN After(M, Ours(m)) ELSE M
  BY <1>1 DEF Callee, Then
<1>7. K = IF M.kind = "value" THEN After(M, Theirs(m)) ELSE M
  BY <1>1 DEF CalleeES5, Then
<1> HIDE DEF Ours, Theirs
<1>8. Listed(M.calls) /\ Formed(G) /\ Listed(G.calls)
  <2>1. PICK k \in Int : k = 1
    OBVIOUS
  <2>2. Reading(M, 1, 2, m) /\ Reading(G, k, k, m)
    BY <1>1, MemberReading, GetReading
  <2> QED
    BY <2>2 DEF Reading, Formed
<1>9. CASE M.kind # "value"
  BY <1>3, <1>6, <1>7, <1>9
<1>10. CASE M.kind = "value" /\ G.kind # "value"
  <2>1. PICK z : z = After(M, G)
    OBVIOUS
  <2>2. z.kind = G.kind
    BY <1>8, <2>1, AfterFormed
  <2> QED
    BY <1>3, <1>4, <1>5, <1>6, <1>7, <1>10, <2>1, <2>2
<1>11. CASE M.kind = "value" /\ G.kind = "value"
  <2>1. PICK c, d, g : c = M.calls /\ d = G.calls /\ g = c \o d
    OBVIOUS
  <2>2. PICK z : z = After(M, G)
    OBVIOUS
  <2>3. z.kind = "value" /\ z.value = f
    BY <1>2, <1>8, <1>11, <2>2, AfterFormed
  <2>4. ASSUME NEW w PROVE After(M, After(G, Gives(w))) = Ending("value", w, g)
    <3>1. PICK y : y = After(G, Gives(w))
      OBVIOUS
    <3>2. y = Ending("value", w, G.calls)
      BY <1>8, <3>1, AfterComes
    <3>3. y.kind = "value" /\ y.value = w /\ y.calls = d /\ Formed(y)
      BY <1>8, <2>1, <3>2, EndingParts, FormedEnding
    <3>4. After(M, y) = Ending(y.kind, y.value, M.calls \o y.calls)
      BY <1>8, <3>3, AfterFormed
    <3> QED
      BY <2>1, <3>1, <3>3, <3>4
  <2>5. C = Ending("value", r, g) /\ K = Ending("value", s, g)
    BY <1>4, <1>5, <1>6, <1>7, <1>11, <2>4
  <2>6. C.calls = g
    BY <2>5, EndingParts
  <2>7. Called(C, K, f, m.this)
    BY <1>2, <2>5, <2>6 DEF Called
  <2> QED
    BY <1>1, <1>3, <1>11, <2>2, <2>3, <2>7
<1> QED
  BY <1>9, <1>10, <1>11

Invoked(how, C, parts, before) == After(C, Invoke(how, C.value.f, C.value.this, parts, before))
InvokedES5(how, K, parts, before) == After(K, InvokeES5(how, K.value[1], K.value[2], parts, before))

LEMMA CallES5Is ==
  ASSUME NEW x, x.form \in {"call", "callMember", "new"}, NEW K, K = CalleeES5(x),
         NEW how, how = IF x.form = "new" THEN "Construct" ELSE "Call",
         NEW before, before = IF x.form = "callMember" THEN 2 ELSE 1
  PROVE  /\ K.kind = "value" => ES5Call(x) = InvokedES5(how, K, x.arguments, before)
         /\ K.kind # "value" => ES5Call(x) = K
<1> DEFINE Rest(c) == InvokeES5(how, c[1], c[2], x.arguments, before)
<1>1. ES5Call(x) = Then(K, Rest)
  BY DEF ES5Call, CalleeES5, InvokeES5
<1>2. Then(K, Rest) = IF K.kind = "value" THEN After(K, Rest(K.value)) ELSE K
  BY DEF Then
<1> QED
  BY <1>1, <1>2 DEF InvokedES5

LEMMA CallCodeIs ==
  ASSUME NEW x, x.form \in {"call", "callMember"}, NEW C, C = Callee(x),
         NEW before, before = IF x.form = "call" THEN 1 ELSE 2
  PROVE  /\ C.kind = "value" => CallExpression(x) = Invoked("Call", C, x.arguments, before)
         /\ C.kind # "value" => CallExpression(x) = C
BY CallIs DEF Invoked

LEMMA CalledSame ==
  ASSUME NEW C, NEW K, NEW f, NEW t, Called(C, K, f, t),
         NEW how, NEW parts \in Lists, NEW before \in Int, IsCallable(f) \/ parts = <<>>
  PROVE  /\ C.kind = "value" /\ K.kind = "value" /\ C.value.f = f
         /\ InvokedES5(how, K, parts, before) = Invoked(how, C, parts, before)
<1>1. PICK c, r, s : c = C.calls /\ r = [f |-> f, this |-> t] /\ s = <<f, t>>
  OBVIOUS
<1>2. C = Ending("value", r, c) /\ K = Ending("value", s, c)
  BY <1>1 DEF Called
<1>3. C.kind = "value" /\ C.value = r /\ K.kind = "value" /\ K.value = s /\ K.calls = c
  BY <1>2, EndingParts
<1>4. C.value.f = f /\ C.value.this = t /\ K.value[1] = f /\ K.value[2] = t
  BY <1>1, <1>3
<1>5. InvokeES5(how, f, t, parts, before) = Invoke(how, f, t, parts, before)
  BY InvokeSame
<1>6. PICK I : I = Invoke(how, f, t, parts, before)
  OBVIOUS
<1>7. After(K, I) = After(C, I)
  <2>1. After(K, I) = After(Calling(K.calls), I) /\ After(C, I) = After(Calling(C.calls), I)
    BY AfterCalls
  <2> QED
    BY <1>1, <1>3, <2>1
<1>8. InvokedES5(how, K, parts, before) = After(K, I) /\ Invoked(how, C, parts, before) = After(C, I)
  BY <1>4, <1>5, <1>6 DEF Invoked, InvokedES5
<1> QED
  BY <1>3, <1>4, <1>7, <1>8

LEMMA CallSame ==
  ASSUME NEW x, x.form \in {"call", "callMember", "new"}, x.arguments \in Lists,
         x.form = "callMember" =>
           /\ IsPart(x.object) /\ IsKey(x.property) /\ ES5Member(x) = Member(x)
           /\ MemberExpression(x).kind = "value" => IsCallable(MemberExpression(x).value) \/ x.arguments = <<>>,
         x.form # "callMember" =>
           /\ IsPart(x.callee)
           /\ x.callee.kind = "value" => IsCallable(x.callee.value) \/ x.arguments = <<>>
  PROVE  ES5Call(x) = IF x.form = "new" THEN NewExpression(x) ELSE CallExpression(x)
<1>1. PICK C, K, parts : C = Callee(x) /\ K = CalleeES5(x) /\ parts = x.arguments
  OBVIOUS
<1>2. CASE x.form = "callMember"
  <2>1. PICK Read, t : Read = MemberExpression(x) /\ t = Member(x).value.this
    OBVIOUS
  <2>2. /\ Read.kind # "value" => C = Read /\ K = Read
        /\ Read.kind = "value" => Called(C, K, Read.value, t)
    BY <1>1, <1>2, <2>1, MemberCallee
  <2>3. PICK before \in Int : before = 2
    OBVIOUS
  <2>4. /\ C.kind = "value" => CallExpression(x) = Invoked("Call", C, parts, before)
        /\ C.kind # "value" => CallExpression(x) = C
    BY <1>1, <1>2, <2>3, CallCodeIs
  <2>5. /\ K.kind = "value" => ES5Call(x) = InvokedES5("Call", K, parts, before)
        /\ K.kind # "value" => ES5Call(x) = K
    BY <1>1, <1>2, <2>3, CallES5Is
  <2>6. CASE Read.kind = "value"
    <3>1. Called(C, K, Read.value, t) /\ (IsCallable(Read.value) \/ parts = <<>>)
      BY <1>1, <1>2, <2>1, <2>2, <2>6
    <3>2. /\ C.kind = "value" /\ K.kind = "value"
          /\ InvokedES5("Call", K, parts, before) =
               Invoked("Call", C, parts, before)
      <4>1. PICK f, h : f = Read.value /\ h = "Call"
        OBVIOUS
      <4>2. Called(C, K, f, t) /\ parts \in Lists /\ (IsCallable(f) \/ parts = <<>>)
        BY <1>1, <3>1, <4>1
      <4>3. /\ C.kind = "value" /\ K.kind = "value"
            /\ InvokedES5(h, K, parts, before) =
                 Invoked(h, C, parts, before)
        BY <4>2, CalledSame
      <4> QED
        BY <4>1, <4>3
    <3> QED
      BY <1>2, <2>4, <2>5, <3>2
  <2>7. CASE Read.kind # "value"
    BY <1>2, <2>2, <2>4, <2>5, <2>7
  <2> QED
    BY <2>6, <2>7
<1>3. CASE x.form \in {"call", "new"}
  <2>1. PICK P, u : P = Part(1, x.callee) /\ u = P.value
    OBVIOUS
  <2>2. /\ P.kind # "value" => C = P /\ K = P
        /\ P.kind = "value" => Called(C, K, u, Undefined) /\ C.calls = P.calls
    BY <1>1, <1>3, <2>1, PartCallee
  <2>3. PICK before, how : /\ before = 1 /\ how = IF x.form = "new" THEN "Construct" ELSE "Call"
                           /\ before \in Int
    <3>1. 1 \in Int
      OBVIOUS
    <3> QED
      BY <3>1
  <2>4. /\ K.kind = "value" => ES5Call(x) = InvokedES5(how, K, parts, before)
        /\ K.kind # "value" => ES5Call(x) = K
    BY <1>1, <1>3, <2>3, CallES5Is
  <2>5. P.kind = "value" => IsCallable(u) \/ parts = <<>>
    BY <1>1, <1>3, <2>1, PartParts
  <2>6. CASE P.kind = "value"
    <3>1. /\ C.kind = "value" /\ K.kind = "value" /\ C.value.f = u
          /\ InvokedES5(how, K, parts, before) =
               Invoked(how, C, parts, before)
      <4>1. PICK t : t = Undefined
        OBVIOUS
      <4>2. Called(C, K, u, t) /\ parts \in Lists /\ (IsCallable(u) \/ parts = <<>>)
        BY <1>1, <2>2, <2>5, <2>6, <4>1
      <4> QED
        BY <2>3, <4>2, CalledSame
    <3>2. CASE x.form = "call"
      <4>1. CallExpression(x) = Invoked("Call", C, parts, before)
        BY <1>1, <2>3, <3>1, <3>2, CallCodeIs
      <4> QED
        BY <2>3, <2>4, <3>1, <3>2, <4>1
    <3>3. CASE x.form = "new"
      <4>1. NewExpression(x) = After(P, Invoke("Construct", u, Undefined, parts, 1))
        BY <1>1, <2>1, <2>6 DEF NewExpression, Invoke, Then
      <4>2. PICK I : I = Invoke("Construct", u, Undefined, parts, 1)
        OBVIOUS
      <4>3. After(P, I) = After(C, I)
        <5>1. After(P, I) = After(Calling(P.calls), I) /\ After(C, I) = After(Calling(C.calls), I)
          BY AfterCalls
        <5> QED
          BY <2>2, <2>6, <5>1
      <4>4. C.value.this = Undefined
        <5>1. C = Ending("value", [f |-> u, this |-> Undefined], C.calls)
          BY <2>2, <2>6 DEF Called
        <5>2. C.value = [f |-> u, this |-> Undefined]
          BY <5>1, EndingParts
        <5> QED
          BY <5>2
      <4> QED
        BY <2>3, <2>4, <3>1, <3>3, <4>1, <4>2, <4>3, <4>4 DEF Invoked
    <3> QED
      BY <1>3, <3>2, <3>3
  <2>7. CASE P.kind # "value"
    <3>1. ES5Call(x) = P
      BY <2>2, <2>4, <2>7
    <3>2. x.form = "new" => NewExpression(x) = P
      BY <2>1, <2>7 DEF NewExpression, Then
    <3>3. x.form = "call" => CallExpression(x) = P
      BY <1>1, <2>2, <2>3, <2>7, CallCodeIs
    <3> QED
      BY <1>3, <3>1, <3>2, <3>3
  <2> QED
    BY <2>6, <2>7
<1> QED
  BY <1>2, <1>3

LEMMA MemberKept ==
  ASSUME NEW x, x.form \in HasObject, IsPart(x.object), IsKey(x.property), ~ExpressionDeparts(x)
  PROVE  ES5Member(x) = Member(x)
<1>1. Spelt(x.property)
  BY DEF ExpressionDeparts, Spelt
<1>2. ~(/\ x.object.kind = "value" /\ x.property.kind = "value"
        /\ IsNothing(x.object.value) /\ IsObject(x.property.value))
  BY DEF ExpressionDeparts
<1> QED
  BY <1>1, <1>2, MemberAsES5

LEMMA ExpressionAgrees ==
  ASSUME NEW x \in AllExpressions, NEW o \in EvalExpression(x), ~ExpressionDeparts(x)
  PROVE  \E r \in ES5Expressions(x) : Likewise(r, o) /\ (r = o \/ x.form = "delete")
<1>0. /\ \A p \in Parts : IsPart(p)
      /\ \A r : Likewise(r, r)
  BY DEF IsPart, Likewise
<1>1. CASE x \in [form : {"member", "delete"}, object : Parts, property : Keys]
  <2>1. IsPart(x.object) /\ IsKey(x.property) /\ x.form \in {"member", "delete"}
    BY <1>0, <1>1, KeyIs
  <2>2. ES5Member(x) = Member(x)
    BY <2>1, MemberKept DEF HasObject
  <2>3. CASE x.form = "member"
    <3>1. o = MemberExpression(x)
      BY <2>3 DEF EvalExpression
    <3>2. ES5Expressions(x) = {Then(ES5Member(x), ES5Get)}
      BY <2>3 DEF ES5Expressions
    <3>3. Then(ES5Member(x), ES5Get) = o
      BY <2>2, <3>1, MemberSame
    <3> QED
      BY <1>0, <3>2, <3>3
  <2>4. CASE x.form = "delete"
    <3>1. o = ApplyDeleteOperator(x)
      BY <2>4 DEF EvalExpression
    <3>2. PICK r : r = Then(ES5Member(x), LAMBDA m :
                         Then(Delete(m.object, m.name), LAMBDA d : Gives(Bool(TRUE))))
      OBVIOUS
    <3>3. r \in ES5Expressions(x)
      BY <2>4, <3>2 DEF ES5Expressions
    <3>4. Likewise(r, o)
      BY <2>1, <2>2, <3>1, <3>2, DeleteSame
    <3> QED
      BY <2>4, <3>3, <3>4
  <2> QED
    BY <2>1, <2>3, <2>4
<1>2. CASE x \in [form : {"assignment"}, op : {"="} \cup Arithmetic, object : Parts, property : Keys, right : Parts]
  <2>1. IsPart(x.object) /\ IsKey(x.property) /\ IsPart(x.right) /\ x.form = "assignment"
    BY <1>0, <1>2, KeyIs
  <2>2. o \in AssignmentExpression(x) /\ ES5Expressions(x) = ES5Assignment(x)
    BY <2>1 DEF EvalExpression, ES5Expressions
  <2>3. ES5Member(x) = Member(x)
    BY <2>1, MemberKept DEF HasObject
  <2> QED
    BY <1>0, <2>1, <2>2, <2>3, AssignmentSame
<1>3. CASE x \in [form : {"update"}, op : {"++", "--"}, object : Parts, property : Keys, prefix : BOOLEAN]
  <2>1. IsPart(x.object) /\ IsKey(x.property) /\ x.form = "update"
    BY <1>0, <1>3, KeyIs
  <2>2. o = UpdateExpression(x) /\ ES5Expressions(x) = {ES5Update(x)}
    BY <2>1 DEF EvalExpression, ES5Expressions
  <2>3. ES5Member(x) = Member(x)
    BY <2>1, MemberKept DEF HasObject
  <2>4. MemberExpression(x).kind = "value" => IsNumber(MemberExpression(x).value)
    BY <2>1 DEF ExpressionDeparts
  <2> QED
    BY <1>0, <2>1, <2>2, <2>3, <2>4, UpdateSame
<1>4. CASE x \in [form : {"callMember"}, object : Parts, property : Keys, arguments : Lists]
  <2>1. IsPart(x.object) /\ IsKey(x.property) /\ x.form = "callMember" /\ x.arguments \in Lists
    BY <1>0, <1>4, KeyIs
  <2>2. o = CallExpression(x) /\ ES5Expressions(x) = {ES5Call(x)}
    BY <2>1 DEF EvalExpression, ES5Expressions
  <2>3. ES5Member(x) = Member(x)
    BY <2>1, MemberKept DEF HasObject
  <2>4. MemberExpression(x).kind = "value" => IsCallable(MemberExpression(x).value) \/ x.arguments = <<>>
    BY <2>1 DEF ExpressionDeparts
  <2>5. ES5Call(x) = CallExpression(x)
    BY <2>1, <2>3, <2>4, CallSame
  <2> QED
    BY <1>0, <2>2, <2>5
<1>5. CASE x \in [form : {"call", "new"}, callee : Parts, arguments : Lists]
  <2>1. IsPart(x.callee) /\ x.form \in {"call", "new"} /\ x.arguments \in Lists
    BY <1>0, <1>5
  <2>2. o = (IF x.form = "new" THEN NewExpression(x) ELSE CallExpression(x)) /\ ES5Expressions(x) = {ES5Call(x)}
    BY <2>1 DEF EvalExpression, ES5Expressions
  <2>3. x.callee.kind = "value" => IsCallable(x.callee.value) \/ x.arguments = <<>>
    BY <2>1 DEF ExpressionDeparts
  <2>4. ES5Call(x) = IF x.form = "new" THEN NewExpression(x) ELSE CallExpression(x)
    BY <2>1, <2>3, CallSame
  <2> QED
    BY <1>0, <2>2, <2>4
<1>6. CASE x \in [form : {"logical"}, op : {"&&", "||"}, left : Parts, right : Parts]
  <2>1. IsPart(x.left) /\ x.form = "logical"
    BY <1>0, <1>6
  <2>2. o = LogicalExpression(x) /\ ES5Expressions(x) = {ES5Branches(x)}
    BY <2>1 DEF EvalExpression, ES5Expressions
  <2> QED
    BY <1>0, <2>1, <2>2, BranchesSame
<1>7. CASE x \in [form : {"conditional"}, test : Parts, consequent : Parts, alternate : Parts]
  <2>1. IsPart(x.test) /\ x.form = "conditional"
    BY <1>0, <1>7
  <2>2. o = ConditionalExpression(x) /\ ES5Expressions(x) = {ES5Branches(x)}
    BY <2>1 DEF EvalExpression, ES5Expressions
  <2> QED
    BY <1>0, <2>1, <2>2, BranchesSame
<1>8. CASE x \in [form : {"sequence"}, parts : Lists \ {<<>>}]
  <2>1. x.parts \in Lists /\ x.form = "sequence"
    BY <1>8
  <2>2. o = SequenceExpression(x) /\ ES5Expressions(x) = {ES5Branches(x)}
    BY <2>1 DEF EvalExpression, ES5Expressions
  <2> QED
    BY <1>0, <2>1, <2>2, BranchesSame
<1> QED
  BY <1>1, <1>2, <1>3, <1>4, <1>5, <1>6, <1>7, <1>8 DEF AllExpressions

\* The parts of an expression, and what it reads, writes and calls, come in the
\* order of the standard, and so does the exception that ends it, but for what
\* ExpressionDeparts names and the result of delete (evalast.cc 483-513, 837-1056,
\* 1171-1190).
THEOREM ExpressionsAgree == ExpressionSpec => []ExpressionsAsES5
<1>1. ExpressionInv => ExpressionsAsES5
  <2> SUFFICES ASSUME ExpressionInv, expression # NoExpression, ~ExpressionDeparts(expression.of)
               PROVE  \E r \in ES5Expressions(expression.of) :
                        /\ r.kind = expression.outcome.kind
                        /\ r.calls = expression.outcome.calls
                        /\ r.value = expression.outcome.value \/ expression.of.form = "delete"
    BY DEF ExpressionsAsES5, X
  <2>1. PICK x, o : x = expression.of /\ o = expression.outcome
    OBVIOUS
  <2>2. x \in AllExpressions /\ o \in EvalExpression(x)
    BY <2>1 DEF ExpressionInv
  <2>3. PICK r \in ES5Expressions(x) : Likewise(r, o) /\ (r = o \/ x.form = "delete")
    BY <2>1, <2>2, ExpressionAgrees
  <2> QED
    BY <2>1, <2>3 DEF Likewise
<1> QED
  BY <1>1, ExpressionInductive, PTL
===============================================================================
