--------------------------------- MODULE ES5 ---------------------------------
(***************************************************************************)
(* What the comments of the code refer to by section: the conversions and  *)
(* operators of ECMAScript 5.1, on the values of Conversions.  A number is *)
(* a double here, whatever represents it.                                  *)
(***************************************************************************)
EXTENDS Conversions

CONSTANTS
  ProtoOf,            \* the prototype of an object
  PrototypeProperty,  \* the object in its property "prototype", or NoObjectId
  OwnNames            \* the names of its own properties

ASSUME PrototypesAssumption == ProtoOf \in [ObjectIds -> ObjectIds \cup {NoObjectId}]

AsES5(v) == IF v.is = "smi" THEN Double(Whole(v.int)) ELSE v

\* 8.12.8 [[DefaultValue]]: the first method that returns a primitive value, or
\* throws, of those there are.
ES5DefaultValue(o, hint) ==
  LET names == IF hint = "string" \/ (hint = "none" /\ o \in DateIds)
               THEN <<"toString", "valueOf">> ELSE <<"valueOf", "toString">>
      does == [k \in 1..2 |-> IF names[k] = "valueOf" THEN ValueOfGives[o] ELSE ToStringGives[o]]
      ends == {k \in 1..2 : \/ does[k].kind = "throws"
                            \/ does[k].kind = "value" /\ ~IsObject(does[k].value)}
      Called(k) == IF does[k].kind = "absent" THEN <<>> ELSE <<[id |-> o, method |-> names[k]]>>
      calls == Called(1) \o (IF 1 \in ends THEN <<>> ELSE Called(2))
      last == IF ends = {} THEN Throws
              ELSE IF does[Min(ends)].kind = "throws" THEN Throws
              ELSE Gives(does[Min(ends)].value)
  IN [last EXCEPT !.calls = calls]

\* 9.1, 9.2, 9.3, 9.5, 9.8
ES5Primitive(v, hint) == IF IsObject(v) THEN ES5DefaultValue(v.id, hint) ELSE Gives(v)

ES5Boolean(v) ==
  AsES5(v) \notin {Undefined, Null, Bool(FALSE), Str(<<>>), Double(Whole(0)), Double(NaN)}

IsNumeric(t) ==
  t = <<>> \/ (Len(t) = 1 /\ (t[1].number # NaN \/ t[1].word \in {"NaN", "Infinity", "-Infinity"}))

ES5Number(p) ==
  CASE IsNumber(p) -> NumberOf(p)
    [] p = Null \/ p = Bool(FALSE) -> Whole(0)
    [] p = Bool(TRUE) -> Whole(1)
    [] p = Undefined -> NaN
    [] IsString(p) -> IF IsNumeric(p.text) THEN strtod(p.text) ELSE NaN

ES5Int(x) == IF IsFinite(x) THEN Wrapped(Truncated(x)) ELSE 0

ES5Text(p) ==
  IF IsNumber(p) /\ IsFinite(NumberOf(p)) THEN Numeral(NumberOf(p)) ELSE PrimitiveToString(p)

\* Both operands as primitive values, and op of these.
ES5Both(x, y, hint, op(_, _)) ==
  Then(ES5Primitive(x, hint), LAMBDA p : Then(ES5Primitive(y, hint), LAMBDA q : Gives(op(p, q))))

-----------------------------------------------------------------------------
\* 11.9.6 and 11.9.3
ES5Strict(x, y) ==
  IF IsNumber(x) /\ IsNumber(y) THEN SameNumber(NumberOf(x), NumberOf(y)) ELSE x = y

ES5Same(x, y) ==
  IF IsNothing(x) \/ IsNothing(y) THEN IsNothing(x) /\ IsNothing(y)
  ELSE IF x.is = y.is THEN ES5Strict(x, y)
  ELSE SameNumber(ES5Number(x), ES5Number(y))

ES5Equal(x, y) ==
  IF IsObject(x) = IsObject(y) \/ IsNothing(x) \/ IsNothing(y)
  THEN Gives(Bool(IF IsObject(x) \/ IsObject(y) THEN x = y ELSE ES5Same(x, y)))
  ELSE ES5Both(x, y, "none", LAMBDA p, q : Bool(ES5Same(p, q)))

\* 11.5.3: the remainder has the sign of the dividend.
ES5Remainder(x, y) ==
  IF ~IsFinite(x) \/ y = NaN \/ y = Whole(0) THEN NaN
  ELSE IF ~IsFinite(y) THEN x
  ELSE Plus(x, Negated(Times(y, Whole(Truncated(Over(x, y))))))

\* 11.8.5, but for two strings
ES5Relation(op, x, y) ==
  CASE op = "<" -> Less(x, y)
    [] op = ">" -> Less(y, x)
    [] op = "<=" -> x # NaN /\ y # NaN /\ ~Less(y, x)
    [] op = ">=" -> x # NaN /\ y # NaN /\ ~Less(x, y)

\* 11.5, 11.6.2, 11.7, 11.10
ES5Arithmetic(op, x, y) ==
  LET m == ES5Int(x)
      n == ES5Int(y)
      count == n % Width
  IN CASE op = "-" -> Plus(x, Negated(y))
       [] op = "*" -> Times(x, y)
       [] op = "/" -> Over(x, y)
       [] op = "%" -> ES5Remainder(x, y)
       [] op = "<<" -> Whole(Wrapped(m * 2^count))
       [] op = ">>" -> Whole(m \div 2^count)
       [] op = ">>>" -> Whole(Bits(m) \div 2^count)
       [] op = "&" -> Whole(BitAnd(m, n))
       [] op = "^" -> Whole(BitXor(m, n))
       [] op = "|" -> Whole(BitOr(m, n))

\* 11.6.1
ES5Sum(p, q) ==
  IF IsString(p) \/ IsString(q) THEN Str(ES5Text(p) \o ES5Text(q))
  ELSE Double(Plus(ES5Number(p), ES5Number(q)))

\* The chain of prototypes of an object: what is in every set that has its
\* prototype, and the prototype of whatever it has.
Chains ==
  {S \in SUBSET ObjectIds : \A o \in S : ProtoOf[o] # NoObjectId => ProtoOf[o] \in S}
Ancestors ==
  [o \in ObjectIds |->
     IF ProtoOf[o] = NoObjectId THEN {}
     ELSE {a \in ObjectIds : \A S \in Chains : ProtoOf[o] \in S => a \in S}]

\* 11.8.6, 11.8.7
ES5InstanceOf(x, y) ==
  IF ~IsCallable(y) THEN Throws
  ELSE IF ~IsObject(x) THEN Gives(Bool(FALSE))
  ELSE IF PrototypeProperty[y.id] = NoObjectId THEN Throws
  ELSE Gives(Bool(PrototypeProperty[y.id] \in Ancestors[x.id]))

ES5In(x, y) ==
  IF ~IsObject(y) THEN Throws
  ELSE Then(ES5Primitive(x, "string"), LAMBDA p :
         Gives(Bool(\E o \in {y.id} \cup Ancestors[y.id] : ES5Text(p) \in OwnNames[o])))

ES5Binary(op, x, y) ==
  CASE op = "===" -> Gives(Bool(ES5Strict(x, y)))
    [] op = "!==" -> Gives(Bool(~ES5Strict(x, y)))
    [] op = "==" -> ES5Equal(x, y)
    [] op = "!=" -> Then(ES5Equal(x, y), LAMBDA b : Gives(Bool(~b.bool)))
    [] op = "+" -> ES5Both(x, y, "none", ES5Sum)
    [] op \in {"<", ">", "<=", ">="} ->
         ES5Both(x, y, "number", LAMBDA p, q : Bool(ES5Relation(op, ES5Number(p), ES5Number(q))))
    [] op = "instanceof" -> ES5InstanceOf(x, y)
    [] op = "in" -> ES5In(x, y)
    [] OTHER ->
         ES5Both(x, y, "number", LAMBDA p, q : Double(ES5Arithmetic(op, ES5Number(p), ES5Number(q))))

\* 11.4.3
ES5Type(x) ==
  IF IsNumber(x) THEN "number"
  ELSE IF x = Null THEN "object"
  ELSE IF x.is = "bool" THEN "boolean"
  ELSE IF IsCallable(x) THEN "function" ELSE x.is

\* 11.4, 11.3, 11.12
ES5Unary(op, x) ==
  CASE op = "void" -> Gives(Undefined)
    [] op = "typeof" -> Gives(Str(Word(ES5Type(x))))
    [] op = "literal" -> Gives(AsES5(x))
    [] op = "!" -> Gives(Bool(~ES5Boolean(x)))
    [] op = "?:" -> Gives(Bool(ES5Boolean(x)))
    [] OTHER -> Then(ES5Primitive(x, "number"), LAMBDA p :
         LET n == ES5Number(p)
         IN Gives(Double(CASE op = "+" -> n
                           [] op = "-" -> Negated(n)
                           [] op = "~" -> Whole(-1 - ES5Int(n))
                           [] op = "++" -> Plus(n, Whole(1))
                           [] op = "--" -> Plus(n, Whole(-1)))))
=============================================================================
