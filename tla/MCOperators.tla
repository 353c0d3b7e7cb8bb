----------------------------- MODULE MCOperators -----------------------------
(***************************************************************************)
(* An instance of Operators and Expressions for TLC: ints of eight bits,   *)
(* texts of two digits, with exponents from 100 up and below 1/10, and     *)
(* objects whose methods and properties behave in every way that matters.  *)
(***************************************************************************)
EXTENDS Expressions

LeastPlainExponent == -1

Absent == [kind |-> "absent"]
Raises == [kind |-> "throws"]
Is(v) == [kind |-> "value", value |-> v]

Seven == Str(Numeral(Whole(7)))
Letters == Str(Word("letters"))
Mixed == Str(Numeral(Whole(1)) \o Word("letters"))

\* valueOf and toString of each object.  A plain object has itself for value.
Methods ==
  [ plain |-> <<Is(Obj("plain")), Is(Letters)>>,
    number |-> <<Is(Smi(3)), Is(Letters)>>,
    numeral |-> <<Absent, Is(Seven)>>,
    date |-> <<Is(Double(Whole(2))), Is(Seven)>>,
    nothing |-> <<Is(Null), Raises>>,
    raises |-> <<Raises, Is(Seven)>>,
    textRaises |-> <<Is(Obj("plain")), Raises>>,
    opaque |-> <<Is(Obj("plain")), Is(Obj("plain"))>>,
    mute |-> <<Absent, Absent>>,
    function |-> <<Is(Obj("function")), Is(Letters)>>,
    other |-> <<Is(Obj("other")), Is(Letters)>> ]

AllObjects == DOMAIN Methods
Nobody == "nobody"
ValueOfs == [o \in AllObjects |-> Methods[o][1]]
ToStrings == [o \in AllObjects |-> Methods[o][2]]
Dates == {"date"}
Callables == {"function", "other"}
Wrappers == [number |-> "plain", bool |-> "plain", string |-> "plain"]

\* What other constructs has opaque for prototype, and opaque has plain for one.
Protos == [o \in AllObjects |-> CASE o = "plain" -> Nobody [] o = "date" -> "opaque" [] OTHER -> "plain"]
PrototypeProperties ==
  [o \in AllObjects |-> CASE o = "function" -> "plain" [] o = "other" -> "opaque" [] OTHER -> Nobody]
NamesOwned ==
  [o \in AllObjects |-> CASE o = "plain" -> {Word("letters")} [] o = "opaque" -> {Numeral(Whole(7))} [] OTHER -> {}]

Numbers ==
  {Smi(n) : n \in {-128, -7, -1, 0, 1, 2, 7, 120, 127}} \cup
  {Double(x) : x \in {Whole(-128), Whole(-1), Whole(0), Whole(1), Whole(7), Whole(120), Whole(200),
                      <<1, 2>>, <<1, 16>>, <<-3, 2>>, NaN, Infinity, Negated(Infinity)}}
Texts == {Str(<<>>), Seven, Letters, Mixed, Str(Word("Infinity"))}

AllOperands ==
  {Undefined, Null, Bool(TRUE), Bool(FALSE)} \cup Numbers \cup Texts \cup {Obj(o) : o \in AllObjects}

\* Reading a property of an object gives a number, a function or nothing, or
\* throws; writing one throws for some that can be read.
Reads ==
  [o \in AllObjects |-> CASE o = "plain" -> Is(Smi(3)) [] o = "other" -> Is(Obj("function"))
                          [] o = "number" -> Raises [] o = "date" -> Is(Double(<<1, 2>>))
                          [] OTHER -> Is(Undefined)]
Writes == [o \in AllObjects |-> IF o = "date" THEN Raises ELSE Is(Undefined)]
Runs == [o \in Callables |-> IF o = "other" THEN Raises ELSE Is(Obj("plain"))]

SomeParts ==
  {Throws} \cup
  {Gives(v) : v \in {Undefined, Bool(FALSE), Smi(1), Letters} \cup
                    {Obj(o) : o \in {"plain", "date", "number", "function", "other"}}}
SomeKeys ==
  {Fixed, Throws} \cup
  {Gives(v) : v \in {Seven, Smi(7), Double(Whole(120)), Double(<<1, 16>>)} \cup {Obj(o) : o \in {"numeral", "textRaises", "opaque"}}}
=============================================================================
