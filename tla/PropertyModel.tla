---------------------------- MODULE PropertyModel ----------------------------
(***************************************************************************)
(* What the language promises of the properties of objects (ECMAScript     *)
(* 5.1, 8.12.2 to 8.12.9, 11.1.5 and 15.2.3.6): every object has a map     *)
(* from names to descriptors, a name is looked up along the prototypes, an *)
(* accessor runs a function instead, a read-only or an accessor property   *)
(* of a prototype cannot be shadowed by an assignment but can by a         *)
(* literal, and what is not configurable is not redefined.                 *)
(***************************************************************************)
EXTENDS Naturals

CONSTANTS
  Object,      \* the objects
  NoObject,    \* the end of a chain of prototypes
  Proto,       \* the prototype of each object
  Name,        \* the names of properties
  Data,        \* the values that are not functions
  Functions,   \* the functions
  Undefined,   \* the value undefined
  Attributes,  \* the attributes that programs give to defineProperty: records of
               \* two sets, writable and configurable, empty where not given
  Thrown       \* what an operation gives instead of a value when it throws

Values == Data \cup Functions \cup {Undefined}

Descriptor ==
  [kind : {"data"}, value : Values, writable : BOOLEAN, configurable : BOOLEAN] \cup
  [kind : {"accessor"}, get : Functions \cup {Undefined}, set : Functions \cup {Undefined},
   configurable : BOOLEAN]
Absent == [kind |-> "absent"]

VARIABLES
  new,      \* the objects that are still being made
  own,      \* the descriptor each object itself has of each name
  calls,    \* how many accessor functions are running
  answer    \* what the last operation or function gave to the code running

vars == <<new, own, calls, answer>>

Init ==
  /\ new \in SUBSET Object
  /\ own = [o \in Object |-> [n \in Name |-> Absent]]
  /\ calls = 0
  /\ answer = Undefined

\* 8.12.2: what the name means on the object, its prototype included.
Lookup(o, n) ==
  LET owner[p \in Object \cup {NoObject}] ==
        IF p = NoObject THEN Absent
        ELSE IF own[p][n] # Absent THEN own[p][n]
        ELSE owner[Proto[p]]
  IN owner[o]

Plain(v, w, c) ==
  [kind |-> "data", value |-> v, writable |-> w, configurable |-> c]
Accessor(g, s, c) ==
  [kind |-> "accessor", get |-> g, set |-> s, configurable |-> c]

\* The first conjunct only spares TLC most of the second.
Sets(o, n, d) == own'[o][n] = d /\ own' = [own EXCEPT ![o][n] = d]

Runs(f) == f # Undefined /\ calls' = calls + 1 /\ answer' = Undefined

Replies(v) == answer' = v /\ UNCHANGED calls

Refuses == (Replies(Undefined) \/ Replies(Thrown)) /\ UNCHANGED own

\* 8.12.3
Get(o, n) ==
  LET d == Lookup(o, n)
  IN /\ \/ d.kind = "absent" /\ Replies(Undefined)
        \/ d.kind = "data" /\ Replies(d.value)
        \/ d.kind = "accessor" /\ Runs(d.get)
        \/ d.kind = "accessor" /\ d.get = Undefined /\ Replies(Undefined)
     /\ UNCHANGED own

\* 8.12.4 and 8.12.5
Put(o, n, v) ==
  LET d == Lookup(o, n)
      mine == own[o][n]
  IN \/ /\ Replies(Undefined)
        /\ Sets(o, n, Plain(v, TRUE, mine.kind = "data" => mine.configurable))
        /\ d.kind = "absent" \/ (d.kind = "data" /\ d.writable)
     \/ d.kind = "data" /\ ~d.writable /\ Refuses
     \/ d.kind = "accessor" /\ Runs(d.set) /\ UNCHANGED own
     \/ d.kind = "accessor" /\ d.set = Undefined /\ Refuses

\* 8.12.7
Delete(o, n) ==
  IF own[o][n] # Absent /\ ~own[o][n].configurable THEN Refuses
  ELSE Replies(Undefined) /\ Sets(o, n, Absent)

\* 8.12.9: what an own property c, or none, may be made.
MayBecome(c, d) ==
  \/ c = Absent
  \/ c.configurable
  \/ c = d
  \/ c.kind = "data" /\ c.writable /\ d.kind = "data" /\ ~d.configurable

\* d is what c becomes by a descriptor with these attributes: one that is not given
\* stays what it was, and is false in a new property or one of another kind.
Asked(a, c, d) ==
  /\ d.kind = "data" =>
       IF a.writable = {} THEN d.writable = (c.kind = "data" /\ c.writable)
       ELSE d.writable \in a.writable
  /\ IF a.configurable = {} THEN d.configurable = (c # Absent /\ c.configurable)
     ELSE d.configurable \in a.configurable

\* 15.2.3.6
DefineProperty(o, n) ==
  \E a \in Attributes, d \in Descriptor :
    /\ Asked(a, own[o][n], d)
    /\ IF MayBecome(own[o][n], d) THEN Replies(Undefined) /\ Sets(o, n, d)
       ELSE Replies(Thrown) /\ UNCHANGED own

\* 11.1.5: { n: v }, which defines the property whatever the prototypes have.
LiteralData(o, n, v) ==
  /\ own[o][n].kind # "accessor"
  /\ MayBecome(own[o][n], Plain(v, TRUE, TRUE))
  /\ Replies(Undefined)
  /\ Sets(o, n, Plain(v, TRUE, TRUE))

\* 11.1.5: { get n () ... } and { set n (x) ... }, where the other half stays.
LiteralAccessor(o, n, f) ==
  LET d == own[o][n]
      old == IF d.kind = "accessor" THEN d ELSE Accessor(Undefined, Undefined, TRUE)
  IN /\ d.kind # "data"
     /\ Replies(Undefined)
     /\ \/ Sets(o, n, Accessor(f, old.set, TRUE))
        \/ Sets(o, n, Accessor(old.get, f, TRUE))

\* What the object is made with.
BuiltIn(o, n, v) ==
  /\ own[o][n] = Absent
  /\ Replies(Undefined)
  /\ \E w \in BOOLEAN : Sets(o, n, Plain(v, w, FALSE))

Throw == answer' = Thrown /\ UNCHANGED <<own, calls>>

Catch == answer = Thrown /\ answer' = Undefined /\ UNCHANGED <<own, calls>>

\* A function gives a value, or the exception it did not catch.
Return ==
  /\ calls > 0
  /\ calls' = calls - 1
  /\ answer' \in IF answer = Thrown THEN {Thrown} ELSE Values
  /\ UNCHANGED own

Operation(o, n) ==
  \/ Get(o, n)
  \/ \E v \in Values : Put(o, n, v)
  \/ Delete(o, n)
  \/ DefineProperty(o, n)

Making(o, n) ==
  \/ \E v \in Values : LiteralData(o, n, v) \/ BuiltIn(o, n, v)
  \/ \E f \in Functions : LiteralAccessor(o, n, f)

Made(o) == new' = new \ {o} /\ UNCHANGED <<own, calls, answer>>

Next ==
  \/ /\ UNCHANGED new
     /\ \/ Catch
        \/ Return
        \/ answer # Thrown /\ Throw
        \/ /\ answer # Thrown
           /\ \E o \in Object, n \in Name :
                IF o \in new THEN Making(o, n) ELSE Operation(o, n)
  \/ \E o \in new : Made(o)

Spec == Init /\ [][Next]_vars
=============================================================================
