------------------------------- MODULE Objects -------------------------------
(***************************************************************************)
(* Objects and their properties: class Object of src/nabla/context.cc and  *)
(* context.hh, object literals (evalast.cc) and Object.defineProperty      *)
(* (builtin.cc).  The own properties of an object are a hash_map.          *)
(*                                                                         *)
(* The code of the program is not fixed: whenever it runs it may do any    *)
(* operation on any object it can reach, and so may the functions the      *)
(* accessors call, which run in the middle of an operation of somebody     *)
(* else.  Arrays, strings and the enumerable flag are left out; undefined  *)
(* stands for null too.                                                    *)
(***************************************************************************)
EXTENDS Integers, Sequences, FiniteSets

CONSTANTS
  Object,     \* the objects
  NoObject,   \* a null proto_
  Proto,      \* proto_ of each object, which nothing changes
  Name,       \* the names of properties
  Data,       \* the values that are not functions
  Functions,  \* the functions
  Undefined,  \* undefined (and null)
  Nil,        \* the null any_ref
  Thrown,     \* an exception, in the model of the language
  Crashed,    \* the process died in an assertion or through a null pointer
  Hash, HASH_SIZE, Spare,   \* of the hash_map
  Uses,       \* what the programs do, see AllUses
  MaxCalls    \* bound: the most functions and defineProperty calls running

(* Programs that do one of these are kept apart: after it some property of *)
(* an object is no longer what the language says it should be.             *)
(* "deleteAccessor": delete a property while the last one of its bucket,    *)
(* itself or another, is an accessor, or while the literal of its object   *)
(* is still being evaluated;                                               *)
(* "halfDescriptor": give defineProperty no value, and a get or a set      *)
(* that is not a function, or only one of them;                            *)
(* "descriptorGetter": give it attributes that are accessors themselves;   *)
(* "redefine": give it a property that is not configurable;                *)
(* "mixedLiteral": { n: 1, set n (x) {} }, which the language forbids;     *)
(* "literalInherits": { n: 1 } when the prototype has a read-only n or an  *)
(* accessor.                                                               *)
AllUses == {"deleteAccessor", "halfDescriptor", "descriptorGetter", "redefine",
            "mixedLiteral", "literalInherits"}

ASSUME UsesAssumption == Uses \subseteq AllUses
ASSUME CallsAssumption == MaxCalls \in Nat
ASSUME ProtoAssumption == /\ Proto \in [Object -> Object \cup {NoObject}]
                          /\ NoObject \notin Object
\* Every chain of prototypes ends: Alloc is given a prototype that is there.
ASSUME ChainsEnd ==
  \A chain \in SUBSET Object : chain # {} => \E o \in chain : Proto[o] \notin chain
ASSUME ValuesAssumption ==
  /\ Undefined \notin Data \cup Functions
  /\ Nil \notin Data \cup Functions \cup {Undefined}
  /\ Crashed \notin Data \cup Functions \cup {Undefined, Nil}
  /\ Thrown \notin Data \cup Functions \cup {Undefined, Crashed}
ASSUME StorageAssumption ==
  Hash \in [Name -> Nat] /\ HASH_SIZE \in Nat \ {0} /\ Spare \in Nat

Values == Data \cup Functions \cup {Undefined}

\* Property: value is value_or_get.
Flags == {"accessor", "writable", "configurable"}
Property == [value : Values \cup {Nil}, set : Values \cup {Nil},
             flags : SUBSET Flags]
Zero == [value |-> Nil, set |-> Nil, flags |-> {}]

\* A property being nothing yet.
INSTANCE HashMap WITH Key <- Name, Value <- Property

VARIABLES
  objects,   \* own_props_ of each object
  making,    \* the objects whose literal is being evaluated
  known,     \* the objects the program has in its hands
  stack,     \* the accessor functions and defineProperty calls running
  answer,    \* what the last operation gave to the code now running
  exc        \* whether Thread::exception_val is set

vars == <<objects, making, known, stack, answer, exc>>

(* A frame is an accessor function, or a defineProperty waiting for an     *)
(* attribute of its descriptor.  The latter holds a Property*: the node at *)
(* position "node" of the bucket, unless the bucket has been reallocated   *)
(* elsewhere ("moved").  "before" is what the entry was when the call      *)
(* began: the code does not keep it, the refinement mapping does, which is *)
(* only used where no code runs in between.                                *)
AccessorFrame == [kind |-> "accessor"]
DefineFrame(o, n, p, b) ==
  [kind |-> "define", object |-> o, name |-> n, node |-> p, moved |-> FALSE,
   phase |-> "value", before |-> b]

Top == stack[Len(stack)]
Popped == SubSeq(stack, 1, Len(stack) - 1)

\* Code of the program runs, and has no exception to attend to.
CodeRuns ==
  /\ answer \notin {Nil, Crashed}
  /\ stack # <<>> => Top.kind = "accessor"

Init ==
  /\ objects = [o \in Object |-> EmptyTable]
  /\ making \in SUBSET Object
  /\ known = Object \ making
  /\ stack = <<>>
  /\ answer = Undefined
  /\ exc = FALSE

-----------------------------------------------------------------------------
(* Outcomes.                                                               *)

Reply(v) == answer' = v /\ UNCHANGED <<stack, exc>>

\* Mutant of Reject: null is returned, nothing is thrown.
RejectMutant == Reply(Undefined) \/ Reply(Nil)

\* ThrowTypeError when do_throw is set (strict code), success when it is not.
Reject ==
  \/ Reply(Undefined)
  \/ answer' = Nil /\ exc' = TRUE /\ UNCHANGED stack

Crash == answer' = Crashed /\ UNCHANGED <<stack, exc>>

\* as<Object>() and Call of an accessor: both assert what they are given.
Call(v) ==
  IF v \in Functions
  THEN /\ Len(stack) < MaxCalls
       /\ stack' = Append(stack, AccessorFrame)
       /\ answer' = Undefined
       /\ UNCHANGED exc
  ELSE Crash

-----------------------------------------------------------------------------
(* Object.                                                                 *)

HasOwn(o, n) == Has(objects[o], n)
Own(o, n) == At(objects[o], n)

\* RegExp objects get built-in properties, which are not configurable; the
\* others are made by a literal.
IsLiteral(o) ==
  o \in making /\ \A n \in Name : HasOwn(o, n) => "configurable" \in Own(o, n).flags
IsBuiltIn(o) ==
  o \in making /\ \A n \in Name : HasOwn(o, n) => "configurable" \notin Own(o, n).flags

\* GetProperty: the object of the chain that has the entry, NoObject for
\* nullptr.
Holder(o, n) ==
  LET nearest[p \in Object \cup {NoObject}] ==
        IF p = NoObject THEN p
        ELSE IF HasOwn(p, n) THEN p
        ELSE nearest[Proto[p]]
  IN nearest[o]

\* The Property* into a bucket of o, after the bucket was moved elsewhere.
Stale(f, o, n) ==
  IF f.kind = "define" /\ f.object = o /\ IndexOf(f.name) = IndexOf(n)
  THEN [f EXCEPT !.moved = TRUE] ELSE f

\* What NewOwnProperty may do to the pointers: a block that has to hold a node
\* more is moved, or not.
Pointers(o, n) ==
  IF HasOwn(o, n) THEN {stack}
  ELSE {stack, [i \in DOMAIN stack |-> Stale(stack[i], o, n)]}

\* Get(desc)
GetFrom(p) ==
  IF "accessor" \notin p.flags THEN Reply(p.value)
  ELSE IF p.value = Nil THEN Reply(Undefined)
  ELSE Call(p.value)

Get(o, n) ==
  LET h == Holder(o, n)
  IN /\ CodeRuns
     /\ o \in known
     /\ IF h = NoObject THEN Reply(Undefined) ELSE GetFrom(Own(h, n))
     /\ UNCHANGED <<objects, making, known>>

\* The end of Put when the property is not writable.
PutRefused(p) ==
  IF "accessor" \in p.flags /\ p.set # Nil THEN Call(p.set) ELSE Reject

\* The entry Put makes keeps the flags and the setter the memory held.
Created(p, v) ==
  [p EXCEPT !.value = v, !.flags = @ \cup {"writable", "configurable"}]

\* Mutant of PutOwn: any property that is not an accessor is written to.
PutOwnMutant(o, n, v) ==
  LET p == Own(o, n)
  IN IF "accessor" \notin p.flags
     THEN /\ objects' = [objects EXCEPT ![o] = Store(@, n, [p EXCEPT !.value = v])]
          /\ Reply(Undefined)
     ELSE PutRefused(p) /\ UNCHANGED objects

PutOwn(o, n, v) ==
  LET p == Own(o, n)
  IN IF "writable" \in p.flags
     THEN /\ objects' = [objects EXCEPT ![o] = Store(@, n, [p EXCEPT !.value = v])]
          /\ Reply(Undefined)
     ELSE PutRefused(p) /\ UNCHANGED objects

\* Mutant of PutNew: [[CanPut]] does not look at the prototypes.
PutNewMutant(o, n, v) ==
  LET t == Subscript(objects[o], n)
  IN /\ objects' = [objects EXCEPT ![o] = Store(t, n, Created(At(t, n), v))]
     /\ stack' \in Pointers(o, n)
     /\ answer' = Undefined
     /\ UNCHANGED exc

\* Mutant of PutNew: the assignment is to the property that was found.
PutFoundMutant(o, n, v) ==
  LET h == Holder(o, n)
  IN IF h = NoObject THEN PutNewMutant(o, n, v)
     ELSE /\ objects' = [objects EXCEPT ![h] = Store(@, n, [Own(h, n) EXCEPT !.value = v])]
          /\ Reply(Undefined)

PutNew(o, n, v) ==
  LET h == Holder(o, n)
      t == Subscript(objects[o], n)
  IN IF h = NoObject \/ "writable" \in Own(h, n).flags
     THEN /\ objects' = [objects EXCEPT ![o] = Store(t, n, Created(At(t, n), v))]
          /\ stack' \in Pointers(o, n)
          /\ answer' = Undefined
          /\ UNCHANGED exc
     ELSE PutRefused(Own(h, n)) /\ UNCHANGED objects

\* Whether a setter has been given the object.
Exposed(o) == IF Len(stack') > Len(stack) THEN known \cup {o} ELSE known

Assigns(o, n, v) ==
  /\ IF HasOwn(o, n) THEN PutOwn(o, n, v) ELSE PutNew(o, n, v)
  /\ known' = Exposed(o)
  /\ UNCHANGED making

Put(o, n, v) == CodeRuns /\ o \in known /\ Assigns(o, n, v)

\* What erase leaves past the end of the bucket of n, for the next new entry.
LeftInMemory(o, n) ==
  LET b == objects[o][IndexOf(n)] IN b.memory[b.len].value

Delete(o, n) ==
  /\ CodeRuns
  /\ o \in known
  /\ \/ "deleteAccessor" \in Uses
     \/ /\ o \notin making
        /\ HasOwn(o, n) => "accessor" \notin LeftInMemory(o, n).flags
  /\ IF ~HasOwn(o, n) THEN UNCHANGED objects /\ Reply(Undefined)
     ELSE IF "configurable" \notin Own(o, n).flags
     THEN UNCHANGED objects /\ Reject
     ELSE /\ objects' = [objects EXCEPT ![o] = Erase(@, n)]
          /\ Reply(Undefined)
  /\ UNCHANGED <<making, known>>

-----------------------------------------------------------------------------
(* Object literals and built-in objects.                                   *)

\* An entry of an object being made, whatever it was, is now p.
Writes(o, n, p) ==
  /\ objects' = [objects EXCEPT ![o] = Store(@, n, p)]
  /\ stack' \in Pointers(o, n)
  /\ answer' = Undefined
  /\ UNCHANGED <<making, known, exc>>

\* ObjectExpression: n: v is a Put with a do_throw of false.
LiteralProperty(o, n, v) ==
  LET h == Holder(o, n)
  IN /\ CodeRuns
     /\ IsLiteral(o)
     /\ \/ "mixedLiteral" \in Uses
        \/ HasOwn(o, n) => "accessor" \notin Own(o, n).flags
     /\ \/ "literalInherits" \in Uses
        \/ h \notin {o, NoObject} => "writable" \in Own(h, n).flags
     /\ Assigns(o, n, v)
     /\ answer' # Nil

\* get n () { ... } and set n (x) { ... }
LiteralAccessor(o, n, f) ==
  LET p == At(Subscript(objects[o], n), n)
      q == [p EXCEPT !.flags = {"accessor", "configurable"}]
  IN /\ CodeRuns
     /\ IsLiteral(o)
     /\ \/ "mixedLiteral" \in Uses
        \/ HasOwn(o, n) => "accessor" \in Own(o, n).flags
     /\ \/ Writes(o, n, [q EXCEPT !.value = f])
        \/ Writes(o, n, [q EXCEPT !.set = f])

\* DefineOwnDataPropertyNoCheck: the properties RegExp gives its objects.
BuiltIn(o, n, v) ==
  LET p == At(Subscript(objects[o], n), n)
  IN /\ CodeRuns
     /\ IsBuiltIn(o) /\ o \notin known
     /\ ~HasOwn(o, n)
     /\ \E w \in {{}, {"writable"}} :
          Writes(o, n, [p EXCEPT !.value = v, !.flags = w])

\* The literal is evaluated: the program has the object.
Made(o) ==
  /\ CodeRuns
  /\ o \in making
  /\ making' = making \ {o}
  /\ known' = known \cup {o}
  /\ UNCHANGED <<objects, stack, answer, exc>>

-----------------------------------------------------------------------------
(* Object.defineProperty.                                                  *)

\* Mutant of DefineProperty: the property is looked up before it is there.
DefinePropertyMutant(o, n) ==
  /\ CodeRuns
  /\ o \in known
  /\ Len(stack) < MaxCalls
  /\ stack' = Append(stack, DefineFrame(o, n, Position(objects[o], n), {}))
  /\ UNCHANGED <<objects, making, known, answer, exc>>

\* Object_defineProperty up to its first desc_obj->Get.
DefineProperty(o, n) ==
  LET t == Subscript(objects[o], n)
      before == IF HasOwn(o, n) /\ "descriptorGetter" \notin Uses
                THEN {Own(o, n)} ELSE {}
  IN /\ CodeRuns
     /\ o \in known
     /\ \/ "redefine" \in Uses
        \/ HasOwn(o, n) => "configurable" \in Own(o, n).flags
     /\ Len(stack) < MaxCalls
     /\ objects' = [objects EXCEPT ![o] = t]
     /\ \E s \in Pointers(o, n) :
          stack' = Append(s, DefineFrame(o, n, Position(t, n), before))
     /\ UNCHANGED <<making, known, answer, exc>>

\* An assignment through desc: to wherever it points by now.
ThroughPointer(f, p) ==
  LET b == objects[f.object][IndexOf(f.name)]
  IN IF f.moved \/ f.node > Len(b.memory) THEN UNCHANGED objects
     ELSE objects' = [objects EXCEPT ![f.object] =
                        Write(@, IndexOf(f.name), f.node, p)]

Pointed(f) ==
  LET b == objects[f.object][IndexOf(f.name)]
  IN IF f.moved \/ f.node > Len(b.memory) THEN Zero
     ELSE b.memory[f.node].value

\* The call returns its object.
DefineEnds(rest) == stack' = rest /\ answer' = Undefined

Asks(rest, f, phase) ==
  /\ stack' = Append(rest, [f EXCEPT !.phase = phase])
  /\ answer' = IF answer = Nil THEN Undefined ELSE answer

\* desc_obj->Get has given v to the defineProperty f, which has rest under it.
Attribute(rest, f, v) ==
  LET p == Pointed(f)
  IN /\ UNCHANGED <<making, known, exc>>
     /\ \/ /\ f.phase = "value" /\ v = Nil
           /\ answer' = Crashed
           /\ UNCHANGED <<objects, stack>>
        \/ /\ f.phase = "value" /\ v \notin {Nil, Undefined}
           /\ ThroughPointer(f, [p EXCEPT !.value = v, !.flags = {"configurable"}])
           /\ DefineEnds(rest)
        \/ /\ f.phase = "value" /\ v = Undefined
           /\ Asks(rest, f, "get")
           /\ UNCHANGED objects
        \/ /\ f.phase = "get"
           /\ ThroughPointer(f, [p EXCEPT !.value = v])
           /\ Asks(rest, f, "set")
        \/ /\ f.phase = "set"
           /\ ThroughPointer(f, [p EXCEPT !.set = v,
                                 !.flags = {"accessor", "configurable"}])
           /\ DefineEnds(rest)

DefineRuns ==
  answer # Crashed /\ stack # <<>> /\ Top.kind = "define"

\* The attribute is a data property of the descriptor, or not there.
AttributeGiven ==
  /\ DefineRuns
  /\ \E v \in IF "halfDescriptor" \in Uses \/ Top.phase = "value" THEN Values
              ELSE Functions :
       Attribute(Popped, Top, v)

\* It is an accessor, whose function now runs.
AttributeCalls ==
  /\ DefineRuns
  /\ "descriptorGetter" \in Uses
  /\ Len(stack) < MaxCalls
  /\ stack' = Append(stack, AccessorFrame)
  /\ answer' = Undefined
  /\ UNCHANGED <<objects, making, known, exc>>

-----------------------------------------------------------------------------
(* The functions of accessors, and exceptions.                             *)

\* A throw statement.
Throw ==
  /\ CodeRuns
  /\ answer' = Nil
  /\ exc' = TRUE
  /\ UNCHANGED <<objects, making, known, stack>>

\* EvalCatchClause, or the end of context::eval: both assert that the
\* exception is there.
Catch ==
  /\ answer = Nil
  /\ IF exc THEN answer' = Undefined /\ exc' = FALSE
     ELSE answer' = Crashed /\ UNCHANGED exc
  /\ UNCHANGED <<objects, making, known, stack>>

Return ==
  /\ answer # Crashed
  /\ stack # <<>>
  /\ Top.kind = "accessor"
  /\ \E v \in IF answer = Nil THEN {Nil} ELSE Values :
       IF Popped # <<>> /\ Popped[Len(Popped)].kind = "define"
       THEN Attribute(SubSeq(Popped, 1, Len(Popped) - 1), Popped[Len(Popped)], v)
       ELSE /\ stack' = Popped
            /\ answer' = v
            /\ UNCHANGED <<objects, making, known, exc>>

-----------------------------------------------------------------------------

Next ==
  \/ \E o \in Object, n \in Name :
       \/ Get(o, n)
       \/ \E v \in Values : Put(o, n, v) \/ LiteralProperty(o, n, v)
       \/ Delete(o, n)
       \/ \E f \in Functions : LiteralAccessor(o, n, f)
       \/ \E v \in Data : BuiltIn(o, n, v)
       \/ DefineProperty(o, n)
  \/ \E o \in Object : Made(o)
  \/ AttributeGiven
  \/ AttributeCalls
  \/ Throw
  \/ Catch
  \/ Return

Spec == Init /\ [][Next]_vars

-----------------------------------------------------------------------------
(* Properties.                                                             *)

FrameType ==
  {AccessorFrame} \cup
  [kind : {"define"}, object : Object, name : Name, node : Nat \ {0},
   moved : BOOLEAN, phase : {"value", "get", "set"},
   before : SUBSET Property]

TypeOK ==
  /\ objects \in [Object -> Table]
  /\ making \subseteq Object
  /\ known \subseteq Object
  /\ stack \in Seq(FrameType)
  /\ answer \in Values \cup {Nil, Crashed}
  /\ exc \in BOOLEAN

Defining(o, n) ==
  {i \in DOMAIN stack : /\ stack[i].kind = "define"
                        /\ stack[i].object = o /\ stack[i].name = n}

\* Whatever the accessors called in the middle of a defineProperty do to the
\* object, and wherever the Property* it holds points by then, the storage
\* stays sound: no name twice, none in another's bucket (builtin.cc 252-262).
StorageSound ==
  \A o \in Object : InMemory(objects[o]) /\ Placed(objects[o])

ReadOnly(o, n) == HasOwn(o, n) /\ Own(o, n).flags \cap {"accessor", "writable"} = {}

\* A read-only property keeps its value through everything code can do short of
\* defining a property of the object (through a stale Property* that may hit
\* another name), assignments through objects that inherit it and accessors
\* included; it can only be deleted, and a built-in one not even that
\* (context.cc 163-229, context.hh 307-316).
ReadOnlyKept ==
  [][\A o \in Object, n \in Name :
       /\ o \notin making
       /\ \A i \in DOMAIN stack : stack[i].kind = "define" => stack[i].object # o
       /\ ReadOnly(o, n)
       => \/ HasOwn(o, n)' /\ Own(o, n)' = Own(o, n)
          \/ ~HasOwn(o, n)' /\ "configurable" \in Own(o, n).flags]_objects

\* A null any_ref means an exception, and an exception is what the code running
\* has to deal with next: none is left behind for a later Catch() to find, and
\* no null comes without one (evalast.cc 1070, context.hh 261-271).
ExceptionsMatch == answer # Crashed => (exc <=> answer = Nil)

Orundef(v) == IF v = Nil THEN Undefined ELSE v

\* What an entry means.
Described(p) ==
  IF "accessor" \in p.flags
  THEN [kind |-> "accessor", get |-> Orundef(p.value), set |-> Orundef(p.set),
        configurable |-> "configurable" \in p.flags]
  ELSE [kind |-> "data", value |-> p.value, writable |-> "writable" \in p.flags,
        configurable |-> "configurable" \in p.flags]

\* A property that is being defined is still what it was.
Entry(o, n) ==
  IF stack # <<>> /\ Defining(o, n) # {} THEN Top.before
  ELSE IF HasOwn(o, n) THEN {Own(o, n)} ELSE {}

Descriptors ==
  [o \in Object |-> [n \in Name |->
    LET e == Entry(o, n)
    IN IF e = {} THEN [kind |-> "absent"] ELSE Described(CHOOSE p \in e : TRUE)]]

Running == Cardinality({i \in DOMAIN stack : stack[i].kind = "accessor"})

Given == IF answer = Nil THEN Thrown ELSE answer

\* The code takes no attributes: whatever is asked, what it defines is read-only
\* and configurable.  The language agrees where programs ask for just that.
Model == INSTANCE PropertyModel WITH
  Attributes <- {[writable |-> {FALSE}, configurable |-> {TRUE}]},
  new <- making, own <- Descriptors, calls <- Running, answer <- Given

\* Stored in reused memory and found along two different paths of Put, the
\* properties of programs without these uses, who ask defineProperty for what is
\* read-only and configurable, are those of the language: every operation does what
\* it should to the descriptors, and runs the accessor it should (context.cc
\* 126-229, evalast.cc 443-479, builtin.cc 243-268).
ImplementsPropertyModel == Model!Spec
=============================================================================
