------------------------------- MODULE Arrays -------------------------------
(***************************************************************************)
(* An array: the Array of context.cc with the "length" property and the    *)
(* elements of its object, and the built-in operations of builtin.cc and   *)
(* startup.js on it.                                                       *)
(*                                                                         *)
(* An operation works element by element.  Whatever it reads may be an     *)
(* accessor, whatever it writes may run a setter, and forEach calls its    *)
(* callback: there any code of the program runs, operations on the same    *)
(* array included, while the operation goes by the length it took before.  *)
(* What an operation has left to do is known when it starts, as a sequence *)
(* of reads and writes.                                                    *)
(***************************************************************************)
EXTENDS Integers, Sequences, SequencesExt

CONSTANTS
  Datum,         \* the values of elements
  Undefined,     \* undefined
  NoValue,       \* the null any_ref, which stands for an exception
  AccessorPair,  \* a property that is an accessor, with a getter and a setter
  ThisArray,     \* the array, as an argument of concat
  MaxLength,     \* bound: the longest array programs make
  MaxArguments,  \* the most arguments apply passes on (1000 in the code)
  MaxItems,      \* bound: the most items one operation adds
  Width,         \* bits of a length (32 in the code)
  MaxAccessors,  \* bound: the most elements that are accessors at one time
  MaxNested      \* bound: the most operations running inside one another

ASSUME ArrayBoundsAssumption ==
  /\ MaxLength \in Nat /\ MaxItems \in Nat /\ MaxArguments \in Nat /\ MaxAccessors \in Nat /\ MaxNested \in Nat
  /\ Width \in Nat /\ 2^Width \in Nat /\ MaxLength + 1 < 2^Width
ASSUME ArrayValuesAssumption ==
  /\ {Undefined, NoValue, AccessorPair, ThisArray} \cap Datum = {}
  /\ Undefined \notin {NoValue, AccessorPair}
  /\ NoValue # AccessorPair

VARIABLES
  length,       \* Array::length
  lengthValue,  \* the value of the property "length"
  elements,     \* the properties that are indices: a value or AccessorPair
  frames,       \* the operations running, the innermost last
  answer,       \* what the last one of them returned, or passed on
  past          \* history, for the properties only

vars == <<length, lengthValue, elements, frames, answer, past>>

Lengths == 0..(2^Width - 1)
Indices == 0..(MaxLength - 1)
Readable == Datum \cup {Undefined}
Slots == Datum \cup {Undefined, NoValue, AccessorPair}

(* A frame is an operation that runs: what it has left to do, what it has  *)
(* made so far, what it waits for, and two things only properties ask      *)
(* about, what the array read before it and whether code it called threw.  *)
Waits == {"nothing", "getter", "setter", "callback"}
Operations == {"push", "pop", "splice", "shift", "concat", "slice", "forEach", "apply"}

Runner == Last(frames)
WithRunner(f) == Append(Front(frames), f)
NextDone(f) == [f EXCEPT !.work = Tail(@), !.waits = "nothing"]
Instruction == Head(Runner.work)

\* Code of the program runs: no operation does, or one has called it.
ProgramRuns == frames # <<>> => Runner.waits # "nothing"

\* The innermost operation runs, and its next instruction is one of kinds.
OperationAt(kinds) ==
  /\ ~ProgramRuns
  /\ Runner.work # <<>> /\ Instruction.do \in kinds

\* What a[i] reads, for the elements that are no accessors.
ValueAt(i) == IF i \in DOMAIN elements THEN elements[i] ELSE Undefined
IsAccessor(i) == i \in DOMAIN elements /\ elements[i] = AccessorPair
Content == [k \in 1..length |-> ValueAt(k - 1)]

-----------------------------------------------------------------------------
(* Object::Put with DefineOwnArrayProperty, Object::Delete.                *)

StoreElementMutant(i, v) ==
  /\ elements' = [j \in DOMAIN elements \cup {i} |-> IF j = i THEN v ELSE elements[j]]
  /\ length' = IF i >= length THEN i + 1 ELSE length
  /\ UNCHANGED lengthValue
StoreElement(i, v) ==
  /\ elements' = [j \in DOMAIN elements \cup {i} |-> IF j = i THEN v ELSE elements[j]]
  /\ length' = IF i >= length THEN i + 1 ELSE length
  /\ lengthValue' = IF i >= length THEN i + 1 ELSE lengthValue

\* The loop over the elements that go runs from the old length up to the new,
\* smaller one: it touches none of them.
StoreLength(n) == length' = n /\ lengthValue' = n /\ UNCHANGED elements

RemoveElement(i) ==
  /\ elements' = [j \in DOMAIN elements \ {i} |-> elements[j]]
  /\ UNCHANGED <<length, lengthValue>>

NoAnswer == [op |-> "none", made |-> <<>>, threw |-> FALSE, inside |-> FALSE]

\* NewArrayObject: n missing elements, or the elements e.
ArrayOf(n, e) == length = n /\ lengthValue = n /\ elements = e

Init ==
  /\ \E n \in 0..MaxLength :
       \/ ArrayOf(n, [i \in {} |-> Undefined])
       \/ \E e \in [0..(n - 1) -> Datum] : ArrayOf(n, e)
  /\ frames = <<>>
  /\ answer = NoAnswer
  /\ past = [plain |-> TRUE, shrunk |-> FALSE, lost |-> FALSE]

-----------------------------------------------------------------------------
(* What code does to the array without an operation.                       *)

\* a[i] = v.  (On an accessor this is a call, and nothing happens here.)
PutElement(i, v) ==
  /\ ProgramRuns /\ ~IsAccessor(i)
  /\ StoreElement(i, v)
  /\ answer' = NoAnswer /\ UNCHANGED <<frames, past>>

\* a.length = n
PutLength(n) ==
  /\ ProgramRuns
  /\ StoreLength(n)
  /\ past' = [past EXCEPT !.shrunk = @ \/ n < length]
  /\ answer' = NoAnswer /\ UNCHANGED frames

\* delete a[i]
DeleteElement(i) ==
  /\ ProgramRuns
  /\ RemoveElement(i)
  /\ answer' = NoAnswer /\ UNCHANGED <<frames, past>>

Accessors(e) == {i \in DOMAIN e : e[i] = AccessorPair}

\* Object.defineProperty(a, i, { get: ..., set: ... }) leaves the length alone.
DefineAccessor(i) ==
  /\ ProgramRuns
  /\ elements' = [j \in DOMAIN elements \cup {i} |->
                    IF j = i THEN AccessorPair ELSE elements[j]]
  /\ Cardinality(Accessors(elements')) <= MaxAccessors
  /\ past' = [past EXCEPT !.plain = FALSE]
  /\ answer' = NoAnswer /\ UNCHANGED <<length, lengthValue, frames>>

-----------------------------------------------------------------------------
(* The operations, as sequences of instructions.                           *)

Take(i) == [do |-> "take", at |-> i]          \* read into the array to return
Move(i, j) == [do |-> "move", at |-> i, to |-> j]
Write(i, v) == [do |-> "write", at |-> i, value |-> v]
Erased(i) == [do |-> "erase", at |-> i]
SetLength(n) == [do |-> "setLength", to |-> n]
TakeLast == [do |-> "takeLast"]               \* what pop returns
DropLast == [do |-> "dropLast"]
Collect(i) == [do |-> "collect", at |-> i]    \* as Take, but stops at an exception
Spread == [do |-> "spread"]                   \* of concat: an argument that is an array
Add(v) == [do |-> "add", value |-> v]         \* and one that is not
CallWith(i) == [do |-> "call", at |-> i]      \* the callback, with an element
Invoke == [do |-> "invoke"]                   \* the function apply was called on

\* f of the numbers from m up to n - 1.
Each(f(_), m, n) == [k \in 1..(IF n > m THEN n - m ELSE 0) |-> f(m + k - 1)]

\* The elements from index from on move down by less, and the last ones go.
ClosesGapMutant(n, from, less) ==
  Each(LAMBDA i : Move(i, i - less), from, n) \o Each(Erased, n - less + 1, n)
ClosesGap(n, from, less) ==
  Each(LAMBDA i : Move(i, i - less), from, n) \o Each(Erased, n - less, n)

\* The elements from index from on move up by more, the last one first.
OpensGapMutant(n, from, more) == Each(LAMBDA i : Move(i, i + more), from, n)
OpensGap(n, from, more) == Reverse(Each(LAMBDA i : Move(i, i + more), from, n))

SpliceWork(n, start, count, items) ==
  LET inserted == Len(items)
      removed == Each(Take, start, start + count)
      given == [k \in 1..inserted |-> Write(start + k - 1, items[k])]
      less == count - inserted
      more == inserted - count
      from == start + count
  IN removed \o (IF count >= inserted
                 THEN given \o ClosesGap(n, from, less) \o <<SetLength(n - less)>>
                 ELSE OpensGap(n, from, more) \o given \o <<SetLength(n + more)>>)

PushWork(n, items) ==
  Append([k \in DOMAIN items |-> Write(n + k - 1, items[k])], SetLength(n + Len(items)))

ConcatWork(items) ==
  <<Spread>> \o [k \in DOMAIN items |-> IF items[k] = ThisArray THEN Spread ELSE Add(items[k])]

Answer(op, made, threw, inside) ==
  answer' = [op |-> op, made |-> made, threw |-> threw, inside |-> inside]

Start(op, work) ==
  /\ ProgramRuns /\ Len(frames) < MaxNested
  /\ frames' = Append(frames, [op |-> op, work |-> work, made |-> <<>>, waits |-> "nothing",
                               before |-> IF past.plain THEN Content ELSE <<>>, inside |-> FALSE])
  /\ answer' = NoAnswer
  /\ UNCHANGED <<length, lengthValue, elements, past>>

\* An operation that finds nothing to do.
AtOnce(op) ==
  /\ ProgramRuns
  /\ Answer(op, <<Undefined>>, FALSE, FALSE)
  /\ UNCHANGED <<length, lengthValue, elements, frames, past>>

Push(items) ==
  /\ lengthValue + Len(items) <= MaxLength
  /\ Start("push", PushWork(lengthValue, items))

Pop ==
  \/ length = 0 /\ AtOnce("pop")
  \/ length # 0 /\ Start("pop", <<TakeLast, DropLast>>)

\* The second operand of Array.prototype.splice: where it starts, how many go.
SpliceStart(s) ==
  IF s >= 0 THEN Min({s, lengthValue}) ELSE Max({s + lengthValue, 0})
SpliceCount(s, n) == Min({Max({n, 0}), lengthValue - SpliceStart(s)})

Splice(s, n, items) ==
  /\ lengthValue + Len(items) - SpliceCount(s, n) <= MaxLength
  /\ Start("splice", SpliceWork(lengthValue, SpliceStart(s), SpliceCount(s, n), items))

Shift ==
  \/ lengthValue = 0 /\ AtOnce("shift")
  \/ /\ lengthValue \in 1..MaxLength
     /\ Start("shift", SpliceWork(lengthValue, 0, SpliceCount(0, 1), <<>>))

Concat(items) == length <= MaxLength /\ Start("concat", ConcatWork(items))

\* Where slice stops, asked for end: the length when it is not given, and counted
\* back from it when it is negative.
SliceEnds == (-MaxLength..MaxLength) \cup {Undefined}
SliceEnd(end) ==
  IF end = Undefined THEN lengthValue ELSE IF end < 0 THEN lengthValue + end ELSE end

Slice(begin, end) ==
  /\ SliceEnd(end) <= MaxLength
  /\ Start("slice", Each(Collect, begin, SliceEnd(end)))

\* Function.prototype.apply, with the array for arguments.
Apply ==
  \/ lengthValue > MaxArguments /\ ProgramRuns
     /\ Answer("apply", <<>>, TRUE, TRUE)
     /\ UNCHANGED <<length, lengthValue, elements, frames, past>>
  \/ lengthValue <= MaxArguments /\ Start("apply", Append(Each(Take, 0, lengthValue), Invoke))

ForEach == lengthValue <= MaxLength /\ Start("forEach", Each(CallWith, 0, lengthValue))

-----------------------------------------------------------------------------
(* The instructions.                                                       *)

IgnoresExceptions(f) == f.op \in {"splice", "shift"}

GivesUpMutant(f) ==
  /\ frames' = Front(frames)
  /\ Answer(f.op, f.made, FALSE, f.inside)
  /\ UNCHANGED past
\* The operation ends with an exception.
GivesUp(f) ==
  /\ frames' = Front(frames)
  /\ Answer(f.op, <<>>, TRUE, f.inside)
  /\ UNCHANGED past

\* The operation has read v, which may be no value.
Reads(f, v) ==
  LET done == NextDone(f)
      collected == [done EXCEPT !.made = Append(@, v)]
      kind == Head(f.work).do
  IN \/ /\ kind \in {"take", "takeLast"} \/ (kind = "collect" /\ v # NoValue)
        /\ frames' = WithRunner(collected)
        /\ past' = [past EXCEPT !.lost = @ \/ (v = NoValue /\ kind = "take")]
        /\ UNCHANGED answer
     \/ /\ kind = "move"
        /\ frames' = WithRunner([done EXCEPT !.work = <<Write(Head(f.work).to, v)>> \o @])
        /\ past' = [past EXCEPT !.lost = @ \/ v = NoValue]
        /\ UNCHANGED answer
     \/ /\ kind = "call" /\ v # NoValue
        /\ frames' = WithRunner([f EXCEPT !.waits = "callback"])
        /\ UNCHANGED <<answer, past>>
     \/ /\ kind \in {"collect", "call"} /\ v = NoValue
        /\ GivesUp(f)

\* Object::Get of an element, at once or by calling its getter.
ReadElement(i) ==
  /\ IF IsAccessor(i)
     THEN frames' = WithRunner([Runner EXCEPT !.waits = "getter"]) /\ UNCHANGED <<answer, past>>
     ELSE Reads(Runner, ValueAt(i))
  /\ UNCHANGED <<length, lengthValue, elements>>

DoRead == OperationAt({"take", "move", "collect"}) /\ ReadElement(Instruction.at)
DoTakeLast == OperationAt({"takeLast"}) /\ ReadElement((length - 1) % 2^Width)

\* forEach passes over what GetProperty does not find.
DoCall ==
  /\ OperationAt({"call"})
  /\ IF Instruction.at \in DOMAIN elements THEN ReadElement(Instruction.at)
     ELSE /\ frames' = WithRunner(NextDone(Runner))
          /\ UNCHANGED <<length, lengthValue, elements, answer, past>>

\* answer is what the function gets.
DoInvoke ==
  /\ OperationAt({"invoke"})
  /\ frames' = WithRunner([Runner EXCEPT !.waits = "callback", !.made = <<>>])
  /\ Answer("apply", Runner.made, FALSE, FALSE)
  /\ UNCHANGED <<length, lengthValue, elements, past>>

DoWrite ==
  /\ OperationAt({"write"})
  /\ IF IsAccessor(Instruction.at)
     THEN /\ frames' = WithRunner([Runner EXCEPT !.waits = "setter"])
          /\ UNCHANGED <<length, lengthValue, elements>>
     ELSE /\ StoreElement(Instruction.at, Instruction.value)
          /\ frames' = WithRunner(NextDone(Runner))
  /\ UNCHANGED <<answer, past>>

DoErase ==
  /\ OperationAt({"erase"})
  /\ RemoveElement(Instruction.at)
  /\ frames' = WithRunner(NextDone(Runner))
  /\ UNCHANGED <<answer, past>>

DoSetLength ==
  /\ OperationAt({"setLength"})
  /\ StoreLength(Instruction.to)
  /\ frames' = WithRunner(NextDone(Runner))
  /\ UNCHANGED <<answer, past>>

\* pop reads the length again: what its getter called may have changed it.
DoDropLast ==
  /\ OperationAt({"dropLast"})
  /\ StoreLength((length - 1) % 2^Width)
  /\ frames' = WithRunner(NextDone(Runner))
  /\ past' = [past EXCEPT !.shrunk = TRUE]
  /\ UNCHANGED answer

\* concat takes the length of an argument when it comes to it.
DoSpread ==
  /\ OperationAt({"spread"})
  /\ frames' = WithRunner([Runner EXCEPT !.work = Each(Collect, 0, length) \o Tail(@)])
  /\ UNCHANGED <<length, lengthValue, elements, answer, past>>

DoAdd ==
  /\ OperationAt({"add"})
  /\ frames' = WithRunner([NextDone(Runner) EXCEPT !.made = Append(@, Instruction.value)])
  /\ UNCHANGED <<length, lengthValue, elements, answer, past>>

\* All is done.  A null returned is an exception to whoever called.
DoReturn ==
  /\ ~ProgramRuns /\ Runner.work = <<>>
  /\ frames' = Front(frames)
  /\ Answer(Runner.op, Runner.made,
            Runner.op \in {"pop", "shift"} /\ Runner.made[1] = NoValue, Runner.inside)
  /\ UNCHANGED <<length, lengthValue, elements, past>>

-----------------------------------------------------------------------------
(* The end of a getter, a setter or a callback.                            *)

Returns(v) ==
  /\ frames # <<>>
  /\ \/ Runner.waits = "getter" /\ Reads([Runner EXCEPT !.waits = "nothing"], v)
     \/ /\ Runner.waits \in {"setter", "callback"}
        /\ frames' = WithRunner(NextDone(Runner))
        /\ UNCHANGED <<answer, past>>
  /\ UNCHANGED <<length, lengthValue, elements>>

Throws ==
  /\ frames # <<>>
  /\ LET f == [Runner EXCEPT !.inside = TRUE, !.waits = "nothing"]
     IN \/ Runner.waits = "getter" /\ Reads(f, NoValue)
        \/ /\ Runner.waits = "setter" /\ IgnoresExceptions(f)
           /\ frames' = WithRunner(NextDone(f))
           /\ past' = [past EXCEPT !.lost = TRUE]
           /\ UNCHANGED answer
        \/ /\ \/ Runner.waits = "callback"
              \/ Runner.waits = "setter" /\ ~IgnoresExceptions(f)
           /\ GivesUp(f)
  /\ UNCHANGED <<length, lengthValue, elements>>

Next ==
  \/ \E i \in Indices : \/ \E v \in Datum : PutElement(i, v)
                         \/ DeleteElement(i)
                         \/ DefineAccessor(i)
  \/ \E n \in 0..MaxLength : PutLength(n)
  \/ \E items \in SeqOf(Datum, MaxItems) :
       \/ Push(items)
       \/ \E s \in -1..MaxLength, n \in -1..MaxLength : Splice(s, n, items)
  \/ Pop \/ Shift \/ Apply \/ ForEach
  \/ \E items \in SeqOf(Datum \cup {ThisArray}, 1) : Concat(items)
  \/ \E begin \in 0..MaxLength, end \in SliceEnds : Slice(begin, end)
  \/ DoRead \/ DoTakeLast \/ DoCall \/ DoInvoke \/ DoWrite \/ DoErase \/ DoSetLength
  \/ DoDropLast \/ DoSpread \/ DoAdd \/ DoReturn
  \/ \E v \in Datum : Returns(v)
  \/ Throws

Spec == Init /\ [][Next]_vars

-----------------------------------------------------------------------------
\* Types; and Array::length and the property "length", which are set apart, are
\* the same number (context.cc 137-148).
TypeOK ==
  /\ length \in Lengths /\ lengthValue = length
  /\ DOMAIN elements \subseteq Indices
  /\ \A i \in DOMAIN elements : elements[i] \in Slots
  /\ \A k \in DOMAIN frames : frames[k].op \in Operations /\ frames[k].waits \in Waits
  /\ answer.op \in Operations \cup {"none"}

\* Until the program shrinks the array, no element is at or past the length:
\* elements move, go and are stored, and the length is set, in an order in which
\* none is left behind (builtin.cc 549-611, context.cc 120-153).
ElementsBelowLength ==
  (past.plain /\ ~past.shrunk) => \A i \in DOMAIN elements : i < length

\* What an operation returns is an exception just when code it called threw one,
\* whatever that code did to the array before.  Only splice, shift and apply go
\* on when an element has no value; that exception is lost, and the null that
\* stands for it is stored like a value (builtin.cc 406, 482-486, 524-531, 582,
\* 591).
ReportsExceptions ==
  ~past.lost => /\ answer.threw <=> answer.inside
                /\ \A i \in DOMAIN elements : elements[i] # NoValue

\* Whether an operation that writes to the array is half done.
HalfDone == ~ProgramRuns /\ Runner.op \notin {"forEach", "apply"}

\* What reading the array below its length gives, or gave before the operation
\* that is half done; and what that operation has returned.
Seen == IF ~past.plain THEN <<>> ELSE IF HalfDone THEN Runner.before ELSE Content
Told ==
  IF past.plain THEN [op |-> answer.op, made |-> answer.made, threw |-> answer.threw]
  ELSE [op |-> "none", made |-> <<>>, threw |-> FALSE]

Contract == INSTANCE ArrayContract WITH
  plain <- past.plain, content <- Seen, answer <- Told

\* Element by element, every operation does to the array and returns what it
\* should do at once (builtin.cc 371-411, 441-611, startup.js 232-257).
ImplementsContract == Contract!Spec
=============================================================================
