---------------------------- MODULE ArraysProofs ----------------------------
(***************************************************************************)
(* Arrays of any length, with any accessors and callbacks: the two copies  *)
(* of the length agree, and exceptions are reported.  Without accessors,   *)
(* no element is left behind past the length, and the operations, element  *)
(* by element, implement the contract, which has one step for each.        *)
(***************************************************************************)
EXTENDS Arrays, TLAPS

Values == Datum \cup {Undefined, NoValue}

\* What an operation may have left to do: it writes to elements and to the length
\* within bounds.
Instructions ==
  [do : {"take", "collect", "call", "erase"}, at : Int] \cup
  [do : {"move"}, at : Int, to : Indices] \cup
  [do : {"write"}, at : Indices, value : Values] \cup
  [do : {"setLength"}, to : Lengths] \cup
  [do : {"add"}, value : Datum] \cup
  [do : {"takeLast", "dropLast", "spread", "invoke"}]

Frame ==
  [op : Operations, work : Seq(Instructions), made : Seq(Values), waits : Waits,
   before : Seq(Slots), inside : BOOLEAN]

\* Only writes wait for setters, and only calls for callbacks.
Waiting(f) ==
  /\ f.waits # "nothing" => f.work # <<>>
  /\ f.waits = "setter" => Head(f.work).do = "write"
  /\ f.waits = "callback" => Head(f.work).do \in {"call", "invoke"}

\* pop and shift have something to return when they have done all, and only apply
\* drops what it has read.
Shape(f) ==
  /\ f.op = "pop" => \/ f.work = <<TakeLast, DropLast>> /\ f.made = <<>>
                     \/ f.work \in {<<DropLast>>, <<>>} /\ f.made # <<>>
  /\ f.op # "pop" => \A k \in DOMAIN f.work : f.work[k].do # "takeLast"
  /\ f.op = "shift" => /\ f.made # <<>> \/ (f.work # <<>> /\ Head(f.work).do = "take")
                       /\ \A k \in DOMAIN f.work : f.work[k].do # "invoke"

\* While no exception is lost, no null is about to be stored, and an operation
\* that goes on after an exception is pop, which will return it.
Sound(f) ==
  /\ \A k \in DOMAIN f.work : f.work[k].do = "write" => f.work[k].value # NoValue
  /\ (f.op = "shift" /\ f.made # <<>>) => f.made[1] # NoValue
  /\ f.inside <=> (f.op = "pop" /\ f.made # <<>> /\ f.made[1] = NoValue)

FrameOK(f, lost) == f \in Frame /\ Waiting(f) /\ Shape(f) /\ (~lost => Sound(f))
FramesOK(fs, lost) == fs \in Seq(Frame) /\ \A k \in DOMAIN fs : FrameOK(fs[k], lost)

LengthsOK(n, v) == n \in Lengths /\ v = n
ElementsOK(e, lost) ==
  /\ DOMAIN e \subseteq Indices
  /\ \A i \in DOMAIN e : e[i] \in Slots /\ (~lost => e[i] # NoValue)
AnswerOK(a, lost) ==
  /\ a.op \in Operations \cup {"none"}
  /\ ~lost => (a.threw <=> a.inside)
PastOK(p) == p \in [plain : BOOLEAN, shrunk : BOOLEAN, lost : BOOLEAN]

IInv ==
  /\ LengthsOK(length, lengthValue)
  /\ ElementsOK(elements, past.lost)
  /\ FramesOK(frames, past.lost)
  /\ AnswerOK(answer, past.lost)
  /\ PastOK(past)

-----------------------------------------------------------------------------
(* Numbers and sequences.                                                  *)

LEMMA Bounds ==
  /\ MaxLength \in Nat /\ 2^Width \in Nat /\ MaxLength + 1 < 2^Width
  /\ 0..MaxLength \subseteq Lengths
  BY ArrayBoundsAssumption DEF Lengths

\* Lengths wrap.
LEMMA Wraps ==
  ASSUME NEW n \in Int
  PROVE  n % 2^Width \in Lengths
  <1> DEFINE w == 2^Width
  <1>1. w \in Nat /\ w > 0
    BY Bounds
  <1> HIDE DEF w
  <1>2. n % w \in 0..(w - 1)
    BY <1>1
  <1> QED BY <1>2 DEF w, Lengths

LEMMA MinOfTwo ==
  ASSUME NEW a \in Int, NEW b \in Int
  PROVE  Min({a, b}) = IF a <= b THEN a ELSE b
  BY DEF Min

LEMMA MaxOfTwo ==
  ASSUME NEW a \in Int, NEW b \in Int
  PROVE  Max({a, b}) = IF a <= b THEN b ELSE a
  BY DEF Max

LEMMA ItemsSeq ==
  ASSUME NEW S, NEW n, NEW items \in SeqOf(S, n)
  PROVE  items \in Seq(S)
  BY DEF SeqOf

LEMMA SeqElement ==
  ASSUME NEW S, NEW q \in Seq(S), NEW k \in DOMAIN q
  PROVE  q[k] \in S
  OBVIOUS

LEMMA SeqJoined ==
  ASSUME NEW S, NEW q \in Seq(S), NEW r \in Seq(S)
  PROVE  q \o r \in Seq(S)
  OBVIOUS

LEMMA SeqFunction ==
  ASSUME NEW S, NEW n \in Nat, NEW q \in [1..n -> S]
  PROVE  q \in Seq(S) /\ Len(q) = n
  OBVIOUS

LEMMA SeqReversed ==
  ASSUME NEW S, NEW q \in Seq(S)
  PROVE  Reverse(q) \in Seq(S)
  <1>1. \A i \in 1..Len(q) : q[Len(q) - i + 1] \in S
    OBVIOUS
  <1>2. Reverse(q) \in [1..Len(q) -> S]
    BY <1>1 DEF Reverse
  <1>3. Len(q) \in Nat
    OBVIOUS
  <1> QED BY <1>2, <1>3, SeqFunction

LEMMA SeqTail ==
  ASSUME NEW S, NEW q \in Seq(S), q # <<>>
  PROVE  /\ Head(q) \in S /\ Head(q) = q[1] /\ 1 \in DOMAIN q
         /\ Tail(q) \in Seq(S)
         /\ \A k \in DOMAIN Tail(q) : Tail(q)[k] = q[k + 1] /\ k + 1 \in DOMAIN q
  OBVIOUS

LEMMA SeqAppended ==
  ASSUME NEW S, NEW q \in Seq(S), NEW e \in S
  PROVE  /\ Append(q, e) \in Seq(S) /\ Append(q, e) # <<>>
         /\ \A k \in DOMAIN Append(q, e) :
              Append(q, e)[k] = IF k \in DOMAIN q THEN q[k] ELSE e
         /\ Append(q, e)[1] = IF q = <<>> THEN e ELSE q[1]
  <1>1. Append(q, e) \in Seq(S) /\ Len(Append(q, e)) = Len(q) + 1
    OBVIOUS
  <1>2. \A k \in 1..Len(q) : Append(q, e)[k] = q[k]
    OBVIOUS
  <1>3. Append(q, e)[Len(q) + 1] = e
    OBVIOUS
  <1>4. q = <<>> <=> Len(q) = 0
    OBVIOUS
  <1>5. DOMAIN Append(q, e) = 1..(Len(q) + 1) /\ DOMAIN q = 1..Len(q) /\ Len(q) \in Nat
    OBVIOUS
  <1>6. Append(q, e) # <<>>
    <2>1. 1 \in DOMAIN Append(q, e)
      BY <1>5
    <2>2. DOMAIN <<>> = {}
      OBVIOUS
    <2> QED BY <2>1, <2>2, Zenon
  <1> QED BY <1>1, <1>2, <1>3, <1>4, <1>5, <1>6

LEMMA SeqFront ==
  ASSUME NEW S, NEW q \in Seq(S), q # <<>>
  PROVE  /\ Front(q) \in Seq(S) /\ Last(q) \in S /\ Len(q) \in DOMAIN q /\ Last(q) = q[Len(q)]
         /\ \A k \in DOMAIN Front(q) : k \in DOMAIN q /\ Front(q)[k] = q[k]
  BY DEF Front, Last

-----------------------------------------------------------------------------
(* Instructions.                                                           *)

\* What an operation may begin with, but pop and apply.
Fresh == {i \in Instructions : i.do \notin {"takeLast", "invoke"} /\ (i.do = "write" => i.value # NoValue)}

LEMMA InstructionParts ==
  ASSUME NEW i \in Instructions
  PROVE  /\ i.do \in {"take", "collect", "call", "erase", "move"} => i.at \in Int
         /\ i.do = "move" => i.to \in Indices
         /\ i.do = "write" => i.at \in Indices /\ i.value \in Values
         /\ i.do = "setLength" => i.to \in Lengths
         /\ i.do = "add" => i.value \in Datum
  BY DEF Instructions

LEMMA Constructors ==
  /\ \A i \in Int : Take(i) \in Fresh /\ Collect(i) \in Fresh /\ CallWith(i) \in Fresh /\ Erased(i) \in Fresh
  /\ \A i \in Int, j \in Indices : Move(i, j) \in Fresh
  /\ \A i \in Indices, v \in Datum \cup {Undefined} : Write(i, v) \in Fresh
  /\ \A i \in Indices, v \in Values : Write(i, v) \in Instructions
  /\ \A n \in Lengths : SetLength(n) \in Fresh
  /\ \A v \in Datum : Add(v) \in Fresh
  /\ DropLast \in Fresh /\ Spread \in Fresh
  /\ TakeLast \in Instructions /\ Invoke \in Instructions
  <1>1. /\ \A i \in Int : Take(i) \in Fresh /\ Collect(i) \in Fresh /\ CallWith(i) \in Fresh /\ Erased(i) \in Fresh
        /\ \A i \in Int, j \in Indices : Move(i, j) \in Fresh
    BY DEF Fresh, Instructions, Take, Collect, CallWith, Erased, Move
  <1>2. \A i \in Indices, v \in Datum \cup {Undefined} : Write(i, v) \in Fresh
    BY ArrayValuesAssumption DEF Fresh, Instructions, Write, Values
  <1>3. \A i \in Indices, v \in Values : Write(i, v) \in Instructions
    BY DEF Instructions, Write
  <1>4. /\ \A n \in Lengths : SetLength(n) \in Fresh
        /\ \A v \in Datum : Add(v) \in Fresh
    BY DEF Fresh, Instructions, SetLength, Add
  <1>5. /\ DropLast \in Fresh /\ Spread \in Fresh
        /\ TakeLast \in Instructions /\ Invoke \in Instructions
    BY DEF Fresh, Instructions, DropLast, Spread, Invoke, TakeLast
  <1> QED BY <1>1, <1>2, <1>3, <1>4, <1>5

LEMMA FreshWork ==
  ASSUME NEW w \in Seq(Fresh \cup {Invoke})
  PROVE  /\ w \in Seq(Instructions)
         /\ \A k \in DOMAIN w : w[k].do # "takeLast" /\ (w[k].do = "write" => w[k].value # NoValue)
         /\ w \in Seq(Fresh) => \A k \in DOMAIN w : w[k].do # "invoke"
  <1>1. \A i \in Fresh \cup {Invoke} :
          i \in Instructions /\ i.do # "takeLast" /\ (i.do = "write" => i.value # NoValue)
    BY Constructors DEF Fresh, Invoke
  <1>2. w \in Seq(Instructions)
    BY <1>1
  <1>3. \A k \in DOMAIN w : w[k] \in Fresh \cup {Invoke}
    BY SeqElement
  <1>4. ASSUME w \in Seq(Fresh)
        PROVE  \A k \in DOMAIN w : w[k].do # "invoke"
    <2>1. \A k \in DOMAIN w : w[k] \in Fresh
      BY <1>4, SeqElement
    <2> QED BY <2>1 DEF Fresh
  <1> QED BY <1>1, <1>2, <1>3, <1>4

\* What splice does, for an array of n elements.
LEMMA SpliceWorkFresh ==
  ASSUME NEW n \in Nat, NEW start \in 0..n, NEW count \in 0..(n - start),
         NEW items \in Seq(Datum), n + Len(items) - count <= MaxLength
  PROVE  /\ SpliceWork(n, start, count, items) \in Seq(Fresh)
         /\ count > 0 => /\ SpliceWork(n, start, count, items) # <<>>
                         /\ Head(SpliceWork(n, start, count, items)).do = "take"
  <1> DEFINE inserted == Len(items)
             removed == Each(Take, start, start + count)
             given == [k \in 1..inserted |-> Write(start + k - 1, items[k])]
             less == count - inserted
             more == inserted - count
             from == start + count
  <1>0. inserted \in Nat /\ MaxLength \in Nat
    BY Bounds
  <1>1. removed \in Seq(Fresh) /\ Len(removed) = count /\ \A k \in 1..count : removed[k].do = "take"
    <2>1. removed = [k \in 1..count |-> Take(start + k - 1)]
      BY <1>0 DEF Each
    <2>2. \A k \in 1..count : Take(start + k - 1) \in Fresh /\ Take(start + k - 1).do = "take"
      BY Constructors DEF Take
    <2>3. removed \in [1..count -> Fresh]
      BY <2>1, <2>2
    <2>4. removed \in Seq(Fresh) /\ Len(removed) = count
      <3>1. count \in Nat
        OBVIOUS
      <3> HIDE DEF removed
      <3> QED BY <2>3, <3>1, SeqFunction
    <2>5. \A k \in 1..count : removed[k].do = "take"
      BY <2>1, <2>2
    <2> QED BY <2>4, <2>5
  <1>2. given \in Seq(Fresh)
    <2>1. \A k \in 1..inserted : start + k - 1 \in Indices /\ items[k] \in Datum
      BY <1>0 DEF Indices
    <2>2. \A k \in 1..inserted : Write(start + k - 1, items[k]) \in Fresh
      BY <2>1, Constructors
    <2>3. given \in [1..inserted -> Fresh]
      BY <2>2
    <2> QED BY <2>3, <1>0, SeqFunction
  <1>3. ASSUME less >= 0
        PROVE  ClosesGap(n, from, less) \in Seq(Fresh) /\ <<SetLength(n - less)>> \in Seq(Fresh)
    <2>1. Each(LAMBDA i : Move(i, i - less), from, n) \in Seq(Fresh)
      <3>1. Each(LAMBDA i : Move(i, i - less), from, n)
              = [k \in 1..(n - from) |-> Move(from + k - 1, from + k - 1 - less)]
        BY <1>0 DEF Each
      <3>2. \A k \in 1..(n - from) : from + k - 1 \in Int /\ from + k - 1 - less \in Indices
        BY <1>0, <1>3 DEF Indices
      <3>3. \A k \in 1..(n - from) : Move(from + k - 1, from + k - 1 - less) \in Fresh
        BY <3>2, Constructors
      <3>4. Each(LAMBDA i : Move(i, i - less), from, n) \in [1..(n - from) -> Fresh]
        BY <3>1, <3>3
      <3>5. n - from \in Nat
        OBVIOUS
      <3> QED BY <3>4, <3>5, SeqFunction
    <2>2. Each(Erased, n - less, n) \in Seq(Fresh)
      <3>1. Each(Erased, n - less, n) = [k \in 1..less |-> Erased(n - less + k - 1)]
        BY <1>0, <1>3 DEF Each
      <3>2. \A k \in 1..less : Erased(n - less + k - 1) \in Fresh
        BY Constructors, <1>0
      <3>3. Each(Erased, n - less, n) \in [1..less -> Fresh]
        BY <3>1, <3>2
      <3> QED BY <3>3, <1>0, <1>3, SeqFunction
    <2>3. SetLength(n - less) \in Fresh
      BY <1>0, <1>3, Constructors, Bounds
    <2> QED BY <2>1, <2>2, <2>3, SeqJoined DEF ClosesGap
  <1>4. ASSUME more > 0
        PROVE  OpensGap(n, from, more) \in Seq(Fresh) /\ <<SetLength(n + more)>> \in Seq(Fresh)
    <2>1. Each(LAMBDA i : Move(i, i + more), from, n) \in Seq(Fresh)
      <3>1. Each(LAMBDA i : Move(i, i + more), from, n)
              = [k \in 1..(n - from) |-> Move(from + k - 1, from + k - 1 + more)]
        BY <1>0 DEF Each
      <3>2. \A k \in 1..(n - from) : from + k - 1 \in Int /\ from + k - 1 + more \in Indices
        BY <1>0, <1>4 DEF Indices
      <3>3. \A k \in 1..(n - from) : Move(from + k - 1, from + k - 1 + more) \in Fresh
        BY <3>2, Constructors
      <3>4. Each(LAMBDA i : Move(i, i + more), from, n) \in [1..(n - from) -> Fresh]
        BY <3>1, <3>3
      <3>5. n - from \in Nat
        OBVIOUS
      <3> QED BY <3>4, <3>5, SeqFunction
    <2>2. OpensGap(n, from, more) \in Seq(Fresh)
      BY <2>1, SeqReversed DEF OpensGap
    <2>3. SetLength(n + more) \in Fresh
      BY <1>0, <1>4, Constructors, Bounds
    <2> QED BY <2>2, <2>3
  <1>5. SpliceWork(n, start, count, items)
          = removed \o (IF count >= inserted
                        THEN given \o ClosesGap(n, from, less) \o <<SetLength(n - less)>>
                        ELSE OpensGap(n, from, more) \o given \o <<SetLength(n + more)>>)
    BY DEF SpliceWork
  <1>6. SpliceWork(n, start, count, items) \in Seq(Fresh)
    <2>1. CASE count >= inserted
      BY <2>1, <1>0, <1>1, <1>2, <1>3, <1>5, SeqJoined
    <2>2. CASE ~(count >= inserted)
      BY <2>2, <1>0, <1>1, <1>2, <1>4, <1>5, SeqJoined
    <2> QED BY <2>1, <2>2
  <1>7. ASSUME count > 0
        PROVE  SpliceWork(n, start, count, items) # <<>> /\ Head(SpliceWork(n, start, count, items)).do = "take"
    <2> DEFINE rest == IF count >= inserted
                       THEN given \o ClosesGap(n, from, less) \o <<SetLength(n - less)>>
                       ELSE OpensGap(n, from, more) \o given \o <<SetLength(n + more)>>
    <2>1. rest \in Seq(Fresh)
      <3>1. CASE count >= inserted
        BY <3>1, <1>0, <1>2, <1>3, SeqJoined
      <3>2. CASE ~(count >= inserted)
        BY <3>2, <1>0, <1>2, <1>4, SeqJoined
      <3> QED BY <3>1, <3>2
    <2> HIDE DEF rest, removed
    <2>2. removed \o rest # <<>> /\ Head(removed \o rest) = removed[1]
      BY <2>1, <1>1, <1>7
    <2> QED BY <2>2, <1>1, <1>5, <1>7 DEF rest
  <1> QED BY <1>6, <1>7

-----------------------------------------------------------------------------
(* Frames.                                                                 *)

\* Less is asked of a frame once an exception is lost.
LEMMA FrameStays ==
  ASSUME NEW lost, NEW lost2, lost => lost2, NEW f, FrameOK(f, lost)
  PROVE  FrameOK(f, lost2)
  BY DEF FrameOK

LEMMA FramesStay ==
  ASSUME NEW lost, NEW lost2, lost => lost2, NEW fs, FramesOK(fs, lost)
  PROVE  FramesOK(fs, lost2)
  BY FrameStays DEF FramesOK

LEMMA FramesGrow ==
  ASSUME NEW lost, NEW lost2, lost => lost2, NEW fs, FramesOK(fs, lost), NEW f, FrameOK(f, lost2)
  PROVE  FramesOK(Append(fs, f), lost2)
  <1>1. fs \in Seq(Frame) /\ f \in Frame
    BY DEF FramesOK, FrameOK
  <1>2. \A k \in DOMAIN fs : FrameOK(fs[k], lost2)
    BY FrameStays DEF FramesOK
  <1>3. Append(fs, f) \in Seq(Frame)
    BY <1>1, SeqAppended
  <1>4. \A k \in DOMAIN Append(fs, f) : Append(fs, f)[k] = IF k \in DOMAIN fs THEN fs[k] ELSE f
    BY <1>1, SeqAppended
  <1>5. \A k \in DOMAIN Append(fs, f) : FrameOK(Append(fs, f)[k], lost2)
    BY <1>2, <1>4
  <1> QED BY <1>3, <1>5 DEF FramesOK

LEMMA FramesShrink ==
  ASSUME NEW lost, NEW lost2, lost => lost2, NEW fs, FramesOK(fs, lost), fs # <<>>
  PROVE  FramesOK(Front(fs), lost2) /\ FrameOK(Last(fs), lost)
  <1>1. fs \in Seq(Frame)
    BY DEF FramesOK
  <1> QED BY <1>1, SeqFront, FrameStays DEF FramesOK

\* The innermost frame changes.
LEMMA RunnerChanges ==
  ASSUME IInv, frames # <<>>, NEW f, NEW lost2, past.lost => lost2, FrameOK(f, lost2)
  PROVE  FramesOK(WithRunner(f), lost2)
  BY FramesShrink, FramesGrow DEF IInv, WithRunner

LEMMA RunnerOK ==
  ASSUME IInv, frames # <<>>
  PROVE  FrameOK(Runner, past.lost) /\ Runner \in Frame
  <1>1. FramesOK(frames, past.lost)
    BY DEF IInv
  <1> DEFINE fs == frames
             lost == past.lost
  <1>2. FramesOK(fs, lost) /\ fs # <<>>
    BY <1>1
  <1> HIDE DEF fs, lost
  <1>3. FrameOK(Last(fs), lost)
    BY <1>2, FramesShrink
  <1> QED BY <1>3 DEF fs, lost, Runner, FrameOK

\* The next instruction is done, and made is added to.
LEMMA NextIsOK ==
  ASSUME NEW f, NEW lost, FrameOK(f, lost), f.work # <<>>, Head(f.work).do \notin {"take", "takeLast"}
  PROVE  FrameOK(NextDone(f), lost)
  <1> DEFINE g == NextDone(f)
  <1>1. f \in Frame /\ f.work \in Seq(Instructions)
    BY DEF FrameOK, Frame
  <1>2. g \in Frame /\ g.work = Tail(f.work) /\ g.waits = "nothing" /\ g.op = f.op /\ g.made = f.made
        /\ g.inside = f.inside
    BY <1>1, SeqTail DEF NextDone, Frame, Waits
  <1>3. \A k \in DOMAIN g.work : g.work[k] = f.work[k + 1] /\ k + 1 \in DOMAIN f.work
    BY <1>1, <1>2, SeqTail
  <1>4. Waiting(g)
    BY <1>2 DEF Waiting
  <1>5. Shape(g)
    <2>1. CASE f.op = "pop"
      <3>1. f.work = <<DropLast>> /\ f.made # <<>>
        BY <2>1 DEF FrameOK, Shape, TakeLast
      <3> QED BY <2>1, <3>1, <1>2 DEF Shape
    <2>2. CASE f.op # "pop"
      BY <2>2, <1>2, <1>3 DEF FrameOK, Shape
    <2> QED BY <2>1, <2>2
  <1>6. ~lost => Sound(g)
    BY <1>2, <1>3 DEF FrameOK, Sound
  <1> QED BY <1>2, <1>4, <1>5, <1>6 DEF FrameOK

\* Reading an element, for whichever instruction asked.
LEMMA ReadsKeeps ==
  ASSUME IInv, frames # <<>>, NEW f \in Frame, NEW v \in Values,
         f.waits = "nothing", f.work # <<>>, Shape(f),
         ~past.lost => /\ \A k \in DOMAIN f.work : f.work[k].do = "write" => f.work[k].value # NoValue
                       /\ (f.op = "shift" /\ f.made # <<>>) => f.made[1] # NoValue
                       /\ f.inside <=> v = NoValue,
         Reads(f, v)
  PROVE  /\ FramesOK(frames', past'.lost) /\ AnswerOK(answer', past'.lost) /\ PastOK(past')
         /\ past.lost => past'.lost
  <1> DEFINE kind == Head(f.work).do
             done == NextDone(f)
             lost == past.lost
  <1>1. /\ f.work \in Seq(Instructions) /\ f.made \in Seq(Values) /\ f.op \in Operations
        /\ f.inside \in BOOLEAN
    BY DEF Frame
  <1>2. PastOK(past) /\ AnswerOK(answer, lost) /\ FramesOK(frames, lost)
    BY DEF IInv
  <1>3. Head(f.work) \in Instructions /\ Head(f.work) = f.work[1] /\ 1 \in DOMAIN f.work
    BY <1>1, SeqTail
  <1>4. /\ done \in Frame /\ done.work = Tail(f.work) /\ done.waits = "nothing" /\ done.op = f.op
        /\ done.made = f.made /\ done.inside = f.inside
    BY <1>1, SeqTail DEF NextDone, Frame, Waits
  <1>5. \A k \in DOMAIN Tail(f.work) : Tail(f.work)[k] = f.work[k + 1] /\ k + 1 \in DOMAIN f.work
    BY <1>1, SeqTail
  <1>6. ASSUME f.op = "pop", kind # "dropLast"
        PROVE  f.work = <<TakeLast, DropLast>> /\ f.made = <<>> /\ kind = "takeLast"
    BY <1>6 DEF Shape, TakeLast, DropLast
  <1>7. f.op # "pop" => kind # "takeLast"
    BY <1>3 DEF Shape
  <1>8. CASE /\ kind \in {"take", "takeLast"} \/ (kind = "collect" /\ v # NoValue)
             /\ frames' = WithRunner([done EXCEPT !.made = Append(@, v)])
             /\ past' = [past EXCEPT !.lost = @ \/ (v = NoValue /\ kind = "take")]
             /\ UNCHANGED answer
    <2> DEFINE g == [done EXCEPT !.made = Append(@, v)]
               lost2 == past'.lost
    <2>1. lost2 <=> (lost \/ (v = NoValue /\ kind = "take"))
      BY <1>2, <1>8 DEF PastOK
    <2>2. PastOK(past')
      BY <1>2, <1>8 DEF PastOK
    <2>3. AnswerOK(answer', lost2)
      BY <1>2, <1>8, <2>1 DEF AnswerOK
    <2>4. /\ g.work = Tail(f.work) /\ g.made = Append(f.made, v) /\ g.waits = "nothing"
          /\ g.op = f.op /\ g.inside = f.inside /\ g \in Frame
      <3>1. Append(f.made, v) \in Seq(Values)
        BY <1>1, SeqAppended
      <3> QED BY <1>4, <3>1 DEF Frame
    <2>5. Append(f.made, v) # <<>> /\ Append(f.made, v)[1] = IF f.made = <<>> THEN v ELSE f.made[1]
      BY <1>1, SeqAppended
    <2>6. Shape(g)
      <3> HIDE DEF g
      <3>1. CASE f.op = "pop"
        <4>1. g.work = <<DropLast>>
          <5>1. f.work = <<TakeLast, DropLast>>
            BY <3>1, <1>6, <1>8
          <5> QED BY <5>1, <2>4
        <4> QED BY <3>1, <4>1, <2>4, <2>5 DEF Shape
      <3>2. CASE f.op # "pop"
        BY <3>2, <2>4, <2>5, <1>5 DEF Shape
      <3> QED BY <3>1, <3>2
    <2>7. ASSUME ~lost2
          PROVE  Sound(g)
      <3> HIDE DEF g
      <3>1. \A k \in DOMAIN g.work : g.work[k].do = "write" => g.work[k].value # NoValue
        BY <2>1, <2>4, <2>7, <1>5
      <3>2. (g.op = "shift" /\ g.made # <<>>) => g.made[1] # NoValue
        <4>1. CASE f.made = <<>>
          BY <4>1, <1>8, <2>1, <2>4, <2>5, <2>7 DEF Shape
        <4>2. CASE f.made # <<>>
          BY <4>2, <2>1, <2>4, <2>5, <2>7
        <4> QED BY <4>1, <4>2
      <3>3. g.inside <=> (g.op = "pop" /\ g.made # <<>> /\ g.made[1] = NoValue)
        BY <1>6, <1>7, <1>8, <2>1, <2>4, <2>5, <2>7
      <3> QED BY <3>1, <3>2, <3>3 DEF Sound
    <2>8. FrameOK(g, lost2)
      BY <2>4, <2>6, <2>7 DEF FrameOK, Waiting
    <2>9. FramesOK(WithRunner(g), lost2)
      BY <2>1, <2>8, RunnerChanges
    <2> QED BY <1>8, <2>1, <2>2, <2>3, <2>9
  <1>9. CASE /\ kind = "move"
             /\ frames' = WithRunner([done EXCEPT !.work = <<Write(Head(f.work).to, v)>> \o @])
             /\ past' = [past EXCEPT !.lost = @ \/ v = NoValue]
             /\ UNCHANGED answer
    <2> DEFINE w == Write(Head(f.work).to, v)
               g == [done EXCEPT !.work = <<w>> \o @]
               lost2 == past'.lost
    <2>1. lost2 <=> (lost \/ v = NoValue)
      BY <1>2, <1>9 DEF PastOK
    <2>2. PastOK(past')
      BY <1>2, <1>9 DEF PastOK
    <2>3. AnswerOK(answer', lost2)
      BY <1>2, <1>9, <2>1 DEF AnswerOK
    <2>4. w \in Instructions /\ w.do = "write" /\ w.value = v
      BY <1>3, <1>9, InstructionParts, Constructors DEF Write
    <2>5. /\ g.work = <<w>> \o Tail(f.work) /\ g.made = f.made /\ g.waits = "nothing"
          /\ g.op = f.op /\ g.inside = f.inside /\ g \in Frame
      <3>1. <<w>> \o Tail(f.work) \in Seq(Instructions)
        BY <1>1, <2>4, SeqTail
      <3> QED BY <1>4, <3>1 DEF Frame
    <2>6. \A k \in DOMAIN g.work : g.work[k] = IF k = 1 THEN w ELSE f.work[k]
      <3> HIDE DEF w, g
      <3>1. Tail(f.work) \in Seq(Instructions)
        BY <1>1, SeqTail
      <3>2. \A k \in DOMAIN (<<w>> \o Tail(f.work)) :
              \/ k = 1 /\ (<<w>> \o Tail(f.work))[k] = w
              \/ k # 1 /\ k - 1 \in DOMAIN Tail(f.work) /\ (<<w>> \o Tail(f.work))[k] = Tail(f.work)[k - 1]
        BY <3>1
      <3> QED BY <2>5, <3>2, <1>5
    <2>7. \A k \in DOMAIN g.work : k = 1 \/ k \in DOMAIN f.work
      <3>1. Tail(f.work) \in Seq(Instructions) /\ Len(Tail(f.work)) = Len(f.work) - 1
        BY <1>1, SeqTail
      <3> HIDE DEF w, g
      <3> QED BY <2>5, <3>1, <1>1
    <2>8. f.op # "pop"
      BY <1>6, <1>9
    <2>9. Shape(g)
      <3> HIDE DEF w, g
      <3>1. \A k \in DOMAIN g.work : g.work[k].do # "takeLast"
        BY <2>4, <2>6, <2>7, <2>8 DEF Shape
      <3>2. f.op = "shift" => g.made # <<>> /\ \A k \in DOMAIN g.work : g.work[k].do # "invoke"
        BY <1>9, <2>4, <2>5, <2>6, <2>7 DEF Shape
      <3> QED BY <3>1, <3>2, <2>5, <2>8 DEF Shape
    <2>10. ASSUME ~lost2
           PROVE  Sound(g)
      <3> HIDE DEF w, g
      <3>1. \A k \in DOMAIN g.work : g.work[k].do = "write" => g.work[k].value # NoValue
        BY <2>1, <2>4, <2>6, <2>7, <2>10
      <3>2. ~g.inside
        BY <2>1, <2>5, <2>10
      <3> QED BY <3>1, <3>2, <2>5, <2>8, <2>10, <2>1 DEF Sound
    <2>11. FrameOK(g, lost2)
      <3> HIDE DEF g
      <3> QED BY <2>5, <2>9, <2>10 DEF FrameOK, Waiting
    <2>12. FramesOK(WithRunner(g), lost2)
      BY <2>1, <2>11, RunnerChanges
    <2> QED BY <1>9, <2>1, <2>2, <2>3, <2>12
  <1>10. CASE /\ kind = "call" /\ v # NoValue
              /\ frames' = WithRunner([f EXCEPT !.waits = "callback"])
              /\ UNCHANGED <<answer, past>>
    <2> DEFINE g == [f EXCEPT !.waits = "callback"]
    <2>1. /\ g.work = f.work /\ g.made = f.made /\ g.waits = "callback" /\ g.op = f.op
          /\ g.inside = f.inside /\ g \in Frame
      BY DEF Frame, Waits
    <2>2. Shape(g) /\ Waiting(g)
      <3> HIDE DEF g
      <3> QED BY <1>10, <2>1 DEF Shape, Waiting
    <2>3. ~lost => Sound(g)
      <3> HIDE DEF g
      <3> QED BY <1>6, <1>10, <2>1 DEF Sound, Shape
    <2>4. FrameOK(g, lost)
      BY <2>1, <2>2, <2>3 DEF FrameOK
    <2>5. FramesOK(WithRunner(g), lost)
      BY <2>4, RunnerChanges
    <2> QED BY <1>2, <1>10, <2>5
  <1>11. CASE kind \in {"collect", "call"} /\ v = NoValue /\ GivesUp(f)
    <2>1. frames' = Front(frames) /\ past' = past
      BY <1>11 DEF GivesUp
    <2>2. answer' = [op |-> f.op, made |-> <<>>, threw |-> TRUE, inside |-> f.inside]
      BY <1>11 DEF GivesUp, Answer
    <2>3. AnswerOK(answer', lost)
      BY <1>1, <1>11, <2>2 DEF AnswerOK
    <2>4. FramesOK(Front(frames), lost)
      BY <1>2, FramesShrink
    <2> QED BY <1>2, <2>1, <2>3, <2>4
  <1> QED BY <1>8, <1>9, <1>10, <1>11 DEF Reads

LEMMA ReadsWhat ==
  ASSUME NEW f, NEW v, Reads(f, v)
  PROVE  Head(f.work).do \in {"take", "takeLast", "collect", "move", "call"}
  BY DEF Reads

\* An operation that is about to read has met no exception.
LEMMA ReaderOK ==
  ASSUME IInv, frames # <<>>, Runner.work # <<>>, Head(Runner.work).do # "dropLast"
  PROVE  ~past.lost =>
           /\ \A k \in DOMAIN Runner.work : Runner.work[k].do = "write" => Runner.work[k].value # NoValue
           /\ (Runner.op = "shift" /\ Runner.made # <<>>) => Runner.made[1] # NoValue
           /\ Runner.inside = FALSE
  <1>1. FrameOK(Runner, past.lost) /\ Runner \in Frame
    BY RunnerOK
  <1> DEFINE r == Runner
  <1>2. FrameOK(r, past.lost) /\ r \in Frame /\ r.work # <<>> /\ Head(r.work).do # "dropLast"
    BY <1>1
  <1> HIDE DEF r
  <1>3. ~(r.op = "pop" /\ r.made # <<>>)
    BY <1>2 DEF FrameOK, Shape, DropLast
  <1>4. r.inside \in BOOLEAN
    BY <1>2 DEF Frame
  <1>5. ~past.lost =>
           /\ \A k \in DOMAIN r.work : r.work[k].do = "write" => r.work[k].value # NoValue
           /\ (r.op = "shift" /\ r.made # <<>>) => r.made[1] # NoValue
           /\ r.inside = FALSE
    BY <1>2, <1>3, <1>4 DEF FrameOK, Sound
  <1> QED BY <1>5 DEF r

LEMMA AtRunner ==
  ASSUME IInv, NEW kinds, OperationAt(kinds)
  PROVE  /\ frames # <<>> /\ Runner.waits = "nothing" /\ Runner.work # <<>>
         /\ Instruction.do \in kinds /\ Instruction = Head(Runner.work) /\ Instruction \in Instructions
         /\ Instruction = Runner.work[1] /\ 1 \in DOMAIN Runner.work
  <1>1. frames # <<>> /\ Runner.waits = "nothing" /\ Runner.work # <<>> /\ Instruction.do \in kinds
    BY DEF OperationAt, ProgramRuns
  <1>2. Runner.work \in Seq(Instructions)
    BY <1>1, RunnerOK DEF Frame
  <1>3. Head(Runner.work) \in Instructions /\ Head(Runner.work) = Runner.work[1] /\ 1 \in DOMAIN Runner.work
    BY <1>1, <1>2, SeqTail
  <1> QED BY <1>1, <1>3 DEF Instruction

\* The innermost operation goes on to its next instruction.
LEMMA GoesOn ==
  ASSUME IInv, frames # <<>>, Runner.work # <<>>, Head(Runner.work).do \notin {"take", "takeLast"},
         frames' = WithRunner(NextDone(Runner)), NEW lost2, past.lost => lost2
  PROVE  FramesOK(frames', lost2)
  <1>1. FrameOK(Runner, lost2)
    BY RunnerOK, FrameStays
  <1>2. FrameOK(NextDone(Runner), lost2)
    BY <1>1, NextIsOK
  <1> QED BY <1>2, RunnerChanges

LEMMA StoresOK ==
  ASSUME IInv, NEW i \in Indices, NEW v \in Values \cup {AccessorPair}, StoreElement(i, v),
         ~past.lost => v # NoValue
  PROVE  ElementsOK(elements', past.lost) /\ LengthsOK(length', lengthValue')
  <1>1. ElementsOK(elements, past.lost) /\ LengthsOK(length, lengthValue)
    BY DEF IInv
  <1>2. elements' = [j \in DOMAIN elements \cup {i} |-> IF j = i THEN v ELSE elements[j]]
    BY DEF StoreElement
  <1>3. ElementsOK(elements', past.lost)
    BY <1>1, <1>2 DEF ElementsOK, Slots, Values
  <1>4. i + 1 \in Lengths
    BY Bounds DEF Indices, Lengths
  <1> QED BY <1>1, <1>3, <1>4 DEF StoreElement, LengthsOK

LEMMA StoresLengthOK ==
  ASSUME IInv, NEW n \in Lengths, StoreLength(n)
  PROVE  ElementsOK(elements', past.lost) /\ LengthsOK(length', lengthValue')
  BY DEF IInv, StoreLength, LengthsOK

LEMMA RemovesOK ==
  ASSUME IInv, NEW i, RemoveElement(i)
  PROVE  ElementsOK(elements', past.lost) /\ LengthsOK(length', lengthValue')
  BY DEF IInv, RemoveElement, ElementsOK

\* A read that calls a getter, or does not.
LEMMA ReadElementKeeps ==
  ASSUME IInv, frames # <<>>, Runner.waits = "nothing", Runner.work # <<>>,
         Head(Runner.work).do \in {"take", "takeLast", "collect", "move", "call"},
         NEW i, ReadElement(i)
  PROVE  IInv'
  <1>1. FrameOK(Runner, past.lost) /\ Runner \in Frame
    BY RunnerOK
  <1>2. UNCHANGED <<length, lengthValue, elements>>
    BY DEF ReadElement
  <1>3. CASE IsAccessor(i)
    <2> DEFINE g == [Runner EXCEPT !.waits = "getter"]
    <2>1. frames' = WithRunner(g) /\ UNCHANGED <<answer, past>>
      BY <1>3 DEF ReadElement
    <2>2. /\ g.work = Runner.work /\ g.made = Runner.made /\ g.waits = "getter" /\ g.op = Runner.op
          /\ g.inside = Runner.inside /\ g \in Frame
      BY <1>1 DEF Frame, Waits
    <2> HIDE DEF g
    <2>3. Shape(g) /\ Waiting(g) /\ (~past.lost => Sound(g))
      BY <1>1, <2>2 DEF FrameOK, Shape, Waiting, Sound
    <2>4. FramesOK(WithRunner(g), past.lost)
      BY <2>2, <2>3, RunnerChanges DEF FrameOK
    <2> QED BY <1>2, <2>1, <2>4 DEF IInv
  <1>4. CASE ~IsAccessor(i)
    <2> DEFINE v == ValueAt(i)
               r == Runner
    <2>1. Reads(r, v)
      BY <1>4 DEF ReadElement
    <2>2. v \in Values /\ (~past.lost => v # NoValue)
      BY <1>4, ArrayValuesAssumption DEF IInv, ElementsOK, ValueAt, IsAccessor, Slots, Values
    <2>3. Shape(r)
      BY <1>1 DEF FrameOK
    <2>4. ~past.lost => /\ \A k \in DOMAIN r.work : r.work[k].do = "write" => r.work[k].value # NoValue
                        /\ (r.op = "shift" /\ r.made # <<>>) => r.made[1] # NoValue
                        /\ r.inside <=> v = NoValue
      BY <2>2, ReaderOK
    <2>5. r \in Frame /\ r.waits = "nothing" /\ r.work # <<>>
      BY <1>1
    <2> HIDE DEF r, v
    <2>6. /\ FramesOK(frames', past'.lost) /\ AnswerOK(answer', past'.lost) /\ PastOK(past')
          /\ past.lost => past'.lost
      BY <2>1, <2>2, <2>3, <2>4, <2>5, ReadsKeeps
    <2>7. ElementsOK(elements', past'.lost) /\ LengthsOK(length', lengthValue')
      BY <1>2, <2>6 DEF IInv, ElementsOK
    <2> QED BY <2>6, <2>7 DEF IInv
  <1> QED BY <1>3, <1>4

\* An operation starts.
LEMMA StartKeeps ==
  ASSUME IInv, NEW op \in Operations, NEW work, Start(op, work),
         \/ /\ op # "pop" /\ work \in Seq(Fresh)
            /\ op = "shift" => work # <<>> /\ Head(work).do = "take"
         \/ op = "apply" /\ work \in Seq(Fresh \cup {Invoke})
         \/ op = "pop" /\ work = <<TakeLast, DropLast>>
  PROVE  IInv'
  <1> DEFINE before == IF past.plain THEN Content ELSE <<>>
             f == [op |-> op, work |-> work, made |-> <<>>, waits |-> "nothing",
                   before |-> before, inside |-> FALSE]
  <1>1. frames' = Append(frames, f) /\ answer' = NoAnswer
        /\ UNCHANGED <<length, lengthValue, elements, past>>
    BY DEF Start
  <1>2. before \in Seq(Slots)
    <2>1. length \in Nat
      BY Bounds DEF IInv, LengthsOK, Lengths
    <2>2. Content \in [1..length -> Slots]
      BY DEF Content, ValueAt, IInv, ElementsOK, Slots
    <2>3. Content \in Seq(Slots)
      BY <2>1, <2>2, SeqFunction
    <2> QED BY <2>3
  <1>0. op # "pop" => work \in Seq(Fresh \cup {Invoke})
    OBVIOUS
  <1>3. work \in Seq(Instructions)
    <2>1. CASE op # "pop"
      BY <2>1, <1>0, FreshWork
    <2>2. CASE op = "pop"
      <3>1. TakeLast \in Instructions /\ DropLast \in Instructions
        BY Constructors DEF Fresh
      <3>2. <<TakeLast, DropLast>> \in Seq(Instructions)
        BY <3>1
      <3> QED BY <2>2, <3>2
    <2> QED BY <2>1, <2>2
  <1>4. f \in Frame
    <2> HIDE DEF before
    <2> QED BY <1>2, <1>3 DEF Frame, Waits
  <1>5. f.op = op /\ f.work = work /\ f.made = <<>> /\ f.waits = "nothing" /\ f.inside = FALSE
    OBVIOUS
  <1> HIDE DEF f
  <1>6. Waiting(f)
    BY <1>5 DEF Waiting
  <1>7. Shape(f)
    <2>1. CASE op # "pop"
      BY <2>1, <1>0, <1>5, FreshWork DEF Shape
    <2>2. CASE op = "pop"
      BY <2>2, <1>5 DEF Shape
    <2> QED BY <2>1, <2>2
  <1>8. Sound(f)
    <2>1. CASE op # "pop"
      BY <2>1, <1>0, <1>5, FreshWork DEF Sound
    <2>2. CASE op = "pop"
      <3>1. \A k \in DOMAIN work : work[k].do # "write"
        BY <2>2 DEF TakeLast, DropLast
      <3> QED BY <2>2, <3>1, <1>5 DEF Sound
    <2> QED BY <2>1, <2>2
  <1>9. FramesOK(frames, past.lost) /\ FrameOK(f, past.lost)
    BY <1>4, <1>6, <1>7, <1>8 DEF IInv, FrameOK
  <1>10. FramesOK(Append(frames, f), past.lost)
    BY <1>9, FramesGrow
  <1>11. AnswerOK(NoAnswer, past.lost)
    BY DEF AnswerOK, NoAnswer
  <1> QED BY <1>1, <1>10, <1>11 DEF IInv

-----------------------------------------------------------------------------
(* What starts.                                                            *)

\* Instructions for consecutive indices.
LEMMA EachTakeFresh ==
  ASSUME NEW m \in Int, NEW n \in Int
  PROVE  /\ Each(Take, m, n) \in Seq(Fresh) /\ Each(Collect, m, n) \in Seq(Fresh)
         /\ Each(CallWith, m, n) \in Seq(Fresh)
  <1> DEFINE l == IF n > m THEN n - m ELSE 0
  <1>1. l \in Nat
    OBVIOUS
  <1>2. /\ Each(Take, m, n) = [k \in 1..l |-> Take(m + k - 1)]
        /\ Each(Collect, m, n) = [k \in 1..l |-> Collect(m + k - 1)]
        /\ Each(CallWith, m, n) = [k \in 1..l |-> CallWith(m + k - 1)]
    BY DEF Each
  <1> HIDE DEF l
  <1>3. /\ Each(Take, m, n) \in [1..l -> Fresh] /\ Each(Collect, m, n) \in [1..l -> Fresh]
        /\ Each(CallWith, m, n) \in [1..l -> Fresh]
    BY <1>2, Constructors
  <1> QED BY <1>1, <1>3, SeqFunction

LEMMA PushWorkFresh ==
  ASSUME NEW n \in Nat, NEW items \in Seq(Datum), n + Len(items) <= MaxLength
  PROVE  PushWork(n, items) \in Seq(Fresh)
  <1> DEFINE l == Len(items)
             given == [k \in DOMAIN items |-> Write(n + k - 1, items[k])]
  <1>1. l \in Nat /\ DOMAIN items = 1..l /\ MaxLength \in Nat
    BY Bounds
  <1>2. \A k \in 1..l : n + k - 1 \in Indices /\ items[k] \in Datum
    BY <1>1 DEF Indices
  <1>3. \A k \in 1..l : Write(n + k - 1, items[k]) \in Fresh
    BY <1>2, Constructors
  <1>4. given \in [1..l -> Fresh]
    BY <1>1, <1>3
  <1>5. given \in Seq(Fresh)
    BY <1>1, <1>4, SeqFunction
  <1>6. SetLength(n + Len(items)) \in Fresh
    BY <1>1, Constructors, Bounds
  <1> HIDE DEF given
  <1>7. Append(given, SetLength(n + Len(items))) \in Seq(Fresh)
    BY <1>5, <1>6
  <1> QED BY <1>7 DEF PushWork, given

LEMMA ConcatWorkFresh ==
  ASSUME NEW items \in Seq(Datum \cup {ThisArray})
  PROVE  ConcatWork(items) \in Seq(Fresh)
  <1> DEFINE l == Len(items)
             given == [k \in DOMAIN items |-> IF items[k] = ThisArray THEN Spread ELSE Add(items[k])]
  <1>1. l \in Nat /\ DOMAIN items = 1..l
    OBVIOUS
  <1>2. \A k \in 1..l : (IF items[k] = ThisArray THEN Spread ELSE Add(items[k])) \in Fresh
    BY <1>1, Constructors
  <1>3. given \in [1..l -> Fresh]
    BY <1>1, <1>2
  <1>4. given \in Seq(Fresh)
    BY <1>1, <1>3, SeqFunction
  <1>5. <<Spread>> \in Seq(Fresh)
    BY Constructors
  <1> HIDE DEF given
  <1>6. <<Spread>> \o given \in Seq(Fresh)
    BY <1>4, <1>5
  <1> QED BY <1>6 DEF ConcatWork, given

LEMMA SpliceRange ==
  ASSUME lengthValue \in Nat, NEW s \in Int, NEW n \in Int
  PROVE  /\ SpliceStart(s) \in 0..lengthValue
         /\ SpliceCount(s, n) \in 0..(lengthValue - SpliceStart(s))
         /\ lengthValue > 0 => SpliceCount(0, 1) = 1 /\ SpliceStart(0) = 0
  <1>1. SpliceStart(s) = IF s >= 0 THEN (IF s <= lengthValue THEN s ELSE lengthValue)
                         ELSE (IF s + lengthValue <= 0 THEN 0 ELSE s + lengthValue)
    BY MinOfTwo, MaxOfTwo DEF SpliceStart
  <1>2. SpliceStart(s) \in 0..lengthValue
    BY <1>1
  <1> DEFINE m == IF n <= 0 THEN 0 ELSE n
             l == lengthValue - SpliceStart(s)
  <1>3. Max({n, 0}) = m
    BY MaxOfTwo
  <1>4. m \in Int /\ l \in Int
    BY <1>2
  <1>5. SpliceCount(s, n) = IF m <= l THEN m ELSE l
    <2>1. SpliceCount(s, n) = Min({m, l})
      BY <1>3 DEF SpliceCount
    <2> HIDE DEF m, l
    <2> QED BY <2>1, <1>4, MinOfTwo
  <1>6. SpliceCount(s, n) \in 0..(lengthValue - SpliceStart(s))
    BY <1>2, <1>5
  <1>7. ASSUME lengthValue > 0
        PROVE  SpliceCount(0, 1) = 1 /\ SpliceStart(0) = 0
    <2>1. SpliceStart(0) = 0
      BY <1>7, MinOfTwo DEF SpliceStart
    <2>2. Max({1, 0}) = 1
      BY MaxOfTwo
    <2> QED BY <1>7, <2>1, <2>2, MinOfTwo DEF SpliceCount
  <1> QED BY <1>2, <1>6, <1>7

LEMMA LengthNatural ==
  ASSUME IInv
  PROVE  length \in Nat /\ lengthValue \in Nat
  BY Bounds DEF IInv, LengthsOK, Lengths

\* An operation of the program, which returns at once or starts.
LEMMA AtOnceKeeps ==
  ASSUME IInv, NEW op \in Operations, AtOnce(op)
  PROVE  IInv'
  BY DEF AtOnce, Answer, IInv, AnswerOK

\* Where slice stops is a number.
LEMMA SliceEndNumber ==
  ASSUME NEW end \in SliceEnds, lengthValue \in Nat
  PROVE  SliceEnd(end) \in Int
  BY ArrayBoundsAssumption DEF SliceEnds, SliceEnd

LEMMA OperationsKeep ==
  ASSUME IInv,
         \/ \E items \in SeqOf(Datum, MaxItems) :
              \/ Push(items)
              \/ \E s \in -1..MaxLength, n \in -1..MaxLength : Splice(s, n, items)
         \/ Pop \/ Shift \/ Apply \/ ForEach
         \/ \E items \in SeqOf(Datum \cup {ThisArray}, 1) : Concat(items)
         \/ \E begin \in 0..MaxLength, end \in SliceEnds : Slice(begin, end)
  PROVE  IInv'
  <1>0. lengthValue \in Nat /\ length \in Nat
    BY LengthNatural
  <1>1. ASSUME NEW items \in SeqOf(Datum, MaxItems), Push(items)
        PROVE  IInv'
    <2>1. PushWork(lengthValue, items) \in Seq(Fresh)
      BY <1>0, <1>1, ItemsSeq, PushWorkFresh DEF Push
    <2>2. Start("push", PushWork(lengthValue, items))
      BY <1>1 DEF Push
    <2> QED BY <2>1, <2>2, StartKeeps DEF Operations
  <1>2. ASSUME NEW items \in SeqOf(Datum, MaxItems),
               NEW s \in -1..MaxLength, NEW n \in -1..MaxLength, Splice(s, n, items)
        PROVE  IInv'
    <2> DEFINE work == SpliceWork(lengthValue, SpliceStart(s), SpliceCount(s, n), items)
    <2>1. s \in Int /\ n \in Int
      BY Bounds
    <2>2. SpliceStart(s) \in 0..lengthValue /\ SpliceCount(s, n) \in 0..(lengthValue - SpliceStart(s))
      BY <1>0, <2>1, SpliceRange
    <2>3. items \in Seq(Datum) /\ lengthValue + Len(items) - SpliceCount(s, n) <= MaxLength
      BY <1>2, ItemsSeq DEF Splice
    <2>4. work \in Seq(Fresh)
      BY <1>0, <2>2, <2>3, SpliceWorkFresh
    <2>5. Start("splice", work)
      BY <1>2 DEF Splice
    <2> HIDE DEF work
    <2> QED BY <2>4, <2>5, StartKeeps DEF Operations
  <1>3. CASE Pop
    <2>1. CASE AtOnce("pop")
      BY <2>1, AtOnceKeeps DEF Operations
    <2>2. CASE Start("pop", <<TakeLast, DropLast>>)
      BY <2>2, StartKeeps DEF Operations
    <2> QED BY <1>3, <2>1, <2>2 DEF Pop
  <1>4. CASE Shift
    <2>1. CASE AtOnce("shift")
      BY <2>1, AtOnceKeeps DEF Operations
    <2>2. CASE /\ lengthValue \in 1..MaxLength
               /\ Start("shift", SpliceWork(lengthValue, 0, SpliceCount(0, 1), <<>>))
      <3> DEFINE work == SpliceWork(lengthValue, 0, SpliceCount(0, 1), <<>>)
      <3>1. SpliceCount(0, 1) = 1
        BY <1>0, <2>2, SpliceRange
      <3>2. <<>> \in Seq(Datum) /\ lengthValue + Len(<<>>) - 1 <= MaxLength
        BY <1>0, <2>2, Bounds
      <3>3. 0 \in 0..lengthValue /\ 1 \in 0..(lengthValue - 0)
        BY <1>0, <2>2, Bounds
      <3>4. /\ SpliceWork(lengthValue, 0, 1, <<>>) \in Seq(Fresh)
            /\ SpliceWork(lengthValue, 0, 1, <<>>) # <<>>
            /\ Head(SpliceWork(lengthValue, 0, 1, <<>>)).do = "take"
        <4> DEFINE none == <<>>
                   one == 1
                   start == 0
        <4>1. none \in Seq(Datum) /\ lengthValue + Len(none) - one <= MaxLength /\ one > 0
          BY <3>2
        <4>2. start \in 0..lengthValue /\ one \in 0..(lengthValue - start)
          BY <3>3
        <4> HIDE DEF none, one, start
        <4>3. /\ SpliceWork(lengthValue, start, one, none) \in Seq(Fresh)
              /\ SpliceWork(lengthValue, start, one, none) # <<>>
              /\ Head(SpliceWork(lengthValue, start, one, none)).do = "take"
          BY <1>0, <4>1, <4>2, SpliceWorkFresh
        <4> QED BY <4>3 DEF none, one, start
      <3>5. work \in Seq(Fresh) /\ work # <<>> /\ Head(work).do = "take" /\ Start("shift", work)
        BY <2>2, <3>1, <3>4
      <3> HIDE DEF work
      <3> QED BY <3>5, StartKeeps DEF Operations
    <2> QED BY <1>4, <2>1, <2>2 DEF Shift
  <1>5. CASE Apply
    <2>1. CASE lengthValue > MaxArguments
      <3>1. /\ answer' = [op |-> "apply", made |-> <<>>, threw |-> TRUE, inside |-> TRUE]
            /\ UNCHANGED <<length, lengthValue, elements, frames, past>>
        BY <1>5, <2>1, <1>0, ArrayBoundsAssumption DEF Apply, Answer
      <3> QED BY <3>1 DEF IInv, AnswerOK, Operations
    <2>2. CASE ~(lengthValue > MaxArguments)
      <3> DEFINE work == Append(Each(Take, 0, lengthValue), Invoke)
      <3>1. Start("apply", work)
        BY <1>5, <2>2 DEF Apply
      <3>2. Each(Take, 0, lengthValue) \in Seq(Fresh)
        BY <1>0, EachTakeFresh
      <3>3. work \in Seq(Fresh \cup {Invoke})
        <4>1. Each(Take, 0, lengthValue) \in Seq(Fresh \cup {Invoke})
          BY <3>2
        <4> QED BY <4>1, SeqAppended
      <3> HIDE DEF work
      <3> QED BY <3>1, <3>3, StartKeeps DEF Operations
    <2> QED BY <2>1, <2>2
  <1>6. CASE ForEach
    <2>1. Each(CallWith, 0, lengthValue) \in Seq(Fresh)
      BY <1>0, EachTakeFresh
    <2>2. Start("forEach", Each(CallWith, 0, lengthValue))
      BY <1>6 DEF ForEach
    <2> QED BY <2>1, <2>2, StartKeeps DEF Operations
  <1>7. ASSUME NEW items \in SeqOf(Datum \cup {ThisArray}, 1), Concat(items)
        PROVE  IInv'
    <2>1. ConcatWork(items) \in Seq(Fresh)
      BY ItemsSeq, ConcatWorkFresh
    <2>2. Start("concat", ConcatWork(items))
      BY <1>7 DEF Concat
    <2> QED BY <2>1, <2>2, StartKeeps DEF Operations
  <1>8. ASSUME NEW begin \in 0..MaxLength, NEW end \in SliceEnds, Slice(begin, end)
        PROVE  IInv'
    <2>1. begin \in Int /\ SliceEnd(end) \in Int
      BY <1>0, Bounds, SliceEndNumber
    <2>2. Each(Collect, begin, SliceEnd(end)) \in Seq(Fresh)
      BY <2>1, EachTakeFresh
    <2>3. Start("slice", Each(Collect, begin, SliceEnd(end)))
      BY <1>8 DEF Slice
    <2> QED BY <2>2, <2>3, StartKeeps DEF Operations
  <1> QED BY <1>1, <1>2, <1>3, <1>4, <1>5, <1>6, <1>7, <1>8

-----------------------------------------------------------------------------
(* The steps.                                                              *)

LEMMA InitKeeps ==
  ASSUME Init
  PROVE  IInv
  <1>1. /\ frames = <<>> /\ answer = NoAnswer
        /\ past = [plain |-> TRUE, shrunk |-> FALSE, lost |-> FALSE]
    BY DEF Init
  <1>2. PICK n \in 0..MaxLength : \/ ArrayOf(n, [i \in {} |-> Undefined])
                                  \/ \E e \in [0..(n - 1) -> Datum] : ArrayOf(n, e)
    BY DEF Init
  <1>3. LengthsOK(length, lengthValue)
    BY <1>2, Bounds DEF ArrayOf, LengthsOK
  <1>4. ElementsOK(elements, past.lost)
    <2>1. CASE ArrayOf(n, [i \in {} |-> Undefined])
      BY <2>1 DEF ArrayOf, ElementsOK
    <2>2. ASSUME NEW e \in [0..(n - 1) -> Datum], ArrayOf(n, e)
          PROVE  ElementsOK(elements, past.lost)
      <3>1. 0..(n - 1) \subseteq Indices
        BY Bounds DEF Indices
      <3> QED BY <2>2, <3>1, ArrayValuesAssumption DEF ArrayOf, ElementsOK, Slots
    <2> QED BY <1>2, <2>1, <2>2
  <1>5. FramesOK(frames, past.lost)
    BY <1>1 DEF FramesOK
  <1>6. AnswerOK(answer, past.lost) /\ PastOK(past)
    BY <1>1 DEF AnswerOK, PastOK, NoAnswer
  <1> QED BY <1>3, <1>4, <1>5, <1>6 DEF IInv

\* What the program does to the array without an operation.
LEMMA ProgramKeeps ==
  ASSUME IInv,
         \/ \E i \in Indices : \/ \E v \in Datum : PutElement(i, v)
                                \/ DeleteElement(i)
                                \/ DefineAccessor(i)
         \/ \E n \in 0..MaxLength : PutLength(n)
  PROVE  IInv'
  <1>0. AnswerOK(NoAnswer, past.lost) /\ PastOK(past)
    BY DEF IInv, AnswerOK, NoAnswer
  <1>1. ASSUME NEW i \in Indices, NEW v \in Datum, PutElement(i, v)
        PROVE  IInv'
    <2>1. v \in Values /\ v # NoValue
      BY ArrayValuesAssumption DEF Values
    <2>2. ElementsOK(elements', past.lost) /\ LengthsOK(length', lengthValue')
      BY <1>1, <2>1, StoresOK DEF PutElement
    <2> QED BY <1>0, <1>1, <2>2 DEF PutElement, IInv
  <1>2. ASSUME NEW i \in Indices, DeleteElement(i)
        PROVE  IInv'
    <2>1. ElementsOK(elements', past.lost) /\ LengthsOK(length', lengthValue')
      BY <1>2, RemovesOK DEF DeleteElement
    <2> QED BY <1>0, <1>2, <2>1 DEF DeleteElement, IInv
  <1>3. ASSUME NEW i \in Indices, DefineAccessor(i)
        PROVE  IInv'
    <2>1. elements' = [j \in DOMAIN elements \cup {i} |-> IF j = i THEN AccessorPair ELSE elements[j]]
      BY <1>3 DEF DefineAccessor
    <2>2. ElementsOK(elements', past.lost)
      BY <2>1, ArrayValuesAssumption DEF IInv, ElementsOK, Slots
    <2>3. PastOK(past') /\ past'.lost = past.lost
      BY <1>0, <1>3 DEF DefineAccessor, PastOK
    <2> QED BY <1>0, <1>3, <2>2, <2>3 DEF DefineAccessor, IInv
  <1>4. ASSUME NEW n \in 0..MaxLength, PutLength(n)
        PROVE  IInv'
    <2>1. ElementsOK(elements', past.lost) /\ LengthsOK(length', lengthValue')
      BY <1>4, Bounds, StoresLengthOK DEF PutLength
    <2>2. (n < length) \in BOOLEAN
      OBVIOUS
    <2>3. PastOK(past') /\ past'.lost = past.lost
      BY <1>0, <1>4 DEF PutLength, PastOK
    <2> QED BY <1>0, <1>4, <2>1, <2>3 DEF PutLength, IInv
  <1> QED BY <1>1, <1>2, <1>3, <1>4

\* The instructions of the innermost operation.
LEMMA InstructionsKeep ==
  ASSUME IInv,
         \/ DoRead \/ DoTakeLast \/ DoCall \/ DoInvoke \/ DoWrite \/ DoErase \/ DoSetLength
         \/ DoDropLast \/ DoSpread \/ DoAdd \/ DoReturn
  PROVE  IInv'
  <1>0. PastOK(past) /\ AnswerOK(answer, past.lost) /\ FramesOK(frames, past.lost)
    BY DEF IInv
  <1>1. CASE DoRead
    <2>1. OperationAt({"take", "move", "collect"}) /\ ReadElement(Instruction.at)
      BY <1>1 DEF DoRead
    <2> QED BY <2>1, AtRunner, ReadElementKeeps
  <1>2. CASE DoTakeLast
    <2>1. OperationAt({"takeLast"}) /\ ReadElement((length - 1) % 2^Width)
      BY <1>2 DEF DoTakeLast
    <2> QED BY <2>1, AtRunner, ReadElementKeeps
  <1>3. CASE DoCall
    <2>1. OperationAt({"call"})
      BY <1>3 DEF DoCall
    <2>2. CASE Instruction.at \in DOMAIN elements
      BY <1>3, <2>1, <2>2, AtRunner, ReadElementKeeps DEF DoCall
    <2>3. CASE Instruction.at \notin DOMAIN elements
      <3>1. /\ frames' = WithRunner(NextDone(Runner))
            /\ UNCHANGED <<length, lengthValue, elements, answer, past>>
        BY <1>3, <2>3 DEF DoCall
      <3>2. FramesOK(frames', past.lost)
        BY <2>1, <3>1, AtRunner, GoesOn
      <3> QED BY <3>1, <3>2 DEF IInv
    <2> QED BY <2>2, <2>3
  <1>4. CASE DoInvoke
    <2>1. /\ frames' = WithRunner([Runner EXCEPT !.waits = "callback", !.made = <<>>])
          /\ answer' = [op |-> "apply", made |-> Runner.made, threw |-> FALSE, inside |-> FALSE]
          /\ UNCHANGED <<length, lengthValue, elements, past>>
      BY <1>4 DEF DoInvoke, Answer
    <2>2. frames # <<>> /\ Runner.work # <<>> /\ Head(Runner.work).do = "invoke"
      BY <1>4, AtRunner DEF DoInvoke
    <2>3. FrameOK(Runner, past.lost) /\ Runner \in Frame
      BY <2>2, RunnerOK
    <2> DEFINE r == Runner
               g == [r EXCEPT !.waits = "callback", !.made = <<>>]
    <2>4. FrameOK(r, past.lost) /\ r \in Frame /\ r.work \in Seq(Instructions) /\ r.work # <<>>
          /\ Head(r.work).do = "invoke"
      BY <2>2, <2>3 DEF Frame
    <2>5. frames' = WithRunner(g)
      BY <2>1
    <2> HIDE DEF r
    <2>6. <<>> \in Seq(Values)
      OBVIOUS
    <2>7. /\ g.work = r.work /\ g.made = <<>> /\ g.waits = "callback" /\ g.op = r.op
          /\ g.inside = r.inside /\ g \in Frame
      BY <2>4, <2>6 DEF Frame, Waits
    <2> HIDE DEF g
    <2>8. r.op \notin {"pop", "shift"}
      <3>1. r.work[1].do = "invoke" /\ 1 \in DOMAIN r.work
        BY <2>4, SeqTail
      <3> QED BY <2>4, <3>1 DEF FrameOK, Shape, TakeLast, DropLast
    <2>9. Shape(g) /\ Waiting(g) /\ (~past.lost => Sound(g))
      BY <2>4, <2>7, <2>8 DEF FrameOK, Shape, Waiting, Sound
    <2>10. FramesOK(WithRunner(g), past.lost)
      BY <2>2, <2>7, <2>9, RunnerChanges DEF FrameOK
    <2>11. AnswerOK(answer', past.lost)
      BY <2>1 DEF AnswerOK, Operations
    <2> QED BY <2>1, <2>5, <2>10, <2>11 DEF IInv
  <1>5. CASE DoWrite
    <2>1. OperationAt({"write"})
      BY <1>5 DEF DoWrite
    <2>2. /\ frames # <<>> /\ Runner.work # <<>> /\ Head(Runner.work).do = "write"
          /\ Instruction = Head(Runner.work) /\ Instruction \in Instructions
          /\ Instruction = Runner.work[1] /\ 1 \in DOMAIN Runner.work
      BY <2>1, AtRunner
    <2>3. UNCHANGED <<answer, past>>
      BY <1>5 DEF DoWrite
    <2>4. CASE IsAccessor(Instruction.at)
      <3> DEFINE r == Runner
                 g == [r EXCEPT !.waits = "setter"]
      <3>1. frames' = WithRunner(g) /\ UNCHANGED <<length, lengthValue, elements>>
        BY <1>5, <2>4 DEF DoWrite
      <3>2. FrameOK(r, past.lost) /\ r \in Frame /\ r.work # <<>> /\ Head(r.work).do = "write"
        BY <2>2, RunnerOK
      <3> HIDE DEF r
      <3>3. /\ g.work = r.work /\ g.made = r.made /\ g.waits = "setter" /\ g.op = r.op
            /\ g.inside = r.inside /\ g \in Frame
        BY <3>2 DEF Frame, Waits
      <3> HIDE DEF g
      <3>4. Shape(g) /\ Waiting(g) /\ (~past.lost => Sound(g))
        BY <3>2, <3>3 DEF FrameOK, Shape, Waiting, Sound
      <3>5. FramesOK(WithRunner(g), past.lost)
        BY <2>2, <3>3, <3>4, RunnerChanges DEF FrameOK
      <3> QED BY <2>3, <3>1, <3>5 DEF IInv
    <2>5. CASE ~IsAccessor(Instruction.at)
      <3>1. StoreElement(Instruction.at, Instruction.value) /\ frames' = WithRunner(NextDone(Runner))
        BY <1>5, <2>5 DEF DoWrite
      <3>2. Instruction.at \in Indices /\ Instruction.value \in Values
        BY <2>2, InstructionParts
      <3>3. ~past.lost => Instruction.value # NoValue
        BY <2>2, ReaderOK
      <3>4. ElementsOK(elements', past.lost) /\ LengthsOK(length', lengthValue')
        BY <3>1, <3>2, <3>3, StoresOK
      <3>5. FramesOK(frames', past.lost)
        BY <2>2, <3>1, GoesOn
      <3> QED BY <2>3, <3>4, <3>5 DEF IInv
    <2> QED BY <2>4, <2>5
  <1>6. CASE DoErase
    <2>1. /\ RemoveElement(Instruction.at) /\ frames' = WithRunner(NextDone(Runner))
          /\ UNCHANGED <<answer, past>>
      BY <1>6 DEF DoErase
    <2>2. frames # <<>> /\ Runner.work # <<>> /\ Head(Runner.work).do = "erase"
      BY <1>6, AtRunner DEF DoErase
    <2>3. FramesOK(frames', past.lost)
      BY <2>1, <2>2, GoesOn
    <2>4. ElementsOK(elements', past.lost) /\ LengthsOK(length', lengthValue')
      BY <2>1, RemovesOK
    <2> QED BY <2>1, <2>3, <2>4 DEF IInv
  <1>7. CASE DoSetLength
    <2>1. /\ StoreLength(Instruction.to) /\ frames' = WithRunner(NextDone(Runner))
          /\ UNCHANGED <<answer, past>>
      BY <1>7 DEF DoSetLength
    <2>2. frames # <<>> /\ Runner.work # <<>> /\ Head(Runner.work).do = "setLength"
          /\ Instruction.to \in Lengths
      BY <1>7, AtRunner, InstructionParts DEF DoSetLength
    <2>3. FramesOK(frames', past.lost)
      BY <2>1, <2>2, GoesOn
    <2>4. ElementsOK(elements', past.lost) /\ LengthsOK(length', lengthValue')
      BY <2>1, <2>2, StoresLengthOK
    <2> QED BY <2>1, <2>3, <2>4 DEF IInv
  <1>8. CASE DoDropLast
    <2>1. /\ StoreLength((length - 1) % 2^Width) /\ frames' = WithRunner(NextDone(Runner))
          /\ past' = [past EXCEPT !.shrunk = TRUE] /\ UNCHANGED answer
      BY <1>8 DEF DoDropLast
    <2>2. frames # <<>> /\ Runner.work # <<>> /\ Head(Runner.work).do = "dropLast"
      BY <1>8, AtRunner DEF DoDropLast
    <2>3. FramesOK(frames', past.lost)
      BY <2>1, <2>2, GoesOn
    <2>4. (length - 1) % 2^Width \in Lengths
      BY LengthNatural, Wraps
    <2>5. ElementsOK(elements', past.lost) /\ LengthsOK(length', lengthValue')
      BY <2>1, <2>4, StoresLengthOK
    <2>6. PastOK(past') /\ past'.lost = past.lost
      BY <1>0, <2>1 DEF PastOK
    <2> QED BY <2>1, <2>3, <2>5, <2>6, <1>0 DEF IInv
  <1>9. CASE DoSpread
    <2> DEFINE r == Runner
               g == [r EXCEPT !.work = Each(Collect, 0, length) \o Tail(@)]
    <2>1. frames' = WithRunner(g) /\ UNCHANGED <<length, lengthValue, elements, answer, past>>
      BY <1>9 DEF DoSpread
    <2>2. frames # <<>> /\ Runner.work # <<>> /\ Head(Runner.work).do = "spread" /\ Runner.waits = "nothing"
      BY <1>9, AtRunner DEF DoSpread
    <2>3. FrameOK(r, past.lost) /\ r \in Frame /\ r.work \in Seq(Instructions) /\ r.work # <<>>
          /\ Head(r.work).do = "spread" /\ r.waits = "nothing"
      BY <2>2, RunnerOK DEF Frame
    <2> HIDE DEF r
    <2> DEFINE read == Each(Collect, 0, length)
    <2>4. read \in Seq(Fresh)
      BY LengthNatural, EachTakeFresh
    <2> HIDE DEF read
    <2>5. read \in Seq(Fresh \cup {Invoke})
      BY <2>4
    <2>6. read \in Seq(Instructions)
          /\ \A k \in DOMAIN read : /\ read[k].do \notin {"takeLast", "invoke"}
                                    /\ read[k].do = "write" => read[k].value # NoValue
      BY <2>4, <2>5, FreshWork
    <2>7. /\ g.work = read \o Tail(r.work) /\ g.made = r.made /\ g.waits = "nothing" /\ g.op = r.op
          /\ g.inside = r.inside /\ g \in Frame
      <3>1. read \o Tail(r.work) \in Seq(Instructions)
        BY <2>3, <2>6, SeqTail
      <3> QED BY <2>3, <3>1 DEF Frame, read
    <2> HIDE DEF g
    <2>8. \A k \in DOMAIN g.work :
            \/ k \in DOMAIN read /\ g.work[k] = read[k]
            \/ \E j \in DOMAIN r.work : g.work[k] = r.work[j]
      <3>1. Tail(r.work) \in Seq(Instructions)
            /\ \A j \in DOMAIN Tail(r.work) : Tail(r.work)[j] = r.work[j + 1] /\ j + 1 \in DOMAIN r.work
        BY <2>3, SeqTail
      <3> DEFINE rest == Tail(r.work)
      <3>2. rest \in Seq(Instructions)
        BY <3>1
      <3> HIDE DEF rest
      <3>3. \A k \in DOMAIN (read \o rest) :
              \/ k \in DOMAIN read /\ (read \o rest)[k] = read[k]
              \/ k - Len(read) \in DOMAIN rest /\ (read \o rest)[k] = rest[k - Len(read)]
        BY <2>6, <3>2
      <3> QED BY <2>7, <3>1, <3>3 DEF rest
    <2>9. r.op # "pop"
      BY <2>3 DEF FrameOK, Shape, TakeLast, DropLast
    <2>10. Shape(g) /\ Waiting(g)
      BY <2>3, <2>6, <2>7, <2>8, <2>9 DEF FrameOK, Shape, Waiting
    <2>11. ~past.lost => Sound(g)
      BY <2>3, <2>6, <2>7, <2>8, <2>9 DEF FrameOK, Sound
    <2>12. FramesOK(WithRunner(g), past.lost)
      BY <2>2, <2>7, <2>10, <2>11, RunnerChanges DEF FrameOK
    <2> QED BY <2>1, <2>12 DEF IInv
  <1>10. CASE DoAdd
    <2> DEFINE d == NextDone(Runner)
               g == [d EXCEPT !.made = Append(@, Instruction.value)]
    <2>1. frames' = WithRunner(g) /\ UNCHANGED <<length, lengthValue, elements, answer, past>>
      BY <1>10 DEF DoAdd
    <2>2. frames # <<>> /\ Runner.work # <<>> /\ Head(Runner.work).do = "add"
          /\ Instruction.value \in Datum /\ Instruction = Head(Runner.work)
      BY <1>10, AtRunner, InstructionParts DEF DoAdd
    <2>3. FrameOK(Runner, past.lost)
      BY <2>2, RunnerOK
    <2>4. FrameOK(d, past.lost) /\ d.waits = "nothing"
      <3>1. FrameOK(d, past.lost)
        BY <2>2, <2>3, NextIsOK
      <3>2. Runner \in Frame
        BY <2>3 DEF FrameOK
      <3> QED BY <3>1, <3>2 DEF NextDone, Frame
    <2>5. d.op # "pop"
      <3> DEFINE r == Runner
      <3>1. FrameOK(r, past.lost) /\ r.work # <<>> /\ Head(r.work).do = "add" /\ d.op = r.op
        <4>1. Runner \in Frame
          BY <2>3 DEF FrameOK
        <4> QED BY <2>2, <2>3, <4>1 DEF NextDone, Frame
      <3> HIDE DEF r, d
      <3> QED BY <3>1 DEF FrameOK, Shape, TakeLast, DropLast
    <2> HIDE DEF d
    <2>6. d \in Frame /\ d.made \in Seq(Values) /\ Instruction.value \in Values
      BY <2>2, <2>4 DEF FrameOK, Frame, Values
    <2>7. /\ Append(d.made, Instruction.value) \in Seq(Values) /\ Append(d.made, Instruction.value) # <<>>
          /\ Append(d.made, Instruction.value)[1] = IF d.made = <<>> THEN Instruction.value ELSE d.made[1]
      BY <2>6, SeqAppended
    <2>8. /\ g.work = d.work /\ g.made = Append(d.made, Instruction.value) /\ g.waits = "nothing"
          /\ g.op = d.op /\ g.inside = d.inside /\ g \in Frame
      BY <2>4, <2>6, <2>7 DEF Frame
    <2> HIDE DEF g
    <2>9. Shape(g) /\ Waiting(g)
      BY <2>4, <2>5, <2>7, <2>8 DEF FrameOK, Shape, Waiting
    <2>10. ~past.lost => Sound(g)
      <3>1. Instruction.value # NoValue
        BY <2>2, ArrayValuesAssumption
      <3> QED BY <2>4, <2>5, <2>7, <2>8, <3>1 DEF FrameOK, Sound
    <2>11. FramesOK(WithRunner(g), past.lost)
      BY <2>2, <2>8, <2>9, <2>10, RunnerChanges DEF FrameOK
    <2> QED BY <2>1, <2>11 DEF IInv
  <1>11. CASE DoReturn
    <2>1. frames # <<>> /\ Runner.work = <<>> /\ frames' = Front(frames)
          /\ UNCHANGED <<length, lengthValue, elements, past>>
      BY <1>11 DEF DoReturn, ProgramRuns
    <2> DEFINE r == Runner
    <2>2. answer' = [op |-> r.op, made |-> r.made,
                     threw |-> r.op \in {"pop", "shift"} /\ r.made[1] = NoValue, inside |-> r.inside]
      BY <1>11 DEF DoReturn, Answer
    <2>3. FrameOK(r, past.lost) /\ r \in Frame /\ r.work = <<>>
      BY <2>1, RunnerOK
    <2> HIDE DEF r
    <2>4. r.op \in {"pop", "shift"} => r.made # <<>>
      BY <2>3 DEF FrameOK, Shape, TakeLast, DropLast
    <2>5. AnswerOK(answer', past.lost)
      <3>1. answer'.op \in Operations
        BY <2>2, <2>3 DEF Frame
      <3>2. ~past.lost => (answer'.threw <=> answer'.inside)
        BY <2>2, <2>3, <2>4 DEF FrameOK, Sound
      <3> QED BY <3>1, <3>2 DEF AnswerOK
    <2>6. FramesOK(Front(frames), past.lost)
      BY <1>0, <2>1, FramesShrink
    <2> QED BY <2>1, <2>5, <2>6 DEF IInv
  <1> QED BY <1>1, <1>2, <1>3, <1>4, <1>5, <1>6, <1>7, <1>8, <1>9, <1>10, <1>11

\* The end of what an operation called.
LEMMA ReturnsKeep ==
  ASSUME IInv, \/ \E v \in Datum : Returns(v)
               \/ Throws
  PROVE  IInv'
  <1>1. /\ frames # <<>> /\ UNCHANGED <<length, lengthValue, elements>>
    BY DEF Returns, Throws
  <1>2. FrameOK(Runner, past.lost) /\ Runner \in Frame
    BY <1>1, RunnerOK
  <1>3. PastOK(past) /\ AnswerOK(answer, past.lost) /\ FramesOK(frames, past.lost)
    BY DEF IInv
  <1>4. ASSUME NEW v \in Datum, Returns(v)
        PROVE  IInv'
    <2>1. CASE Runner.waits = "getter" /\ Reads([Runner EXCEPT !.waits = "nothing"], v)
      <3> DEFINE r == Runner
                 f == [r EXCEPT !.waits = "nothing"]
      <3>1. Reads(f, v)
        BY <2>1
      <3>2. FrameOK(r, past.lost) /\ r \in Frame /\ r.waits = "getter"
        BY <1>2, <2>1
      <3>3. r.work # <<>>
        BY <3>2 DEF FrameOK, Waiting
      <3>4. /\ f.work = r.work /\ f.made = r.made /\ f.waits = "nothing" /\ f.op = r.op
            /\ f.inside = r.inside /\ f \in Frame
        BY <3>2 DEF Frame, Waits
      <3> HIDE DEF f
      <3>5. Head(r.work).do # "dropLast"
        BY <3>1, <3>4, ReadsWhat
      <3>6. ~past.lost => /\ \A k \in DOMAIN r.work : r.work[k].do = "write" => r.work[k].value # NoValue
                          /\ (r.op = "shift" /\ r.made # <<>>) => r.made[1] # NoValue
                          /\ r.inside = FALSE
        BY <1>1, <3>3, <3>5, ReaderOK
      <3> HIDE DEF r
      <3>7. v \in Values /\ v # NoValue
        BY ArrayValuesAssumption DEF Values
      <3>8. Shape(f)
        BY <3>2, <3>4 DEF FrameOK, Shape
      <3>9. /\ FramesOK(frames', past'.lost) /\ AnswerOK(answer', past'.lost) /\ PastOK(past')
            /\ past.lost => past'.lost
        BY <1>1, <3>1, <3>3, <3>4, <3>6, <3>7, <3>8, ReadsKeeps
      <3>10. ElementsOK(elements', past'.lost)
        BY <1>1, <3>9 DEF IInv, ElementsOK
      <3> QED BY <1>1, <3>9, <3>10 DEF IInv
    <2>2. CASE /\ Runner.waits \in {"setter", "callback"}
               /\ frames' = WithRunner(NextDone(Runner))
               /\ UNCHANGED <<answer, past>>
      <3>1. Runner.work # <<>> /\ Head(Runner.work).do \notin {"take", "takeLast"}
        BY <1>2, <2>2 DEF FrameOK, Waiting
      <3>2. FramesOK(frames', past.lost)
        BY <1>1, <2>2, <3>1, GoesOn
      <3> QED BY <1>1, <2>2, <3>2 DEF IInv
    <2> QED BY <1>4, <2>1, <2>2 DEF Returns
  <1>5. ASSUME Throws
        PROVE  IInv'
    <2> DEFINE r == Runner
               f == [r EXCEPT !.inside = TRUE, !.waits = "nothing"]
    <2>1. FrameOK(r, past.lost) /\ r \in Frame
      BY <1>2
    <2>2. /\ f.work = r.work /\ f.made = r.made /\ f.waits = "nothing" /\ f.op = r.op
          /\ f.inside = TRUE /\ f \in Frame
      BY <2>1 DEF Frame, Waits
    <2>3. \/ r.waits = "getter" /\ Reads(f, NoValue)
          \/ /\ r.waits = "setter" /\ frames' = WithRunner(NextDone(f))
             /\ past' = [past EXCEPT !.lost = TRUE] /\ UNCHANGED answer
          \/ r.waits \in {"setter", "callback"} /\ GivesUp(f)
      BY <1>5 DEF Throws
    <2> HIDE DEF f
    <2>4. CASE r.waits = "getter" /\ Reads(f, NoValue)
      <3>1. r.work # <<>>
        BY <2>1, <2>4 DEF FrameOK, Waiting
      <3>2. Head(r.work).do # "dropLast"
        BY <2>2, <2>4, ReadsWhat
      <3>3. ~past.lost => /\ \A k \in DOMAIN r.work : r.work[k].do = "write" => r.work[k].value # NoValue
                          /\ (r.op = "shift" /\ r.made # <<>>) => r.made[1] # NoValue
        BY <1>1, <3>1, <3>2, ReaderOK
      <3> HIDE DEF r
      <3>4. Shape(f)
        BY <2>1, <2>2 DEF FrameOK, Shape
      <3>5. NoValue \in Values
        BY DEF Values
      <3>6. /\ FramesOK(frames', past'.lost) /\ AnswerOK(answer', past'.lost) /\ PastOK(past')
            /\ past.lost => past'.lost
        BY <1>1, <2>2, <2>4, <3>1, <3>3, <3>4, <3>5, ReadsKeeps
      <3>7. ElementsOK(elements', past'.lost)
        BY <1>1, <3>6 DEF IInv, ElementsOK
      <3> QED BY <1>1, <3>6, <3>7 DEF IInv
    <2>5. CASE /\ r.waits = "setter" /\ frames' = WithRunner(NextDone(f))
               /\ past' = [past EXCEPT !.lost = TRUE] /\ UNCHANGED answer
      <3> HIDE DEF r
      <3>1. PastOK(past') /\ past'.lost
        BY <1>3, <2>5 DEF PastOK
      <3>2. r.work # <<>> /\ Head(r.work).do = "write"
        BY <2>1, <2>5 DEF FrameOK, Waiting
      <3>3. FrameOK(f, past'.lost)
        BY <2>1, <2>2, <3>1 DEF FrameOK, Shape, Waiting
      <3>4. FrameOK(NextDone(f), past'.lost)
        BY <2>2, <3>2, <3>3, NextIsOK
      <3>5. FramesOK(WithRunner(NextDone(f)), past'.lost)
        BY <1>1, <3>1, <3>4, RunnerChanges
      <3>6. ElementsOK(elements', past'.lost) /\ AnswerOK(answer', past'.lost)
        BY <1>1, <2>5, <3>1 DEF IInv, ElementsOK, AnswerOK
      <3> QED BY <1>1, <2>5, <3>1, <3>5, <3>6 DEF IInv
    <2>6. CASE r.waits \in {"setter", "callback"} /\ GivesUp(f)
      <3>1. /\ frames' = Front(frames) /\ past' = past
            /\ answer' = [op |-> f.op, made |-> <<>>, threw |-> TRUE, inside |-> f.inside]
        BY <2>6 DEF GivesUp, Answer
      <3>2. FramesOK(Front(frames), past.lost)
        BY <1>1, <1>3, FramesShrink
      <3>3. AnswerOK(answer', past.lost)
        BY <2>2, <3>1 DEF AnswerOK, Frame
      <3> QED BY <1>1, <3>1, <3>2, <3>3 DEF IInv
    <2> QED BY <2>3, <2>4, <2>5, <2>6
  <1> QED BY <1>4, <1>5

-----------------------------------------------------------------------------
(* The theorems.                                                           *)

\* Every step keeps the invariant.
LEMMA StepsKeep ==
  ASSUME IInv, [Next]_vars
  PROVE  IInv'
  <1>1. CASE \/ \E i \in Indices : \/ \E v \in Datum : PutElement(i, v)
                                    \/ DeleteElement(i)
                                    \/ DefineAccessor(i)
             \/ \E n \in 0..MaxLength : PutLength(n)
    BY <1>1, ProgramKeeps
  <1>2. CASE \/ \E items \in SeqOf(Datum, MaxItems) :
                  \/ Push(items)
                  \/ \E s \in -1..MaxLength, n \in -1..MaxLength : Splice(s, n, items)
             \/ Pop \/ Shift \/ Apply \/ ForEach
             \/ \E items \in SeqOf(Datum \cup {ThisArray}, 1) : Concat(items)
             \/ \E begin \in 0..MaxLength, end \in SliceEnds : Slice(begin, end)
    BY <1>2, OperationsKeep
  <1>3. CASE \/ DoRead \/ DoTakeLast \/ DoCall \/ DoInvoke \/ DoWrite \/ DoErase \/ DoSetLength
             \/ DoDropLast \/ DoSpread \/ DoAdd \/ DoReturn
    BY <1>3, InstructionsKeep
  <1>4. CASE (\E v \in Datum : Returns(v)) \/ Throws
    BY <1>4, ReturnsKeep
  <1>5. CASE UNCHANGED vars
    BY <1>5 DEF vars, IInv
  <1>6. \/ Next \/ UNCHANGED vars
    OBVIOUS
  <1> QED BY <1>1, <1>2, <1>3, <1>4, <1>5, <1>6 DEF Next

THEOREM Invariant == Spec => []IInv
  <1>1. Init => IInv
    BY InitKeeps
  <1>2. IInv /\ [Next]_vars => IInv'
    BY StepsKeep
  <1> QED BY <1>1, <1>2, PTL DEF Spec

\* For arrays of any length, with accessors at any elements: Array::length and the
\* property "length" are the same number, and elements are values or accessors
\* (context.cc 120-153).
THEOREM TypeCorrect == Spec => []TypeOK
  <1>1. IInv => TypeOK
    <2> SUFFICES ASSUME IInv
                 PROVE  TypeOK
      OBVIOUS
    <2>1. \A k \in DOMAIN frames : frames[k].op \in Operations /\ frames[k].waits \in Waits
      <3>1. frames \in Seq(Frame)
        BY DEF IInv, FramesOK
      <3>2. \A k \in DOMAIN frames : frames[k] \in Frame
        BY <3>1, SeqElement
      <3> QED BY <3>2 DEF Frame
    <2> QED BY <2>1 DEF IInv, TypeOK, LengthsOK, ElementsOK, AnswerOK
  <1> QED BY <1>1, Invariant, PTL

\* However many accessors, callbacks and operations inside one another: what an
\* operation returns is an exception just when code it called threw one, until splice,
\* shift or apply has stored the null of an exception like a value (builtin.cc 371-411,
\* 441-611).
THEOREM ExceptionsReported == Spec => []ReportsExceptions
  <1>1. IInv => ReportsExceptions
    BY DEF IInv, ReportsExceptions, ElementsOK, AnswerOK
  <1> QED BY <1>1, Invariant, PTL

-----------------------------------------------------------------------------
(* Elements and the length, in arrays without accessors.                   *)

Readers == {"concat", "slice", "forEach", "apply"}
Writers == {"push", "splice", "shift"}
Reading == {"take", "collect", "call", "add", "spread", "invoke"}

\* What leaves no element at or past m.
Mild(m) ==
  {i \in Instructions : /\ i.do \in {"take", "move", "write", "erase"}
                        /\ i.do = "move" => i.to < m
                        /\ i.do = "write" => i.at < m}

\* The instructions w end with the length m, and erase before what e has at m or past it.
Settling(w, m, e) ==
  \E u \in Seq(Mild(m)) :
    /\ w = Append(u, SetLength(m))
    /\ \A i \in DOMAIN e : i < m \/ \E j \in DOMAIN u : u[j] = Erased(i)
Settled(f, e) == f.op \in Writers => f.work = <<>> \/ \E m \in Int : Settling(f.work, m, e)

\* Nothing is called but callbacks, by operations that only read.
Quiet(f) ==
  /\ f.waits \in {"nothing", "callback"}
  /\ \A j \in DOMAIN f.work : IF f.op \in Readers THEN f.work[j].do \in Reading
                              ELSE f.work[j].do \notin {"call", "invoke"}
QuietFrames(fs) ==
  \A k \in DOMAIN fs : Quiet(fs[k]) /\ (k < Len(fs) => fs[k].waits = "callback")

NoAccessors(e) == \A i \in DOMAIN e : e[i] # AccessorPair
Below(n, e) == \A i \in DOMAIN e : i < n

Calm(n, e, fs, shrunk) ==
  /\ NoAccessors(e)
  /\ QuietFrames(fs)
  /\ ~shrunk => Below(n, e) /\ (fs # <<>> => Settled(Last(fs), e))

BInv == past.plain => Calm(length, elements, frames, past.shrunk)

-----------------------------------------------------------------------------

LEMMA LastAppended ==
  ASSUME NEW S, NEW q \in Seq(S), NEW x \in S
  PROVE  /\ Last(Append(q, x)) = x /\ Front(Append(q, x)) = q
         /\ q \o <<x>> = Append(q, x)
  BY DEF Last, Front

LEMMA AppendedToJoined ==
  ASSUME NEW S, NEW q \in Seq(S), NEW r \in Seq(S), NEW x
  PROVE  q \o Append(r, x) = Append(q \o r, x)
  OBVIOUS

LEMMA InJoined ==
  ASSUME NEW S, NEW q \in Seq(S), NEW r \in Seq(S)
  PROVE  /\ \A k \in DOMAIN q : k \in DOMAIN (q \o r) /\ (q \o r)[k] = q[k]
         /\ \A k \in DOMAIN r : k + Len(q) \in DOMAIN (q \o r) /\ (q \o r)[k + Len(q)] = r[k]
         /\ \A k \in DOMAIN (q \o r) : \/ k \in DOMAIN q /\ (q \o r)[k] = q[k]
                                       \/ k - Len(q) \in DOMAIN r /\ (q \o r)[k] = r[k - Len(q)]
  OBVIOUS

\* Instructions one after another, from the first on.
LEMMA SettlingHead ==
  ASSUME NEW w, NEW m \in Int, NEW u \in Seq(Mild(m)), w = Append(u, SetLength(m))
  PROVE  /\ w # <<>>
         /\ u = <<>> => w = <<SetLength(m)>> /\ Head(w) = SetLength(m) /\ Tail(w) = <<>>
         /\ u # <<>> => /\ Head(w) = u[1] /\ u[1] \in Mild(m)
                        /\ Tail(w) = Append(Tail(u), SetLength(m)) /\ Tail(u) \in Seq(Mild(m))
  <1> DEFINE x == SetLength(m)
  <1>1. u \in Seq(Mild(m)) /\ w = Append(u, x)
    OBVIOUS
  <1> HIDE DEF x
  <1>2. w # <<>>
    BY <1>1
  <1>3. ASSUME u = <<>>
        PROVE  w = <<x>> /\ Head(w) = x /\ Tail(w) = <<>>
    BY <1>1, <1>3
  <1>4. ASSUME u # <<>>
        PROVE  Head(w) = u[1] /\ u[1] \in Mild(m) /\ Tail(u) \in Seq(Mild(m))
    BY <1>1, <1>4
  <1>5. ASSUME u # <<>>
        PROVE  Tail(w) = Append(Tail(u), x)
    BY <1>1, <1>5
  <1> QED BY <1>2, <1>3, <1>4, <1>5 DEF x

LEMMA SettlingStep ==
  ASSUME NEW w, NEW m \in Int, NEW e, Settling(w, m, e), Head(w).do # "setLength",
         NEW e2, \A i \in DOMAIN e2 : i < m \/ (i \in DOMAIN e /\ Head(w) # Erased(i))
  PROVE  Settling(Tail(w), m, e2) /\ Head(w) \in Mild(m)
  <1>1. PICK u \in Seq(Mild(m)) :
          /\ w = Append(u, SetLength(m))
          /\ \A i \in DOMAIN e : i < m \/ \E j \in DOMAIN u : u[j] = Erased(i)
    BY DEF Settling
  <1>2. u # <<>>
    BY <1>1, SettlingHead DEF SetLength
  <1>3. /\ Head(w) = u[1] /\ u[1] \in Mild(m)
        /\ Tail(w) = Append(Tail(u), SetLength(m)) /\ Tail(u) \in Seq(Mild(m))
    BY <1>1, <1>2, SettlingHead
  <1>4. ASSUME NEW i \in DOMAIN e2, ~(i < m)
        PROVE  \E j \in DOMAIN Tail(u) : Tail(u)[j] = Erased(i)
    <2>1. i \in DOMAIN e /\ Head(w) # Erased(i)
      BY <1>4
    <2>2. PICK j \in DOMAIN u : u[j] = Erased(i)
      BY <1>1, <1>4, <2>1
    <2>3. j # 1
      BY <1>3, <2>1, <2>2
    <2>4. j - 1 \in DOMAIN Tail(u) /\ Tail(u)[j - 1] = u[j]
      BY <1>2, <2>3
    <2> QED BY <2>2, <2>4
  <1> QED BY <1>3, <1>4 DEF Settling

LEMMA SettlingMore ==
  ASSUME NEW w, NEW m \in Int, NEW e, Settling(w, m, e), NEW i \in Mild(m)
  PROVE  Settling(<<i>> \o w, m, e)
  <1>1. PICK u \in Seq(Mild(m)) :
          /\ w = Append(u, SetLength(m))
          /\ \A k \in DOMAIN e : k < m \/ \E j \in DOMAIN u : u[j] = Erased(k)
    BY DEF Settling
  <1>2. <<i>> \in Seq(Mild(m))
    OBVIOUS
  <1> DEFINE first == <<i>>
  <1>3. first \in Seq(Mild(m))
    BY <1>2
  <1> HIDE DEF first
  <1>4. first \o w = Append(first \o u, SetLength(m)) /\ first \o u \in Seq(Mild(m))
    BY <1>1, <1>3, AppendedToJoined, SeqJoined
  <1>5. \A j \in DOMAIN u : \E k \in DOMAIN (first \o u) : (first \o u)[k] = u[j]
    <2> TAKE j \in DOMAIN u
    <2>1. j + Len(first) \in DOMAIN (first \o u) /\ (first \o u)[j + Len(first)] = u[j]
      BY <1>3, InJoined
    <2> QED BY <2>1
  <1>6. Settling(first \o w, m, e)
    BY <1>1, <1>4, <1>5 DEF Settling
  <1> QED BY <1>6 DEF first

LEMMA SettlingLast ==
  ASSUME NEW w, NEW m \in Int, NEW e, Settling(w, m, e), Head(w).do = "setLength"
  PROVE  Head(w) = SetLength(m) /\ Tail(w) = <<>> /\ Below(m, e)
  <1>1. PICK u \in Seq(Mild(m)) :
          /\ w = Append(u, SetLength(m))
          /\ \A i \in DOMAIN e : i < m \/ \E j \in DOMAIN u : u[j] = Erased(i)
    BY DEF Settling
  <1>2. \A x \in Mild(m) : x.do # "setLength"
    BY DEF Mild
  <1>3. u = <<>>
    BY <1>1, <1>2, SettlingHead
  <1>4. DOMAIN u = {}
    BY <1>3
  <1> QED BY <1>1, <1>3, <1>4, SettlingHead DEF Below

-----------------------------------------------------------------------------
(* What the operations that write have to do settles.                      *)

\* For an array of n elements: the instructions end with the length m, and erase
\* before what may be at m or past it.
Ends(w, n, m) ==
  \E u \in Seq(Mild(m)) :
    /\ w = Append(u, SetLength(m))
    /\ \A i \in m..(n - 1) : \E j \in DOMAIN u : u[j] = Erased(i)

LEMMA EndsSettling ==
  ASSUME NEW w, NEW n \in Int, NEW m \in Int, Ends(w, n, m), NEW e, DOMAIN e \subseteq Int, Below(n, e)
  PROVE  Settling(w, m, e)
  <1>1. PICK u \in Seq(Mild(m)) :
          /\ w = Append(u, SetLength(m))
          /\ \A i \in m..(n - 1) : \E j \in DOMAIN u : u[j] = Erased(i)
    BY DEF Ends
  <1>2. \A i \in DOMAIN e : i < m \/ i \in m..(n - 1)
    BY DEF Below
  <1> QED BY <1>1, <1>2 DEF Settling

LEMMA EndsCallsNothing ==
  ASSUME NEW w, NEW n, NEW m \in Int, Ends(w, n, m)
  PROVE  \A j \in DOMAIN w : w[j].do \notin {"call", "invoke"}
  <1>1. PICK u \in Seq(Mild(m)) : w = Append(u, SetLength(m))
    BY DEF Ends
  <1>2. \A x \in Mild(m) \cup {SetLength(m)} : x.do \notin {"call", "invoke"}
    BY DEF Mild, SetLength
  <1>3. u \in Seq(Mild(m) \cup {SetLength(m)}) /\ SetLength(m) \in Mild(m) \cup {SetLength(m)}
    OBVIOUS
  <1>4. w \in Seq(Mild(m) \cup {SetLength(m)})
    BY <1>1, <1>3, SeqAppended
  <1> QED BY <1>2, <1>4, SeqElement

LEMMA MildConstructors ==
  ASSUME NEW m \in Int
  PROVE  /\ \A i \in Int : Take(i) \in Mild(m) /\ Erased(i) \in Mild(m)
         /\ \A i \in Int, j \in Indices : j < m => Move(i, j) \in Mild(m)
         /\ \A i \in Indices, v \in Values : i < m => Write(i, v) \in Mild(m)
  <1>1. /\ \A i \in Int : Take(i) \in Instructions /\ Erased(i) \in Instructions
        /\ \A i \in Int, j \in Indices : Move(i, j) \in Instructions
        /\ \A i \in Indices, v \in Values : Write(i, v) \in Instructions
    BY Constructors DEF Fresh
  <1>2. \A i \in Int : Take(i) \in Mild(m) /\ Erased(i) \in Mild(m)
    BY <1>1 DEF Mild, Take, Erased
  <1>3. \A i \in Int, j \in Indices : j < m => Move(i, j) \in Mild(m)
    BY <1>1 DEF Mild, Move
  <1>4. \A i \in Indices, v \in Values : i < m => Write(i, v) \in Mild(m)
    BY <1>1 DEF Mild, Write
  <1> QED BY <1>2, <1>3, <1>4

\* Items written one after another, all before m.
LEMMA GivenMild ==
  ASSUME NEW start \in Nat, NEW items \in Seq(Datum), NEW m \in Nat,
         start + Len(items) <= m, m <= MaxLength
  PROVE  [k \in 1..Len(items) |-> Write(start + k - 1, items[k])] \in Seq(Mild(m))
  <1> DEFINE l == Len(items)
             given == [k \in 1..l |-> Write(start + k - 1, items[k])]
  <1>1. l \in Nat /\ MaxLength \in Nat
    BY Bounds
  <1>2. \A k \in 1..l : start + k - 1 \in Indices /\ start + k - 1 < m /\ items[k] \in Values
    BY <1>1 DEF Indices, Values
  <1>3. \A k \in 1..l : Write(start + k - 1, items[k]) \in Mild(m)
    BY <1>2, MildConstructors
  <1>4. given \in [1..l -> Mild(m)]
    BY <1>3
  <1> QED BY <1>1, <1>4, SeqFunction

\* The moves and the erasures of a splice.
LEMMA MovesMild ==
  ASSUME NEW from \in Int, NEW n \in Int, NEW by \in Int, NEW m \in Int
  PROVE  /\ (\A i \in from..(n - 1) : i - by \in Indices /\ i - by < m)
              => Each(LAMBDA i : Move(i, i - by), from, n) \in Seq(Mild(m))
         /\ (\A i \in from..(n - 1) : i + by \in Indices /\ i + by < m)
              => Each(LAMBDA i : Move(i, i + by), from, n) \in Seq(Mild(m))
  <1> DEFINE l == IF n > from THEN n - from ELSE 0
  <1>1. l \in Nat /\ \A k \in 1..l : from + k - 1 \in from..(n - 1)
    OBVIOUS
  <1>2. ASSUME \A i \in from..(n - 1) : i - by \in Indices /\ i - by < m
        PROVE  Each(LAMBDA i : Move(i, i - by), from, n) \in Seq(Mild(m))
    <2> DEFINE moves == Each(LAMBDA i : Move(i, i - by), from, n)
    <2>1. moves = [k \in 1..l |-> Move(from + k - 1, from + k - 1 - by)]
      BY DEF Each
    <2> HIDE DEF moves, l
    <2>2. \A k \in 1..l : Move(from + k - 1, from + k - 1 - by) \in Mild(m)
      <3> TAKE k \in 1..l
      <3> DEFINE i == from + k - 1
      <3>1. i \in from..(n - 1) /\ i \in Int
        BY <1>1
      <3> HIDE DEF i
      <3>2. Move(i, i - by) \in Mild(m)
        BY <1>2, <3>1, MildConstructors
      <3> QED BY <3>2 DEF i
    <2>3. moves \in [1..l -> Mild(m)]
      BY <2>1, <2>2
    <2> QED BY <1>1, <2>3, SeqFunction DEF moves
  <1>3. ASSUME \A i \in from..(n - 1) : i + by \in Indices /\ i + by < m
        PROVE  Each(LAMBDA i : Move(i, i + by), from, n) \in Seq(Mild(m))
    <2> DEFINE moves == Each(LAMBDA i : Move(i, i + by), from, n)
    <2>1. moves = [k \in 1..l |-> Move(from + k - 1, from + k - 1 + by)]
      BY DEF Each
    <2> HIDE DEF moves, l
    <2>2. \A k \in 1..l : Move(from + k - 1, from + k - 1 + by) \in Mild(m)
      <3> TAKE k \in 1..l
      <3> DEFINE i == from + k - 1
      <3>1. i \in from..(n - 1) /\ i \in Int
        BY <1>1
      <3> HIDE DEF i
      <3>2. Move(i, i + by) \in Mild(m)
        BY <1>3, <3>1, MildConstructors
      <3> QED BY <3>2 DEF i
    <2>3. moves \in [1..l -> Mild(m)]
      BY <2>1, <2>2
    <2> QED BY <1>1, <2>3, SeqFunction DEF moves
  <1> QED BY <1>2, <1>3

LEMMA ErasesMild ==
  ASSUME NEW m \in Int, NEW n \in Int
  PROVE  /\ Each(Erased, m, n) \in Seq(Mild(m))
         /\ \A i \in m..(n - 1) : /\ i - m + 1 \in DOMAIN Each(Erased, m, n)
                                  /\ Each(Erased, m, n)[i - m + 1] = Erased(i)
  <1> DEFINE l == IF n > m THEN n - m ELSE 0
             erases == Each(Erased, m, n)
  <1>1. erases = [k \in 1..l |-> Erased(m + k - 1)]
    BY DEF Each
  <1>2. l \in Nat /\ \A i \in m..(n - 1) : i - m + 1 \in 1..l /\ m + (i - m + 1) - 1 = i
    OBVIOUS
  <1> HIDE DEF erases, l
  <1>3. \A k \in 1..l : Erased(m + k - 1) \in Mild(m)
    BY <1>2, MildConstructors
  <1>4. erases \in [1..l -> Mild(m)]
    BY <1>1, <1>3
  <1>5. \A i \in m..(n - 1) : i - m + 1 \in DOMAIN erases /\ erases[i - m + 1] = Erased(i)
    BY <1>1, <1>2
  <1> QED BY <1>2, <1>4, <1>5, SeqFunction DEF erases

LEMMA PushEnds ==
  ASSUME NEW n \in Nat, NEW items \in Seq(Datum), n + Len(items) <= MaxLength
  PROVE  Ends(PushWork(n, items), n, n + Len(items))
  <1> DEFINE m == n + Len(items)
             given == [k \in 1..Len(items) |-> Write(n + k - 1, items[k])]
  <1>1. Len(items) \in Nat /\ m \in Nat /\ DOMAIN items = 1..Len(items)
    OBVIOUS
  <1>2. given \in Seq(Mild(m))
    <2>1. n \in Nat /\ items \in Seq(Datum) /\ m \in Nat /\ n + Len(items) <= m /\ m <= MaxLength
      BY <1>1
    <2> HIDE DEF m
    <2>2. [k \in 1..Len(items) |-> Write(n + k - 1, items[k])] \in Seq(Mild(m))
      BY <2>1, GivenMild
    <2> QED BY <2>2
  <1>3. PushWork(n, items) = Append(given, SetLength(m))
    BY <1>1 DEF PushWork
  <1>4. m..(n - 1) = {}
    BY <1>1
  <1> HIDE DEF given, m
  <1>5. Ends(PushWork(n, items), n, m)
    BY <1>2, <1>3, <1>4 DEF Ends
  <1> QED BY <1>5 DEF m

LEMMA SpliceEnds ==
  ASSUME NEW n \in Nat, NEW start \in 0..n, NEW count \in 0..(n - start),
         NEW items \in Seq(Datum), n + Len(items) - count <= MaxLength
  PROVE  Ends(SpliceWork(n, start, count, items), n, n + Len(items) - count)
  <1> DEFINE inserted == Len(items)
             m == n + inserted - count
             removed == Each(Take, start, start + count)
             given == [k \in 1..inserted |-> Write(start + k - 1, items[k])]
             less == count - inserted
             more == inserted - count
             from == start + count
             last == SetLength(m)
  <1>0. inserted \in Nat /\ MaxLength \in Nat /\ m \in Nat /\ m <= MaxLength
    BY Bounds
  <1>1. removed \in Seq(Mild(m))
    <2>1. removed = [k \in 1..count |-> Take(start + k - 1)]
      BY <1>0 DEF Each
    <2>2. \A k \in 1..count : Take(start + k - 1) \in Mild(m)
      BY <1>0, MildConstructors
    <2>3. removed \in [1..count -> Mild(m)]
      BY <2>1, <2>2
    <2>4. count \in Nat
      OBVIOUS
    <2> HIDE DEF removed, m
    <2> QED BY <2>3, <2>4, SeqFunction
  <1>2. given \in Seq(Mild(m))
    <2>1. start \in Nat /\ items \in Seq(Datum) /\ m \in Nat /\ start + Len(items) <= m /\ m <= MaxLength
      BY <1>0
    <2> HIDE DEF m
    <2>2. [k \in 1..Len(items) |-> Write(start + k - 1, items[k])] \in Seq(Mild(m))
      BY <2>1, GivenMild
    <2> QED BY <2>2
  <1>3. ASSUME less >= 0
        PROVE  \E u \in Seq(Mild(m)) :
                 /\ SpliceWork(n, start, count, items) = Append(u, last)
                 /\ \A i \in m..(n - 1) : \E j \in DOMAIN u : u[j] = Erased(i)
    <2> DEFINE moves == Each(LAMBDA i : Move(i, i - less), from, n)
               erases == Each(Erased, n - less, n)
               closes == moves \o erases
               u == removed \o (given \o closes)
    <2>1. moves \in Seq(Mild(m))
      <3>1. \A i \in from..(n - 1) : i - less \in Indices /\ i - less < m
        BY <1>0, <1>3 DEF Indices
      <3>2. from \in Int /\ n \in Int /\ less \in Int /\ m \in Int
        BY <1>0
      <3> HIDE DEF from, less, m
      <3> QED BY <3>1, <3>2, MovesMild
    <2>2. erases \in Seq(Mild(m)) /\ \A i \in m..(n - 1) : i - m + 1 \in DOMAIN erases /\ erases[i - m + 1] = Erased(i)
      <3>1. n - less = m /\ m \in Int /\ n \in Int
        BY <1>0
      <3> HIDE DEF less, m
      <3>2. erases = Each(Erased, m, n)
        BY <3>1
      <3>3. /\ Each(Erased, m, n) \in Seq(Mild(m))
            /\ \A i \in m..(n - 1) : /\ i - m + 1 \in DOMAIN Each(Erased, m, n)
                                     /\ Each(Erased, m, n)[i - m + 1] = Erased(i)
        BY <3>1, ErasesMild
      <3> HIDE DEF erases
      <3> QED BY <3>2, <3>3, Zenon
    <2>3. SpliceWork(n, start, count, items) = removed \o ((given \o closes) \o <<last>>)
      <3>1. n - less = m
        BY <1>0
      <3>2. count >= inserted
        BY <1>0, <1>3
      <3>3. ClosesGap(n, from, less) = closes
        BY DEF ClosesGap
      <3>4. SpliceWork(n, start, count, items) = removed \o (given \o ClosesGap(n, from, less) \o <<SetLength(n - less)>>)
        BY <3>2 DEF SpliceWork
      <3> HIDE DEF closes, less, m, removed, given, from
      <3> QED BY <3>1, <3>3, <3>4
    <2> HIDE DEF moves, erases, removed, given, last, m
    <2>4. closes \in Seq(Mild(m))
      BY <2>1, <2>2, SeqJoined
    <2>5. \A i \in m..(n - 1) : \E j \in DOMAIN closes : closes[j] = Erased(i)
      <3> TAKE i \in m..(n - 1)
      <3>1. i - m + 1 \in DOMAIN erases /\ erases[i - m + 1] = Erased(i)
        BY <2>2
      <3>2. /\ i - m + 1 + Len(moves) \in DOMAIN closes
            /\ closes[i - m + 1 + Len(moves)] = erases[i - m + 1]
        BY <2>1, <2>2, <3>1, InJoined
      <3> QED BY <3>1, <3>2
    <2> HIDE DEF closes
    <2> DEFINE rest == given \o closes
    <2>6. rest \in Seq(Mild(m)) /\ \A i \in m..(n - 1) : \E j \in DOMAIN rest : rest[j] = Erased(i)
      <3>1. rest \in Seq(Mild(m))
        BY <1>2, <2>4, SeqJoined
      <3>2. ASSUME NEW i \in m..(n - 1)
            PROVE  \E j \in DOMAIN rest : rest[j] = Erased(i)
        <4>1. PICK j \in DOMAIN closes : closes[j] = Erased(i)
          BY <2>5
        <4>2. j + Len(given) \in DOMAIN rest /\ rest[j + Len(given)] = closes[j]
          BY <1>2, <2>4, InJoined
        <4> QED BY <4>1, <4>2
      <3> QED BY <3>1, <3>2
    <2>7. SpliceWork(n, start, count, items) = removed \o (rest \o <<last>>) /\ u = removed \o rest
      BY <2>3
    <2> HIDE DEF rest, u
    <2>8. rest \o <<last>> = Append(rest, last)
      BY <2>6
    <2>9. SpliceWork(n, start, count, items) = Append(u, last)
      BY <1>1, <2>6, <2>7, <2>8, AppendedToJoined
    <2>10. u \in Seq(Mild(m))
      BY <1>1, <2>6, <2>7, SeqJoined
    <2>11. ASSUME NEW i \in m..(n - 1)
           PROVE  \E j \in DOMAIN u : u[j] = Erased(i)
      <3>1. PICK j \in DOMAIN rest : rest[j] = Erased(i)
        BY <2>6
      <3>2. j + Len(removed) \in DOMAIN u /\ u[j + Len(removed)] = rest[j]
        BY <1>1, <2>6, <2>7, InJoined
      <3> QED BY <3>1, <3>2
    <2> QED BY <2>9, <2>10, <2>11
  <1>4. ASSUME more > 0
        PROVE  \E u \in Seq(Mild(m)) :
                 /\ SpliceWork(n, start, count, items) = Append(u, last)
                 /\ \A i \in m..(n - 1) : \E j \in DOMAIN u : u[j] = Erased(i)
    <2> DEFINE moves == Each(LAMBDA i : Move(i, i + more), from, n)
               opens == OpensGap(n, from, more)
    <2>1. moves \in Seq(Mild(m))
      <3>1. \A i \in from..(n - 1) : i + more \in Indices /\ i + more < m
        BY <1>0, <1>4 DEF Indices
      <3>2. from \in Int /\ n \in Int /\ more \in Int /\ m \in Int
        BY <1>0
      <3> HIDE DEF from, more, m
      <3> QED BY <3>1, <3>2, MovesMild
    <2>2. opens \in Seq(Mild(m))
      BY <2>1, SeqReversed DEF OpensGap
    <2>3. SpliceWork(n, start, count, items) = removed \o ((opens \o given) \o <<last>>)
      <3>1. n + more = m
        BY <1>0
      <3>2. ~(count >= inserted)
        BY <1>0, <1>4
      <3>3. SpliceWork(n, start, count, items) = removed \o (OpensGap(n, from, more) \o given \o <<SetLength(n + more)>>)
        BY <3>2 DEF SpliceWork
      <3> HIDE DEF more, m, removed, given, from
      <3> QED BY <3>1, <3>3
    <2>4. m..(n - 1) = {}
      BY <1>0, <1>4
    <2> HIDE DEF opens, removed, given, last, m
    <2> DEFINE rest == opens \o given
    <2>5. rest \in Seq(Mild(m))
      BY <1>2, <2>2, SeqJoined
    <2>6. SpliceWork(n, start, count, items) = removed \o (rest \o <<last>>)
      BY <2>3
    <2> HIDE DEF rest
    <2>7. rest \o <<last>> = Append(rest, last)
      BY <2>5
    <2>8. SpliceWork(n, start, count, items) = Append(removed \o rest, last)
      BY <1>1, <2>5, <2>6, <2>7, AppendedToJoined
    <2>9. removed \o rest \in Seq(Mild(m))
      BY <1>1, <2>5, SeqJoined
    <2> QED BY <2>4, <2>8, <2>9
  <1>5. less >= 0 \/ more > 0
    BY <1>0
  <1> HIDE DEF m, less, more
  <1>6. Ends(SpliceWork(n, start, count, items), n, m)
    BY <1>3, <1>4, <1>5 DEF Ends
  <1> QED BY <1>6 DEF m

-----------------------------------------------------------------------------
(* Calm frames.                                                            *)

LEMMA QuietGrow ==
  ASSUME NEW fs \in Seq(Frame), QuietFrames(fs), fs # <<>> => Last(fs).waits = "callback",
         NEW f \in Frame, Quiet(f)
  PROVE  QuietFrames(Append(fs, f)) /\ Last(Append(fs, f)) = f
  <1>1. \A k \in DOMAIN fs : fs[k].waits = "callback"
    <2> TAKE k \in DOMAIN fs
    <2>1. CASE k < Len(fs)
      BY <2>1 DEF QuietFrames
    <2>2. CASE k = Len(fs)
      <3>1. fs # <<>>
        BY <2>2
      <3> QED BY <2>2, <3>1, SeqFront
    <2> QED BY <2>1, <2>2
  <1>2. \A k \in DOMAIN Append(fs, f) : /\ Append(fs, f)[k] = IF k \in DOMAIN fs THEN fs[k] ELSE f
                                        /\ k < Len(Append(fs, f)) => k \in DOMAIN fs
    OBVIOUS
  <1>3. QuietFrames(Append(fs, f))
    BY <1>1, <1>2 DEF QuietFrames
  <1> QED BY <1>3, LastAppended

LEMMA QuietShrink ==
  ASSUME NEW fs \in Seq(Frame), QuietFrames(fs), fs # <<>>
  PROVE  /\ Front(fs) \in Seq(Frame) /\ QuietFrames(Front(fs))
         /\ Front(fs) # <<>> => Last(Front(fs)).waits = "callback"
         /\ Quiet(Last(fs))
  <1> DEFINE g == Front(fs)
  <1>1. g \in Seq(Frame) /\ Last(fs) = fs[Len(fs)] /\ Len(fs) \in DOMAIN fs
        /\ \A k \in DOMAIN g : k \in DOMAIN fs /\ g[k] = fs[k]
    BY SeqFront
  <1>2. \A k \in DOMAIN g : k < Len(fs)
    BY DEF Front
  <1> HIDE DEF g
  <1>3. \A k \in DOMAIN g : Quiet(g[k]) /\ g[k].waits = "callback"
    BY <1>1, <1>2 DEF QuietFrames
  <1>4. g # <<>> => Last(g).waits = "callback"
    <2> SUFFICES ASSUME g # <<>>
                 PROVE  Last(g).waits = "callback"
      OBVIOUS
    <2>1. Last(g) = g[Len(g)] /\ Len(g) \in DOMAIN g
      BY <1>1, SeqFront
    <2> QED BY <1>3, <2>1
  <1>5. Quiet(Last(fs))
    BY <1>1 DEF QuietFrames
  <1> QED BY <1>1, <1>3, <1>4, <1>5 DEF QuietFrames, g

\* Only operations that read call.
LEMMA CallbackReader ==
  ASSUME NEW f \in Frame, Waiting(f), Quiet(f), f.waits = "callback"
  PROVE  f.op \in Readers
  <1>1. f.work # <<>> /\ Head(f.work).do \in {"call", "invoke"} /\ f.work \in Seq(Instructions)
    BY DEF Waiting, Frame
  <1>2. f.work[1].do \in {"call", "invoke"} /\ 1 \in DOMAIN f.work
    BY <1>1, SeqTail
  <1> QED BY <1>2 DEF Quiet

LEMMA ReadersSettled ==
  ASSUME NEW f, f.op \in Readers, NEW e
  PROVE  Settled(f, e)
  BY DEF Readers, Writers, Settled

\* While the program runs, the innermost operation only reads.
LEMMA ProgramReads ==
  ASSUME IInv, BInv, past.plain, frames # <<>>, Runner.waits # "nothing"
  PROVE  Runner.op \in Readers /\ Runner.waits = "callback"
  <1>1. FrameOK(Runner, past.lost) /\ Runner \in Frame
    BY RunnerOK
  <1>2. frames \in Seq(Frame) /\ QuietFrames(frames)
    BY DEF IInv, FramesOK, BInv, Calm
  <1>3. Quiet(Runner)
    BY <1>2, QuietShrink DEF Runner
  <1>4. Runner.waits = "callback"
    BY <1>3 DEF Quiet
  <1> QED BY <1>1, <1>3, <1>4, CallbackReader DEF FrameOK

\* The innermost frame changes, or goes.
LEMMA CalmChange ==
  ASSUME IInv, BInv, past.plain, frames # <<>>, NEW g \in Frame, Quiet(g),
         NEW n, NEW e, NoAccessors(e), NEW s,
         ~s => Below(n, e) /\ Settled(g, e)
  PROVE  Calm(n, e, WithRunner(g), s)
  <1>1. frames \in Seq(Frame) /\ QuietFrames(frames)
    BY DEF IInv, FramesOK, BInv, Calm
  <1> DEFINE fs == Front(frames)
  <1>2. fs \in Seq(Frame) /\ QuietFrames(fs) /\ (fs # <<>> => Last(fs).waits = "callback")
    BY <1>1, QuietShrink
  <1> HIDE DEF fs
  <1>3. QuietFrames(Append(fs, g)) /\ Last(Append(fs, g)) = g
    BY <1>2, QuietGrow
  <1> QED BY <1>3 DEF Calm, WithRunner, fs

LEMMA CalmReturn ==
  ASSUME IInv, BInv, past.plain, frames # <<>>
  PROVE  Calm(length, elements, Front(frames), past.shrunk)
  <1>1. FramesOK(frames, past.lost) /\ frames \in Seq(Frame)
    BY DEF IInv, FramesOK
  <1>2. QuietFrames(frames) /\ NoAccessors(elements) /\ (~past.shrunk => Below(length, elements))
    BY DEF BInv, Calm
  <1> DEFINE fs == Front(frames)
  <1>3. fs \in Seq(Frame) /\ QuietFrames(fs) /\ (fs # <<>> => Last(fs).waits = "callback")
    BY <1>1, <1>2, QuietShrink
  <1>4. FramesOK(fs, past.lost)
    BY <1>1, FramesShrink
  <1> HIDE DEF fs
  <1>5. ASSUME fs # <<>>
        PROVE  Settled(Last(fs), elements)
    <2> DEFINE f == Last(fs)
    <2>1. FrameOK(f, past.lost) /\ f.waits = "callback"
      BY <1>3, <1>4, <1>5, FramesShrink
    <2>2. Quiet(f)
      BY <1>3, <1>5, QuietShrink
    <2> HIDE DEF f
    <2>3. f.op \in Readers
      BY <2>1, <2>2, CallbackReader DEF FrameOK
    <2> QED BY <2>3, ReadersSettled DEF f
  <1> QED BY <1>2, <1>3, <1>5 DEF Calm, fs

\* The innermost operation goes on to its next instruction.
LEMMA QuietNext ==
  ASSUME NEW f \in Frame, Quiet(f), f.work # <<>>
  PROVE  /\ NextDone(f) \in Frame /\ Quiet(NextDone(f))
         /\ NextDone(f).op = f.op /\ NextDone(f).work = Tail(f.work) /\ NextDone(f).waits = "nothing"
         /\ NextDone(f).made = f.made
  <1>1. f.work \in Seq(Instructions)
    BY DEF Frame
  <1> DEFINE g == NextDone(f)
  <1>2. g \in Frame /\ g.work = Tail(f.work) /\ g.waits = "nothing" /\ g.op = f.op /\ g.made = f.made
    BY <1>1, SeqTail DEF NextDone, Frame, Waits
  <1> HIDE DEF g
  <1>3. \A j \in DOMAIN g.work : g.work[j] = f.work[j + 1] /\ j + 1 \in DOMAIN f.work
    BY <1>1, <1>2, SeqTail
  <1>4. Quiet(g)
    BY <1>2, <1>3 DEF Quiet
  <1> QED BY <1>2, <1>4 DEF g

\* What the innermost operation is about to do.
LEMMA RunnerCalm ==
  ASSUME IInv, BInv, past.plain, frames # <<>>
  PROVE  /\ FrameOK(Runner, past.lost) /\ Runner \in Frame /\ Quiet(Runner)
         /\ ~past.shrunk => Below(length, elements) /\ Settled(Runner, elements)
         /\ NoAccessors(elements)
         /\ (Runner.work # <<>> /\ Head(Runner.work).do \in {"write", "erase", "setLength", "move"})
               => Runner.op \in Writers
         /\ (Runner.work # <<>> /\ Head(Runner.work).do \in {"call", "invoke"})
               => Runner.op \notin Writers
  <1>1. FrameOK(Runner, past.lost) /\ Runner \in Frame
    BY RunnerOK
  <1>2. frames \in Seq(Frame) /\ QuietFrames(frames)
    BY DEF IInv, FramesOK, BInv, Calm
  <1>3. Quiet(Runner)
    BY <1>2, QuietShrink DEF Runner
  <1>4. ~past.shrunk => Below(length, elements) /\ Settled(Runner, elements)
    BY DEF BInv, Calm, Runner
  <1>5. NoAccessors(elements)
    BY DEF BInv, Calm
  <1> DEFINE r == Runner
  <1> HIDE DEF r
  <1>6. ASSUME r \in Frame, Quiet(r), Shape(r), r.work # <<>>
        PROVE  /\ Head(r.work).do \in {"write", "erase", "setLength", "move"} => r.op \in Writers
               /\ Head(r.work).do \in {"call", "invoke"} => r.op \notin Writers
    <2>1. r.work[1] = Head(r.work) /\ 1 \in DOMAIN r.work /\ r.op \in Operations
      BY <1>6, SeqTail DEF Frame
    <2>2. Head(r.work).do \in {"write", "erase", "setLength", "move"} => r.op \notin Readers
      BY <1>6, <2>1 DEF Quiet, Reading
    <2>3. Head(r.work).do \in {"write", "erase", "setLength", "move"} => r.op # "pop"
      BY <1>6, <2>1 DEF Shape, TakeLast, DropLast
    <2>4. Head(r.work).do \in {"call", "invoke"} => r.op \in Readers
      BY <1>6, <2>1 DEF Quiet
    <2> QED BY <2>1, <2>2, <2>3, <2>4 DEF Operations, Readers, Writers
  <1> QED BY <1>1, <1>3, <1>4, <1>5, <1>6 DEF FrameOK, r

-----------------------------------------------------------------------------
(* The steps.                                                              *)

\* What an operation has read, in an array without accessors.
LEMMA ReadsCalm ==
  ASSUME IInv, BInv, past.plain, frames # <<>>, Runner.waits = "nothing", Runner.work # <<>>,
         NEW v \in Values, Reads(Runner, v), UNCHANGED <<length, elements>>
  PROVE  BInv'
  <1> DEFINE r == Runner
             w == r.work
             d == NextDone(r)
             shrunk == past.shrunk
  <1>1. /\ FrameOK(Runner, past.lost) /\ Runner \in Frame /\ Quiet(Runner)
        /\ ~past.shrunk => Below(length, elements) /\ Settled(Runner, elements)
        /\ NoAccessors(elements)
    BY RunnerCalm
  <1>2. /\ (Runner.work # <<>> /\ Head(Runner.work).do \in {"write", "erase", "setLength", "move"})
             => Runner.op \in Writers
        /\ (Runner.work # <<>> /\ Head(Runner.work).do \in {"call", "invoke"})
             => Runner.op \notin Writers
    BY RunnerCalm
  <1>3. PastOK(past)
    BY DEF IInv
  <1>4. /\ d \in Frame /\ Quiet(d) /\ d.op = r.op /\ d.work = Tail(w) /\ d.waits = "nothing"
        /\ d.made = r.made
    BY <1>1, QuietNext
  <1>5. /\ r \in Frame /\ Quiet(r) /\ w \in Seq(Instructions) /\ w # <<>> /\ r.waits = "nothing"
        /\ Reads(r, v) /\ (~shrunk => Below(length, elements) /\ Settled(r, elements))
    BY <1>1 DEF Frame
  <1>6. /\ Head(w).do \in {"write", "erase", "setLength", "move"} => r.op \in Writers
        /\ Head(w).do \in {"call", "invoke"} => r.op \notin Writers
    BY <1>2
  <1>7. Head(w) \in Instructions /\ Head(w) = w[1] /\ 1 \in DOMAIN w
    BY <1>5, SeqTail
  \* An operation that writes still does.
  <1>8. ASSUME ~shrunk, r.op \in Writers, Head(w).do \notin {"setLength", "erase"}
        PROVE  \E m \in Int : Settling(Tail(w), m, elements) /\ Head(w) \in Mild(m)
    <2>1. PICK m \in Int : Settling(w, m, elements)
      BY <1>5, <1>8 DEF Settled
    <2>2. \A i \in DOMAIN elements : Head(w) # Erased(i)
      BY <1>8 DEF Erased
    <2>3. Settling(Tail(w), m, elements) /\ Head(w) \in Mild(m)
      BY <1>8, <2>1, <2>2, SettlingStep
    <2> QED BY <2>3
  <1> HIDE DEF d
  <1>9. CASE /\ Head(w).do \in {"take", "takeLast"} \/ (Head(w).do = "collect" /\ v # NoValue)
             /\ frames' = WithRunner([d EXCEPT !.made = Append(@, v)])
             /\ past' = [past EXCEPT !.lost = @ \/ (v = NoValue /\ Head(w).do = "take")]
             /\ UNCHANGED answer
    <2> DEFINE g == [d EXCEPT !.made = Append(@, v)]
    <2>1. g \in Frame /\ g.op = d.op /\ g.work = d.work /\ g.waits = d.waits
      <3>1. Append(d.made, v) \in Seq(Values)
        BY <1>4, SeqAppended DEF Frame
      <3> QED BY <1>4, <3>1 DEF Frame
    <2>2. frames' = WithRunner(g)
      BY <1>9
    <2> HIDE DEF g
    <2>3. Quiet(g)
      BY <1>4, <2>1 DEF Quiet
    <2>4. ~shrunk => Settled(g, elements)
      BY <1>4, <1>8, <1>9, <2>1 DEF Settled
    <2>5. past'.plain = past.plain /\ past'.shrunk = past.shrunk
      BY <1>3, <1>9 DEF PastOK
    <2>6. Calm(length, elements, WithRunner(g), shrunk)
      BY <1>1, <2>1, <2>3, <2>4, CalmChange
    <2> QED BY <2>2, <2>5, <2>6 DEF BInv
  <1>10. CASE /\ Head(w).do = "move"
              /\ frames' = WithRunner([d EXCEPT !.work = <<Write(Head(w).to, v)>> \o @])
              /\ past' = [past EXCEPT !.lost = @ \/ v = NoValue]
              /\ UNCHANGED answer
    <2> DEFINE i == Write(Head(w).to, v)
               more == <<i>> \o Tail(w)
               g == [d EXCEPT !.work = <<i>> \o @]
    <2>1. Head(w).to \in Indices /\ i \in Instructions /\ i.do = "write"
      BY <1>7, <1>10, InstructionParts, Constructors DEF Write
    <2>2. Tail(w) \in Seq(Instructions) /\ r.op \in Writers
      BY <1>5, <1>6, <1>10, SeqTail
    <2>3. more \in Seq(Instructions)
          /\ \A k \in DOMAIN more : more[k] = i \/ \E j \in DOMAIN d.work : more[k] = d.work[j]
      <3> DEFINE t == Tail(w)
      <3>1. t \in Seq(Instructions) /\ d.work = t
        BY <1>4, <2>2
      <3> HIDE DEF t, i
      <3>2. <<i>> \in Seq(Instructions) /\ <<i>> \o t \in Seq(Instructions)
        BY <2>1, <3>1
      <3>3. \A k \in DOMAIN (<<i>> \o t) : (<<i>> \o t)[k] = i \/ \E j \in DOMAIN t : (<<i>> \o t)[k] = t[j]
        BY <2>1, <3>1
      <3> QED BY <3>1, <3>2, <3>3 DEF t
    <2> HIDE DEF i
    <2>4. g \in Frame /\ g.op = d.op /\ g.work = more /\ g.waits = d.waits /\ frames' = WithRunner(g)
      BY <1>4, <1>10, <2>3 DEF Frame, i
    <2> HIDE DEF g
    <2>5. Quiet(g)
      <3> HIDE DEF more
      <3>1. d.op \notin Readers
        BY <1>4, <2>2 DEF Writers, Readers
      <3>2. \A k \in DOMAIN more : more[k].do \notin {"call", "invoke"}
        BY <1>4, <2>1, <2>3, <3>1 DEF Quiet
      <3> QED BY <1>4, <2>4, <3>1, <3>2 DEF Quiet
    <2>6. ASSUME ~shrunk
          PROVE  Settled(g, elements)
      <3>1. PICK m \in Int : Settling(Tail(w), m, elements) /\ Head(w) \in Mild(m)
        BY <1>8, <1>10, <2>2, <2>6
      <3>2. i \in Mild(m)
        BY <1>10, <2>1, <3>1 DEF Mild, i, Write
      <3>3. Settling(more, m, elements)
        BY <3>1, <3>2, SettlingMore
      <3> QED BY <2>4, <3>3 DEF Settled
    <2>7. past'.plain = past.plain /\ past'.shrunk = past.shrunk
      BY <1>3, <1>10 DEF PastOK
    <2>8. Calm(length, elements, WithRunner(g), shrunk)
      BY <1>1, <2>4, <2>5, <2>6, CalmChange
    <2> QED BY <2>4, <2>7, <2>8 DEF BInv
  <1>11. CASE /\ Head(w).do = "call" /\ v # NoValue
              /\ frames' = WithRunner([r EXCEPT !.waits = "callback"])
              /\ UNCHANGED <<answer, past>>
    <2> DEFINE g == [r EXCEPT !.waits = "callback"]
    <2>1. g \in Frame /\ g.op = r.op /\ g.work = w /\ g.waits = "callback" /\ frames' = WithRunner(g)
      BY <1>5, <1>11 DEF Frame, Waits
    <2> HIDE DEF g, r
    <2>2. Quiet(g)
      BY <1>5, <2>1 DEF Quiet
    <2>3. Settled(g, elements)
      BY <1>6, <1>11, <2>1 DEF Settled
    <2>4. Calm(length, elements, WithRunner(g), shrunk)
      BY <1>1, <2>1, <2>2, <2>3, CalmChange
    <2> QED BY <1>11, <2>1, <2>4 DEF BInv
  <1>12. CASE Head(w).do \in {"collect", "call"} /\ v = NoValue /\ GivesUp(r)
    <2>1. frames' = Front(frames) /\ past' = past
      BY <1>12 DEF GivesUp
    <2> QED BY <2>1, CalmReturn DEF BInv
  <1> QED BY <1>5, <1>9, <1>10, <1>11, <1>12 DEF Reads, d

LEMMA ReadElementCalm ==
  ASSUME IInv, BInv, past.plain, frames # <<>>, Runner.waits = "nothing", Runner.work # <<>>,
         NEW i, ReadElement(i)
  PROVE  BInv'
  <1>1. NoAccessors(elements)
    BY DEF BInv, Calm
  <1>2. ~IsAccessor(i)
    BY <1>1 DEF NoAccessors, IsAccessor
  <1>3. Reads(Runner, ValueAt(i)) /\ UNCHANGED <<length, elements>>
    BY <1>2 DEF ReadElement
  <1>4. ValueAt(i) \in Values
    BY <1>2 DEF IInv, ElementsOK, ValueAt, IsAccessor, Slots, Values
  <1> QED BY <1>3, <1>4, ReadsCalm

\* An operation starts.
LEMMA StartCalm ==
  ASSUME IInv, BInv, past.plain, NEW op \in Operations, NEW work \in Seq(Instructions), Start(op, work),
         \/ op \in Writers /\ \E m \in Int : Ends(work, length, m)
         \/ op \in Readers /\ \A j \in DOMAIN work : work[j].do \in Reading
         \/ op = "pop" /\ \A j \in DOMAIN work : work[j].do \notin {"call", "invoke"}
  PROVE  BInv'
  <1> DEFINE before == IF past.plain THEN Content ELSE <<>>
             f == [op |-> op, work |-> work, made |-> <<>>, waits |-> "nothing",
                   before |-> before, inside |-> FALSE]
  <1>1. /\ frames' = Append(frames, f) /\ ProgramRuns
        /\ UNCHANGED <<length, lengthValue, elements, past>>
    BY DEF Start
  <1>2. length \in Int /\ DOMAIN elements \subseteq Int
    BY LengthNatural DEF IInv, ElementsOK, Indices
  <1>3. f \in Frame
    <2>1. length \in Nat
      BY LengthNatural
    <2>2. Content \in [1..length -> Slots]
      BY DEF Content, ValueAt, IInv, ElementsOK, Slots
    <2>3. before \in Seq(Slots)
      BY <2>1, <2>2, SeqFunction
    <2> HIDE DEF before
    <2> QED BY <2>3 DEF Frame, Waits
  <1>4. f.op = op /\ f.work = work /\ f.waits = "nothing"
    OBVIOUS
  <1> HIDE DEF f
  <1>5. Quiet(f)
    <2>1. CASE op \in Writers /\ \E m \in Int : Ends(work, length, m)
      BY <2>1, <1>4, EndsCallsNothing DEF Quiet, Writers, Readers
    <2>2. CASE op \in Readers /\ \A j \in DOMAIN work : work[j].do \in Reading
      BY <2>2, <1>4 DEF Quiet
    <2>3. CASE op = "pop" /\ \A j \in DOMAIN work : work[j].do \notin {"call", "invoke"}
      BY <2>3, <1>4 DEF Quiet, Readers
    <2> QED BY <2>1, <2>2, <2>3
  <1>6. frames \in Seq(Frame) /\ QuietFrames(frames) /\ NoAccessors(elements)
        /\ (~past.shrunk => Below(length, elements))
    BY DEF IInv, FramesOK, BInv, Calm
  <1>7. frames # <<>> => Last(frames).waits = "callback"
    BY <1>1, ProgramReads DEF ProgramRuns, Runner
  <1>8. QuietFrames(Append(frames, f)) /\ Last(Append(frames, f)) = f
    BY <1>3, <1>5, <1>6, <1>7, QuietGrow
  <1>9. ASSUME ~past.shrunk
        PROVE  Settled(f, elements)
    <2>1. ASSUME op \in Writers
          PROVE  \E m \in Int : Settling(work, m, elements)
      <3>1. PICK m \in Int : Ends(work, length, m)
        BY <2>1 DEF Writers, Readers
      <3>2. Settling(work, m, elements)
        BY <1>2, <1>6, <1>9, <3>1, EndsSettling
      <3> QED BY <3>2
    <2> QED BY <1>4, <2>1 DEF Settled
  <1>10. Calm(length, elements, Append(frames, f), past.shrunk)
    BY <1>6, <1>8, <1>9 DEF Calm
  <1> QED BY <1>1, <1>10 DEF BInv

\* What the reading operations start with.
LEMMA EachReads ==
  ASSUME NEW m \in Int, NEW n \in Int
  PROVE  /\ \A j \in DOMAIN Each(Take, m, n) : Each(Take, m, n)[j].do \in Reading
         /\ \A j \in DOMAIN Each(Collect, m, n) : Each(Collect, m, n)[j].do \in Reading
         /\ \A j \in DOMAIN Each(CallWith, m, n) : Each(CallWith, m, n)[j].do \in Reading
  BY DEF Each, Take, Collect, CallWith, Reading

LEMMA ConcatReads ==
  ASSUME NEW items \in Seq(Datum \cup {ThisArray})
  PROVE  \A j \in DOMAIN ConcatWork(items) : ConcatWork(items)[j].do \in Reading
  <1> DEFINE given == [k \in DOMAIN items |-> IF items[k] = ThisArray THEN Spread ELSE Add(items[k])]
             Kind == {x \in Fresh : x.do \in Reading}
  <1>1. \A k \in DOMAIN items : items[k] # ThisArray => items[k] \in Datum
    OBVIOUS
  <1>2. Spread \in Kind /\ \A x \in Datum : Add(x) \in Kind
    BY Constructors DEF Reading, Spread, Add
  <1>3. given \in [1..Len(items) -> Kind] /\ Len(items) \in Nat
    <2> HIDE DEF Kind
    <2> QED BY <1>1, <1>2
  <1> HIDE DEF given, Kind
  <1>4. given \in Seq(Kind)
    BY <1>3, SeqFunction
  <1>5. <<Spread>> \o given \in Seq(Kind)
    BY <1>2, <1>4
  <1>6. ConcatWork(items) \in Seq(Kind)
    BY <1>5 DEF ConcatWork, given
  <1>7. \A x \in Kind : x.do \in Reading
    BY DEF Kind
  <1> QED BY <1>6, <1>7, SeqElement

LEMMA AtOnceCalm ==
  ASSUME BInv, NEW op, AtOnce(op)
  PROVE  BInv'
  BY DEF AtOnce, BInv

LEMMA OperationsCalm ==
  ASSUME IInv, BInv, past.plain,
         \/ \E items \in SeqOf(Datum, MaxItems) :
              \/ Push(items)
              \/ \E s \in -1..MaxLength, n \in -1..MaxLength : Splice(s, n, items)
         \/ Pop \/ Shift \/ Apply \/ ForEach
         \/ \E items \in SeqOf(Datum \cup {ThisArray}, 1) : Concat(items)
         \/ \E begin \in 0..MaxLength, end \in SliceEnds : Slice(begin, end)
  PROVE  BInv'
  <1>0. lengthValue \in Nat /\ length \in Nat /\ lengthValue = length /\ 0 \in Int /\ lengthValue \in Int
       /\ \A w \in Seq(Fresh) : w \in Seq(Instructions)
    <2>1. Fresh \subseteq Instructions
      BY DEF Fresh
    <2> QED BY <2>1, LengthNatural DEF IInv, LengthsOK
  <1>1. ASSUME NEW items \in SeqOf(Datum, MaxItems), Push(items)
        PROVE  BInv'
    <2> DEFINE work == PushWork(lengthValue, items)
               m == lengthValue + Len(items)
    <2>1. items \in Seq(Datum) /\ lengthValue + Len(items) <= MaxLength /\ Start("push", work)
      BY <1>1, ItemsSeq DEF Push
    <2>2. work \in Seq(Fresh) /\ Ends(work, lengthValue, m) /\ m \in Int
      BY <1>0, <2>1, PushWorkFresh, PushEnds
    <2> HIDE DEF work, m
    <2>3. work \in Seq(Instructions) /\ Ends(work, length, m)
      BY <1>0, <2>2
    <2> QED BY <2>1, <2>2, <2>3, StartCalm DEF Operations, Writers
  <1>2. ASSUME NEW items \in SeqOf(Datum, MaxItems),
               NEW s \in -1..MaxLength, NEW n \in -1..MaxLength, Splice(s, n, items)
        PROVE  BInv'
    <2> DEFINE start == SpliceStart(s)
               count == SpliceCount(s, n)
               work == SpliceWork(lengthValue, start, count, items)
               m == lengthValue + Len(items) - count
    <2>1. s \in Int /\ n \in Int
      BY Bounds
    <2>2. start \in 0..lengthValue /\ count \in 0..(lengthValue - start)
      BY <1>0, <2>1, SpliceRange
    <2>3. items \in Seq(Datum) /\ m <= MaxLength /\ Start("splice", work)
      BY <1>2, ItemsSeq DEF Splice
    <2> HIDE DEF start, count
    <2>4. work \in Seq(Fresh) /\ Ends(work, lengthValue, m) /\ m \in Int
      BY <1>0, <2>2, <2>3, SpliceWorkFresh, SpliceEnds
    <2> HIDE DEF work, m
    <2>5. work \in Seq(Instructions) /\ Ends(work, length, m)
      BY <1>0, <2>4
    <2> QED BY <2>3, <2>4, <2>5, StartCalm DEF Operations, Writers
  <1>3. CASE Pop
    <2>1. CASE AtOnce("pop")
      BY <2>1, AtOnceCalm
    <2>2. CASE Start("pop", <<TakeLast, DropLast>>)
      <3>1. TakeLast \in Instructions /\ DropLast \in Instructions
        BY Constructors DEF Fresh
      <3>2. <<TakeLast, DropLast>> \in Seq(Instructions)
        BY <3>1
      <3>3. \A j \in DOMAIN <<TakeLast, DropLast>> : <<TakeLast, DropLast>>[j].do \notin {"call", "invoke"}
        BY DEF TakeLast, DropLast
      <3> QED BY <2>2, <3>2, <3>3, StartCalm DEF Operations
    <2> QED BY <1>3, <2>1, <2>2 DEF Pop
  <1>4. CASE Shift
    <2>1. CASE AtOnce("shift")
      BY <2>1, AtOnceCalm
    <2>2. CASE /\ lengthValue \in 1..MaxLength
               /\ Start("shift", SpliceWork(lengthValue, 0, SpliceCount(0, 1), <<>>))
      <3> DEFINE start == 0
                 count == SpliceCount(0, 1)
                 items == <<>>
                 work == SpliceWork(lengthValue, start, count, items)
                 m == lengthValue + Len(items) - count
      <3>1. count = 1 /\ items \in Seq(Datum) /\ Len(items) = 0 /\ MaxLength \in Nat
        BY <1>0, <2>2, Bounds, SpliceRange
      <3>2. start \in 0..lengthValue /\ count \in 0..(lengthValue - start) /\ Start("shift", work)
            /\ lengthValue + Len(items) - count <= MaxLength
        BY <1>0, <2>2, <3>1
      <3> HIDE DEF start, count, items
      <3>3. work \in Seq(Fresh) /\ Ends(work, lengthValue, m) /\ m \in Int
        <4>1. m \in Int
          BY <1>0, <3>1
        <4>2. work \in Seq(Fresh)
          BY <1>0, <3>1, <3>2, SpliceWorkFresh
        <4>3. Ends(work, lengthValue, m)
          BY <1>0, <3>1, <3>2, SpliceEnds
        <4> QED BY <4>1, <4>2, <4>3
      <3> HIDE DEF work, m
      <3>4. work \in Seq(Instructions) /\ Ends(work, length, m)
        BY <1>0, <3>3
      <3> QED BY <3>2, <3>3, <3>4, StartCalm DEF Operations, Writers
    <2> QED BY <1>4, <2>1, <2>2 DEF Shift
  <1>5. CASE Apply
    <2>1. CASE UNCHANGED <<length, lengthValue, elements, frames, past>>
      BY <2>1 DEF BInv
    <2>2. CASE Start("apply", Append(Each(Take, 0, lengthValue), Invoke))
      <3> DEFINE q == Each(Take, 0, lengthValue)
                 work == Append(q, Invoke)
      <3>1. q \in Seq(Instructions) /\ \A j \in DOMAIN q : q[j].do \in Reading
        BY <1>0, EachTakeFresh, EachReads
      <3>2. Invoke \in Instructions /\ Invoke.do \in Reading
        BY Constructors DEF Invoke, Reading
      <3> HIDE DEF q
      <3>3. work \in Seq(Instructions) /\ \A j \in DOMAIN work : work[j].do \in Reading
        BY <3>1, <3>2, SeqAppended
      <3>4. Start("apply", work)
        BY <2>2 DEF q
      <3> HIDE DEF work
      <3> QED BY <3>3, <3>4, StartCalm DEF Operations, Readers
    <2> QED BY <1>5, <2>1, <2>2 DEF Apply
  <1>6. CASE ForEach
    <2> DEFINE work == Each(CallWith, 0, lengthValue)
    <2>1. work \in Seq(Instructions) /\ (\A j \in DOMAIN work : work[j].do \in Reading) /\ Start("forEach", work)
      BY <1>0, <1>6, EachTakeFresh, EachReads DEF ForEach
    <2> HIDE DEF work
    <2> QED BY <2>1, StartCalm DEF Operations, Readers
  <1>7. ASSUME NEW items \in SeqOf(Datum \cup {ThisArray}, 1), Concat(items)
        PROVE  BInv'
    <2> DEFINE work == ConcatWork(items)
    <2>1. work \in Seq(Instructions) /\ (\A j \in DOMAIN work : work[j].do \in Reading) /\ Start("concat", work)
      BY <1>0, <1>7, ItemsSeq, ConcatWorkFresh, ConcatReads DEF Concat
    <2> HIDE DEF work
    <2> QED BY <2>1, StartCalm DEF Operations, Readers
  <1>8. ASSUME NEW begin \in 0..MaxLength, NEW end \in SliceEnds, Slice(begin, end)
        PROVE  BInv'
    <2> DEFINE work == Each(Collect, begin, SliceEnd(end))
    <2>0. begin \in Int /\ SliceEnd(end) \in Int
      BY <1>0, Bounds, SliceEndNumber
    <2>1. work \in Seq(Instructions) /\ (\A j \in DOMAIN work : work[j].do \in Reading) /\ Start("slice", work)
      BY <1>0, <1>8, <2>0, EachTakeFresh, EachReads DEF Slice
    <2> HIDE DEF work
    <2> QED BY <2>1, StartCalm DEF Operations, Readers
  <1> QED BY <1>1, <1>2, <1>3, <1>4, <1>5, <1>6, <1>7, <1>8

\* What the program does to the array without an operation.
LEMMA ProgramCalm ==
  ASSUME IInv, BInv, past.plain,
         \/ \E i \in Indices : \/ \E v \in Datum : PutElement(i, v)
                                \/ DeleteElement(i)
                                \/ DefineAccessor(i)
         \/ \E n \in 0..MaxLength : PutLength(n)
  PROVE  BInv'
  <1>0. PastOK(past)
    BY DEF IInv
  <1>1. NoAccessors(elements) /\ QuietFrames(frames) /\ (~past.shrunk => Below(length, elements))
        /\ length \in Nat
    BY LengthNatural DEF BInv, Calm
  <1>2. ASSUME ProgramRuns, NEW e, frames # <<>>
        PROVE  Settled(Last(frames), e)
    <2>1. Runner.op \in Readers
      BY <1>2, ProgramReads DEF ProgramRuns
    <2> QED BY <2>1, ReadersSettled DEF Runner
  <1>3. ASSUME NEW i \in Indices, NEW v \in Datum, PutElement(i, v)
        PROVE  BInv'
    <2>1. /\ elements' = [j \in DOMAIN elements \cup {i} |-> IF j = i THEN v ELSE elements[j]]
          /\ length' = IF i >= length THEN i + 1 ELSE length
          /\ UNCHANGED <<frames, past>> /\ ProgramRuns
      BY <1>3 DEF PutElement, StoreElement
    <2>2. NoAccessors(elements')
      BY <1>1, <2>1, ArrayValuesAssumption DEF NoAccessors
    <2>3. i \in Int
      BY DEF Indices
    <2>4. Below(length, elements) => Below(length', elements')
      <3>1. DOMAIN elements \subseteq Int
        BY DEF IInv, ElementsOK, Indices
      <3> QED BY <1>1, <2>1, <2>3, <3>1 DEF Below
    <2> QED BY <1>1, <1>2, <2>1, <2>2, <2>4 DEF BInv, Calm
  <1>4. ASSUME NEW i \in Indices, DeleteElement(i)
        PROVE  BInv'
    <2>1. /\ elements' = [j \in DOMAIN elements \ {i} |-> elements[j]]
          /\ UNCHANGED <<length, frames, past>> /\ ProgramRuns
      BY <1>4 DEF DeleteElement, RemoveElement
    <2>2. NoAccessors(elements') /\ (Below(length, elements) => Below(length, elements'))
      BY <1>1, <2>1 DEF NoAccessors, Below
    <2> QED BY <1>1, <1>2, <2>1, <2>2 DEF BInv, Calm
  <1>5. ASSUME NEW i \in Indices, DefineAccessor(i)
        PROVE  BInv'
    <2>1. ~past'.plain
      BY <1>0, <1>5 DEF DefineAccessor, PastOK
    <2> QED BY <2>1 DEF BInv
  <1>6. ASSUME NEW n \in 0..MaxLength, PutLength(n)
        PROVE  BInv'
    <2>1. length' = n /\ UNCHANGED <<elements, frames>> /\ ProgramRuns
      BY <1>6 DEF PutLength, StoreLength
    <2>2. past'.plain = past.plain /\ past'.shrunk = (past.shrunk \/ n < length)
      BY <1>0, <1>6 DEF PutLength, PastOK
    <2>3. ~past'.shrunk => Below(n, elements)
      <3>1. DOMAIN elements \subseteq Int /\ n \in Int
        BY Bounds DEF IInv, ElementsOK, Indices
      <3> SUFFICES ASSUME ~past'.shrunk
                   PROVE  Below(n, elements)
        OBVIOUS
      <3>2. Below(length, elements) /\ ~(n < length)
        BY <1>1, <2>2
      <3> QED BY <1>1, <3>1, <3>2 DEF Below
    <2> QED BY <1>1, <1>2, <2>1, <2>2, <2>3 DEF BInv, Calm
  <1> QED BY <1>3, <1>4, <1>5, <1>6

\* The innermost operation goes on, when that leaves what it was asked for.
LEMMA GoesOnCalm ==
  ASSUME IInv, BInv, past.plain, frames # <<>>, Runner.work # <<>>, frames' = WithRunner(NextDone(Runner)),
         past'.plain = past.plain, NoAccessors(elements'),
         ~past'.shrunk => Below(length', elements') /\ Settled(NextDone(Runner), elements')
  PROVE  BInv'
  <1> DEFINE d == NextDone(Runner)
  <1>1. d \in Frame /\ Quiet(d)
    BY RunnerCalm, QuietNext
  <1> HIDE DEF d
  <1>2. ASSUME NEW n, NEW e, NoAccessors(e), NEW s, ~s => Below(n, e) /\ Settled(d, e)
        PROVE  Calm(n, e, WithRunner(d), s)
    BY <1>1, <1>2, CalmChange
  <1>3. Calm(length', elements', WithRunner(d), past'.shrunk)
    BY <1>2 DEF d
  <1> QED BY <1>3 DEF BInv, d

\* Only reads are done by what only reads.
LEMMA ReaderGoesOnCalm ==
  ASSUME IInv, BInv, past.plain, frames # <<>>, Runner.work # <<>>, frames' = WithRunner(NextDone(Runner)),
         UNCHANGED <<length, elements, past>>, Runner.op \notin Writers
  PROVE  BInv'
  <1>1. NextDone(Runner).op = Runner.op
    BY RunnerCalm, QuietNext
  <1>2. Settled(NextDone(Runner), elements)
    BY <1>1 DEF Settled
  <1>3. NoAccessors(elements) /\ (~past.shrunk => Below(length, elements))
    BY RunnerCalm
  <1> QED BY <1>2, <1>3, GoesOnCalm

\* The instructions of the innermost operation.
LEMMA InstructionsCalm ==
  ASSUME IInv, BInv, past.plain,
         \/ DoRead \/ DoTakeLast \/ DoCall \/ DoInvoke \/ DoWrite \/ DoErase \/ DoSetLength
         \/ DoDropLast \/ DoSpread \/ DoAdd \/ DoReturn
  PROVE  BInv'
  <1> DEFINE r == Runner
  <1>0. PastOK(past) /\ length \in Nat /\ DOMAIN elements \subseteq Int
    BY LengthNatural DEF IInv, ElementsOK, Indices
  <1>00. ASSUME frames # <<>>
         PROVE  /\ FrameOK(r, past.lost) /\ r \in Frame /\ Quiet(r)
                /\ ~past.shrunk => Below(length, elements) /\ Settled(r, elements)
                /\ NoAccessors(elements)
                /\ (r.work # <<>> /\ Head(r.work).do \in {"write", "erase", "setLength", "move"})
                      => r.op \in Writers
                /\ (r.work # <<>> /\ Head(r.work).do \in {"call", "invoke"}) => r.op \notin Writers
                /\ r.work # <<>> => /\ NextDone(r).op = r.op /\ NextDone(r).work = Tail(r.work)
                                    /\ NextDone(r).made = r.made /\ NextDone(r).waits = "nothing"
                                    /\ NextDone(r) \in Frame /\ Quiet(NextDone(r))
    BY <1>00, RunnerCalm, QuietNext
  <1>1. CASE DoRead
    <2>1. OperationAt({"take", "move", "collect"}) /\ ReadElement(Instruction.at)
      BY <1>1 DEF DoRead
    <2> QED BY <2>1, AtRunner, ReadElementCalm
  <1>2. CASE DoTakeLast
    <2>1. OperationAt({"takeLast"}) /\ ReadElement((length - 1) % 2^Width)
      BY <1>2 DEF DoTakeLast
    <2> QED BY <2>1, AtRunner, ReadElementCalm
  <1>3. CASE DoCall
    <2>1. OperationAt({"call"})
      BY <1>3 DEF DoCall
    <2>2. CASE Instruction.at \in DOMAIN elements
      BY <1>3, <2>1, <2>2, AtRunner, ReadElementCalm DEF DoCall
    <2>3. CASE Instruction.at \notin DOMAIN elements
      <3>1. /\ frames' = WithRunner(NextDone(Runner))
            /\ UNCHANGED <<length, lengthValue, elements, answer, past>>
        BY <1>3, <2>3 DEF DoCall
      <3>2. frames # <<>> /\ Runner.work # <<>> /\ Runner.op \notin Writers
        BY <1>00, <2>1, AtRunner
      <3> QED BY <3>1, <3>2, ReaderGoesOnCalm
    <2> QED BY <2>2, <2>3
  <1>4. CASE DoInvoke
    <2> DEFINE g == [r EXCEPT !.waits = "callback", !.made = <<>>]
    <2>1. frames' = WithRunner(g) /\ UNCHANGED <<length, elements, past>>
      BY <1>4 DEF DoInvoke
    <2>2. frames # <<>> /\ r.work # <<>> /\ Head(r.work).do = "invoke"
      BY <1>4, AtRunner DEF DoInvoke
    <2>3. r \in Frame /\ Quiet(r) /\ r.op \notin Writers /\ NoAccessors(elements)
          /\ (~past.shrunk => Below(length, elements))
      BY <1>00, <2>2
    <2> HIDE DEF r
    <2>4. <<>> \in Seq(Values)
      OBVIOUS
    <2>5. g \in Frame /\ g.op = r.op /\ g.work = r.work /\ g.waits = "callback"
      BY <2>3, <2>4 DEF Frame, Waits
    <2> HIDE DEF g
    <2>6. Quiet(g) /\ Settled(g, elements)
      BY <2>3, <2>5 DEF Quiet, Settled
    <2>7. Calm(length, elements, WithRunner(g), past.shrunk)
      BY <2>2, <2>3, <2>5, <2>6, CalmChange
    <2> QED BY <2>1, <2>7 DEF BInv
  <1>5. CASE DoWrite
    <2>1. /\ frames # <<>> /\ r.work # <<>> /\ Head(r.work).do = "write"
          /\ Instruction = Head(r.work) /\ Instruction \in Instructions
      BY <1>5, AtRunner DEF DoWrite
    <2> DEFINE i == Head(r.work).at
               v == Head(r.work).value
    <2>2. i \in Indices /\ v \in Values /\ i \in Int /\ v # AccessorPair
      BY <2>1, InstructionParts, ArrayValuesAssumption DEF Indices, Values
    <2>3. NoAccessors(elements)
      BY <1>00, <2>1
    <2>4. ~IsAccessor(i)
      BY <2>3 DEF NoAccessors, IsAccessor
    <2>5. /\ elements' = [j \in DOMAIN elements \cup {i} |-> IF j = i THEN v ELSE elements[j]]
          /\ length' = IF i >= length THEN i + 1 ELSE length
          /\ frames' = WithRunner(NextDone(Runner)) /\ past' = past
      BY <1>5, <2>1, <2>4 DEF DoWrite, StoreElement
    <2>6. NoAccessors(elements')
      BY <2>2, <2>3, <2>5 DEF NoAccessors
    <2>7. ASSUME ~past.shrunk
          PROVE  Below(length', elements') /\ Settled(NextDone(Runner), elements')
      <3>1. Below(length, elements) /\ Settled(r, elements) /\ r.op \in Writers
        BY <1>00, <2>1, <2>7
      <3>2. PICK m \in Int : Settling(r.work, m, elements)
        BY <2>1, <3>1 DEF Settled
      <3>3. Head(r.work) \in Mild(m)
        <4>1. Head(r.work).do # "setLength" /\ \A k \in DOMAIN elements : Head(r.work) # Erased(k)
          BY <2>1 DEF Erased
        <4> QED BY <3>2, <4>1, SettlingStep
      <3>4. i < m /\ DOMAIN elements' = DOMAIN elements \cup {i}
        BY <2>1, <2>5, <3>3 DEF Mild
      <3>5. \A k \in DOMAIN elements' : k < m \/ (k \in DOMAIN elements /\ Head(r.work) # Erased(k))
        BY <2>1, <3>4 DEF Erased
      <3>6. Settling(Tail(r.work), m, elements')
        BY <2>1, <3>2, <3>5, SettlingStep
      <3>7. Below(length', elements')
        BY <1>0, <2>2, <2>5, <3>1, <3>4 DEF Below
      <3>8. NextDone(r).work = Tail(r.work)
        BY <1>00, <2>1
      <3> QED BY <3>6, <3>7, <3>8 DEF Settled
    <2> QED BY <2>1, <2>5, <2>6, <2>7, GoesOnCalm
  <1>6. CASE DoErase
    <2>1. /\ frames # <<>> /\ r.work # <<>> /\ Head(r.work).do = "erase"
          /\ Instruction = Head(r.work) /\ Instruction \in Instructions
      BY <1>6, AtRunner DEF DoErase
    <2> DEFINE i == Head(r.work).at
    <2>2. /\ elements' = [j \in DOMAIN elements \ {i} |-> elements[j]]
          /\ UNCHANGED <<length, past>> /\ frames' = WithRunner(NextDone(Runner))
      BY <1>6, <2>1 DEF DoErase, RemoveElement
    <2>3. NoAccessors(elements')
      BY <1>00, <2>1, <2>2 DEF NoAccessors
    <2>4. ASSUME ~past.shrunk
          PROVE  Below(length, elements') /\ Settled(NextDone(Runner), elements')
      <3>1. Below(length, elements) /\ Settled(r, elements) /\ r.op \in Writers
        BY <1>00, <2>1, <2>4
      <3>2. PICK m \in Int : Settling(r.work, m, elements)
        BY <2>1, <3>1 DEF Settled
      <3>3. \A k \in DOMAIN elements' : k \in DOMAIN elements /\ k # i
        BY <2>2
      <3>4. \A k : Erased(k).at = k
        BY DEF Erased
      <3>5. \A k \in DOMAIN elements' : k \in DOMAIN elements /\ Head(r.work) # Erased(k)
        BY <3>3, <3>4
      <3>6. Settling(Tail(r.work), m, elements')
        BY <2>1, <3>2, <3>5, SettlingStep
      <3>7. Below(length, elements')
        BY <3>1, <3>3 DEF Below
      <3>8. NextDone(r).work = Tail(r.work)
        BY <1>00, <2>1
      <3> QED BY <3>6, <3>7, <3>8 DEF Settled
    <2> QED BY <2>1, <2>2, <2>3, <2>4, GoesOnCalm
  <1>7. CASE DoSetLength
    <2>1. /\ frames # <<>> /\ r.work # <<>> /\ Head(r.work).do = "setLength"
          /\ Instruction = Head(r.work) /\ Instruction \in Instructions
      BY <1>7, AtRunner DEF DoSetLength
    <2>2. /\ length' = Head(r.work).to /\ UNCHANGED <<elements, past>>
          /\ frames' = WithRunner(NextDone(Runner))
      BY <1>7, <2>1 DEF DoSetLength, StoreLength
    <2>3. NoAccessors(elements)
      BY <1>00, <2>1
    <2>4. ASSUME ~past.shrunk
          PROVE  Below(length', elements) /\ Settled(NextDone(Runner), elements)
      <3>1. Below(length, elements) /\ Settled(r, elements) /\ r.op \in Writers
        BY <1>00, <2>1, <2>4
      <3>2. PICK m \in Int : Settling(r.work, m, elements)
        BY <2>1, <3>1 DEF Settled
      <3>3. Head(r.work) = SetLength(m) /\ Tail(r.work) = <<>> /\ Below(m, elements)
        BY <2>1, <3>2, SettlingLast
      <3>4. length' = m
        BY <2>2, <3>3 DEF SetLength
      <3>5. NextDone(r).work = <<>>
        BY <1>00, <2>1, <3>3
      <3> QED BY <3>3, <3>4, <3>5 DEF Settled
    <2> QED BY <2>1, <2>2, <2>3, <2>4, GoesOnCalm
  <1>8. CASE DoDropLast
    <2>1. frames # <<>> /\ r.work # <<>> /\ frames' = WithRunner(NextDone(Runner))
          /\ elements' = elements /\ past' = [past EXCEPT !.shrunk = TRUE]
      BY <1>8, AtRunner DEF DoDropLast, StoreLength
    <2>2. past'.plain = past.plain /\ past'.shrunk
      BY <1>0, <2>1 DEF PastOK
    <2>3. NoAccessors(elements')
      BY <1>00, <2>1
    <2> QED BY <2>1, <2>2, <2>3, GoesOnCalm
  <1>9. CASE DoSpread
    <2> DEFINE read == Each(Collect, 0, length)
               work == read \o Tail(r.work)
               g == [r EXCEPT !.work = Each(Collect, 0, length) \o Tail(@)]
    <2>1. frames' = WithRunner(g) /\ UNCHANGED <<length, elements, past>>
      BY <1>9 DEF DoSpread
    <2>2. frames # <<>> /\ r.work # <<>> /\ Head(r.work).do = "spread"
      BY <1>9, AtRunner DEF DoSpread
    <2>3. r \in Frame /\ Quiet(r) /\ NoAccessors(elements)
          /\ (~past.shrunk => Below(length, elements) /\ Settled(r, elements))
          /\ r.work \in Seq(Instructions)
      BY <1>00, <2>2 DEF Frame
    <2> HIDE DEF r
    <2>4. read \in Seq(Instructions) /\ \A j \in DOMAIN read : read[j].do \in Reading \ {"call", "invoke"}
      <3>1. read \in Seq(Fresh) /\ \A x \in Fresh : x \in Instructions
        BY <1>0, EachTakeFresh DEF Fresh
      <3>2. \A j \in DOMAIN read : read[j].do = "collect"
        BY DEF Each, Collect
      <3> QED BY <3>1, <3>2 DEF Reading
    <2>5. Tail(r.work) \in Seq(Instructions)
          /\ \A j \in DOMAIN Tail(r.work) : Tail(r.work)[j] = r.work[j + 1] /\ j + 1 \in DOMAIN r.work
      BY <2>2, <2>3, SeqTail
    <2> DEFINE rest == Tail(r.work)
    <2>6. rest \in Seq(Instructions) /\ \A k \in DOMAIN rest : \E j \in DOMAIN r.work : rest[k] = r.work[j]
      BY <2>5
    <2> HIDE DEF read, rest
    <2>7. work = read \o rest
      BY DEF rest
    <2>8. work \in Seq(Instructions)
      BY <2>4, <2>6, <2>7, SeqJoined
    <2>9. \A j \in DOMAIN work : \/ work[j].do \in Reading \ {"call", "invoke"}
                                 \/ \E k \in DOMAIN r.work : work[j] = r.work[k]
      <3> TAKE j \in DOMAIN work
      <3>1. \/ j \in DOMAIN read /\ work[j] = read[j]
            \/ j - Len(read) \in DOMAIN rest /\ work[j] = rest[j - Len(read)]
        <4>1. \A k \in DOMAIN (read \o rest) :
                \/ k \in DOMAIN read /\ (read \o rest)[k] = read[k]
                \/ k - Len(read) \in DOMAIN rest /\ (read \o rest)[k] = rest[k - Len(read)]
          BY <2>4, <2>6, InJoined
        <4> HIDE DEF work
        <4> QED BY <2>7, <4>1
      <3> QED BY <2>4, <2>6, <3>1
    <2>10. g \in Frame /\ g.op = r.op /\ g.work = work /\ g.waits = r.waits
      BY <2>3, <2>8 DEF Frame, read
    <2> HIDE DEF work, g
    <2>11. Quiet(g)
      BY <2>3, <2>9, <2>10 DEF Quiet
    <2>12. ASSUME ~past.shrunk
           PROVE  Settled(g, elements)
      <3>1. ASSUME r.op \in Writers
            PROVE  FALSE
        <4>1. PICK m \in Int : Settling(r.work, m, elements)
          BY <2>2, <2>3, <2>12, <3>1 DEF Settled
        <4>2. \A k \in DOMAIN elements : Head(r.work) # Erased(k)
          BY <2>2 DEF Erased
        <4>3. Head(r.work) \in Mild(m)
          BY <2>2, <4>1, <4>2, SettlingStep
        <4> QED BY <2>2, <4>3 DEF Mild
      <3> QED BY <2>10, <3>1 DEF Settled
    <2>13. Calm(length, elements, WithRunner(g), past.shrunk)
      BY <2>2, <2>3, <2>10, <2>11, <2>12, CalmChange
    <2> QED BY <2>1, <2>13 DEF BInv
  <1>10. CASE DoAdd
    <2> DEFINE d == NextDone(r)
               g == [d EXCEPT !.made = Append(@, Instruction.value)]
    <2>1. frames' = WithRunner(g) /\ UNCHANGED <<length, elements, past>>
      BY <1>10 DEF DoAdd
    <2>2. frames # <<>> /\ r.work # <<>> /\ Head(r.work).do = "add" /\ Instruction.value \in Values
      BY <1>10, AtRunner, InstructionParts DEF DoAdd, Values
    <2>3. r \in Frame /\ NoAccessors(elements)
          /\ (~past.shrunk => Below(length, elements) /\ Settled(r, elements))
          /\ d.op = r.op /\ d.work = Tail(r.work) /\ d \in Frame /\ Quiet(d)
      BY <1>00, <2>2
    <2> HIDE DEF r, d
    <2>4. Append(d.made, Instruction.value) \in Seq(Values)
      BY <2>2, <2>3, SeqAppended DEF Frame
    <2>5. g \in Frame /\ g.op = r.op /\ g.work = d.work /\ g.waits = d.waits
      BY <2>3, <2>4 DEF Frame
    <2> HIDE DEF g
    <2>6. Quiet(g)
      BY <2>3, <2>5 DEF Quiet
    <2>7. ASSUME ~past.shrunk
          PROVE  Settled(g, elements)
      <3>1. ASSUME r.op \in Writers
            PROVE  FALSE
        <4>1. PICK m \in Int : Settling(r.work, m, elements)
          BY <2>2, <2>3, <2>7, <3>1 DEF Settled
        <4>2. \A k \in DOMAIN elements : Head(r.work) # Erased(k)
          BY <2>2 DEF Erased
        <4>3. Head(r.work) \in Mild(m)
          BY <2>2, <4>1, <4>2, SettlingStep
        <4> QED BY <2>2, <4>3 DEF Mild
      <3> QED BY <2>5, <3>1 DEF Settled
    <2>8. Calm(length, elements, WithRunner(g), past.shrunk)
      BY <2>2, <2>3, <2>5, <2>6, <2>7, CalmChange
    <2> QED BY <2>1, <2>8 DEF BInv
  <1>11. CASE DoReturn
    <2>1. frames # <<>> /\ frames' = Front(frames) /\ UNCHANGED <<length, elements, past>>
      BY <1>11 DEF DoReturn, ProgramRuns
    <2> QED BY <2>1, CalmReturn DEF BInv
  <1> QED BY <1>1, <1>2, <1>3, <1>4, <1>5, <1>6, <1>7, <1>8, <1>9, <1>10, <1>11

\* The end of a callback.
LEMMA ReturnsCalm ==
  ASSUME IInv, BInv, past.plain, \/ \E v \in Datum : Returns(v)
                                 \/ Throws
  PROVE  BInv'
  <1>1. frames # <<>> /\ UNCHANGED <<length, lengthValue, elements>> /\ Runner.waits # "nothing"
    BY DEF Returns, Throws
  <1>2. Runner.op \in Readers /\ Runner.waits = "callback"
    BY <1>1, ProgramReads
  <1>3. \/ frames' = WithRunner(NextDone(Runner)) /\ past' = past
        \/ frames' = Front(frames) /\ past' = past
    BY <1>2 DEF Returns, Throws, GivesUp
  <1>4. CASE frames' = WithRunner(NextDone(Runner)) /\ past' = past
    <2>1. Runner.work # <<>>
      BY <1>1, RunnerOK DEF FrameOK, Waiting
    <2>2. Runner.op \notin Writers
      BY <1>2 DEF Readers, Writers
    <2> QED BY <1>1, <1>4, <2>1, <2>2, ReaderGoesOnCalm
  <1>5. CASE frames' = Front(frames) /\ past' = past
    BY <1>1, <1>5, CalmReturn DEF BInv
  <1> QED BY <1>3, <1>4, <1>5

\* No step takes accessors away from what was plain, for the record of it.
LEMMA PlainBefore ==
  ASSUME IInv, [Next]_vars, past'.plain
  PROVE  past.plain
  <1>1. PastOK(past)
    BY DEF IInv
  <1>2. \/ past' = past
        \/ \E b \in BOOLEAN : \/ past' = [past EXCEPT !.shrunk = b]
                              \/ past' = [past EXCEPT !.lost = b]
                              \/ past' = [past EXCEPT !.plain = FALSE]
    <2> USE DEF PastOK
    <2>1. ASSUME NEW f, NEW v, Reads(f, v)
          PROVE  past' = past \/ \E b \in BOOLEAN : past' = [past EXCEPT !.lost = b]
      BY <1>1, <2>1 DEF Reads, GivesUp
    <2>2. ASSUME NEW i, ReadElement(i)
          PROVE  past' = past \/ \E b \in BOOLEAN : past' = [past EXCEPT !.lost = b]
      BY <2>1, <2>2 DEF ReadElement
    <2>3. CASE \/ \E i \in Indices : \/ \E v \in Datum : PutElement(i, v)
                                      \/ DeleteElement(i)
                                      \/ DefineAccessor(i)
               \/ \E n \in 0..MaxLength : PutLength(n)
      BY <1>1, <2>3 DEF PutElement, DeleteElement, DefineAccessor, PutLength
    <2>4. CASE \/ \E items \in SeqOf(Datum, MaxItems) :
                    \/ Push(items)
                    \/ \E s \in -1..MaxLength, n \in -1..MaxLength : Splice(s, n, items)
               \/ Pop \/ Shift \/ Apply \/ ForEach
               \/ \E items \in SeqOf(Datum \cup {ThisArray}, 1) : Concat(items)
               \/ \E begin \in 0..MaxLength, end \in SliceEnds : Slice(begin, end)
      BY <2>4 DEF Push, Splice, Pop, Shift, Apply, ForEach, Concat, Slice, Start, AtOnce
    <2>5. CASE \/ DoRead \/ DoTakeLast \/ DoCall \/ DoInvoke \/ DoWrite \/ DoErase \/ DoSetLength
               \/ DoDropLast \/ DoSpread \/ DoAdd \/ DoReturn
      BY <2>2, <2>5 DEF DoRead, DoTakeLast, DoCall, DoInvoke, DoWrite, DoErase, DoSetLength,
                        DoDropLast, DoSpread, DoAdd, DoReturn
    <2>6. CASE (\E v \in Datum : Returns(v)) \/ Throws
      BY <2>1, <2>6 DEF Returns, Throws, GivesUp
    <2>7. CASE UNCHANGED vars
      BY <2>7 DEF vars
    <2> QED BY <2>3, <2>4, <2>5, <2>6, <2>7 DEF Next
  <1> QED BY <1>1, <1>2 DEF PastOK

LEMMA StepsCalm ==
  ASSUME IInv, BInv, [Next]_vars
  PROVE  BInv'
  <1> SUFFICES ASSUME past'.plain
               PROVE  BInv'
    BY DEF BInv
  <1>0. past.plain
    BY PlainBefore
  <1>1. CASE \/ \E i \in Indices : \/ \E v \in Datum : PutElement(i, v)
                                    \/ DeleteElement(i)
                                    \/ DefineAccessor(i)
             \/ \E n \in 0..MaxLength : PutLength(n)
    BY <1>0, <1>1, ProgramCalm
  <1>2. CASE \/ \E items \in SeqOf(Datum, MaxItems) :
                  \/ Push(items)
                  \/ \E s \in -1..MaxLength, n \in -1..MaxLength : Splice(s, n, items)
             \/ Pop \/ Shift \/ Apply \/ ForEach
             \/ \E items \in SeqOf(Datum \cup {ThisArray}, 1) : Concat(items)
             \/ \E begin \in 0..MaxLength, end \in SliceEnds : Slice(begin, end)
    BY <1>0, <1>2, OperationsCalm
  <1>3. CASE \/ DoRead \/ DoTakeLast \/ DoCall \/ DoInvoke \/ DoWrite \/ DoErase \/ DoSetLength
             \/ DoDropLast \/ DoSpread \/ DoAdd \/ DoReturn
    BY <1>0, <1>3, InstructionsCalm
  <1>4. CASE (\E v \in Datum : Returns(v)) \/ Throws
    BY <1>0, <1>4, ReturnsCalm
  <1>5. CASE UNCHANGED vars
    BY <1>5 DEF vars, BInv
  <1> QED BY <1>1, <1>2, <1>3, <1>4, <1>5 DEF Next

LEMMA InitCalm ==
  ASSUME Init
  PROVE  BInv
  <1>1. frames = <<>>
    BY DEF Init
  <1>2. PICK n \in 0..MaxLength : \/ ArrayOf(n, [i \in {} |-> Undefined])
                                  \/ \E e \in [0..(n - 1) -> Datum] : ArrayOf(n, e)
    BY DEF Init
  <1>3. NoAccessors(elements) /\ Below(length, elements)
    BY <1>2, ArrayValuesAssumption, Bounds DEF ArrayOf, NoAccessors, Below
  <1>4. QuietFrames(frames)
    BY <1>1 DEF QuietFrames
  <1> QED BY <1>1, <1>3, <1>4 DEF BInv, Calm

\* For arrays of any length and operations inside one another to any depth: until the
\* program makes the array shorter, no element is left at or past its length while there
\* are no accessors (builtin.cc 549-611, context.cc 120-153).
THEOREM LengthCovers == Spec => []ElementsBelowLength
  <1>1. Init => IInv /\ BInv
    BY InitKeeps, InitCalm
  <1>2. IInv /\ BInv /\ [Next]_vars => (IInv /\ BInv)'
    BY StepsKeep, StepsCalm
  <1>3. BInv => ElementsBelowLength
    BY DEF BInv, Calm, Below, ElementsBelowLength
  <1> QED BY <1>1, <1>2, <1>3, PTL DEF Spec

-----------------------------------------------------------------------------
(* The refinement: what an operation that writes will have done.           *)

\* What a[i] and the first n elements read, of the elements e.
At(e, i) == IF i \in DOMAIN e THEN e[i] ELSE Undefined
Shown(n, e) == [k \in 1..n |-> At(e, k - 1)]
AllReadable(e) == \A i \in DOMAIN e : e[i] \in Readable

Deeds == {i \in Instructions : i.do \in {"move", "write", "erase"}}
Touches(i, x) == IF i.do = "move" THEN i.to = x ELSE i.at = x

\* The instruction i puts nothing but what the sequence t has there.
Rightly(i, e, t) ==
  /\ i.do = "erase" => i.at >= Len(t)
  /\ i.do = "write" => i.at + 1 \in DOMAIN t /\ i.value = t[i.at + 1]
  /\ i.do = "move" => i.to + 1 \in DOMAIN t /\ At(e, i.at) = t[i.to + 1]

\* Nothing is moved that was written over before.
Orderly(u) ==
  \A k \in DOMAIN u : u[k].do = "move" => \A p \in DOMAIN u : p < k => ~Touches(u[p], u[k].at)

Reaches(u, e, t) ==
  /\ \A k \in DOMAIN u : Rightly(u[k], e, t)
  /\ \A x \in DOMAIN t : At(e, x - 1) = t[x] \/ \E k \in DOMAIN u : Touches(u[k], x - 1)
  /\ Orderly(u)

\* Doing the instructions w on the elements e makes the array read as t.
Leads(w, e, t) ==
  \E u \in Seq(Deeds) : w = Append(u, SetLength(Len(t))) /\ Reaches(u, e, t)

LEMMA DeedParts ==
  ASSUME NEW i \in Deeds
  PROVE  /\ i \in Instructions /\ i.do \in {"move", "write", "erase"} /\ i.at \in Int
         /\ i.do = "write" => i.at \in Indices /\ i.value \in Values
         /\ i.do = "move" => i.to \in Indices
  BY InstructionParts DEF Deeds, Indices

LEMMA AtReadable ==
  ASSUME NEW e, AllReadable(e), NEW i
  PROVE  At(e, i) \in Readable
  BY DEF At, AllReadable, Readable

LEMMA ShownSeq ==
  ASSUME NEW e, AllReadable(e), NEW n \in Nat
  PROVE  /\ Shown(n, e) \in Seq(Readable) /\ Len(Shown(n, e)) = n
         /\ \A k \in 1..n : Shown(n, e)[k] = At(e, k - 1)
  <1>1. Shown(n, e) \in [1..n -> Readable]
    BY AtReadable DEF Shown
  <1>2. \A k \in 1..n : Shown(n, e)[k] = At(e, k - 1)
    BY DEF Shown
  <1> QED BY <1>1, <1>2, SeqFunction

LEMMA ContentShown == Content = Shown(length, elements)
  BY DEF Content, Shown, ValueAt, At

LEMMA AppendedHead ==
  ASSUME NEW S, NEW u \in Seq(S), NEW x
  PROVE  /\ Append(u, x) # <<>>
         /\ u = <<>> => Head(Append(u, x)) = x /\ Tail(Append(u, x)) = <<>>
         /\ u # <<>> => /\ Head(Append(u, x)) = u[1] /\ u[1] \in S /\ 1 \in DOMAIN u
                        /\ Tail(Append(u, x)) = Append(Tail(u), x) /\ Tail(u) \in Seq(S)
  <1>1. Append(u, x) # <<>>
    <2>1. Append(u, x) \in Seq(S \cup {x}) /\ Len(Append(u, x)) = Len(u) + 1 /\ Len(u) \in Nat
      OBVIOUS
    <2>2. Len(<<>>) = 0
      OBVIOUS
    <2> QED BY <2>1, <2>2
  <1>2. ASSUME u = <<>> PROVE Head(Append(u, x)) = x /\ Tail(Append(u, x)) = <<>>
    BY <1>2
  <1>3. ASSUME u # <<>>
        PROVE  /\ Head(Append(u, x)) = u[1] /\ u[1] \in S /\ 1 \in DOMAIN u
               /\ Tail(Append(u, x)) = Append(Tail(u), x) /\ Tail(u) \in Seq(S)
    BY <1>3
  <1> QED BY <1>1, <1>2, <1>3

\* The first instruction of those that lead to t.
LEMMA LeadsHead ==
  ASSUME NEW w, NEW e, NEW t \in Seq(Readable), Leads(w, e, t)
  PROVE  /\ w # <<>>
         /\ \/ Head(w) \in Deeds /\ Rightly(Head(w), e, t)
            \/ /\ Head(w) = SetLength(Len(t)) /\ Tail(w) = <<>>
               /\ \A x \in DOMAIN t : At(e, x - 1) = t[x]
  <1>1. PICK u \in Seq(Deeds) : w = Append(u, SetLength(Len(t))) /\ Reaches(u, e, t)
    BY DEF Leads
  <1>2. CASE u = <<>>
    <2>1. DOMAIN u = {}
      BY <1>2
    <2> QED BY <1>1, <1>2, <2>1, AppendedHead DEF Reaches
  <1>3. CASE u # <<>>
    BY <1>1, <1>3, AppendedHead DEF Reaches
  <1> QED BY <1>2, <1>3

\* A move becomes the write of what was read.
LEMMA LeadsMove ==
  ASSUME NEW w, NEW e, AllReadable(e), NEW t \in Seq(Readable), Leads(w, e, t), Head(w).do = "move"
  PROVE  Leads(<<Write(Head(w).to, At(e, Head(w).at))>> \o Tail(w), e, t)
  <1>1. PICK u \in Seq(Deeds) : w = Append(u, SetLength(Len(t))) /\ Reaches(u, e, t)
    BY DEF Leads
  <1>2. u # <<>> /\ Head(w) = u[1] /\ u[1] \in Deeds /\ 1 \in DOMAIN u /\ Tail(u) \in Seq(Deeds)
        /\ Tail(w) = Append(Tail(u), SetLength(Len(t)))
    BY <1>1, AppendedHead DEF SetLength
  <1> DEFINE x == Write(u[1].to, At(e, u[1].at))
             v == <<x>> \o Tail(u)
             last == SetLength(Len(t))
  <1>3. /\ Rightly(u[1], e, t) /\ u[1].to \in Indices /\ u[1].at \in Int /\ u[1].do = "move"
    BY <1>1, <1>2, DeedParts DEF Reaches
  <1>4. x \in Deeds /\ x.do = "write" /\ x.at = u[1].to /\ x.value = At(e, u[1].at)
    <2>1. At(e, u[1].at) \in Values
      BY AtReadable DEF Readable, Values
    <2>2. x \in Instructions
      BY <1>3, <2>1, Constructors
    <2> QED BY <2>2 DEF Deeds, Write
  <1> HIDE DEF x, last
  <1>5. v \in Seq(Deeds) /\ Len(v) = Len(u) /\ DOMAIN v = DOMAIN u
        /\ v[1] = x /\ \A k \in DOMAIN u : k # 1 => v[k] = u[k]
    <2>1. u \in Seq(Deeds) /\ u # <<>>
      BY <1>2
    <2>2. <<x>> \in Seq(Deeds)
      BY <1>4
    <2>3. v \in Seq(Deeds)
      BY <1>2, <2>2, SeqJoined
    <2>4. Len(v) = Len(u) /\ v[1] = x
      BY <2>1, <2>2, <1>4
    <2>5. \A k \in 1..Len(u) : k # 1 => v[k] = u[k]
      BY <2>1, <2>2, <1>4
    <2> QED BY <2>1, <2>3, <2>4, <2>5
  <1>6. <<x>> \o Append(Tail(u), last) = Append(v, last)
    <2>1. <<x>> \in Seq(Deeds)
      BY <1>4
    <2> QED BY <1>2, <2>1, AppendedToJoined
  <1> HIDE DEF v
  <1>7. \A k \in DOMAIN u : \A y : Touches(u[k], y) <=> Touches(v[k], y)
    BY <1>3, <1>4, <1>5 DEF Touches
  <1>8. Rightly(x, e, t)
    BY <1>3, <1>4 DEF Rightly
  <1>9. Reaches(v, e, t)
    <2>1. \A k \in DOMAIN v : Rightly(v[k], e, t)
      BY <1>1, <1>5, <1>8 DEF Reaches
    <2>2. \A y \in DOMAIN t : At(e, y - 1) = t[y] \/ \E k \in DOMAIN v : Touches(v[k], y - 1)
      BY <1>1, <1>5, <1>7 DEF Reaches
    <2>3. Orderly(v)
      BY <1>1, <1>4, <1>5, <1>7 DEF Reaches, Orderly
    <2> QED BY <2>1, <2>2, <2>3 DEF Reaches
  <1> QED BY <1>1, <1>2, <1>5, <1>6, <1>9 DEF Leads, x, last

\* A write or an erasure is done.
LEMMA LeadsDeed ==
  ASSUME NEW w, NEW e, DOMAIN e \subseteq Int, NEW t \in Seq(Readable), Leads(w, e, t),
         Head(w).do \in {"write", "erase"},
         NEW e2,
         \A y \in Int : y # Head(w).at => At(e2, y) = At(e, y),
         Head(w).do = "write" => At(e2, Head(w).at) = Head(w).value
  PROVE  Leads(Tail(w), e2, t)
  <1>1. PICK u \in Seq(Deeds) : w = Append(u, SetLength(Len(t))) /\ Reaches(u, e, t)
    BY DEF Leads
  <1>2. u # <<>> /\ Head(w) = u[1] /\ u[1] \in Deeds /\ 1 \in DOMAIN u /\ Tail(u) \in Seq(Deeds)
        /\ Tail(w) = Append(Tail(u), SetLength(Len(t)))
    BY <1>1, AppendedHead DEF SetLength
  <1> DEFINE v == Tail(u)
             x == u[1]
  <1>3. \A k \in DOMAIN v : v[k] = u[k + 1] /\ k + 1 \in DOMAIN u /\ v[k] \in Deeds
    BY <1>2, SeqTail, SeqElement
  <1>4. \A k \in DOMAIN u : k # 1 => k - 1 \in DOMAIN v /\ v[k - 1] = u[k]
    BY <1>2
  <1>5. DOMAIN u \subseteq Int /\ DOMAIN v \subseteq Int /\ \A k \in DOMAIN v : 1 < k + 1
    OBVIOUS
  <1> HIDE DEF v
  <1>6. x.do \in {"write", "erase"} /\ x.at \in Int /\ Rightly(x, e, t)
        /\ \A y : Touches(x, y) <=> x.at = y
    BY <1>1, <1>2, DeedParts DEF Reaches, Touches
  <1>7. \A k \in DOMAIN v : v[k].do = "move" => At(e2, v[k].at) = At(e, v[k].at)
    <2> TAKE k \in DOMAIN v
    <2> SUFFICES ASSUME v[k].do = "move"
                 PROVE  At(e2, v[k].at) = At(e, v[k].at)
      OBVIOUS
    <2>1. v[k].at \in Int
      BY <1>3, DeedParts
    <2>2. ~Touches(x, v[k].at)
      BY <1>1, <1>2, <1>3, <1>5 DEF Reaches, Orderly
    <2> QED BY <1>2, <1>6, <2>1, <2>2
  <1>8. \A k \in DOMAIN v : Rightly(v[k], e2, t)
    BY <1>1, <1>3, <1>7 DEF Reaches, Rightly
  <1>9. \A y \in DOMAIN t : At(e2, y - 1) = t[y] \/ \E k \in DOMAIN v : Touches(v[k], y - 1)
    <2> TAKE y \in DOMAIN t
    <2>1. y - 1 \in Int /\ y \in 1..Len(t) /\ Len(t) \in Nat
      OBVIOUS
    <2>2. CASE y - 1 = x.at
      <3>1. x.do = "write"
        BY <1>6, <2>1, <2>2 DEF Rightly
      <3>2. x.value = t[y]
        BY <1>6, <2>1, <2>2, <3>1 DEF Rightly
      <3> QED BY <1>2, <2>2, <3>1, <3>2
    <2>3. CASE y - 1 # x.at
      <3>1. At(e2, y - 1) = At(e, y - 1)
        BY <1>2, <2>1, <2>3
      <3>2. ASSUME NEW k \in DOMAIN u, Touches(u[k], y - 1)
            PROVE  \E j \in DOMAIN v : Touches(v[j], y - 1)
        <4>1. k # 1
          BY <1>6, <2>3, <3>2
        <4> QED BY <1>4, <3>2, <4>1
      <3> QED BY <1>1, <3>1, <3>2 DEF Reaches
    <2> QED BY <2>2, <2>3
  <1>10. Orderly(v)
    <2> SUFFICES ASSUME NEW k \in DOMAIN v, v[k].do = "move", NEW p \in DOMAIN v, p < k
                 PROVE  ~Touches(v[p], v[k].at)
      BY DEF Orderly
    <2>1. p + 1 < k + 1 /\ p + 1 \in DOMAIN u /\ k + 1 \in DOMAIN u
      BY <1>3, <1>5
    <2> QED BY <1>1, <1>3, <2>1 DEF Reaches, Orderly
  <1>11. Reaches(v, e2, t)
    BY <1>8, <1>9, <1>10 DEF Reaches
  <1> QED BY <1>2, <1>11 DEF Leads, v

-----------------------------------------------------------------------------
(* What push and splice have to do leads to what they promise.             *)

LEMMA JoinedIs ==
  ASSUME NEW S, NEW a \in Seq(S), NEW b \in Seq(S)
  PROVE  /\ a \o b \in Seq(S) /\ Len(a \o b) = Len(a) + Len(b)
         /\ Len(a) \in Nat /\ Len(b) \in Nat
         /\ \A x \in 1..Len(a) : (a \o b)[x] = a[x]
         /\ \A x \in 1..Len(b) : (a \o b)[Len(a) + x] = b[x]
  OBVIOUS

LEMMA DeedConstructors ==
  /\ \A i \in Int : Erased(i) \in Deeds /\ Erased(i).do = "erase" /\ Erased(i).at = i
  /\ \A i \in Int, j \in Indices :
       Move(i, j) \in Deeds /\ Move(i, j).do = "move" /\ Move(i, j).at = i /\ Move(i, j).to = j
  /\ \A i \in Indices, v \in Values :
       Write(i, v) \in Deeds /\ Write(i, v).do = "write" /\ Write(i, v).at = i /\ Write(i, v).value = v
  <1>1. \A i \in Int : Erased(i) \in Deeds /\ Erased(i).do = "erase" /\ Erased(i).at = i
    BY Constructors DEF Fresh, Deeds, Erased
  <1>2. \A i \in Int, j \in Indices :
          Move(i, j) \in Deeds /\ Move(i, j).do = "move" /\ Move(i, j).at = i /\ Move(i, j).to = j
    BY Constructors DEF Fresh, Deeds, Move
  <1>3. \A i \in Indices, v \in Values :
          Write(i, v) \in Deeds /\ Write(i, v).do = "write" /\ Write(i, v).at = i /\ Write(i, v).value = v
    BY Constructors DEF Deeds, Write
  <1> QED BY <1>1, <1>2, <1>3

\* Instructions done one after another stay orderly if the first ones touch
\* nothing the others move.
LEMMA OrderlyJoined ==
  ASSUME NEW a \in Seq(Deeds), NEW b \in Seq(Deeds), Orderly(a), Orderly(b),
         \A p \in DOMAIN a, k \in DOMAIN b : b[k].do = "move" => ~Touches(a[p], b[k].at)
  PROVE  Orderly(a \o b)
  <1> DEFINE c == a \o b
             l == Len(a)
  <1>1. c \in Seq(Deeds) /\ l \in Nat /\ DOMAIN a = 1..l /\ DOMAIN b \subseteq Nat \ {0} /\ DOMAIN c \subseteq Nat
    BY SeqJoined
  <1>2. \A k \in DOMAIN c : \/ k \in DOMAIN a /\ c[k] = a[k]
                            \/ k - l \in DOMAIN b /\ c[k] = b[k - l]
    BY InJoined
  <1> HIDE DEF c, l
  <1> SUFFICES ASSUME NEW k \in DOMAIN c, c[k].do = "move", NEW p \in DOMAIN c, p < k
               PROVE  ~Touches(c[p], c[k].at)
    BY DEF Orderly, c
  <1>3. CASE k \in DOMAIN a /\ c[k] = a[k]
    <2>1. p \in DOMAIN a
      BY <1>1, <1>3
    <2>2. c[p] = a[p]
      BY <1>1, <1>2, <2>1
    <2> QED BY <1>3, <2>1, <2>2 DEF Orderly
  <1>4. CASE k - l \in DOMAIN b /\ c[k] = b[k - l]
    <2>1. CASE p \in DOMAIN a /\ c[p] = a[p]
      BY <1>4, <2>1
    <2>2. CASE p - l \in DOMAIN b /\ c[p] = b[p - l]
      <3>1. p - l < k - l
        BY <1>1
      <3> QED BY <1>4, <2>2, <3>1 DEF Orderly
    <2> QED BY <1>2, <2>1, <2>2
  <1> QED BY <1>2, <1>3, <1>4

LEMMA TouchesJoined ==
  ASSUME NEW a \in Seq(Deeds), NEW b \in Seq(Deeds), NEW y,
         (\E k \in DOMAIN a : Touches(a[k], y)) \/ (\E k \in DOMAIN b : Touches(b[k], y))
  PROVE  \E k \in DOMAIN (a \o b) : Touches((a \o b)[k], y)
  <1> DEFINE c == a \o b
  <1>1. /\ DOMAIN c = 1..(Len(a) + Len(b)) /\ Len(a) \in Nat /\ Len(b) \in Nat
        /\ DOMAIN a = 1..Len(a) /\ DOMAIN b = 1..Len(b)
        /\ \A x \in 1..Len(a) : c[x] = a[x]
        /\ \A x \in 1..Len(b) : c[Len(a) + x] = b[x]
    BY JoinedIs
  <1> HIDE DEF c
  <1>2. CASE \E k \in DOMAIN a : Touches(a[k], y)
    <2>1. PICK k \in DOMAIN a : Touches(a[k], y)
      BY <1>2
    <2>2. k \in DOMAIN c /\ c[k] = a[k]
      BY <1>1
    <2> QED BY <2>1, <2>2 DEF c
  <1>3. CASE \E k \in DOMAIN b : Touches(b[k], y)
    <2>1. PICK k \in DOMAIN b : Touches(b[k], y)
      BY <1>3
    <2>2. Len(a) + k \in DOMAIN c /\ c[Len(a) + k] = b[k]
      BY <1>1
    <2> QED BY <2>1, <2>2 DEF c
  <1> QED BY <1>2, <1>3

\* The instructions u put only what t has, and all it has from index m up to n - 1.
Deedful(u, e, t) ==
  u \in Seq(Deeds) /\ Orderly(u) /\ \A k \in DOMAIN u : Rightly(u[k], e, t)
Covers(u, m, n) == \A y \in m..(n - 1) : \E k \in DOMAIN u : Touches(u[k], y)

LEMMA DeedfulJoined ==
  ASSUME NEW a, NEW b, NEW e, NEW t, Deedful(a, e, t), Deedful(b, e, t),
         \A p \in DOMAIN a, k \in DOMAIN b : b[k].do = "move" => ~Touches(a[p], b[k].at)
  PROVE  /\ Deedful(a \o b, e, t)
         /\ \A m, n : Covers(a, m, n) \/ Covers(b, m, n) => Covers(a \o b, m, n)
  <1>1. a \in Seq(Deeds) /\ b \in Seq(Deeds) /\ Orderly(a) /\ Orderly(b)
    BY DEF Deedful
  <1>2. a \o b \in Seq(Deeds)
    BY <1>1, SeqJoined
  <1>3. Orderly(a \o b)
    BY <1>1, OrderlyJoined
  <1>4. \A k \in DOMAIN (a \o b) : Rightly((a \o b)[k], e, t)
    BY <1>1, InJoined DEF Deedful
  <1>5. ASSUME NEW m, NEW n, Covers(a, m, n) \/ Covers(b, m, n)
        PROVE  Covers(a \o b, m, n)
    BY <1>1, <1>5, TouchesJoined DEF Covers
  <1> QED BY <1>2, <1>3, <1>4, <1>5 DEF Deedful

\* Items written one after another from index i on.
Given(i, items) == [k \in 1..Len(items) |-> Write(i + k - 1, items[k])]

LEMMA GivenDeeds ==
  ASSUME NEW i \in Nat, NEW items \in Seq(Datum), i + Len(items) <= MaxLength, NEW e,
         NEW t \in Seq(Readable), i + Len(items) <= Len(t),
         \A k \in 1..Len(items) : t[i + k] = items[k]
  PROVE  /\ Deedful(Given(i, items), e, t) /\ Covers(Given(i, items), i, i + Len(items))
         /\ \A k \in DOMAIN Given(i, items) :
              Given(i, items)[k].do = "write" /\ Given(i, items)[k].at \in i..(i + Len(items) - 1)
  <1> DEFINE l == Len(items)
             g == Given(i, items)
  <1>1. l \in Nat /\ MaxLength \in Nat /\ Len(t) \in Nat /\ DOMAIN t = 1..Len(t) /\ DOMAIN items = 1..l
    BY Bounds
  <1>2. \A k \in 1..l : i + k - 1 \in Indices /\ items[k] \in Values
    BY <1>1 DEF Indices, Values
  <1>3. \A k \in 1..l : Write(i + k - 1, items[k]) \in Deeds /\ Write(i + k - 1, items[k]).do = "write"
                        /\ Write(i + k - 1, items[k]).at = i + k - 1
                        /\ Write(i + k - 1, items[k]).value = items[k]
    BY <1>2, DeedConstructors
  <1>4. DOMAIN g = 1..l /\ \A k \in 1..l : g[k] = Write(i + k - 1, items[k])
    BY DEF Given
  <1>5. g \in Seq(Deeds)
    <2>1. g \in [1..l -> Deeds]
      BY <1>3 DEF Given
    <2> HIDE DEF g
    <2> QED BY <1>1, <2>1, SeqFunction
  <1> HIDE DEF g, l
  <1>6. ASSUME NEW k \in DOMAIN g
        PROVE  g[k].do = "write" /\ g[k].at \in i..(i + l - 1) /\ Rightly(g[k], e, t)
    <2>1. k \in 1..l /\ g[k].do = "write" /\ g[k].at = i + k - 1 /\ g[k].value = items[k]
      BY <1>3, <1>4
    <2>2. i + k - 1 + 1 = i + k /\ i + k \in DOMAIN t /\ t[i + k] = items[k] /\ i + k - 1 \in i..(i + l - 1)
      BY <1>1, <2>1 DEF l
    <2> QED BY <2>1, <2>2 DEF Rightly
  <1>7. ASSUME NEW y \in i..(i + l - 1)
        PROVE  \E k \in DOMAIN g : Touches(g[k], y)
    <2>1. y - i + 1 \in 1..l /\ i + (y - i + 1) - 1 = y
      BY <1>1
    <2>2. g[y - i + 1].do = "write" /\ g[y - i + 1].at = y
      BY <1>3, <1>4, <2>1
    <2> QED BY <1>4, <2>1, <2>2 DEF Touches
  <1>8. Orderly(g)
    BY <1>6 DEF Orderly
  <1>9. \A k \in DOMAIN g : Rightly(g[k], e, t)
    BY <1>6
  <1>10. Covers(g, i, i + l)
    <2> SUFFICES ASSUME NEW y \in i..(i + l - 1)
                 PROVE  \E k \in DOMAIN g : Touches(g[k], y)
      BY <1>1 DEF Covers
    <2> QED BY <1>7
  <1> QED BY <1>5, <1>6, <1>8, <1>9, <1>10 DEF g, l, Deedful

\* Moving the elements from index m up to n - 1 by d puts them where t has them.
Lands(m, n, d, e, t) ==
  \A i \in m..(n - 1) : i + d \in Indices /\ i + d + 1 \in DOMAIN t /\ t[i + d + 1] = At(e, i)
MovesBy(q, m, n, d) ==
  \/ d <= 0 /\ q = [k \in 1..(n - m) |-> Move(m + k - 1, m + k - 1 + d)]
  \/ d >= 0 /\ q = [k \in 1..(n - m) |-> Move(n - k, n - k + d)]

LEMMA MovesDeeds ==
  ASSUME NEW m \in Int, NEW n \in Int, m <= n, NEW d \in Int, NEW q, MovesBy(q, m, n, d),
         NEW e, NEW t \in Seq(Readable), Lands(m, n, d, e, t)
  PROVE  /\ Deedful(q, e, t) /\ Covers(q, m + d, n + d)
         /\ \A k \in DOMAIN q : q[k].do = "move" /\ q[k].at \in m..(n - 1)
  <1> DEFINE l == n - m
  <1>1. l \in Nat
    OBVIOUS
  <1> DEFINE Moves(i) == Move(i, i + d)
  <1>2. ASSUME NEW i \in m..(n - 1)
        PROVE  /\ Moves(i) \in Deeds /\ Moves(i).do = "move" /\ Moves(i).at = i /\ Moves(i).to = i + d
               /\ Rightly(Moves(i), e, t)
    <2>1. Moves(i) \in Deeds /\ Moves(i).do = "move" /\ Moves(i).at = i /\ Moves(i).to = i + d
      BY DeedConstructors DEF Lands
    <2>2. i + d + 1 \in DOMAIN t /\ t[i + d + 1] = At(e, i)
      BY DEF Lands
    <2> HIDE DEF Moves
    <2> QED BY <2>1, <2>2 DEF Rightly
  <1>3. PICK at \in [1..l -> m..(n - 1)] :
          /\ q = [k \in 1..l |-> Moves(at[k])]
          /\ \A i \in m..(n - 1) : \E k \in 1..l : at[k] = i
          /\ \A p, k \in 1..l : p < k => at[p] + d # at[k]
    <2>1. CASE d <= 0 /\ q = [k \in 1..(n - m) |-> Move(m + k - 1, m + k - 1 + d)]
      <3> DEFINE f == [k \in 1..l |-> m + k - 1]
      <3>1. f \in [1..l -> m..(n - 1)]
        BY <1>1
      <3>2. \A i \in m..(n - 1) : i - m + 1 \in 1..l /\ f[i - m + 1] = i
        BY <1>1
      <3>3. \A p, k \in 1..l : p < k => f[p] + d # f[k]
        BY <1>1, <2>1
      <3>4. q = [k \in 1..l |-> Moves(f[k])]
        BY <2>1
      <3> HIDE DEF f, Moves
      <3> QED BY <3>1, <3>2, <3>3, <3>4
    <2>2. CASE d >= 0 /\ q = [k \in 1..(n - m) |-> Move(n - k, n - k + d)]
      <3> DEFINE f == [k \in 1..l |-> n - k]
      <3>1. f \in [1..l -> m..(n - 1)]
        BY <1>1
      <3>2. \A i \in m..(n - 1) : n - i \in 1..l /\ f[n - i] = i
        BY <1>1
      <3>3. \A p, k \in 1..l : p < k => f[p] + d # f[k]
        BY <1>1, <2>2
      <3>4. q = [k \in 1..l |-> Moves(f[k])]
        BY <2>2
      <3> HIDE DEF f, Moves
      <3> QED BY <3>1, <3>2, <3>3, <3>4
    <2> QED BY <2>1, <2>2 DEF MovesBy
  <1> HIDE DEF Moves, l
  <1>4. DOMAIN q = 1..l /\ \A k \in 1..l : q[k] = Moves(at[k]) /\ at[k] \in m..(n - 1)
    BY <1>3
  <1>5. q \in Seq(Deeds)
    <2>1. q \in [1..l -> Deeds]
      BY <1>2, <1>3
    <2> QED BY <1>1, <2>1, SeqFunction
  <1>6. \A k \in DOMAIN q : /\ q[k].do = "move" /\ q[k].at = at[k] /\ q[k].at \in m..(n - 1)
                            /\ q[k].to = q[k].at + d /\ Rightly(q[k], e, t)
    BY <1>2, <1>4
  <1>7. ASSUME NEW y \in (m + d)..(n + d - 1)
        PROVE  \E k \in DOMAIN q : Touches(q[k], y)
    <2>1. y - d \in m..(n - 1) /\ y - d + d = y
      OBVIOUS
    <2>2. PICK k \in 1..l : at[k] = y - d
      BY <1>3, <2>1
    <2>3. k \in DOMAIN q
      BY <1>4
    <2>4. q[k].do = "move" /\ q[k].at = at[k] /\ q[k].to = q[k].at + d
      BY <1>6, <2>3
    <2>5. q[k].to = y
      BY <2>1, <2>2, <2>4
    <2>6. Touches(q[k], y)
      BY <2>4, <2>5 DEF Touches
    <2> QED BY <2>3, <2>6
  <1>8. Orderly(q)
    <2> SUFFICES ASSUME NEW k \in DOMAIN q, NEW p \in DOMAIN q, p < k
                 PROVE  ~Touches(q[p], q[k].at)
      BY DEF Orderly
    <2>1. at[p] + d # at[k]
      BY <1>3, <1>4
    <2>2. q[p].do = "move" /\ q[p].to = at[p] + d /\ q[k].at = at[k]
      BY <1>6
    <2> QED BY <2>1, <2>2 DEF Touches
  <1>9. \A k \in DOMAIN q : Rightly(q[k], e, t)
    BY <1>6
  <1>10. Covers(q, m + d, n + d)
    BY <1>7 DEF Covers
  <1> QED BY <1>5, <1>6, <1>8, <1>9, <1>10 DEF Deedful

\* Erasures of the elements from index m up to n - 1.
LEMMA ErasesDeeds ==
  ASSUME NEW m \in Int, NEW n \in Int, m <= n, NEW e, NEW t \in Seq(Readable), Len(t) <= m
  PROVE  /\ Deedful(Each(Erased, m, n), e, t)
         /\ \A k \in DOMAIN Each(Erased, m, n) : Each(Erased, m, n)[k].do = "erase"
  <1> DEFINE l == n - m
             q == Each(Erased, m, n)
  <1>1. l \in Nat /\ Len(t) \in Nat
    OBVIOUS
  <1>2. q = [k \in 1..l |-> Erased(m + k - 1)]
    BY DEF Each
  <1>3. \A k \in 1..l : /\ Erased(m + k - 1) \in Deeds /\ Erased(m + k - 1).do = "erase"
                        /\ Erased(m + k - 1).at = m + k - 1 /\ m + k - 1 >= Len(t)
    BY <1>1, DeedConstructors
  <1> HIDE DEF q, l
  <1>4. q \in [1..l -> Deeds]
    BY <1>2, <1>3
  <1>5. \A k \in DOMAIN q : q[k].do = "erase" /\ Rightly(q[k], e, t)
    BY <1>2, <1>3 DEF Rightly
  <1>6. Orderly(q)
    BY <1>5 DEF Orderly
  <1>7. q \in Seq(Deeds)
    BY <1>1, <1>4, SeqFunction DEF l
  <1> QED BY <1>5, <1>6, <1>7 DEF q, Deedful

\* The sequence c with the elements from index i on, k of them, replaced by items.
Spliced(c, i, k, items) ==
  SubSeq(c, 1, i) \o items \o SubSeq(c, i + k + 1, Len(c))

LEMMA SplicedIs ==
  ASSUME NEW c \in Seq(Readable), NEW i \in 0..Len(c), NEW k \in 0..(Len(c) - i), NEW items \in Seq(Datum)
  PROVE  LET t == Spliced(c, i, k, items) IN
         /\ t \in Seq(Readable) /\ Len(t) = Len(c) + Len(items) - k
         /\ \A x \in 1..i : t[x] = c[x]
         /\ \A x \in 1..Len(items) : t[i + x] = items[x]
         /\ \A x \in (i + k + 1)..Len(c) : t[x - k + Len(items)] = c[x]
  <1> DEFINE a == SubSeq(c, 1, i)
             b == SubSeq(c, i + k + 1, Len(c))
             t == (a \o items) \o b
  <1>1. a \in Seq(Readable) /\ Len(a) = i /\ \A x \in 1..i : a[x] = c[x]
    OBVIOUS
  <1>2. b \in Seq(Readable) /\ Len(b) = Len(c) - i - k /\ \A x \in 1..(Len(c) - i - k) : b[x] = c[i + k + x]
    OBVIOUS
  <1>3. items \in Seq(Readable) /\ Len(items) \in Nat /\ Len(c) \in Nat /\ DOMAIN items = 1..Len(items)
    BY DEF Readable
  <1> HIDE DEF a, b
  <1>4. t \in Seq(Readable) /\ Len(t) = Len(c) + Len(items) - k
    <2>1. a \o items \in Seq(Readable) /\ Len(a \o items) = i + Len(items)
      BY <1>1, <1>3, JoinedIs
    <2>2. t \in Seq(Readable) /\ Len(t) = Len(a \o items) + Len(b)
      BY <1>2, <2>1, JoinedIs
    <2> QED BY <1>2, <1>3, <2>1, <2>2
  <1>5. \A x \in 1..i : t[x] = c[x]
    BY <1>1, <1>2, <1>3
  <1>6. \A x \in 1..Len(items) : t[i + x] = items[x]
    BY <1>1, <1>2, <1>3
  <1>7. ASSUME NEW x \in (i + k + 1)..Len(c)
        PROVE  t[x - k + Len(items)] = c[x]
    <2> DEFINE y == x - i - k
    <2>1. y \in 1..(Len(c) - i - k) /\ x - k + Len(items) = i + Len(items) + y /\ i + k + y = x
      BY <1>3
    <2>2. b[y] = c[i + k + y]
      BY <1>2, <2>1
    <2>3. t[i + Len(items) + y] = b[y]
      BY <1>1, <1>2, <1>3, <2>1
    <2> QED BY <2>1, <2>2, <2>3
  <1> QED BY <1>4, <1>5, <1>6, <1>7 DEF Spliced, a, b

LEMMA ItemsJoined ==
  ASSUME NEW c \in Seq(Readable), NEW items \in Seq(Datum)
  PROVE  /\ c \o items \in Seq(Readable) /\ Len(c \o items) = Len(c) + Len(items)
         /\ \A x \in 1..Len(c) : (c \o items)[x] = c[x]
         /\ \A x \in 1..Len(items) : (c \o items)[Len(c) + x] = items[x]
  <1>1. items \in Seq(Readable)
    BY DEF Readable
  <1> QED BY <1>1

LEMMA PushLeads ==
  ASSUME NEW n \in Nat, NEW e, AllReadable(e), NEW items \in Seq(Datum), n + Len(items) <= MaxLength
  PROVE  /\ Shown(n, e) \o items \in Seq(Readable)
         /\ Leads(PushWork(n, items), e, Shown(n, e) \o items)
  <1> DEFINE t == Shown(n, e) \o items
             u == Given(n, items)
  <1>1. /\ Shown(n, e) \in Seq(Readable) /\ Len(Shown(n, e)) = n
        /\ \A k \in 1..n : Shown(n, e)[k] = At(e, k - 1)
    BY ShownSeq
  <1>2. items \in Seq(Readable) /\ Len(items) \in Nat /\ DOMAIN items = 1..Len(items)
    BY DEF Readable
  <1>3. /\ t \in Seq(Readable) /\ Len(t) = n + Len(items)
        /\ \A k \in 1..n : t[k] = At(e, k - 1)
        /\ \A k \in 1..Len(items) : t[n + k] = items[k]
    <2> DEFINE a == Shown(n, e)
    <2> HIDE DEF a
    <2>1. a \in Seq(Readable) /\ Len(a) = n /\ \A k \in 1..n : a[k] = At(e, k - 1)
      BY <1>1 DEF a
    <2>2. /\ a \o items \in Seq(Readable) /\ Len(a \o items) = Len(a) + Len(items)
          /\ \A k \in 1..Len(a) : (a \o items)[k] = a[k]
          /\ \A k \in 1..Len(items) : (a \o items)[Len(a) + k] = items[k]
      BY <2>1, ItemsJoined
    <2> QED BY <2>1, <2>2 DEF a
  <1>4. PushWork(n, items) = Append(u, SetLength(n + Len(items)))
    BY <1>2 DEF PushWork, Given
  <1> HIDE DEF t
  <1>5. Deedful(u, e, t) /\ Covers(u, n, n + Len(items))
    <2>1. n + Len(items) <= Len(t)
      BY <1>2, <1>3
    <2> QED BY <1>3, <2>1, GivenDeeds
  <1> HIDE DEF u
  <1>6. ASSUME NEW x \in DOMAIN t
        PROVE  At(e, x - 1) = t[x] \/ \E k \in DOMAIN u : Touches(u[k], x - 1)
    <2>1. x \in 1..n \/ x - 1 \in n..(n + Len(items) - 1)
      BY <1>2, <1>3
    <2> QED BY <1>3, <1>5, <2>1 DEF Covers
  <1>7. Reaches(u, e, t)
    BY <1>5, <1>6 DEF Reaches, Deedful
  <1> QED BY <1>3, <1>4, <1>5, <1>7 DEF Leads, t, Deedful

Takes == {i \in Instructions : i.do = "take"}
Vals(e, q) == [k \in DOMAIN q |-> At(e, q[k].at)]

LEMMA EachTake ==
  ASSUME NEW m \in Nat, NEW n \in Nat, m <= n, NEW e
  PROVE  /\ Each(Take, m, n) \in Seq(Takes) /\ Len(Each(Take, m, n)) = n - m
         /\ Vals(e, Each(Take, m, n)) = [k \in 1..(n - m) |-> At(e, m + k - 1)]
  <1> DEFINE q == Each(Take, m, n)
  <1>1. q = [k \in 1..(n - m) |-> Take(m + k - 1)]
    BY DEF Each
  <1>2. \A k \in 1..(n - m) : Take(m + k - 1) \in Takes /\ Take(m + k - 1).at = m + k - 1
    <2>1. \A i \in Int : Take(i) \in Takes /\ Take(i).at = i
      BY Constructors DEF Fresh, Takes, Take
    <2>2. \A k \in 1..(n - m) : m + k - 1 \in Int
      OBVIOUS
    <2> QED BY <2>1, <2>2
  <1> HIDE DEF q
  <1>3. q \in [1..(n - m) -> Takes] /\ n - m \in Nat
    <2>1. n - m \in Nat
      OBVIOUS
    <2> QED BY <1>1, <1>2, <2>1
  <1>4. Vals(e, q) = [k \in 1..(n - m) |-> At(e, m + k - 1)]
    <2>1. DOMAIN q = 1..(n - m)
      BY <1>1
    <2>2. \A k \in 1..(n - m) : q[k].at = m + k - 1
      BY <1>1, <1>2
    <2> QED BY <2>1, <2>2 DEF Vals
  <1> QED BY <1>3, <1>4, SeqFunction DEF q

\* What a splice has to do: it reads what goes and then leads to the rest.
\* What stays behind the items moves down, and what is left over goes.
LEMMA ClosesLeads ==
  ASSUME NEW e, NEW t \in Seq(Readable), NEW start \in Nat, NEW from \in Nat, NEW n \in Nat, NEW less \in Nat,
         from <= n, start <= from - less, Len(t) = n - less,
         NEW g, Deedful(g, e, t),
         \A k \in DOMAIN g : g[k].do = "write" /\ g[k].at \in start..(from - less - 1),
         Lands(from, n, -less, e, t)
  PROVE  /\ Deedful(g \o ClosesGap(n, from, less), e, t)
         /\ \A i, j : Covers(g, i, j) => Covers(g \o ClosesGap(n, from, less), i, j)
         /\ Covers(g \o ClosesGap(n, from, less), from - less, Len(t))
  <1>1. PICK d, m : d = -less /\ m = n - less
    OBVIOUS
  <1>2. d \in Int /\ d <= 0 /\ m \in Int /\ m <= n /\ m = Len(t) /\ from \in Int /\ n \in Int
        /\ n + d = m /\ from + d = from - less /\ Len(t) <= m
    BY <1>1
  <1> DEFINE moves == Each(LAMBDA i : Move(i, i - less), from, n)
             erases == Each(Erased, m, n)
             closes == moves \o erases
  <1>3. MovesBy(moves, from, n, d)
    <2>1. moves = [k \in 1..(n - from) |-> Move(from + k - 1, from + k - 1 - less)]
      BY DEF Each
    <2>2. \A k \in 1..(n - from) : from + k - 1 - less = from + k - 1 + d
      BY <1>1
    <2>3. moves = [k \in 1..(n - from) |-> Move(from + k - 1, from + k - 1 + d)]
      BY <2>1, <2>2
    <2> QED BY <1>2, <2>3 DEF MovesBy
  <1> HIDE DEF moves
  <1>4. /\ Deedful(moves, e, t) /\ Covers(moves, from + d, n + d)
        /\ \A k \in DOMAIN moves : moves[k].do = "move" /\ moves[k].at \in from..(n - 1)
    <2>1. Lands(from, n, d, e, t)
      BY <1>1
    <2> QED BY <1>2, <1>3, <2>1, MovesDeeds
  <1>5. Deedful(erases, e, t) /\ \A k \in DOMAIN erases : erases[k].do = "erase"
    <2>1. m \in Int /\ n \in Int /\ m <= n /\ Len(t) <= m
      BY <1>2
    <2>2. Deedful(Each(Erased, m, n), e, t)
      BY <2>1, ErasesDeeds
    <2>3. \A k \in DOMAIN Each(Erased, m, n) : Each(Erased, m, n)[k].do = "erase"
      BY <2>1, ErasesDeeds
    <2> QED BY <2>2, <2>3
  <1> HIDE DEF erases
  <1>6. Deedful(closes, e, t) /\ Covers(closes, from + d, n + d)
    <2>1. \A p \in DOMAIN moves, k \in DOMAIN erases : erases[k].do = "move" => ~Touches(moves[p], erases[k].at)
      BY <1>5
    <2> QED BY <1>4, <1>5, <2>1, DeedfulJoined
  <1>7. \A k \in DOMAIN closes : closes[k].do = "move" => closes[k].at \in from..(n - 1)
    <2>1. moves \in Seq(Deeds) /\ erases \in Seq(Deeds)
      BY <1>4, <1>5 DEF Deedful
    <2> QED BY <1>4, <1>5, <2>1, InJoined
  <1>8. closes = ClosesGap(n, from, less)
    BY <1>1 DEF ClosesGap, moves, erases
  <1> HIDE DEF closes
  <1>9. ASSUME NEW p \in DOMAIN g, NEW k \in DOMAIN closes, closes[k].do = "move"
        PROVE  ~Touches(g[p], closes[k].at)
    <2>1. g[p].do = "write" /\ g[p].at \in start..(from - less - 1) /\ closes[k].at \in from..(n - 1)
      BY <1>7, <1>9
    <2>2. g[p].at # closes[k].at
      BY <2>1
    <2> QED BY <2>1, <2>2 DEF Touches
  <1>10. /\ Deedful(g \o closes, e, t)
         /\ \A i, j : Covers(g, i, j) \/ Covers(closes, i, j) => Covers(g \o closes, i, j)
    BY <1>6, <1>9, DeedfulJoined
  <1>11. Covers(g \o closes, from - less, Len(t))
    BY <1>2, <1>6, <1>10
  <1> QED BY <1>8, <1>10, <1>11

\* What stays behind the items moves up.
LEMMA OpensLeads ==
  ASSUME NEW e, NEW t \in Seq(Readable), NEW from \in Nat, NEW more \in Nat, NEW n \in Nat,
         from <= n, Len(t) = n + more,
         NEW g, Deedful(g, e, t), \A k \in DOMAIN g : g[k].do = "write",
         Lands(from, n, more, e, t)
  PROVE  /\ Deedful(OpensGap(n, from, more) \o g, e, t)
         /\ \A i, j : Covers(g, i, j) => Covers(OpensGap(n, from, more) \o g, i, j)
         /\ Covers(OpensGap(n, from, more) \o g, from + more, Len(t))
  <1> DEFINE opens == OpensGap(n, from, more)
  <1>1. opens = [k \in 1..(n - from) |-> Move(n - k, n - k + more)]
    <2> DEFINE s == Each(LAMBDA i : Move(i, i + more), from, n)
    <2>1. s = [k \in 1..(n - from) |-> Move(from + k - 1, from + k - 1 + more)]
      BY DEF Each
    <2>2. n - from \in Nat
      OBVIOUS
    <2>3. opens = Reverse(s)
      BY DEF OpensGap
    <2> HIDE DEF s
    <2>4. Len(s) = n - from
      BY <2>1, <2>2
    <2>5. Reverse(s) = [k \in 1..(n - from) |-> s[n - from - k + 1]]
      BY <2>4 DEF Reverse
    <2>6. \A k \in 1..(n - from) : /\ n - from - k + 1 \in 1..(n - from)
                                   /\ from + (n - from - k + 1) - 1 = n - k
      OBVIOUS
    <2>7. \A k \in 1..(n - from) : s[n - from - k + 1] = Move(n - k, n - k + more)
      BY <2>1, <2>6
    <2> QED BY <2>3, <2>5, <2>7
  <1> HIDE DEF opens
  <1>2. from \in Int /\ n \in Int /\ more \in Int /\ more >= 0 /\ n + more = Len(t)
    OBVIOUS
  <1>3. MovesBy(opens, from, n, more)
    BY <1>1, <1>2 DEF MovesBy
  <1>4. Deedful(opens, e, t) /\ Covers(opens, from + more, n + more)
    BY <1>2, <1>3, MovesDeeds
  <1>5. \A p \in DOMAIN opens, k \in DOMAIN g : g[k].do = "move" => ~Touches(opens[p], g[k].at)
    OBVIOUS
  <1>6. /\ Deedful(opens \o g, e, t)
        /\ \A i, j : Covers(opens, i, j) \/ Covers(g, i, j) => Covers(opens \o g, i, j)
    BY <1>4, <1>5, DeedfulJoined
  <1> QED BY <1>2, <1>4, <1>6 DEF opens

\* What a splice has to do: it reads what goes and then leads to the rest.
LEMMA SpliceLeads ==
  ASSUME NEW n \in Nat, NEW e, AllReadable(e), NEW start \in 0..n, NEW count \in 0..(n - start),
         NEW items \in Seq(Datum), n + Len(items) - count <= MaxLength
  PROVE  /\ Spliced(Shown(n, e), start, count, items) \in Seq(Readable)
         /\ \E q \in Seq(Takes) : \E w :
              /\ SpliceWork(n, start, count, items) = q \o w
              /\ Vals(e, q) = SubSeq(Shown(n, e), start + 1, start + count)
              /\ Leads(w, e, Spliced(Shown(n, e), start, count, items))
  <1>1. PICK c, t : c = Shown(n, e) /\ t = Spliced(c, start, count, items)
    OBVIOUS
  <1>2. PICK l, from, m : l = Len(items) /\ from = start + count /\ m = n + l - count
    OBVIOUS
  <1>3. /\ c \in Seq(Readable) /\ Len(c) = n /\ \A k \in 1..n : c[k] = At(e, k - 1)
    BY <1>1, ShownSeq
  <1>4. /\ l \in Nat /\ MaxLength \in Nat /\ from \in Nat /\ m \in Nat /\ start \in Nat /\ count \in Nat
        /\ from <= n /\ m <= MaxLength
    BY <1>2, Bounds
  <1>5. /\ t \in Seq(Readable) /\ Len(t) = m
        /\ \A x \in 1..start : t[x] = c[x]
        /\ \A x \in 1..l : t[start + x] = items[x]
        /\ \A x \in (from + 1)..n : t[x - count + l] = c[x]
    <2>1. start \in 0..Len(c) /\ count \in 0..(Len(c) - start)
      BY <1>3
    <2>2. /\ t \in Seq(Readable) /\ Len(t) = Len(c) + Len(items) - count
          /\ \A x \in 1..start : t[x] = c[x]
          /\ \A x \in 1..Len(items) : t[start + x] = items[x]
          /\ \A x \in (start + count + 1)..Len(c) : t[x - count + Len(items)] = c[x]
      BY <1>1, <1>3, <2>1, SplicedIs
    <2> QED BY <1>2, <1>3, <2>2
  <1> DEFINE q == Each(Take, start, start + count)
             g == Given(start, items)
  <1>6. q \in Seq(Takes) /\ Vals(e, q) = SubSeq(c, start + 1, start + count)
    <2>1. start \in Nat /\ start + count \in Nat /\ start <= start + count /\ start + count - start = count
      BY <1>4
    <2>2. q \in Seq(Takes) /\ Vals(e, q) = [k \in 1..count |-> At(e, start + k - 1)]
      BY <2>1, EachTake
    <2>3. SubSeq(c, start + 1, start + count) = [k \in 1..count |-> At(e, start + k - 1)]
      <3>1. SubSeq(c, start + 1, start + count) = [k \in 1..count |-> c[start + k]]
        BY <1>3, <1>4
      <3>2. \A k \in 1..count : start + k \in 1..n /\ c[start + k] = At(e, start + k - 1)
        BY <1>3
      <3> QED BY <3>1, <3>2
    <2> QED BY <2>2, <2>3
  <1>7. DOMAIN t = 1..m
    BY <1>5
  <1>8. /\ Deedful(g, e, t) /\ Covers(g, start, start + l)
        /\ \A k \in DOMAIN g : g[k].do = "write" /\ g[k].at \in start..(start + l - 1)
    <2>1. start \in Nat /\ start + Len(items) <= MaxLength /\ start + Len(items) <= Len(t)
      BY <1>2, <1>4, <1>5
    <2>2. \A k \in 1..Len(items) : t[start + k] = items[k]
      BY <1>2, <1>5
    <2> QED BY <1>2, <1>5, <2>1, <2>2, GivenDeeds
  <1>9. ASSUME NEW d, d = l - count
        PROVE  Lands(from, n, d, e, t)
    <2> SUFFICES ASSUME NEW i \in from..(n - 1)
                 PROVE  i + d \in Indices /\ i + d + 1 \in DOMAIN t /\ t[i + d + 1] = At(e, i)
      BY DEF Lands
    <2>1. i + 1 \in (from + 1)..n /\ i + 1 - count + l = i + d + 1 /\ i + 1 \in 1..n
          /\ i + 1 - 1 = i
      BY <1>4, <1>9
    <2>2. t[i + d + 1] = c[i + 1]
      BY <1>5, <2>1
    <2>3. c[i + 1] = At(e, i)
      BY <1>3, <2>1
    <2>4. i + d \in 0..(m - 1)
      BY <1>2, <1>4, <1>9
    <2>5. i + d \in Indices /\ i + d + 1 \in DOMAIN t
      BY <1>4, <1>7, <2>4 DEF Indices
    <2> QED BY <2>2, <2>3, <2>5
  <1> HIDE DEF g, q
  <1>10. ASSUME NEW u, Deedful(u, e, t), Covers(u, start, start + l), Covers(u, start + l, m),
                SpliceWork(n, start, count, items) = q \o (u \o <<SetLength(m)>>)
         PROVE  \E r \in Seq(Takes) : \E w :
                  /\ SpliceWork(n, start, count, items) = r \o w
                  /\ Vals(e, r) = SubSeq(c, start + 1, start + count)
                  /\ Leads(w, e, t)
    <2>1. ASSUME NEW x \in DOMAIN t
          PROVE  At(e, x - 1) = t[x] \/ \E k \in DOMAIN u : Touches(u[k], x - 1)
      <3>1. \/ x \in 1..start
            \/ x - 1 \in start..(start + l - 1)
            \/ x - 1 \in (start + l)..(m - 1)
        BY <1>4, <1>7
      <3>2. CASE x \in 1..start
        <4>1. x \in 1..n
          BY <3>2
        <4> QED BY <1>3, <1>5, <3>2, <4>1
      <3>3. CASE x - 1 \in start..(start + l - 1)
        <4>1. Covers(u, start, start + l)
          BY <1>10
        <4>2. \E k \in DOMAIN u : Touches(u[k], x - 1)
          BY <1>4, <3>3, <4>1 DEF Covers
        <4> QED BY <4>2
      <3>4. CASE x - 1 \in (start + l)..(m - 1)
        <4>1. Covers(u, start + l, m)
          BY <1>10
        <4>2. \E k \in DOMAIN u : Touches(u[k], x - 1)
          BY <1>4, <3>4, <4>1 DEF Covers
        <4> QED BY <4>2
      <3> QED BY <3>1, <3>2, <3>3, <3>4
    <2>2. Reaches(u, e, t) /\ u \in Seq(Deeds)
      BY <1>10, <2>1 DEF Reaches, Deedful
    <2>3. Leads(Append(u, SetLength(m)), e, t)
      BY <1>5, <2>2 DEF Leads
    <2>4. u \o <<SetLength(m)>> = Append(u, SetLength(m))
      BY <2>2
    <2> QED BY <1>6, <1>10, <2>3, <2>4
  <1>11. CASE count >= l
    <2>1. PICK less : less = count - l
      OBVIOUS
    <2> DEFINE u == g \o ClosesGap(n, from, less)
    <2>2. /\ less \in Nat /\ from - less = start + l /\ start <= from - less /\ Len(t) = n - less
          /\ -less = l - count /\ m = n - less
      <3>1. m = n + l - count /\ from = start + count /\ less = count - l
        BY <1>2, <2>1
      <3>2. less \in Nat
        BY <1>4, <1>11, <2>1
      <3>3. from - less = start + l /\ m = n - less /\ -less = l - count /\ start <= from - less
        BY <1>4, <3>1, <3>2
      <3> QED BY <1>5, <3>2, <3>3
    <2>3. Lands(from, n, -less, e, t)
      BY <1>9, <2>2
    <2>4. \A k \in DOMAIN g : g[k].do = "write" /\ g[k].at \in start..(from - less - 1)
      <3>1. start..(start + l - 1) = start..(from - less - 1)
        BY <1>4, <2>2
      <3> QED BY <1>8, <3>1
    <2>5. /\ Deedful(u, e, t)
          /\ \A i, j : Covers(g, i, j) => Covers(u, i, j)
          /\ Covers(u, from - less, Len(t))
      BY <1>4, <1>5, <1>8, <2>2, <2>3, <2>4, ClosesLeads
    <2>6. SpliceWork(n, start, count, items) = q \o (u \o <<SetLength(m)>>)
      <3>1. SpliceWork(n, start, count, items)
              = q \o (g \o ClosesGap(n, from, less) \o <<SetLength(n - less)>>)
        BY <1>2, <1>11, <2>1 DEF SpliceWork, g, q, Given
      <3> QED BY <2>2, <3>1
    <2> HIDE DEF u
    <2>7. Covers(u, start, start + l) /\ Covers(u, start + l, m)
      BY <1>5, <1>8, <2>2, <2>5
    <2> QED BY <1>1, <1>10, <2>5, <2>6, <2>7, <1>5
  <1>12. CASE ~(count >= l)
    <2>1. PICK more : more = l - count
      OBVIOUS
    <2> DEFINE u == OpensGap(n, from, more) \o g
    <2>2. more \in Nat
      BY <1>4, <1>12, <2>1
    <2>3. Len(t) = n + more /\ from + more = start + l /\ n + more = m
      <3>1. m = n + l - count /\ from = start + count /\ more = l - count
        BY <1>2, <2>1
      <3>2. from + more = start + l /\ n + more = m
        BY <1>4, <2>2, <3>1
      <3> QED BY <1>5, <3>2
    <2>4. Lands(from, n, more, e, t)
      BY <1>9, <2>1
    <2>5. /\ Deedful(u, e, t)
          /\ \A i, j : Covers(g, i, j) => Covers(u, i, j)
          /\ Covers(u, from + more, Len(t))
      <3>1. \A k \in DOMAIN g : g[k].do = "write"
        BY <1>8
      <3> QED BY <1>4, <1>5, <1>8, <2>2, <2>3, <2>4, <3>1, OpensLeads
    <2>6. SpliceWork(n, start, count, items) = q \o (u \o <<SetLength(m)>>)
      <3>1. SpliceWork(n, start, count, items)
              = q \o (OpensGap(n, from, more) \o g \o <<SetLength(n + more)>>)
        BY <1>2, <1>12, <2>1 DEF SpliceWork, g, q, Given
      <3> QED BY <2>3, <3>1
    <2> HIDE DEF u
    <2>7. Covers(u, start, start + l) /\ Covers(u, start + l, m)
      BY <1>5, <1>8, <2>3, <2>5
    <2> QED BY <1>1, <1>10, <2>5, <2>6, <2>7, <1>5
  <1> QED BY <1>11, <1>12

-----------------------------------------------------------------------------
(* What an operation that is half done will return, and leave behind.      *)

Collects == {i \in Instructions : i.do = "collect"}
Callers == {"forEach", "apply"}

\* What concat adds to the array c.
Added(c, items) ==
  IF items = <<>> THEN <<>> ELSE IF items[1] = ThisArray THEN c ELSE <<items[1]>>

\* Where slice stops in an array of length n.
EndIn(end, n) == IF end = Undefined THEN n ELSE IF end < 0 THEN n + end ELSE end

\* What op makes of an array that reads as c: it reads as t, and made is returned.
Outcome(op, c, made, t) ==
  \/ op = "push" /\ made = <<>> /\ \E items \in SeqOf(Datum, MaxItems) : t = c \o items
  \/ op = "pop" /\ c # <<>> /\ t = Front(c) /\ made = <<Last(c)>>
  \/ /\ op = "splice"
     /\ \E start \in 0..Len(c), items \in SeqOf(Datum, MaxItems) : \E count \in 0..(Len(c) - start) :
          t = Spliced(c, start, count, items) /\ made = SubSeq(c, start + 1, start + count)
  \/ op = "shift" /\ c # <<>> /\ t = Spliced(c, 0, 1, <<>>) /\ made = SubSeq(c, 0 + 1, 0 + 1)
  \/ /\ op = "concat" /\ t = c
     /\ \E items \in SeqOf(Datum \cup {ThisArray}, 1) : made = c \o Added(c, items)
  \/ /\ op = "slice" /\ t = c
     /\ \E begin \in 0..MaxLength, end \in SliceEnds :
          /\ made \in [1..(IF EndIn(end, Len(c)) > begin THEN EndIn(end, Len(c)) - begin ELSE 0) -> Readable]
          /\ \A k \in DOMAIN made : begin + k \in DOMAIN c => made[k] = c[begin + k]

\* The arguments of concat that are left, w, add s.
Part(i, c, s) == (i = Spread /\ s = c) \/ \E v \in Datum : i = Add(v) /\ s = <<v>>
Short(w, c, s) == (w = <<>> /\ s = <<>>) \/ \E i : w = <<i>> /\ Part(i, c, s)
Adds(w, c, s) == Short(w, c, s) \/ \E w2, s2 : Short(w2, c, s2) /\ w = <<Spread>> \o w2 /\ s = c \o s2

\* Where an operation stands that will return made and leave t, by what it does.
Done(f, n, e, made, t) == f.work = <<>> /\ f.made = made /\ Shown(n, e) = t
Writing(f, e, made, t) ==
  \E q \in Seq(Takes), w \in Seq(Instructions) :
    f.work = q \o w /\ f.made \o Vals(e, q) = made /\ Leads(w, e, t)
Popping(f, n, e, made, t) ==
  /\ n > 0 /\ t = Shown(n - 1, e)
  /\ \/ f.work = <<TakeLast, DropLast>> /\ f.made = <<>> /\ made = <<At(e, n - 1)>>
     \/ f.work = <<DropLast>> /\ f.made = made
Gathering(f, n, e, made, t) ==
  /\ Shown(n, e) = t
  /\ \E q \in Seq(Collects), w \in Seq(Instructions), s \in Seq(Readable) :
       f.work = q \o w /\ f.made \o Vals(e, q) \o s = made /\ Adds(w, t, s)
Toward(f, n, e, made, t) ==
  \/ Done(f, n, e, made, t)
  \/ f.op \in Writers /\ Writing(f, e, made, t)
  \/ f.op = "pop" /\ Popping(f, n, e, made, t)
  \/ f.op \in {"concat", "slice"} /\ Gathering(f, n, e, made, t)

\* apply has the elements for arguments; then it waits, and has nothing left.
Applying(f, n, e) ==
  \/ /\ f.waits = "nothing" /\ n <= MaxArguments
     /\ \E q \in Seq(Takes) : f.work = Append(q, Invoke) /\ f.made \o Vals(e, q) = Shown(n, e)
  \/ f.waits = "callback" /\ f.work = <<Invoke>> /\ f.made = <<>>
  \/ f.waits = "nothing" /\ f.work = <<>> /\ f.made = <<>>

Promised(f, n, e) ==
  /\ f.op = "forEach" => f.made = <<>> /\ \A j \in DOMAIN f.work : f.work[j].do = "call"
  /\ f.op = "apply" => Applying(f, n, e)
  /\ f.op \notin Callers =>
       /\ f.waits = "nothing" /\ f.before \in Seq(Readable)
       /\ \E made \in Seq(Readable), t \in Seq(Readable) :
            Outcome(f.op, f.before, made, t) /\ Toward(f, n, e, made, t)

-----------------------------------------------------------------------------

LEMMA JoinedTail ==
  ASSUME NEW S, NEW q \in Seq(S), NEW w \in Seq(S), q # <<>>
  PROVE  /\ Head(q \o w) = q[1] /\ Tail(q \o w) = Tail(q) \o w /\ q \o w # <<>>
         /\ 1 \in DOMAIN q /\ q[1] \in S /\ Tail(q) \in Seq(S)
  <1>1. 1 \in DOMAIN q /\ q[1] \in S /\ Tail(q) \in Seq(S) /\ Len(q) \in Nat /\ Len(q) >= 1 /\ Len(w) \in Nat
        /\ Len(Tail(q)) = Len(q) - 1
    OBVIOUS
  <1>2. q \o w \in Seq(S) /\ Len(q \o w) = Len(q) + Len(w) /\ (q \o w)[1] = q[1]
    BY <1>1
  <1>3. q \o w # <<>> /\ Head(q \o w) = q[1]
    BY <1>1, <1>2
  <1>4. Tail(q \o w) = Tail(q) \o w
    <2>1. Tail(q \o w) \in Seq(S) /\ Tail(q) \o w \in Seq(S)
          /\ Len(Tail(q \o w)) = Len(q) + Len(w) - 1 /\ Len(Tail(q) \o w) = Len(q) + Len(w) - 1
      BY <1>1, <1>2, <1>3
    <2>2. \A k \in 1..(Len(q) + Len(w) - 1) : Tail(q \o w)[k] = (Tail(q) \o w)[k]
      BY <1>1, <1>2, <1>3
    <2> QED BY <2>1, <2>2
  <1> QED BY <1>1, <1>3, <1>4

LEMMA EmptyJoined ==
  ASSUME NEW S, NEW w \in Seq(S)
  PROVE  <<>> \o w = w /\ w \o <<>> = w
  OBVIOUS

LEMMA AppendedJoined ==
  ASSUME NEW S, NEW m \in Seq(S), NEW x \in S, NEW v \in Seq(S)
  PROVE  Append(m, x) \o v = m \o (<<x>> \o v)
  OBVIOUS

LEMMA PrependedIs ==
  ASSUME NEW S, NEW x \in S, NEW v \in Seq(S)
  PROVE  /\ <<x>> \o v \in Seq(S) /\ Len(<<x>> \o v) = Len(v) + 1 /\ (<<x>> \o v)[1] = x
         /\ \A k \in 1..Len(v) : (<<x>> \o v)[k + 1] = v[k]
  OBVIOUS

LEMMA JoinedThree ==
  ASSUME NEW S, NEW a \in Seq(S), NEW b \in Seq(S), NEW c \in Seq(S)
  PROVE  a \o b \o c = a \o (b \o c)
  OBVIOUS

LEMMA ValsSeq ==
  ASSUME NEW e, AllReadable(e), NEW q \in Seq(Instructions)
  PROVE  Vals(e, q) \in Seq(Readable) /\ Len(Vals(e, q)) = Len(q)
  <1>1. Vals(e, q) \in [1..Len(q) -> Readable] /\ Len(q) \in Nat
    BY AtReadable DEF Vals
  <1> QED BY <1>1, SeqFunction

LEMMA ValsEmpty ==
  ASSUME NEW e
  PROVE  Vals(e, <<>>) = <<>>
  <1>1. Vals(e, <<>>) = [k \in 1..0 |-> At(e, <<>>[k].at)]
    BY DEF Vals
  <1>2. [k \in 1..0 |-> At(e, <<>>[k].at)] = <<>>
    OBVIOUS
  <1> QED BY <1>1, <1>2

\* The next one of those that are to be read.
LEMMA ValsHead ==
  ASSUME NEW e, AllReadable(e), NEW q \in Seq(Instructions), q # <<>>, NEW m \in Seq(Values)
  PROVE  Append(m, At(e, q[1].at)) \o Vals(e, Tail(q)) = m \o Vals(e, q)
  <1> DEFINE x == At(e, q[1].at)
             v == Vals(e, Tail(q))
  <1>1. Tail(q) \in Seq(Instructions) /\ Len(Tail(q)) = Len(q) - 1 /\ Len(q) \in Nat /\ Len(q) >= 1
        /\ \A k \in 1..(Len(q) - 1) : Tail(q)[k] = q[k + 1]
    OBVIOUS
  <1>2. x \in Readable /\ v \in Seq(Readable) /\ Len(v) = Len(q) - 1 /\ Readable \subseteq Values
    BY <1>1, AtReadable, ValsSeq DEF Readable, Values
  <1>3. Vals(e, q) \in Seq(Readable) /\ Len(Vals(e, q)) = Len(q)
    BY ValsSeq
  <1>4. \A k \in 1..Len(q) : Vals(e, q)[k] = At(e, q[k].at)
    BY DEF Vals
  <1>5. \A k \in 1..(Len(q) - 1) : v[k] = At(e, q[k + 1].at)
    BY <1>1 DEF Vals
  <1> HIDE DEF v
  <1>6. <<x>> \o v = Vals(e, q)
    <2> DEFINE l == <<x>> \o v
               r == Vals(e, q)
    <2>0. /\ l \in Seq(Readable) /\ Len(l) = Len(v) + 1 /\ l[1] = x
          /\ \A k \in 1..Len(v) : l[k + 1] = v[k]
      BY <1>2, PrependedIs
    <2> HIDE DEF l
    <2>1. l \in Seq(Readable) /\ Len(l) = Len(q) /\ l[1] = x
      BY <1>1, <1>2, <2>0
    <2>2. \A k \in 1..(Len(q) - 1) : l[k + 1] = v[k]
      BY <1>2, <2>0
    <2>3. r \in Seq(Readable) /\ Len(r) = Len(q)
      BY <1>3
    <2>4. \A k \in 1..Len(q) : l[k] = r[k]
      <3> TAKE k \in 1..Len(q)
      <3>1. CASE k = 1
        BY <1>4, <2>1, <3>1
      <3>2. CASE k # 1
        <4>1. k - 1 \in 1..(Len(q) - 1) /\ k - 1 + 1 = k
          BY <1>1, <3>2
        <4>2. l[k] = v[k - 1]
          BY <2>2, <4>1
        <4>3. v[k - 1] = At(e, q[k].at)
          BY <1>5, <4>1
        <4> QED BY <1>4, <4>2, <4>3
      <3> QED BY <3>1, <3>2
    <2> HIDE DEF r
    <2>5. l = r
      BY <2>1, <2>3, <2>4
    <2> QED BY <2>5 DEF l, r
  <1>7. m \in Seq(Values) /\ x \in Values /\ v \in Seq(Values)
    BY <1>2
  <1> HIDE DEF x
  <1>8. Append(m, x) \o v = m \o (<<x>> \o v)
    BY <1>7, AppendedJoined
  <1> QED BY <1>6, <1>8 DEF x, v

LEMMA TakesInstructions ==
  /\ Seq(Takes) \subseteq Seq(Instructions) /\ Seq(Collects) \subseteq Seq(Instructions)
  /\ Seq(Deeds) \subseteq Seq(Instructions)
  BY DEF Takes, Collects, Deeds

\* The lengths that instructions set are lengths.
LEMMA LeadsWork ==
  ASSUME NEW w, NEW e, NEW t, Len(t) \in Lengths, Leads(w, e, t)
  PROVE  w \in Seq(Instructions)
  <1>1. PICK u \in Seq(Deeds) : w = Append(u, SetLength(Len(t)))
    BY DEF Leads
  <1>2. SetLength(Len(t)) \in Instructions /\ u \in Seq(Instructions)
    BY TakesInstructions, Constructors DEF Fresh
  <1> QED BY <1>1, <1>2

-----------------------------------------------------------------------------
(* One instruction more.                                                   *)

\* Of an operation that writes, by the next instruction.
LEMMA WritingParts ==
  ASSUME NEW f \in Frame, NEW e, AllReadable(e), NEW made, NEW t \in Seq(Readable), Writing(f, e, made, t)
  PROVE  \/ /\ f.work # <<>> /\ Head(f.work).do = "take"
            /\ \E q \in Seq(Takes), w \in Seq(Instructions) :
                 /\ q # <<>> /\ f.work = q \o w /\ f.made \o Vals(e, q) = made /\ Leads(w, e, t)
                 /\ Head(f.work) = q[1] /\ Tail(f.work) = Tail(q) \o w /\ Tail(q) \in Seq(Takes)
         \/ /\ f.work # <<>> /\ Head(f.work).do \in {"move", "write", "erase", "setLength"}
            /\ Leads(f.work, e, t) /\ f.made = made
  <1>1. PICK q \in Seq(Takes), w \in Seq(Instructions) :
          f.work = q \o w /\ f.made \o Vals(e, q) = made /\ Leads(w, e, t)
    BY DEF Writing
  <1>2. CASE q = <<>>
    <2>1. f.made \in Seq(Values)
      BY DEF Frame
    <2>2. f.work = w
      BY <1>1, <1>2, EmptyJoined
    <2>3. f.made = made
      BY <1>1, <1>2, <2>1, ValsEmpty, EmptyJoined
    <2>4. w # <<>> /\ (Head(w) \in Deeds \/ Head(w) = SetLength(Len(t)))
      BY <1>1, LeadsHead
    <2>5. Head(w).do \in {"move", "write", "erase", "setLength"}
      BY <2>4 DEF Deeds, SetLength
    <2> QED BY <1>1, <2>2, <2>3, <2>4, <2>5
  <1>3. CASE q # <<>>
    <2>1. q \in Seq(Instructions)
      BY TakesInstructions
    <2>2. Head(f.work) = q[1] /\ Tail(f.work) = Tail(q) \o w /\ f.work # <<>>
      BY <1>1, <1>3, <2>1, JoinedTail
    <2>3. q[1] \in Takes /\ Tail(q) \in Seq(Takes)
      BY <1>3
    <2>4. q[1].do = "take"
      BY <2>3 DEF Takes
    <2> QED BY <1>1, <1>3, <2>2, <2>3, <2>4
  <1> QED BY <1>2, <1>3

LEMMA WritingTakes ==
  ASSUME NEW f \in Frame, NEW e, AllReadable(e), NEW made, NEW t \in Seq(Readable), Writing(f, e, made, t),
         Head(f.work).do = "take", NEW g, g.work = Tail(f.work),
         g.made = Append(f.made, At(e, Head(f.work).at))
  PROVE  Writing(g, e, made, t)
  <1>1. PICK q \in Seq(Takes), w \in Seq(Instructions) :
          /\ q # <<>> /\ f.work = q \o w /\ f.made \o Vals(e, q) = made /\ Leads(w, e, t)
          /\ Head(f.work) = q[1] /\ Tail(f.work) = Tail(q) \o w /\ Tail(q) \in Seq(Takes)
    BY WritingParts
  <1>2. q \in Seq(Instructions) /\ f.made \in Seq(Values)
    BY TakesInstructions DEF Frame
  <1>3. g.made \o Vals(e, Tail(q)) = made
    BY <1>1, <1>2, ValsHead
  <1> QED BY <1>1, <1>3 DEF Writing

\* A frame that only leads to t.
LEMMA LeadingWrites ==
  ASSUME NEW f, f.made \in Seq(Values), NEW e, NEW t, Len(t) \in Lengths, Leads(f.work, e, t)
  PROVE  Writing(f, e, f.made, t)
  <1>1. f.work \in Seq(Instructions)
    BY LeadsWork
  <1>2. <<>> \in Seq(Takes) /\ <<>> \o f.work = f.work
    BY <1>1, EmptyJoined
  <1>3. f.made \o Vals(e, <<>>) = f.made
    BY ValsEmpty, EmptyJoined
  <1> QED BY <1>1, <1>2, <1>3 DEF Writing

\* The length is set last.
LEMMA LeadsEnds ==
  ASSUME NEW w, NEW e, NEW t \in Seq(Readable), Leads(w, e, t), Head(w).do = "setLength"
  PROVE  Head(w).to = Len(t) /\ Tail(w) = <<>> /\ Shown(Len(t), e) = t
  <1>1. Head(w) = SetLength(Len(t)) /\ Tail(w) = <<>> /\ \A x \in DOMAIN t : At(e, x - 1) = t[x]
    BY LeadsHead DEF Deeds
  <1>2. t = [x \in 1..Len(t) |-> t[x]] /\ DOMAIN t = 1..Len(t)
    OBVIOUS
  <1>3. Shown(Len(t), e) = t
    BY <1>1, <1>2 DEF Shown
  <1> QED BY <1>1, <1>3 DEF SetLength

\* Of concat and slice.
LEMMA OneBefore ==
  ASSUME NEW x, NEW y
  PROVE  <<x>> \o <<y>> # <<>> /\ Head(<<x>> \o <<y>>) = x /\ Tail(<<x>> \o <<y>>) = <<y>>
  <1>1. PICK a, b : a = <<x>> /\ b = <<y>>
    OBVIOUS
  <1>2. a \in Seq({x, y}) /\ b \in Seq({x, y}) /\ a # <<>> /\ a[1] = x /\ Tail(a) = <<>>
    BY <1>1
  <1>3. a \o b # <<>> /\ Head(a \o b) = a[1] /\ Tail(a \o b) = Tail(a) \o b
    BY <1>2, JoinedTail
  <1>4. Tail(a) \o b = b
    BY <1>2, EmptyJoined
  <1> QED BY <1>1, <1>2, <1>3, <1>4

LEMMA PartReads ==
  ASSUME NEW i, NEW c, NEW s, Part(i, c, s)
  PROVE  i.do \in {"spread", "add"}
  BY DEF Part, Spread, Add

LEMMA ShortParts ==
  ASSUME NEW w, NEW c, NEW s, Short(w, c, s)
  PROVE  w = <<>> \/ (w # <<>> /\ Head(w).do \in {"spread", "add"} /\ Tail(w) = <<>> /\ Part(Head(w), c, s))
  <1>1. CASE \E i : w = <<i>> /\ Part(i, c, s)
    <2>1. PICK i : w = <<i>> /\ Part(i, c, s)
      BY <1>1
    <2>2. w # <<>> /\ Head(w) = i /\ Tail(w) = <<>>
      BY <2>1
    <2> QED BY <2>1, <2>2, PartReads
  <1> QED BY <1>1 DEF Short

LEMMA AddsParts ==
  ASSUME NEW w \in Seq(Instructions), NEW c, NEW s, Adds(w, c, s)
  PROVE  \/ w = <<>> /\ s = <<>>
         \/ /\ w # <<>> /\ Head(w).do = "spread"
            /\ \E s2 : Short(Tail(w), c, s2) /\ (s = c \o s2 \/ (s2 = <<>> /\ s = c))
         \/ /\ w # <<>> /\ Head(w).do = "add" /\ Tail(w) = <<>> /\ s = <<Head(w).value>>
  <1>1. CASE Short(w, c, s)
    <2>1. CASE w = <<>>
      BY <1>1, <2>1 DEF Short
    <2>2. CASE w # <<>> /\ Head(w).do \in {"spread", "add"} /\ Tail(w) = <<>> /\ Part(Head(w), c, s)
      <3>1. CASE Head(w) = Spread /\ s = c
        <4>1. Short(Tail(w), c, <<>>) /\ Head(w).do = "spread"
          BY <2>2, <3>1 DEF Short, Spread
        <4> QED BY <2>2, <3>1, <4>1
      <3>2. CASE \E v \in Datum : Head(w) = Add(v) /\ s = <<v>>
        BY <2>2, <3>2 DEF Add
      <3> QED BY <2>2, <3>1, <3>2 DEF Part
    <2> QED BY <1>1, <2>1, <2>2, ShortParts
  <1>2. CASE \E w2, s2 : Short(w2, c, s2) /\ w = <<Spread>> \o w2 /\ s = c \o s2
    <2>1. PICK w2, s2 : Short(w2, c, s2) /\ w = <<Spread>> \o w2 /\ s = c \o s2
      BY <1>2
    <2>2. w2 = <<>> \/ \E i : w2 = <<i>>
      BY <2>1 DEF Short
    <2>3. w # <<>> /\ Head(w) = Spread /\ Tail(w) = w2
      <3>1. CASE w2 = <<>>
        BY <2>1, <3>1
      <3>2. CASE \E i : w2 = <<i>>
        <4>1. PICK i : w2 = <<i>>
          BY <3>2
        <4>2. w = <<Spread>> \o <<i>>
          BY <2>1, <4>1
        <4> QED BY <4>1, <4>2, OneBefore
      <3> QED BY <2>2, <3>1, <3>2
    <2>4. Head(w).do = "spread"
      BY <2>3 DEF Spread
    <2> QED BY <2>1, <2>3, <2>4
  <1> QED BY <1>1, <1>2 DEF Adds

\* The next instruction of those that read decides.
LEMMA GatheringParts ==
  ASSUME NEW f \in Frame, NEW n \in Nat, NEW e, AllReadable(e), NEW made, NEW t \in Seq(Readable),
         Gathering(f, n, e, made, t)
  PROVE  \/ f.work = <<>> /\ f.made = made
         \/ /\ f.work # <<>> /\ Head(f.work).do = "collect"
            /\ \E q \in Seq(Collects), w \in Seq(Instructions), s \in Seq(Readable) :
                 /\ q # <<>> /\ f.work = q \o w /\ f.made \o Vals(e, q) \o s = made /\ Adds(w, t, s)
                 /\ Head(f.work) = q[1] /\ Tail(f.work) = Tail(q) \o w /\ Tail(q) \in Seq(Collects)
         \/ /\ f.work # <<>> /\ Head(f.work).do \in {"spread", "add"}
            /\ \E s \in Seq(Readable) : Adds(f.work, t, s) /\ f.made \o s = made
  <1>1. PICK q \in Seq(Collects), w \in Seq(Instructions), s \in Seq(Readable) :
          f.work = q \o w /\ f.made \o Vals(e, q) \o s = made /\ Adds(w, t, s)
    BY DEF Gathering
  <1>2. f.made \in Seq(Values)
    BY DEF Frame
  <1>3. CASE q = <<>>
    <2>1. f.work = w
      BY <1>1, <1>3, EmptyJoined
    <2>2. f.made \o s = made
      <3>1. f.made \o Vals(e, q) = f.made
        BY <1>2, <1>3, ValsEmpty, EmptyJoined
      <3> QED BY <1>1, <3>1
    <2>3. CASE w = <<>> /\ s = <<>>
      BY <1>2, <2>1, <2>2, <2>3, EmptyJoined
    <2>4. CASE w # <<>> /\ Head(w).do \in {"spread", "add"}
      BY <1>1, <2>1, <2>2, <2>4
    <2> QED BY <1>1, <2>3, <2>4, AddsParts
  <1>4. CASE q # <<>>
    <2>1. q \in Seq(Instructions)
      BY TakesInstructions
    <2>2. Head(f.work) = q[1] /\ Tail(f.work) = Tail(q) \o w /\ f.work # <<>>
      BY <1>1, <1>4, <2>1, JoinedTail
    <2>3. q[1] \in Collects /\ Tail(q) \in Seq(Collects)
      BY <1>4
    <2>4. q[1].do = "collect"
      BY <2>3 DEF Collects
    <2> QED BY <1>1, <1>4, <2>2, <2>3, <2>4
  <1> QED BY <1>3, <1>4

LEMMA GatheringCollects ==
  ASSUME NEW f \in Frame, NEW n \in Nat, NEW e, AllReadable(e), NEW made, NEW t \in Seq(Readable),
         Gathering(f, n, e, made, t), f.work # <<>>, Head(f.work).do = "collect",
         NEW g, g.work = Tail(f.work), g.made = Append(f.made, At(e, Head(f.work).at))
  PROVE  Gathering(g, n, e, made, t)
  <1>1. PICK q \in Seq(Collects), w \in Seq(Instructions), s \in Seq(Readable) :
          /\ q # <<>> /\ f.work = q \o w /\ f.made \o Vals(e, q) \o s = made /\ Adds(w, t, s)
          /\ Head(f.work) = q[1] /\ Tail(f.work) = Tail(q) \o w /\ Tail(q) \in Seq(Collects)
    BY GatheringParts
  <1>2. q \in Seq(Instructions) /\ f.made \in Seq(Values)
    BY TakesInstructions DEF Frame
  <1>3. g.made \o Vals(e, Tail(q)) = f.made \o Vals(e, q)
    BY <1>1, <1>2, ValsHead
  <1>4. g.made \o Vals(e, Tail(q)) \o s = made
    BY <1>1, <1>3
  <1> QED BY <1>1, <1>4 DEF Gathering

LEMMA EachCollect ==
  ASSUME NEW m \in Nat, NEW n \in Int, NEW e
  PROVE  LET l == IF n > m THEN n - m ELSE 0 IN
         /\ Each(Collect, m, n) \in Seq(Collects)
         /\ Vals(e, Each(Collect, m, n)) = [k \in 1..l |-> At(e, m + k - 1)]
  <1>1. PICK l : l = IF n > m THEN n - m ELSE 0
    OBVIOUS
  <1> DEFINE q == Each(Collect, m, n)
  <1>2. q = [k \in 1..l |-> Collect(m + k - 1)]
    BY <1>1 DEF Each
  <1>3. l \in Nat
    BY <1>1
  <1>4. \A k \in 1..l : Collect(m + k - 1) \in Collects /\ Collect(m + k - 1).at = m + k - 1
    <2>1. \A i \in Int : Collect(i) \in Collects /\ Collect(i).at = i
      BY Constructors DEF Fresh, Collects, Collect
    <2>2. \A k \in 1..l : m + k - 1 \in Int
      BY <1>3
    <2> QED BY <2>1, <2>2
  <1> HIDE DEF q
  <1>5. q \in [1..l -> Collects]
    BY <1>2, <1>4
  <1>6. Vals(e, q) = [k \in 1..l |-> At(e, m + k - 1)]
    <2>1. DOMAIN q = 1..l
      BY <1>2
    <2>2. \A k \in 1..l : q[k].at = m + k - 1
      BY <1>2, <1>4
    <2> QED BY <2>1, <2>2 DEF Vals
  <1> QED BY <1>1, <1>3, <1>5, <1>6, SeqFunction DEF q

-----------------------------------------------------------------------------
(* The steps of the contract.                                              *)

\* What the contract knows of an array without accessors.
SeenOf(fs, n, e) ==
  IF fs # <<>> /\ Last(fs).waits = "nothing" /\ Last(fs).op \notin Callers
  THEN Last(fs).before ELSE Shown(n, e)

LEMMA SeenIs ==
  /\ past.plain => Seen = SeenOf(frames, length, elements)
  /\ past'.plain => Seen' = SeenOf(frames', length', elements')
  /\ past'.plain => Told' = [op |-> answer'.op, made |-> answer'.made, threw |-> answer'.threw]
  /\ past.plain => Told = [op |-> answer.op, made |-> answer.made, threw |-> answer.threw]
  BY ContentShown DEF Seen, SeenOf, Told, HalfDone, ProgramRuns, Runner, Callers, Content, Shown, ValueAt, At

LEMMA SameSequences ==
  /\ \A S, n : Contract!SeqOf(S, n) = SeqOf(S, n)
  /\ \A s : Contract!Front(s) = Front(s)
  /\ \A s : Contract!Last(s) = Last(s)
  BY DEF Contract!SeqOf, SeqOf, Contract!Front, Front, Contract!Last, Last

LEMMA ContractStays ==
  ASSUME past.plain, past'.plain = past.plain, Seen' = Seen, answer' = answer
  PROVE  UNCHANGED Contract!vars
  BY SeenIs DEF Contract!vars

LEMMA ContractGoes ==
  ASSUME past.plain, past'.plain = past.plain, Contract!Operation
  PROVE  Contract!Next
  BY DEF Contract!Next

LEMMA ContractForfeits ==
  ASSUME past.plain, past'.plain = FALSE
  PROVE  Contract!Next
  <1>1. Seen' = <<>> /\ Told' = Contract!NoAnswer
    BY DEF Seen, Told, Contract!NoAnswer
  <1>2. Contract!Forfeit
    BY <1>1 DEF Contract!Forfeit
  <1> QED BY <1>2 DEF Contract!Next

LEMMA ContractForgets ==
  ASSUME past.plain, past'.plain = past.plain, Seen' = Seen, answer' = NoAnswer
  PROVE  Contract!Next
  <1>1. Told' = Contract!NoAnswer
    BY SeenIs DEF NoAnswer, Contract!NoAnswer
  <1>2. Contract!Forget
    BY <1>1 DEF Contract!Forget
  <1> QED BY <1>2, ContractGoes DEF Contract!Operation

\* A caller of functions ends.
LEMMA ContractCallsEnd ==
  ASSUME past.plain, past'.plain = past.plain, Seen' = Seen,
         NEW op \in Callers, NEW threw \in BOOLEAN, NEW inside, Answer(op, <<>>, threw, inside)
  PROVE  Contract!Next
  <1>1. Told' = [op |-> op, made |-> <<>>, threw |-> threw]
    BY SeenIs DEF Answer
  <1>2. Contract!CallsEnd
    BY <1>1 DEF Contract!CallsEnd, Callers
  <1> QED BY <1>2, ContractGoes DEF Contract!Operation

\* apply calls its function with the elements.
LEMMA ContractApplies ==
  ASSUME past.plain, past'.plain = past.plain, Seen' = Seen, Len(Seen) <= MaxArguments,
         NEW inside, Answer("apply", Seen, FALSE, inside)
  PROVE  Contract!Next
  <1>1. Told' = [op |-> "apply", made |-> Seen, threw |-> FALSE]
    BY SeenIs DEF Answer
  <1>2. Contract!Apply
    BY <1>1 DEF Contract!Apply, Contract!Answers
  <1> QED BY <1>2, ContractGoes DEF Contract!Operation

\* pop or shift of an empty array.
LEMMA ContractFindsNothing ==
  ASSUME past.plain, past'.plain = past.plain, Seen' = Seen, Seen = <<>>,
         NEW op \in {"pop", "shift"}, NEW inside, Answer(op, <<Undefined>>, FALSE, inside)
  PROVE  Contract!Next
  <1>1. Told' = [op |-> op, made |-> <<Undefined>>, threw |-> FALSE]
    BY SeenIs DEF Answer
  <1>2. CASE op = "pop"
    <2>1. Contract!Pop
      BY <1>1, <1>2 DEF Contract!Pop, Contract!Answers
    <2> QED BY <2>1, ContractGoes DEF Contract!Operation
  <1>3. CASE op = "shift"
    <2>1. Seen = <<>> /\ Seen' = Seen /\ Contract!Answers("shift", <<Undefined>>)
      BY <1>1, <1>3 DEF Contract!Answers
    <2> QED BY <2>1, ContractGoes DEF Contract!Operation
  <1> QED BY <1>2, <1>3

LEMMA FlattenedOne ==
  ASSUME NEW x
  PROVE  Contract!FlattenSeq(<<x>>) = x /\ Contract!FlattenSeq(<<>>) = <<>>
  <1> DEFINE F(f) == [i \in 1..1 |-> IF i = 1 THEN <<x>>[i] ELSE f[i - 1] \o <<x>>[i]]
             g == [i \in 1..1 |-> x]
             f == CHOOSE f : f = F(f)
  <1>1. g = F(g)
    OBVIOUS
  <1> HIDE DEF g
  <1>2. f = F(f)
    BY <1>1
  <1> HIDE DEF f
  <1>3. f[1] = x
    BY <1>2
  <1>4. Len(<<x>>) = 1 /\ Len(<<>>) = 0
    OBVIOUS
  <1>5. Contract!FlattenSeq(<<>>) = <<>>
    BY <1>4 DEF Contract!FlattenSeq
  <1>6. Contract!FlattenSeq(<<x>>) = f[1]
    BY <1>4 DEF Contract!FlattenSeq, f
  <1> QED BY <1>3, <1>5, <1>6

LEMMA ShortItems ==
  ASSUME NEW S, NEW items \in SeqOf(S, 1)
  PROVE  items \in Seq(S) /\ (items = <<>> \/ (DOMAIN items = 1..1 /\ items[1] \in S /\ items = <<items[1]>>))
  <1>1. PICK m \in 0..1 : items \in [1..m -> S]
    BY DEF SeqOf
  <1>2. items \in Seq(S) /\ Len(items) = m
    BY <1>1, SeqFunction
  <1>3. m = 0 \/ m = 1
    OBVIOUS
  <1>4. CASE m = 0
    BY <1>2, <1>4
  <1>5. CASE m = 1
    <2>1. Len(items) = 1 /\ DOMAIN items = 1..1
      BY <1>2, <1>5
    <2>2. items[1] \in S /\ items = <<items[1]>>
      BY <1>2, <2>1
    <2> QED BY <1>2, <2>1, <2>2
  <1> QED BY <1>3, <1>4, <1>5

\* An operation that is done at once.
LEMMA ContractReturns ==
  ASSUME past.plain, past'.plain = past.plain, NEW op, NEW made, NEW inside,
         Outcome(op, Seen, made, Seen'), Answer(op, made, FALSE, inside)
  PROVE  Contract!Next
  <1>1. PICK c, t : c = Seen /\ t = Seen'
    OBVIOUS
  <1>2. Told' = [op |-> op, made |-> made, threw |-> FALSE]
    BY SeenIs DEF Answer
  <1>3. Outcome(op, c, made, t)
    BY <1>1
  <1>4. CASE op = "push" /\ made = <<>> /\ \E items \in SeqOf(Datum, MaxItems) : t = c \o items
    <2>1. PICK items \in Contract!SeqOf(Datum, MaxItems) : t = c \o items
      BY <1>4, SameSequences
    <2>2. Contract!Push(items)
      BY <1>1, <1>2, <1>4, <2>1 DEF Contract!Push, Contract!Answers
    <2> QED BY <2>1, <2>2, ContractGoes DEF Contract!Operation
  <1>5. CASE op = "pop" /\ c # <<>> /\ t = Front(c) /\ made = <<Last(c)>>
    <2>1. Contract!Pop
      BY <1>1, <1>2, <1>5, SameSequences DEF Contract!Pop, Contract!Answers
    <2> QED BY <2>1, ContractGoes DEF Contract!Operation
  <1>6. CASE /\ op = "splice"
             /\ \E start \in 0..Len(c), items \in SeqOf(Datum, MaxItems) : \E count \in 0..(Len(c) - start) :
                  t = Spliced(c, start, count, items) /\ made = SubSeq(c, start + 1, start + count)
    <2>0. PICK start \in 0..Len(c), items \in Contract!SeqOf(Datum, MaxItems) :
            \E count \in 0..(Len(c) - start) :
              t = Spliced(c, start, count, items) /\ made = SubSeq(c, start + 1, start + count)
      BY <1>6, SameSequences
    <2>1. PICK count \in 0..(Len(c) - start) :
            t = Spliced(c, start, count, items) /\ made = SubSeq(c, start + 1, start + count)
      BY <2>0
    <2>2. Contract!Splice("splice", start, count, items)
      BY <1>1, <1>2, <1>6, <2>1 DEF Contract!Splice, Contract!Answers, Spliced
    <2>3. \E i \in 0..Len(Seen), s \in Contract!SeqOf(Datum, MaxItems) : \E k \in 0..(Len(Seen) - i) :
            Contract!Splice("splice", i, k, s)
      BY <1>1, <2>1, <2>2
    <2> QED BY <2>3, ContractGoes DEF Contract!Operation
  <1>7. CASE op = "shift" /\ c # <<>> /\ t = Spliced(c, 0, 1, <<>>) /\ made = SubSeq(c, 0 + 1, 0 + 1)
    <2>1. Seen # <<>> /\ Contract!Splice("shift", 0, 1, <<>>)
      BY <1>1, <1>2, <1>7 DEF Contract!Splice, Contract!Answers, Spliced
    <2> QED BY <2>1, ContractGoes DEF Contract!Operation
  <1>8. CASE /\ op = "concat" /\ t = c
             /\ \E items \in SeqOf(Datum \cup {ThisArray}, 1) : made = c \o Added(c, items)
    <2>1. PICK items \in SeqOf(Datum \cup {ThisArray}, 1) : made = c \o Added(c, items)
      BY <1>8
    <2>2. items = <<>> \/ DOMAIN items = 1..1
      BY ShortItems
    <2>3. Added(c, items) = Contract!FlattenSeq([k \in DOMAIN items |-> Contract!Spread(items[k])])
      <3>1. CASE items = <<>>
        <4>1. [k \in DOMAIN items |-> Contract!Spread(items[k])] = <<>>
          BY <3>1
        <4> QED BY <3>1, <4>1, FlattenedOne DEF Added
      <3>2. CASE items # <<>>
        <4>1. DOMAIN items = 1..1
          BY <2>2, <3>2
        <4>2. [k \in DOMAIN items |-> Contract!Spread(items[k])] = <<Contract!Spread(items[1])>>
          BY <4>1
        <4>3. Contract!FlattenSeq(<<Contract!Spread(items[1])>>) = Contract!Spread(items[1])
          BY FlattenedOne
        <4>4. Added(c, items) = Contract!Spread(items[1])
          BY <1>1, <3>2 DEF Added, Contract!Spread
        <4> QED BY <4>2, <4>3, <4>4
      <3> QED BY <3>1, <3>2
    <2>4. Contract!Concat(items)
      BY <1>1, <1>2, <1>8, <2>1, <2>3 DEF Contract!Concat, Contract!Answers
    <2> QED BY <2>4, SameSequences, ContractGoes DEF Contract!Operation
  <1>9. CASE /\ op = "slice" /\ t = c
             /\ \E begin \in 0..MaxLength, end \in SliceEnds :
                  /\ made \in [1..(IF EndIn(end, Len(c)) > begin THEN EndIn(end, Len(c)) - begin ELSE 0) -> Readable]
                  /\ \A k \in DOMAIN made : begin + k \in DOMAIN c => made[k] = c[begin + k]
    <2>1. PICK begin \in 0..MaxLength, end \in SliceEnds :
            /\ made \in [1..(IF EndIn(end, Len(c)) > begin THEN EndIn(end, Len(c)) - begin ELSE 0) -> Readable]
            /\ \A k \in DOMAIN made : begin + k \in DOMAIN c => made[k] = c[begin + k]
      BY <1>9
    <2>2. Contract!SliceEnd(end) = EndIn(end, Len(c)) /\ end \in Contract!SliceEnds
      BY <1>1 DEF Contract!SliceEnd, EndIn, Contract!SliceEnds, SliceEnds
    <2>3. made \in [1..(IF Contract!SliceEnd(end) > begin THEN Contract!SliceEnd(end) - begin ELSE 0)
                      -> Contract!Readable]
      BY <2>1, <2>2 DEF Contract!Readable, Readable
    <2>4. Contract!Slice(begin, end)
      BY <1>1, <1>2, <1>9, <2>1, <2>3 DEF Contract!Slice, Contract!Answers
    <2> QED BY <2>2, <2>4, ContractGoes DEF Contract!Operation
  <1> QED BY <1>3, <1>4, <1>5, <1>6, <1>7, <1>8, <1>9 DEF Outcome

-----------------------------------------------------------------------------
(* Frames.                                                                 *)

Faithful(n, e, fs) == AllReadable(e) /\ \A k \in DOMAIN fs : Promised(fs[k], n, e)
CInv == past.plain => Faithful(length, elements, frames)

\* What waits for a callback asks nothing of the array.
LEMMA WaitingPromised ==
  ASSUME NEW f, f.waits = "callback", NEW n, NEW e, Promised(f, n, e), NEW n2, NEW e2
  PROVE  Promised(f, n2, e2)
  BY DEF Promised, Applying

LEMMA FaithfulGrow ==
  ASSUME NEW fs \in Seq(Frame), \A k \in DOMAIN fs : fs[k].waits = "callback" /\ \E n, e : Promised(fs[k], n, e),
         NEW f \in Frame, NEW n, NEW e, AllReadable(e), Promised(f, n, e)
  PROVE  Faithful(n, e, fs) /\ Faithful(n, e, Append(fs, f))
  <1>1. \A k \in DOMAIN fs : Promised(fs[k], n, e)
    BY WaitingPromised
  <1>2. \A k \in DOMAIN Append(fs, f) : Append(fs, f)[k] = IF k \in DOMAIN fs THEN fs[k] ELSE f
    OBVIOUS
  <1> QED BY <1>1, <1>2 DEF Faithful

\* All frames but the innermost wait, and while the program runs the innermost, too.
LEMMA OuterWait ==
  ASSUME IInv, BInv, CInv, past.plain
  PROVE  /\ frames \in Seq(Frame)
         /\ ProgramRuns => \A k \in DOMAIN frames :
              frames[k].waits = "callback" /\ Promised(frames[k], length, elements)
         /\ frames # <<>> =>
              /\ Front(frames) \in Seq(Frame) /\ Promised(Runner, length, elements)
              /\ \A k \in DOMAIN Front(frames) :
                   Front(frames)[k].waits = "callback" /\ Promised(Front(frames)[k], length, elements)
              /\ Front(frames) # <<>> => Last(Front(frames)).waits = "callback"
  <1>1. frames \in Seq(Frame) /\ QuietFrames(frames) /\ \A k \in DOMAIN frames : Promised(frames[k], length, elements)
    BY DEF IInv, FramesOK, BInv, Calm, CInv, Faithful
  <1>2. ASSUME frames # <<>>
        PROVE  /\ Front(frames) \in Seq(Frame) /\ Promised(Runner, length, elements)
               /\ Runner = frames[Len(frames)]
               /\ \A k \in DOMAIN Front(frames) :
                    /\ k \in DOMAIN frames /\ Front(frames)[k] = frames[k] /\ k < Len(frames)
                    /\ frames[k].waits = "callback"
               /\ Front(frames) # <<>> => Last(Front(frames)).waits = "callback"
    <2> DEFINE g == Front(frames)
    <2>1. g \in Seq(Frame) /\ Last(frames) = frames[Len(frames)] /\ Len(frames) \in DOMAIN frames
          /\ \A k \in DOMAIN g : k \in DOMAIN frames /\ g[k] = frames[k]
      BY <1>1, <1>2, SeqFront
    <2>2. \A k \in DOMAIN g : k < Len(frames)
      BY <1>1, <1>2 DEF Front
    <2>3. g # <<>> => Last(g).waits = "callback"
      BY <1>1, <1>2, QuietShrink
    <2> HIDE DEF g
    <2>4. \A k \in DOMAIN g : frames[k].waits = "callback"
      BY <1>1, <2>1, <2>2 DEF QuietFrames
    <2> QED BY <1>1, <2>1, <2>2, <2>3, <2>4 DEF Runner, g
  <1>3. ASSUME ProgramRuns, NEW k \in DOMAIN frames
        PROVE  frames[k].waits = "callback"
    <2>1. frames # <<>> /\ k \in 1..Len(frames) /\ Len(frames) \in Nat
      BY <1>1
    <2>2. Runner.waits = "callback"
      BY <1>3, <2>1, ProgramReads DEF ProgramRuns
    <2>3. CASE k = Len(frames)
      BY <1>2, <2>1, <2>2, <2>3
    <2>4. CASE k < Len(frames)
      BY <1>1, <2>4 DEF QuietFrames
    <2> QED BY <2>1, <2>3, <2>4
  <1> QED BY <1>1, <1>2, <1>3

\* What is seen while the program runs, and while an operation does.
LEMMA SeenRunning ==
  ASSUME past.plain, frames # <<>>, Runner.waits = "nothing"
  PROVE  Seen = IF Runner.op \in Callers THEN Shown(length, elements) ELSE Runner.before
  BY SeenIs DEF SeenOf, Runner

LEMMA SeenIdle ==
  ASSUME past.plain, ProgramRuns
  PROVE  Seen = Shown(length, elements)
  BY SeenIs DEF SeenOf, ProgramRuns, Runner

\* What is seen after a step.
LEMMA SeenNext ==
  ASSUME IInv, BInv, CInv, past.plain, past'.plain, frames # <<>>
  PROVE  /\ frames' = Front(frames) => Seen' = Shown(length', elements')
         /\ \A g \in Frame : frames' = WithRunner(g) =>
              Seen' = IF g.waits = "nothing" /\ g.op \notin Callers THEN g.before ELSE Shown(length', elements')
  <1>1. Front(frames) \in Seq(Frame) /\ (Front(frames) # <<>> => Last(Front(frames)).waits = "callback")
    BY OuterWait
  <1>2. ASSUME frames' = Front(frames)
        PROVE  Seen' = Shown(length', elements')
    BY <1>1, <1>2, SeenIs DEF SeenOf
  <1>3. ASSUME NEW g \in Frame, frames' = WithRunner(g)
        PROVE  Seen' = IF g.waits = "nothing" /\ g.op \notin Callers THEN g.before ELSE Shown(length', elements')
    <2>1. Last(frames') = g
      BY <1>1, <1>3, LastAppended DEF WithRunner
    <2>2. frames' # <<>>
      BY <1>1, <1>3 DEF WithRunner
    <2> QED BY <2>1, <2>2, SeenIs DEF SeenOf
  <1> QED BY <1>2, <1>3

LEMMA FaithfulNext ==
  ASSUME IInv, BInv, CInv, past.plain, frames # <<>>, AllReadable(elements')
  PROVE  /\ frames' = Front(frames) => CInv'
         /\ \A g \in Frame : frames' = WithRunner(g) /\ Promised(g, length', elements') => CInv'
  <1>1. /\ Front(frames) \in Seq(Frame)
        /\ \A k \in DOMAIN Front(frames) :
             Front(frames)[k].waits = "callback" /\ Promised(Front(frames)[k], length, elements)
    BY OuterWait
  <1>2. ASSUME frames' = Front(frames)
        PROVE  CInv'
    <2>1. \A k \in DOMAIN Front(frames) : Promised(Front(frames)[k], length', elements')
      BY <1>1, WaitingPromised
    <2> QED BY <1>2, <2>1 DEF CInv, Faithful
  <1>3. ASSUME NEW g \in Frame, frames' = WithRunner(g), Promised(g, length', elements')
        PROVE  CInv'
    <2>1. Faithful(length', elements', Append(Front(frames), g))
      BY <1>1, <1>3, FaithfulGrow
    <2> QED BY <1>3, <2>1 DEF CInv, WithRunner
  <1> QED BY <1>2, <1>3

-----------------------------------------------------------------------------
(* What the program does to the array itself.                              *)

\* The frames go on waiting.
LEMMA ProgramFaithful ==
  ASSUME IInv, BInv, CInv, past.plain, ProgramRuns, UNCHANGED frames, past'.plain, AllReadable(elements')
  PROVE  CInv' /\ Seen = Shown(length, elements) /\ Seen' = Shown(length', elements')
  <1>1. \A k \in DOMAIN frames : frames[k].waits = "callback" /\ Promised(frames[k], length, elements)
    BY OuterWait
  <1>2. \A k \in DOMAIN frames : Promised(frames[k], length', elements')
    BY <1>1, WaitingPromised
  <1>3. CInv'
    BY <1>2 DEF CInv, Faithful
  <1>4. frames = <<>> \/ Last(frames).waits # "nothing"
    BY DEF ProgramRuns, Runner
  <1>5. Seen' = Shown(length', elements')
    BY <1>4, SeenIs DEF SeenOf
  <1> QED BY <1>3, <1>5, SeenIdle

LEMMA ElementsReadable ==
  ASSUME IInv, CInv, past.plain
  PROVE  AllReadable(elements) /\ length \in Nat /\ lengthValue = length /\ DOMAIN elements \subseteq Indices
         /\ Indices \subseteq Int
  BY LengthNatural DEF CInv, Faithful, IInv, LengthsOK, ElementsOK, Indices

LEMMA PutFaithful ==
  ASSUME IInv, BInv, CInv, past.plain, NEW i \in Indices, NEW v \in Datum, PutElement(i, v)
  PROVE  CInv' /\ Contract!Next
  <1>0. i \in Int /\ i >= 0 /\ i \in 0..(MaxLength - 1)
    BY Bounds DEF Indices
  <1>1. AllReadable(elements) /\ length \in Nat
    BY ElementsReadable
  <1>2. /\ elements' = [j \in DOMAIN elements \cup {i} |-> IF j = i THEN v ELSE elements[j]]
        /\ length' = IF i >= length THEN i + 1 ELSE length
        /\ ProgramRuns /\ UNCHANGED frames /\ past' = past /\ answer' = NoAnswer
    BY DEF PutElement, StoreElement
  <1>3. \A y : At(elements', y) = IF y = i THEN v ELSE At(elements, y)
    BY <1>2 DEF At
  <1>4. AllReadable(elements')
    BY <1>1, <1>2 DEF AllReadable, Readable
  <1>5. CInv' /\ Seen = Shown(length, elements) /\ Seen' = Shown(length', elements')
    BY <1>2, <1>4, ProgramFaithful
  <1>6. length' \in Nat
    BY <1>0, <1>1, <1>2
  <1>7. PICK c, d : c = Seen /\ d = Seen'
    OBVIOUS
  <1>8. /\ c \in Seq(Readable) /\ Len(c) = length /\ \A k \in 1..length : c[k] = At(elements, k - 1)
        /\ DOMAIN c = 1..length /\ c = [k \in 1..length |-> At(elements, k - 1)]
    BY <1>1, <1>5, <1>7, ShownSeq DEF Shown
  <1>9. /\ d \in Seq(Readable) /\ Len(d) = length' /\ \A k \in 1..length' : d[k] = At(elements', k - 1)
        /\ d = [k \in 1..length' |-> At(elements', k - 1)]
    BY <1>4, <1>5, <1>6, <1>7, ShownSeq DEF Shown
  <1>10. ASSUME i < length PROVE d = [c EXCEPT ![i + 1] = v]
    <2>1. length' = length
      BY <1>0, <1>1, <1>2, <1>10
    <2>2. \A k \in 1..length : At(elements', k - 1) = IF k = i + 1 THEN v ELSE c[k]
      BY <1>0, <1>3, <1>8
    <2>3. [c EXCEPT ![i + 1] = v] = [k \in 1..length |-> IF k = i + 1 THEN v ELSE c[k]]
      BY <1>8
    <2> QED BY <1>9, <2>1, <2>2, <2>3
  <1>11. Contract!PutElement(i, v)
    <2>1. answer' = NoAnswer /\ past'.plain
      BY <1>2
    <2>2. Told' = Contract!NoAnswer
      BY <2>1, SeenIs DEF NoAnswer, Contract!NoAnswer
    <2>3. CASE i < length
      <3>1. d = [c EXCEPT ![i + 1] = v]
        BY <1>10, <2>3
      <3> QED BY <1>7, <1>8, <2>2, <2>3, <3>1 DEF Contract!PutElement
    <2>4. CASE ~(i < length)
      <3>1. length' = i + 1
        BY <1>0, <1>1, <1>2, <2>4
      <3>2. d \in [1..(i + 1) -> Readable] /\ d[i + 1] = v
        BY <1>0, <1>3, <1>9, <3>1
      <3>3. \A k \in DOMAIN c : k <= i + 1 => d[k] = c[k]
        BY <1>0, <1>1, <1>3, <1>8, <1>9, <2>4, <3>1
      <3>4. Contract!Becomes(c, i + 1) /\ Seen'[i + 1] = v
        BY <1>7, <3>2, <3>3 DEF Contract!Becomes, Contract!Readable, Readable
      <3> QED BY <1>7, <1>8, <2>2, <2>4, <3>4 DEF Contract!PutElement
    <2> QED BY <2>3, <2>4
  <1>12. Contract!Operation
    BY <1>0, <1>11 DEF Contract!Operation
  <1> QED BY <1>2, <1>5, <1>12, ContractGoes

LEMMA PutLengthFaithful ==
  ASSUME IInv, BInv, CInv, past.plain, past'.plain, NEW n \in 0..MaxLength, PutLength(n)
  PROVE  CInv' /\ Contract!Next
  <1>0. n \in Nat
    BY Bounds
  <1>1. AllReadable(elements) /\ length \in Nat
    BY ElementsReadable
  <1>2. elements' = elements /\ length' = n /\ ProgramRuns /\ UNCHANGED frames /\ answer' = NoAnswer
    BY DEF PutLength, StoreLength
  <1>3. CInv' /\ Seen = Shown(length, elements) /\ Seen' = Shown(length', elements')
    BY <1>1, <1>2, ProgramFaithful
  <1>4. PICK c, d : c = Seen /\ d = Seen'
    OBVIOUS
  <1>5. /\ c \in Seq(Readable) /\ Len(c) = length /\ \A k \in 1..length : c[k] = At(elements, k - 1)
        /\ DOMAIN c = 1..length
    BY <1>1, <1>3, <1>4, ShownSeq
  <1>6. d \in Seq(Readable) /\ Len(d) = n /\ \A k \in 1..n : d[k] = At(elements, k - 1)
    BY <1>0, <1>1, <1>2, <1>3, <1>4, ShownSeq
  <1>7. d \in [1..n -> Readable] /\ \A k \in DOMAIN c : k <= n => d[k] = c[k]
    BY <1>0, <1>1, <1>5, <1>6
  <1>8. Contract!Becomes(c, n)
    BY <1>4, <1>7 DEF Contract!Becomes, Contract!Readable, Readable
  <1>9. Told' = Contract!NoAnswer
    BY <1>2, SeenIs DEF NoAnswer, Contract!NoAnswer
  <1>10. Contract!PutLength(n)
    BY <1>4, <1>8, <1>9 DEF Contract!PutLength
  <1>11. past'.plain = past.plain
    BY DEF PutLength, IInv, PastOK
  <1> QED BY <1>3, <1>10, <1>11, ContractGoes DEF Contract!Operation

LEMMA DeleteFaithful ==
  ASSUME IInv, BInv, CInv, past.plain, NEW i \in Indices, DeleteElement(i)
  PROVE  CInv' /\ Contract!Next
  <1>0. i \in Int /\ i >= 0 /\ i \in 0..(MaxLength - 1)
    BY Bounds DEF Indices
  <1>1. AllReadable(elements) /\ length \in Nat
    BY ElementsReadable
  <1>2. /\ elements' = [j \in DOMAIN elements \ {i} |-> elements[j]]
        /\ length' = length
        /\ ProgramRuns /\ UNCHANGED frames /\ past' = past /\ answer' = NoAnswer
    BY DEF DeleteElement, RemoveElement
  <1>3. \A y : At(elements', y) = IF y = i THEN Undefined ELSE At(elements, y)
    BY <1>2 DEF At
  <1>4. AllReadable(elements')
    BY <1>1, <1>2 DEF AllReadable, Readable
  <1>5. CInv' /\ Seen = Shown(length, elements) /\ Seen' = Shown(length', elements')
    BY <1>2, <1>4, ProgramFaithful
  <1>6. PICK c, d : c = Seen /\ d = Seen'
    OBVIOUS
  <1>7. c = [k \in 1..length |-> At(elements, k - 1)] /\ d = [k \in 1..length |-> At(elements', k - 1)]
    BY <1>2, <1>5, <1>6 DEF Shown
  <1>8. \A k \in 1..length : At(elements', k - 1) = IF k = i + 1 THEN Undefined ELSE At(elements, k - 1)
    BY <1>0, <1>1, <1>3
  <1>9. d = [k \in DOMAIN c |-> IF k = i + 1 THEN Undefined ELSE c[k]]
    BY <1>7, <1>8
  <1>10. Told' = Contract!NoAnswer
    BY <1>2, SeenIs DEF NoAnswer, Contract!NoAnswer
  <1>11. Contract!DeleteElement(i)
    BY <1>6, <1>9, <1>10 DEF Contract!DeleteElement
  <1> QED BY <1>0, <1>2, <1>5, <1>11, ContractGoes DEF Contract!Operation

-----------------------------------------------------------------------------
(* Operations that start.                                                  *)

NewFrame(op, work) ==
  [op |-> op, work |-> work, made |-> <<>>, waits |-> "nothing", before |-> Shown(length, elements),
   inside |-> FALSE]

LEMMA NewFrameParts ==
  ASSUME NEW op, NEW work
  PROVE  /\ NewFrame(op, work).op = op /\ NewFrame(op, work).work = work /\ NewFrame(op, work).made = <<>>
         /\ NewFrame(op, work).waits = "nothing" /\ NewFrame(op, work).before = Shown(length, elements)
  BY DEF NewFrame

LEMMA StartRefines ==
  ASSUME IInv, BInv, CInv, past.plain, NEW op \in Operations, NEW work \in Seq(Instructions), Start(op, work),
         Promised(NewFrame(op, work), length, elements)
  PROVE  CInv' /\ Contract!Next
  <1>1. /\ ProgramRuns /\ frames' = Append(frames, NewFrame(op, work)) /\ answer' = NoAnswer
        /\ UNCHANGED <<length, elements, past>>
    BY ContentShown DEF Start, NewFrame
  <1>2. AllReadable(elements) /\ length \in Nat
    BY ElementsReadable
  <1>3. Shown(length, elements) \in Seq(Readable)
    BY <1>2, ShownSeq
  <1>4. PICK g : g = NewFrame(op, work)
    OBVIOUS
  <1>5. g \in Frame
    <2>1. Shown(length, elements) \in Seq(Slots)
      BY <1>3 DEF Readable, Slots
    <2> QED BY <1>4, <2>1 DEF Frame, NewFrame, Waits
  <1>6. frames \in Seq(Frame) /\ \A k \in DOMAIN frames :
          frames[k].waits = "callback" /\ Promised(frames[k], length, elements)
    BY <1>1, OuterWait
  <1>7. Promised(g, length, elements)
    BY <1>4
  <1>8. Faithful(length, elements, Append(frames, g))
    BY <1>2, <1>5, <1>6, <1>7, FaithfulGrow
  <1>9. CInv'
    BY <1>1, <1>4, <1>8 DEF CInv
  <1>10. Last(frames') = g /\ frames' # <<>>
    BY <1>1, <1>4, <1>5, <1>6, LastAppended
  <1>11. g.before = Shown(length, elements)
    BY <1>4, NewFrameParts
  <1>12. Seen' = Seen
    BY <1>1, <1>10, <1>11, SeenIs, SeenIdle DEF SeenOf
  <1> QED BY <1>1, <1>9, <1>12, ContractForgets

\* What is promised, of what will be returned and left.
LEMMA PromisedStart ==
  ASSUME NEW op, op \notin Callers, NEW work, Shown(length, elements) \in Seq(Readable),
         NEW made \in Seq(Readable), NEW t \in Seq(Readable),
         Outcome(op, Shown(length, elements), made, t),
         Toward(NewFrame(op, work), length, elements, made, t)
  PROVE  Promised(NewFrame(op, work), length, elements)
  BY NewFrameParts DEF Promised, Callers

LEMMA PushRefines ==
  ASSUME IInv, BInv, CInv, past.plain, NEW items \in SeqOf(Datum, MaxItems), Push(items)
  PROVE  CInv' /\ Contract!Next
  <1>1. AllReadable(elements) /\ length \in Nat /\ lengthValue = length
    BY ElementsReadable
  <1>2. items \in Seq(Datum) /\ Len(items) \in Nat
    BY ItemsSeq
  <1>3. length + Len(items) <= MaxLength /\ Start("push", PushWork(length, items))
    BY <1>1 DEF Push
  <1>4. PICK c, t, w : c = Shown(length, elements) /\ t = c \o items /\ w = PushWork(length, items)
    OBVIOUS
  <1>5. t \in Seq(Readable) /\ Leads(w, elements, t)
    BY <1>1, <1>2, <1>3, <1>4, PushLeads
  <1>6. c \in Seq(Readable) /\ Len(c) = length
    BY <1>1, <1>4, ShownSeq
  <1>7. Len(t) \in Lengths
    <2>1. Len(t) = length + Len(items)
      BY <1>2, <1>4, <1>6, ItemsJoined
    <2> QED BY <1>1, <1>2, <1>3, <2>1, Bounds
  <1>8. w \in Seq(Instructions)
    BY <1>5, <1>7, LeadsWork
  <1>9. Outcome("push", c, <<>>, t)
    BY <1>4 DEF Outcome
  <1>10. Toward(NewFrame("push", w), length, elements, <<>>, t)
    <2>1. PICK f : f = NewFrame("push", w)
      OBVIOUS
    <2>2. f.op = "push" /\ f.work = w /\ f.made = <<>>
      BY <2>1, NewFrameParts
    <2>3. Leads(f.work, elements, t) /\ f.made \in Seq(Values)
      BY <1>5, <2>2
    <2>4. Writing(f, elements, f.made, t)
      BY <1>7, <2>3, LeadingWrites
    <2> QED BY <2>1, <2>2, <2>4 DEF Toward, Writers
  <1>11. Promised(NewFrame("push", w), length, elements)
    <2>1. <<>> \in Seq(Readable) /\ "push" \notin Callers
      BY DEF Callers
    <2> QED BY <1>4, <1>5, <1>6, <1>9, <1>10, <2>1, PromisedStart
  <1> QED BY <1>3, <1>4, <1>8, <1>11, StartRefines DEF Operations

\* splice, and shift, which is one.
LEMMA SplicePromised ==
  ASSUME IInv, CInv, past.plain, NEW op \in {"splice", "shift"}, NEW start \in 0..length, NEW count \in 0..(length - start),
         NEW items \in Seq(Datum), length + Len(items) - count <= MaxLength,
         Outcome(op, Shown(length, elements), SubSeq(Shown(length, elements), start + 1, start + count),
                 Spliced(Shown(length, elements), start, count, items))
  PROVE  /\ SpliceWork(length, start, count, items) \in Seq(Instructions)
         /\ Promised(NewFrame(op, SpliceWork(length, start, count, items)), length, elements)
  <1>1. AllReadable(elements) /\ length \in Nat /\ start \in Nat /\ count \in Nat
    BY ElementsReadable
  <1>2. PICK c, t, w, m :
          /\ c = Shown(length, elements) /\ t = Spliced(c, start, count, items)
          /\ w = SpliceWork(length, start, count, items) /\ m = SubSeq(c, start + 1, start + count)
    OBVIOUS
  <1>3. c \in Seq(Readable) /\ Len(c) = length
    BY <1>1, <1>2, ShownSeq
  <1>4. t \in Seq(Readable) /\ \E q \in Seq(Takes) : \E r : w = q \o r /\ Vals(elements, q) = m /\ Leads(r, elements, t)
    BY <1>1, <1>2, SpliceLeads
  <1>5. PICK q \in Seq(Takes) : \E r : w = q \o r /\ Vals(elements, q) = m /\ Leads(r, elements, t)
    BY <1>4
  <1>6. PICK r : w = q \o r /\ Vals(elements, q) = m /\ Leads(r, elements, t)
    BY <1>5
  <1>7. Len(t) \in Lengths
    <2>1. start \in 0..Len(c) /\ count \in 0..(Len(c) - start)
      BY <1>3
    <2>2. Len(t) = Len(c) + Len(items) - count
      BY <1>2, <1>3, <2>1, SplicedIs
    <2>3. Len(items) \in Nat /\ count <= length
      BY <1>1
    <2>4. Len(t) \in 0..MaxLength
      BY <1>1, <1>3, <2>2, <2>3, Bounds
    <2> QED BY <2>4, Bounds
  <1>8. r \in Seq(Instructions) /\ q \in Seq(Instructions)
    BY <1>6, <1>7, LeadsWork, TakesInstructions
  <1>9. w \in Seq(Instructions)
    BY <1>6, <1>8, SeqJoined
  <1>10. m \in Seq(Readable)
    BY <1>1, <1>6, <1>8, ValsSeq
  <1>11. Toward(NewFrame(op, w), length, elements, m, t)
    <2>1. PICK f : f = NewFrame(op, w)
      OBVIOUS
    <2>2. f.op = op /\ f.work = w /\ f.made = <<>>
      BY <2>1, NewFrameParts
    <2>3. f.made \o Vals(elements, q) = m
      BY <1>6, <1>10, <2>2, EmptyJoined
    <2>4. Writing(f, elements, m, t)
      BY <1>6, <1>8, <2>2, <2>3 DEF Writing
    <2> QED BY <2>1, <2>2, <2>4 DEF Toward, Writers
  <1>12. Outcome(op, c, m, t)
    BY <1>2
  <1>13. Promised(NewFrame(op, w), length, elements)
    BY <1>2, <1>3, <1>4, <1>10, <1>11, <1>12, PromisedStart DEF Callers
  <1> QED BY <1>2, <1>9, <1>13

LEMMA SpliceRefines ==
  ASSUME IInv, BInv, CInv, past.plain, NEW items \in SeqOf(Datum, MaxItems),
         NEW s \in -1..MaxLength, NEW n \in -1..MaxLength, Splice(s, n, items)
  PROVE  CInv' /\ Contract!Next
  <1>1. AllReadable(elements) /\ length \in Nat /\ lengthValue = length
    BY ElementsReadable
  <1>2. items \in Seq(Datum) /\ s \in Int /\ n \in Int
    BY ItemsSeq
  <1>3. PICK start, count : start = SpliceStart(s) /\ count = SpliceCount(s, n)
    OBVIOUS
  <1>4. start \in 0..length /\ count \in 0..(length - start)
    BY <1>1, <1>2, <1>3, SpliceRange
  <1>5. length + Len(items) - count <= MaxLength /\ Start("splice", SpliceWork(length, start, count, items))
    BY <1>1, <1>3 DEF Splice
  <1>6. PICK c : c = Shown(length, elements)
    OBVIOUS
  <1>7. Len(c) = length
    BY <1>1, <1>6, ShownSeq
  <1>8. Outcome("splice", c, SubSeq(c, start + 1, start + count), Spliced(c, start, count, items))
    BY <1>4, <1>7 DEF Outcome
  <1>9. /\ SpliceWork(length, start, count, items) \in Seq(Instructions)
        /\ Promised(NewFrame("splice", SpliceWork(length, start, count, items)), length, elements)
    BY <1>2, <1>4, <1>5, <1>6, <1>8, SplicePromised
  <1> QED BY <1>5, <1>9, StartRefines DEF Operations

LEMMA FindsNothing ==
  ASSUME IInv, BInv, CInv, past.plain, length = 0, NEW op \in {"pop", "shift"}, AtOnce(op)
  PROVE  CInv' /\ Contract!Next
  <1>1. /\ ProgramRuns /\ UNCHANGED frames /\ Answer(op, <<Undefined>>, FALSE, FALSE)
        /\ UNCHANGED <<length, elements, past>>
    BY DEF AtOnce
  <1>2. AllReadable(elements)
    BY ElementsReadable
  <1>3. CInv' /\ Seen = Shown(length, elements) /\ Seen' = Shown(length', elements')
    BY <1>1, <1>2, ProgramFaithful
  <1>4. Seen = <<>>
    <2>1. Shown(length, elements) \in Seq(Readable) /\ Len(Shown(length, elements)) = 0
      BY <1>2, ShownSeq
    <2> QED BY <1>3, <2>1
  <1> QED BY <1>1, <1>3, <1>4, ContractFindsNothing

LEMMA PopRefines ==
  ASSUME IInv, BInv, CInv, past.plain, Pop
  PROVE  CInv' /\ Contract!Next
  <1>1. AllReadable(elements) /\ length \in Nat
    BY ElementsReadable
  <1>2. CASE length = 0 /\ AtOnce("pop")
    BY <1>2, FindsNothing
  <1>3. CASE length # 0 /\ Start("pop", <<TakeLast, DropLast>>)
    <2>1. length > 0 /\ length - 1 \in Nat
      BY <1>1, <1>3
    <2>2. PICK c, t, m, w : /\ c = Shown(length, elements) /\ t = Shown(length - 1, elements)
                            /\ m = <<At(elements, length - 1)>> /\ w = <<TakeLast, DropLast>>
      OBVIOUS
    <2>3. /\ c \in Seq(Readable) /\ Len(c) = length /\ \A k \in 1..length : c[k] = At(elements, k - 1)
          /\ t \in Seq(Readable) /\ Len(t) = length - 1 /\ \A k \in 1..(length - 1) : t[k] = At(elements, k - 1)
      BY <1>1, <2>1, <2>2, ShownSeq
    <2>4. m \in Seq(Readable)
      BY <1>1, <2>2, AtReadable
    <2>5. c # <<>> /\ t = Front(c) /\ m = <<Last(c)>>
      <3>1. c # <<>> /\ Last(c) = c[Len(c)] /\ c[length] = At(elements, length - 1)
        BY <2>1, <2>3 DEF Last
      <3>2. Front(c) = [k \in 1..(length - 1) |-> c[k]]
        BY <2>3 DEF Front
      <3>3. t = [k \in 1..(length - 1) |-> At(elements, k - 1)]
        BY <2>2 DEF Shown
      <3>4. \A k \in 1..(length - 1) : c[k] = At(elements, k - 1)
        BY <2>1, <2>3
      <3>5. Front(c) = t
        BY <3>2, <3>3, <3>4
      <3> QED BY <2>2, <2>3, <3>1, <3>5
    <2>6. Outcome("pop", c, m, t)
      BY <2>5 DEF Outcome
    <2>7. Toward(NewFrame("pop", w), length, elements, m, t)
      <3>1. PICK f : f = NewFrame("pop", w)
        OBVIOUS
      <3>2. f.op = "pop" /\ f.work = w /\ f.made = <<>>
        BY <3>1, NewFrameParts
      <3>3. Popping(f, length, elements, m, t)
        BY <2>1, <2>2, <3>2 DEF Popping
      <3> QED BY <3>1, <3>2, <3>3 DEF Toward
    <2>8. Promised(NewFrame("pop", w), length, elements)
      BY <2>2, <2>3, <2>4, <2>6, <2>7, PromisedStart DEF Callers
    <2>9. w \in Seq(Instructions)
      <3>1. TakeLast \in Instructions /\ DropLast \in Instructions
        BY Constructors DEF Fresh
      <3> QED BY <2>2, <3>1
    <2> QED BY <1>3, <2>2, <2>8, <2>9, StartRefines DEF Operations
  <1> QED BY <1>2, <1>3 DEF Pop

LEMMA ShiftRefines ==
  ASSUME IInv, BInv, CInv, past.plain, Shift
  PROVE  CInv' /\ Contract!Next
  <1>1. AllReadable(elements) /\ length \in Nat /\ lengthValue = length
    BY ElementsReadable
  <1>2. CASE lengthValue = 0 /\ AtOnce("shift")
    BY <1>1, <1>2, FindsNothing
  <1>3. CASE lengthValue \in 1..MaxLength /\ Start("shift", SpliceWork(lengthValue, 0, SpliceCount(0, 1), <<>>))
    <2>1. length > 0 /\ length <= MaxLength /\ SpliceCount(0, 1) = 1
      BY <1>1, <1>3, SpliceRange
    <2>2. Start("shift", SpliceWork(length, 0, 1, <<>>))
      BY <1>1, <1>3, <2>1
    <2>3. PICK c : c = Shown(length, elements)
      OBVIOUS
    <2>4. c \in Seq(Readable) /\ Len(c) = length
      BY <1>1, <2>3, ShownSeq
    <2>5. c # <<>>
      BY <2>1, <2>4
    <2>6. Outcome("shift", c, SubSeq(c, 0 + 1, 0 + 1), Spliced(c, 0, 1, <<>>))
      BY <2>5 DEF Outcome
    <2>7. 0 \in 0..length /\ 1 \in 0..(length - 0) /\ <<>> \in Seq(Datum) /\ length + Len(<<>>) - 1 <= MaxLength
      BY <1>1, <2>1, Bounds
    <2>8. /\ SpliceWork(length, 0, 1, <<>>) \in Seq(Instructions)
          /\ Promised(NewFrame("shift", SpliceWork(length, 0, 1, <<>>)), length, elements)
      BY <2>3, <2>6, <2>7, SplicePromised
    <2> QED BY <2>2, <2>8, StartRefines DEF Operations
  <1> QED BY <1>2, <1>3 DEF Shift

LEMMA FreshInstructions ==
  ASSUME NEW w \in Seq(Fresh)
  PROVE  w \in Seq(Instructions)
  BY DEF Fresh

LEMMA ConcatAdds ==
  ASSUME NEW c \in Seq(Readable), NEW items \in SeqOf(Datum \cup {ThisArray}, 1)
  PROVE  Added(c, items) \in Seq(Readable) /\ Adds(ConcatWork(items), c, c \o Added(c, items))
  <1>1. PICK r, s : /\ r = [k \in DOMAIN items |-> IF items[k] = ThisArray THEN Spread ELSE Add(items[k])]
                    /\ s = Added(c, items)
    OBVIOUS
  <1>2. \/ items = <<>>
        \/ DOMAIN items = 1..1 /\ items[1] \in Datum \cup {ThisArray} /\ items = <<items[1]>>
    BY ShortItems
  <1>3. s \in Seq(Readable) /\ Short(r, c, s)
    <2>1. CASE items = <<>>
      <3>1. r = <<>> /\ s = <<>>
        BY <1>1, <2>1 DEF Added
      <3> QED BY <3>1 DEF Short
    <2>2. CASE items # <<>> /\ items[1] = ThisArray
      <3>1. r = <<Spread>>
        BY <1>1, <1>2, <2>2
      <3>2. s = c
        BY <1>1, <2>2 DEF Added
      <3> QED BY <3>1, <3>2 DEF Short, Part
    <2>3. CASE items # <<>> /\ items[1] # ThisArray
      <3>1. items[1] \in Datum
        BY <1>2, <2>3
      <3>2. r = <<Add(items[1])>>
        BY <1>1, <1>2, <2>3
      <3>3. s = <<items[1]>>
        BY <1>1, <2>3 DEF Added
      <3>4. Short(r, c, s)
        BY <3>1, <3>2, <3>3 DEF Short, Part
      <3> QED BY <3>1, <3>3, <3>4 DEF Readable
    <2> QED BY <2>1, <2>2, <2>3
  <1>4. ConcatWork(items) = <<Spread>> \o r
    BY <1>1 DEF ConcatWork
  <1> QED BY <1>1, <1>3, <1>4 DEF Adds

\* Of concat and slice, that begin with nothing made.
LEMMA GatheringStart ==
  ASSUME NEW op \in {"concat", "slice"}, NEW q \in Seq(Collects), NEW w \in Seq(Instructions), NEW s \in Seq(Readable),
         AllReadable(elements), length \in Nat,
         Adds(w, Shown(length, elements), s),
         Outcome(op, Shown(length, elements), Vals(elements, q) \o s, Shown(length, elements))
  PROVE  Promised(NewFrame(op, q \o w), length, elements)
  <1>1. PICK c, v : c = Shown(length, elements) /\ v = Vals(elements, q)
    OBVIOUS
  <1>2. c \in Seq(Readable)
    BY <1>1, ShownSeq
  <1>3. q \in Seq(Instructions)
    BY DEF Collects
  <1>4. v \in Seq(Readable)
    BY <1>1, <1>3, ValsSeq
  <1>5. PICK f : f = NewFrame(op, q \o w)
    OBVIOUS
  <1>6. f.op = op /\ f.work = q \o w /\ f.made = <<>>
    BY <1>5, NewFrameParts
  <1>7. v \o s \in Seq(Readable) /\ <<>> \o v = v
    BY <1>4
  <1>8. f.made \o Vals(elements, q) \o s = v \o s
    BY <1>1, <1>6, <1>7
  <1>9. Adds(w, c, s)
    BY <1>1
  <1>10. Gathering(f, length, elements, v \o s, c)
    BY <1>1, <1>6, <1>8, <1>9 DEF Gathering
  <1>11. Toward(f, length, elements, v \o s, c)
    BY <1>6, <1>10 DEF Toward
  <1>12. op \notin Callers
    BY DEF Callers
  <1> QED BY <1>1, <1>2, <1>5, <1>7, <1>11, <1>12, PromisedStart

LEMMA ConcatRefines ==
  ASSUME IInv, BInv, CInv, past.plain, NEW items \in SeqOf(Datum \cup {ThisArray}, 1), Concat(items)
  PROVE  CInv' /\ Contract!Next
  <1>1. AllReadable(elements) /\ length \in Nat
    BY ElementsReadable
  <1>2. PICK c, s, w : c = Shown(length, elements) /\ s = c \o Added(c, items) /\ w = ConcatWork(items)
    OBVIOUS
  <1>3. c \in Seq(Readable)
    BY <1>1, <1>2, ShownSeq
  <1>4. Added(c, items) \in Seq(Readable) /\ Adds(w, c, s)
    BY <1>2, <1>3, ConcatAdds
  <1>5. s \in Seq(Readable)
    BY <1>2, <1>3, <1>4
  <1>6. w \in Seq(Instructions)
    BY <1>2, ItemsSeq, ConcatWorkFresh, FreshInstructions
  <1>7. Vals(elements, <<>>) = <<>> /\ <<>> \o s = s /\ <<>> \o w = w
    BY <1>5, <1>6, ValsEmpty
  <1>8. Outcome("concat", c, s, c)
    BY <1>2 DEF Outcome
  <1>9. Outcome("concat", c, Vals(elements, <<>>) \o s, c)
    BY <1>7, <1>8
  <1>10. Promised(NewFrame("concat", <<>> \o w), length, elements)
    <2>1. <<>> \in Seq(Collects)
      OBVIOUS
    <2> QED BY <1>1, <1>2, <1>4, <1>5, <1>6, <1>9, <2>1, GatheringStart
  <1>11. Start("concat", w) /\ Promised(NewFrame("concat", w), length, elements)
    BY <1>2, <1>7, <1>10 DEF Concat
  <1> QED BY <1>6, <1>11, StartRefines DEF Operations

LEMMA SliceRefines ==
  ASSUME IInv, BInv, CInv, past.plain, NEW begin \in 0..MaxLength, NEW end \in SliceEnds, Slice(begin, end)
  PROVE  CInv' /\ Contract!Next
  <1>1. AllReadable(elements) /\ length \in Nat /\ begin \in Nat /\ lengthValue = length
    BY ElementsReadable
  <1>0. PICK to : to = SliceEnd(end)
    OBVIOUS
  <1>a. to \in Int /\ to = EndIn(end, length)
    BY <1>0, <1>1, SliceEndNumber DEF SliceEnd, EndIn
  <1>2. PICK c, q, v, l : /\ c = Shown(length, elements) /\ q = Each(Collect, begin, to)
                          /\ v = Vals(elements, q) /\ l = IF to > begin THEN to - begin ELSE 0
    OBVIOUS
  <1>3. c \in Seq(Readable) /\ Len(c) = length /\ \A k \in 1..length : c[k] = At(elements, k - 1)
    BY <1>1, <1>2, ShownSeq
  <1>4. q \in Seq(Collects) /\ v = [k \in 1..l |-> At(elements, begin + k - 1)]
    BY <1>1, <1>a, <1>2, EachCollect
  <1>5. l \in Nat /\ q \in Seq(Instructions)
    BY <1>1, <1>a, <1>2, <1>4 DEF Collects
  <1>6. v \in [1..l -> Readable]
    BY <1>1, <1>4, AtReadable
  <1>7. v \in Seq(Readable)
    BY <1>5, <1>6, SeqFunction
  <1>8. \A k \in DOMAIN v : begin + k \in DOMAIN c => v[k] = c[begin + k]
    BY <1>1, <1>3, <1>4, <1>5
  <1>9. Outcome("slice", c, v, c)
    <2>1. to = EndIn(end, Len(c)) /\ v \in [1..(IF to > begin THEN to - begin ELSE 0) -> Readable]
      BY <1>a, <1>2, <1>3, <1>6
    <2> QED BY <1>8, <2>1 DEF Outcome
  <1>10. Vals(elements, q) \o <<>> = v /\ q \o <<>> = q
    BY <1>2, <1>5, <1>7, EmptyJoined
  <1>11. Outcome("slice", c, Vals(elements, q) \o <<>>, c)
    BY <1>9, <1>10
  <1>12. Adds(<<>>, c, <<>>)
    BY DEF Adds, Short
  <1>13. Promised(NewFrame("slice", q \o <<>>), length, elements)
    <2>1. <<>> \in Seq(Instructions) /\ <<>> \in Seq(Readable)
      OBVIOUS
    <2> QED BY <1>1, <1>2, <1>4, <1>11, <1>12, <2>1, GatheringStart
  <1>14. Start("slice", q) /\ Promised(NewFrame("slice", q), length, elements)
    BY <1>0, <1>2, <1>10, <1>13 DEF Slice
  <1> QED BY <1>5, <1>14, StartRefines DEF Operations

LEMMA ApplyRefines ==
  ASSUME IInv, BInv, CInv, past.plain, Apply
  PROVE  CInv' /\ Contract!Next
  <1>1. AllReadable(elements) /\ length \in Nat /\ lengthValue = length
    BY ElementsReadable
  <1>2. CASE /\ ProgramRuns /\ Answer("apply", <<>>, TRUE, TRUE)
             /\ UNCHANGED <<length, lengthValue, elements, frames, past>>
    <2>1. CInv' /\ Seen = Shown(length, elements) /\ Seen' = Shown(length', elements')
      BY <1>1, <1>2, ProgramFaithful
    <2>2. "apply" \in Callers /\ Seen' = Seen /\ past'.plain = past.plain
      BY <1>2, <2>1 DEF Callers
    <2> QED BY <1>2, <2>1, <2>2, ContractCallsEnd
  <1>3. CASE lengthValue <= MaxArguments /\ Start("apply", Append(Each(Take, 0, lengthValue), Invoke))
    <2>1. PICK q : q = Each(Take, 0, length)
      OBVIOUS
    <2>2. q \in Seq(Takes) /\ Vals(elements, q) = [k \in 1..(length - 0) |-> At(elements, 0 + k - 1)]
      BY <1>1, <2>1, EachTake
    <2>3. Vals(elements, q) = Shown(length, elements)
      BY <1>1, <2>2 DEF Shown
    <2>4. q \in Seq(Instructions) /\ Invoke \in Instructions
      BY <2>2, TakesInstructions, Constructors
    <2>5. PICK w : w = Append(q, Invoke)
      OBVIOUS
    <2>6. w \in Seq(Instructions)
      BY <2>4, <2>5
    <2>7. Promised(NewFrame("apply", w), length, elements)
      <3>1. PICK f : f = NewFrame("apply", w)
        OBVIOUS
      <3>2. f.op = "apply" /\ f.work = w /\ f.made = <<>> /\ f.waits = "nothing"
        BY <3>1, NewFrameParts
      <3>3. Shown(length, elements) \in Seq(Readable)
        BY <1>1, ShownSeq
      <3>4. f.made \o Vals(elements, q) = Shown(length, elements)
        BY <2>3, <3>2, <3>3, EmptyJoined
      <3>5. Applying(f, length, elements)
        BY <1>1, <1>3, <2>2, <2>5, <3>2, <3>4 DEF Applying
      <3> QED BY <3>1, <3>2, <3>5 DEF Promised, Callers
    <2>8. Start("apply", w)
      BY <1>1, <1>3, <2>1, <2>5
    <2> QED BY <2>6, <2>7, <2>8, StartRefines DEF Operations
  <1> QED BY <1>2, <1>3 DEF Apply

LEMMA ForEachRefines ==
  ASSUME IInv, BInv, CInv, past.plain, ForEach
  PROVE  CInv' /\ Contract!Next
  <1>1. lengthValue \in Nat
    BY LengthNatural
  <1>2. PICK w : w = Each(CallWith, 0, lengthValue)
    OBVIOUS
  <1>3. \A j \in DOMAIN w : w[j].do = "call"
    BY <1>2 DEF Each, CallWith
  <1>4. w \in Seq(Instructions)
    BY <1>1, <1>2, EachTakeFresh, FreshInstructions
  <1>5. Promised(NewFrame("forEach", w), length, elements)
    <2>1. PICK f : f = NewFrame("forEach", w)
      OBVIOUS
    <2>2. f.op = "forEach" /\ f.work = w /\ f.made = <<>>
      BY <2>1, NewFrameParts
    <2> QED BY <1>3, <2>1, <2>2 DEF Promised, Callers
  <1>6. Start("forEach", w)
    BY <1>2 DEF ForEach
  <1> QED BY <1>4, <1>5, <1>6, StartRefines DEF Operations

LEMMA OperationsRefine ==
  ASSUME IInv, BInv, CInv, past.plain,
         \/ \E items \in SeqOf(Datum, MaxItems) :
              \/ Push(items)
              \/ \E s \in -1..MaxLength, n \in -1..MaxLength : Splice(s, n, items)
         \/ Pop \/ Shift \/ Apply \/ ForEach
         \/ \E items \in SeqOf(Datum \cup {ThisArray}, 1) : Concat(items)
         \/ \E begin \in 0..MaxLength, end \in SliceEnds : Slice(begin, end)
  PROVE  CInv' /\ Contract!Next
  BY PushRefines, SpliceRefines, PopRefines, ShiftRefines, ApplyRefines, ForEachRefines, ConcatRefines,
     SliceRefines

-----------------------------------------------------------------------------
(* The instructions.                                                       *)

\* An operation that runs.
LEMMA RunnerFaithful ==
  ASSUME IInv, BInv, CInv, past.plain, frames # <<>>, Runner.waits = "nothing"
  PROVE  /\ Runner \in Frame /\ Runner.work \in Seq(Instructions) /\ Runner.made \in Seq(Values)
         /\ Promised(Runner, length, elements)
         /\ AllReadable(elements) /\ length \in Nat /\ length \in Lengths
         /\ lengthValue = length /\ DOMAIN elements \subseteq Int
         /\ \A i : ~IsAccessor(i) /\ ValueAt(i) = At(elements, i)
         /\ Seen = IF Runner.op \in Callers THEN Shown(length, elements) ELSE Runner.before
  <1>1. Runner \in Frame
    BY RunnerOK
  <1>2. Promised(Runner, length, elements)
    BY OuterWait
  <1>3. /\ AllReadable(elements) /\ length \in Nat /\ lengthValue = length /\ DOMAIN elements \subseteq Int
    BY ElementsReadable
  <1>4. \A i : ~IsAccessor(i) /\ ValueAt(i) = At(elements, i)
    BY <1>3, ArrayValuesAssumption DEF AllReadable, IsAccessor, ValueAt, At, Readable
  <1>5. length \in Lengths
    BY DEF IInv, LengthsOK
  <1> QED BY <1>1, <1>2, <1>3, <1>4, <1>5, SeenRunning DEF Frame

LEMMA NextRunner ==
  ASSUME IInv, IInv', frames # <<>>, NEW g, frames' = WithRunner(g)
  PROVE  g \in Frame
  <1>1. Front(frames) \in Seq(Frame)
    BY SeqFront DEF IInv, FramesOK
  <1>2. PICK h : h = Front(frames)
    OBVIOUS
  <1>3. frames' = Append(h, g) /\ h \in Seq(Frame)
    BY <1>1, <1>2 DEF WithRunner
  <1>4. Len(frames') = Len(h) + 1 /\ Len(h) \in Nat /\ frames'[Len(h) + 1] = g
    BY <1>3
  <1>5. frames' \in Seq(Frame)
    BY DEF IInv, FramesOK
  <1> QED BY <1>4, <1>5

\* An operation that writes, or collects, goes on toward the same outcome.
LEMMA OperationGoesOn ==
  ASSUME IInv, IInv', BInv, CInv, past.plain, past'.plain = past.plain, frames # <<>>, Runner.waits = "nothing",
         Runner.op \notin Callers,
         NEW g, frames' = WithRunner(g), g.op = Runner.op, g.before = Runner.before, g.waits = "nothing",
         answer' = answer, AllReadable(elements'),
         \A made \in Seq(Readable), t \in Seq(Readable) :
           Toward(Runner, length, elements, made, t) => Toward(g, length', elements', made, t)
  PROVE  CInv' /\ UNCHANGED Contract!vars
  <1>1. g \in Frame
    BY NextRunner
  <1>2. Promised(Runner, length, elements) /\ Seen = Runner.before
    BY RunnerFaithful
  <1>3. Promised(g, length', elements')
    BY <1>2 DEF Promised, Callers
  <1>4. CInv'
    BY <1>1, <1>3, FaithfulNext
  <1>5. Seen' = g.before
    BY <1>1, SeenNext
  <1> QED BY <1>2, <1>4, <1>5, ContractStays

\* forEach and apply see the array as it is.
LEMMA CallerGoesOn ==
  ASSUME IInv, IInv', BInv, CInv, past.plain, past'.plain = past.plain, frames # <<>>, Runner.waits = "nothing",
         Runner.op \in Callers, UNCHANGED <<length, elements>>,
         NEW g, frames' = WithRunner(g), g.op = Runner.op, Promised(g, length, elements)
  PROVE  CInv' /\ Seen = Shown(length, elements) /\ Seen' = Seen
  <1>1. g \in Frame
    BY NextRunner
  <1>2. AllReadable(elements) /\ Seen = Shown(length, elements)
    BY RunnerFaithful
  <1>3. CInv'
    BY <1>1, <1>2, FaithfulNext
  <1>4. Seen' = Shown(length, elements)
    BY <1>1, SeenNext
  <1> QED BY <1>2, <1>3, <1>4

\* What is next, by the kind of the operation.
LEMMA TowardKinds ==
  ASSUME NEW f \in Frame, NEW n \in Nat, NEW e, AllReadable(e), NEW made, NEW t \in Seq(Readable),
         Toward(f, n, e, made, t)
  PROVE  \/ f.work = <<>> /\ f.made = made /\ Shown(n, e) = t
         \/ /\ f.op \in Writers /\ Writing(f, e, made, t)
            /\ f.work # <<>> /\ Head(f.work).do \in {"take", "move", "write", "erase", "setLength"}
         \/ /\ f.op = "pop" /\ Popping(f, n, e, made, t)
            /\ f.work # <<>> /\ Head(f.work).do \in {"takeLast", "dropLast"}
         \/ /\ f.op \in {"concat", "slice"} /\ Gathering(f, n, e, made, t)
            /\ f.work # <<>> /\ Head(f.work).do \in {"collect", "spread", "add"}
  <1>1. CASE Done(f, n, e, made, t)
    BY <1>1 DEF Done
  <1>2. CASE f.op \in Writers /\ Writing(f, e, made, t)
    BY <1>2, WritingParts
  <1>3. CASE f.op = "pop" /\ Popping(f, n, e, made, t)
    <2>1. \/ f.work = <<TakeLast, DropLast>>
          \/ f.work = <<DropLast>>
      BY <1>3 DEF Popping
    <2>2. /\ <<TakeLast, DropLast>> # <<>> /\ Head(<<TakeLast, DropLast>>) = TakeLast
          /\ <<DropLast>> # <<>> /\ Head(<<DropLast>>) = DropLast
      OBVIOUS
    <2>3. TakeLast.do = "takeLast" /\ DropLast.do = "dropLast"
      BY DEF TakeLast, DropLast
    <2> QED BY <1>3, <2>1, <2>2, <2>3
  <1>4. CASE f.op \in {"concat", "slice"} /\ Gathering(f, n, e, made, t)
    <2>1. Shown(n, e) = t
      BY <1>4 DEF Gathering
    <2> QED BY <1>4, <2>1, GatheringParts
  <1> QED BY <1>1, <1>2, <1>3, <1>4 DEF Toward

LEMMA LeadsLength ==
  ASSUME NEW w \in Seq(Instructions), NEW e, NEW t \in Seq(Readable), Leads(w, e, t)
  PROVE  Len(t) \in Lengths
  <1>1. PICK u \in Seq(Deeds) : w = Append(u, SetLength(Len(t)))
    BY DEF Leads
  <1>2. u \in Seq(Instructions)
    BY DEF Deeds
  <1>3. PICK x : x = SetLength(Len(t))
    OBVIOUS
  <1>4. w[Len(u) + 1] = x /\ Len(u) + 1 \in DOMAIN w
    BY <1>1, <1>2, <1>3
  <1>5. x \in Instructions
    BY <1>4
  <1>6. x.do = "setLength" /\ x.to = Len(t)
    BY <1>3 DEF SetLength
  <1> QED BY <1>5, <1>6, InstructionParts

\* From one deed to the next.
LEMMA WritingGoesOn ==
  ASSUME NEW f \in Frame, NEW e, AllReadable(e), NEW made, NEW t \in Seq(Readable), Writing(f, e, made, t),
         NEW g, g.made = f.made, NEW e2,
         Head(f.work).do # "take",
         Leads(f.work, e, t) => Leads(g.work, e2, t)
  PROVE  Writing(g, e2, made, t)
  <1>1. Leads(f.work, e, t) /\ f.made = made
    BY WritingParts
  <1>2. f.work \in Seq(Instructions) /\ g.made \in Seq(Values)
    BY DEF Frame
  <1>3. Len(t) \in Lengths
    BY <1>1, <1>2, LeadsLength
  <1>4. Leads(g.work, e2, t)
    BY <1>1
  <1>5. Writing(g, e2, g.made, t)
    BY <1>2, <1>3, <1>4, LeadingWrites
  <1> QED BY <1>1, <1>5

-----------------------------------------------------------------------------

\* What is left of the disjuncts of Reads, when v is a value.
LEMMA ReadsValue ==
  ASSUME NEW f \in Frame, f.waits = "nothing", f.work # <<>>, NEW v \in Readable, Reads(f, v)
  PROVE  /\ \/ /\ Head(f.work).do \in {"take", "takeLast", "collect"}
               /\ \E g : /\ frames' = WithRunner(g) /\ g.op = f.op /\ g.before = f.before /\ g.waits = "nothing"
                         /\ g.work = Tail(f.work) /\ g.made = Append(f.made, v)
            \/ /\ Head(f.work).do = "move"
               /\ \E g : /\ frames' = WithRunner(g) /\ g.op = f.op /\ g.before = f.before /\ g.waits = "nothing"
                         /\ g.work = <<Write(Head(f.work).to, v)>> \o Tail(f.work) /\ g.made = f.made
            \/ /\ Head(f.work).do = "call"
               /\ \E g : /\ frames' = WithRunner(g) /\ g.op = f.op /\ g.waits = "callback"
                         /\ g.work = f.work /\ g.made = f.made
         /\ answer' = answer
  <1>1. v # NoValue
    BY ArrayValuesAssumption DEF Readable
  <1>2. f = [op |-> f.op, work |-> f.work, made |-> f.made, waits |-> f.waits, before |-> f.before,
             inside |-> f.inside]
    BY DEF Frame
  <1> DEFINE a == [NextDone(f) EXCEPT !.made = Append(@, v)]
             b == [NextDone(f) EXCEPT !.work = <<Write(Head(f.work).to, v)>> \o @]
             c == [f EXCEPT !.waits = "callback"]
  <1>3. /\ a.op = f.op /\ a.before = f.before /\ a.waits = "nothing" /\ a.work = Tail(f.work)
        /\ a.made = Append(f.made, v)
    BY <1>2 DEF NextDone
  <1>4. /\ b.op = f.op /\ b.before = f.before /\ b.waits = "nothing" /\ b.made = f.made
        /\ b.work = <<Write(Head(f.work).to, v)>> \o Tail(f.work)
    BY <1>2 DEF NextDone
  <1>5. c.op = f.op /\ c.waits = "callback" /\ c.work = f.work /\ c.made = f.made
    BY <1>2
  <1>6. \/ Head(f.work).do \in {"take", "takeLast", "collect"} /\ frames' = WithRunner(a) /\ answer' = answer
        \/ Head(f.work).do = "move" /\ frames' = WithRunner(b) /\ answer' = answer
        \/ Head(f.work).do = "call" /\ frames' = WithRunner(c) /\ answer' = answer
    BY <1>1 DEF Reads
  <1> HIDE DEF a, b, c
  <1> QED BY <1>3, <1>4, <1>5, <1>6

LEMMA ReadsPlain ==
  ASSUME NEW f, NEW v, Reads(f, v), IInv
  PROVE  past'.plain = past.plain
  BY DEF Reads, GivesUp, IInv, PastOK

\* forEach and apply have only these.
LEMMA CallersDo ==
  ASSUME NEW f, f.work \in Seq(Instructions), f.work # <<>>, NEW n, NEW e, Promised(f, n, e),
         Head(f.work).do \notin {"take", "call", "invoke"}
  PROVE  f.op \notin Callers
  <1>1. Head(f.work) = f.work[1] /\ 1 \in DOMAIN f.work
    BY SeqTail
  <1>2. f.op # "forEach"
    BY <1>1 DEF Promised
  <1>3. ASSUME f.op = "apply"
        PROVE  FALSE
    <2>1. \/ \E q \in Seq(Takes) : f.work = Append(q, Invoke)
          \/ f.work = <<Invoke>>
      BY <1>3 DEF Promised, Applying
    <2>2. Invoke.do = "invoke"
      BY DEF Invoke
    <2>3. PICK q \in Seq(Takes) : f.work = Append(q, Invoke)
      BY <1>1, <2>1, <2>2
    <2>4. Head(f.work) = Invoke \/ Head(f.work) \in Takes
      BY <2>3, AppendedHead
    <2> QED BY <2>2, <2>4 DEF Takes
  <1> QED BY <1>2, <1>3 DEF Callers

LEMMA OneLess ==
  ASSUME NEW n \in Lengths, n > 0
  PROVE  (n - 1) % 2^Width = n - 1
  <1>1. PICK m : m = 2^Width
    OBVIOUS
  <1>2. m \in Nat /\ n \in 0..(m - 1)
    BY <1>1, Bounds DEF Lengths
  <1>3. n - 1 \in 0..(m - 1) /\ m > 0
    BY <1>2
  <1>4. (n - 1) % m = n - 1
    BY <1>2, <1>3
  <1> QED BY <1>1, <1>4

\* splice reads into the array it will return, apply what it will pass on.
LEMMA TakesRefine ==
  ASSUME IInv, IInv', BInv, CInv, past.plain, past'.plain = past.plain, frames # <<>>, Runner.waits = "nothing",
         Runner.work # <<>>, Head(Runner.work).do = "take", UNCHANGED <<length, elements, answer>>,
         NEW g, frames' = WithRunner(g), g.op = Runner.op, g.before = Runner.before, g.waits = "nothing",
         g.work = Tail(Runner.work), g.made = Append(Runner.made, At(elements, Head(Runner.work).at))
  PROVE  CInv' /\ UNCHANGED Contract!vars
  <1>1. /\ Runner \in Frame /\ Runner.work \in Seq(Instructions) /\ Runner.made \in Seq(Values)
        /\ Promised(Runner, length, elements) /\ AllReadable(elements) /\ length \in Nat
    BY RunnerFaithful
  <1>2. CASE Runner.op \notin Callers
    <2>1. ASSUME NEW made \in Seq(Readable), NEW t \in Seq(Readable), Toward(Runner, length, elements, made, t)
          PROVE  Toward(g, length, elements, made, t)
      <3>1. Runner.op \in Writers /\ Writing(Runner, elements, made, t)
        BY <1>1, <2>1, TowardKinds
      <3>2. Writing(g, elements, made, t)
        BY <1>1, <3>1, WritingTakes
      <3> QED BY <3>1, <3>2 DEF Toward
    <2> QED BY <1>1, <1>2, <2>1, OperationGoesOn
  <1>3. CASE Runner.op = "forEach"
    <2>1. Runner.work[1].do = "call"
      BY <1>1, <1>3 DEF Promised
    <2> QED BY <1>1, <2>1
  <1>4. CASE Runner.op = "apply"
    <2>1. \/ /\ length <= MaxArguments
             /\ \E q \in Seq(Takes) : Runner.work = Append(q, Invoke)
                                      /\ Runner.made \o Vals(elements, q) = Shown(length, elements)
          \/ Runner.work = <<Invoke>>
      BY <1>1, <1>4 DEF Promised, Applying
    <2>2. Invoke.do # "take"
      BY DEF Invoke
    <2>3. Runner.work # <<Invoke>>
      BY <2>2
    <2>4. PICK q \in Seq(Takes) : Runner.work = Append(q, Invoke)
                                  /\ Runner.made \o Vals(elements, q) = Shown(length, elements)
      BY <2>1, <2>3
    <2>5. q # <<>>
      BY <2>2, <2>4, AppendedHead
    <2>6. /\ Head(Runner.work) = q[1] /\ Tail(Runner.work) = Append(Tail(q), Invoke) /\ Tail(q) \in Seq(Takes)
      BY <2>4, <2>5, AppendedHead
    <2>7. q \in Seq(Instructions)
      BY TakesInstructions
    <2>8. g.made \o Vals(elements, Tail(q)) = Shown(length, elements)
      <3>1. Append(Runner.made, At(elements, q[1].at)) \o Vals(elements, Tail(q)) = Runner.made \o Vals(elements, q)
        BY <1>1, <2>5, <2>7, ValsHead
      <3> QED BY <2>4, <2>6, <3>1
    <2>9. Promised(g, length, elements)
      <3>1. Applying(g, length, elements)
        BY <2>1, <2>3, <2>6, <2>8 DEF Applying
      <3> QED BY <1>4, <3>1 DEF Promised, Callers
    <2>10. Runner.op \in Callers
      BY <1>4 DEF Callers
    <2>11. CInv' /\ Seen' = Seen
      BY <2>9, <2>10, CallerGoesOn
    <2> QED BY <2>11, ContractStays
  <1> QED BY <1>2, <1>3, <1>4 DEF Callers

LEMMA CollectsRefine ==
  ASSUME IInv, IInv', BInv, CInv, past.plain, past'.plain = past.plain, frames # <<>>, Runner.waits = "nothing",
         Runner.work # <<>>, Head(Runner.work).do = "collect", UNCHANGED <<length, elements, answer>>,
         NEW g, frames' = WithRunner(g), g.op = Runner.op, g.before = Runner.before, g.waits = "nothing",
         g.work = Tail(Runner.work), g.made = Append(Runner.made, At(elements, Head(Runner.work).at))
  PROVE  CInv' /\ UNCHANGED Contract!vars
  <1>1. /\ Runner \in Frame /\ Runner.work \in Seq(Instructions)
        /\ Promised(Runner, length, elements) /\ AllReadable(elements) /\ length \in Nat
    BY RunnerFaithful
  <1>2. Runner.op \notin Callers
    BY <1>1, CallersDo
  <1>3. ASSUME NEW made \in Seq(Readable), NEW t \in Seq(Readable), Toward(Runner, length, elements, made, t)
        PROVE  Toward(g, length, elements, made, t)
    <2>1. Runner.op \in {"concat", "slice"} /\ Gathering(Runner, length, elements, made, t)
      BY <1>1, <1>3, TowardKinds
    <2>2. Gathering(g, length, elements, made, t)
      BY <1>1, <2>1, GatheringCollects
    <2> QED BY <2>1, <2>2 DEF Toward
  <1> QED BY <1>1, <1>2, <1>3, OperationGoesOn

LEMMA MovesRefine ==
  ASSUME IInv, IInv', BInv, CInv, past.plain, past'.plain = past.plain, frames # <<>>, Runner.waits = "nothing",
         Runner.work # <<>>, Head(Runner.work).do = "move", UNCHANGED <<length, elements, answer>>,
         NEW g, frames' = WithRunner(g), g.op = Runner.op, g.before = Runner.before, g.waits = "nothing",
         g.work = <<Write(Head(Runner.work).to, At(elements, Head(Runner.work).at))>> \o Tail(Runner.work),
         g.made = Runner.made
  PROVE  CInv' /\ UNCHANGED Contract!vars
  <1>1. /\ Runner \in Frame /\ Runner.work \in Seq(Instructions)
        /\ Promised(Runner, length, elements) /\ AllReadable(elements) /\ length \in Nat
    BY RunnerFaithful
  <1>2. Runner.op \notin Callers
    BY <1>1, CallersDo
  <1>3. ASSUME NEW made \in Seq(Readable), NEW t \in Seq(Readable), Toward(Runner, length, elements, made, t)
        PROVE  Toward(g, length, elements, made, t)
    <2>1. Runner.op \in Writers /\ Writing(Runner, elements, made, t)
      BY <1>1, <1>3, TowardKinds
    <2>2. Leads(Runner.work, elements, t) => Leads(g.work, elements, t)
      BY <1>1, LeadsMove
    <2>3. Writing(g, elements, made, t)
      BY <1>1, <2>1, <2>2, WritingGoesOn
    <2> QED BY <2>1, <2>3 DEF Toward
  <1> QED BY <1>1, <1>2, <1>3, OperationGoesOn

LEMMA TakesLastRefine ==
  ASSUME IInv, IInv', BInv, CInv, past.plain, past'.plain = past.plain, frames # <<>>, Runner.waits = "nothing",
         Runner.work # <<>>, Head(Runner.work).do = "takeLast", UNCHANGED <<length, elements, answer>>,
         NEW g, frames' = WithRunner(g), g.op = Runner.op, g.before = Runner.before, g.waits = "nothing",
         g.work = Tail(Runner.work), g.made = Append(Runner.made, At(elements, (length - 1) % 2^Width))
  PROVE  CInv' /\ UNCHANGED Contract!vars
  <1>1. /\ Runner \in Frame /\ Runner.work \in Seq(Instructions)
        /\ Promised(Runner, length, elements) /\ AllReadable(elements) /\ length \in Nat /\ length \in Lengths
    BY RunnerFaithful
  <1>2. Runner.op \notin Callers
    BY <1>1, CallersDo
  <1>3. ASSUME NEW made \in Seq(Readable), NEW t \in Seq(Readable), Toward(Runner, length, elements, made, t)
        PROVE  Toward(g, length, elements, made, t)
    <2>1. Runner.op = "pop" /\ Popping(Runner, length, elements, made, t)
      BY <1>1, <1>3, TowardKinds
    <2>2. DropLast.do # "takeLast" /\ Head(<<DropLast>>) = DropLast
      BY DEF DropLast
    <2>3. /\ length > 0 /\ t = Shown(length - 1, elements)
          /\ Runner.work = <<TakeLast, DropLast>> /\ Runner.made = <<>> /\ made = <<At(elements, length - 1)>>
      BY <2>1, <2>2 DEF Popping
    <2>4. (length - 1) % 2^Width = length - 1
      BY <1>1, <2>3, OneLess
    <2>5. g.work = <<DropLast>> /\ g.made = made
      BY <2>3, <2>4
    <2>6. Popping(g, length, elements, made, t)
      BY <2>3, <2>5 DEF Popping
    <2> QED BY <2>1, <2>6 DEF Toward
  <1> QED BY <1>1, <1>2, <1>3, OperationGoesOn

\* forEach calls its callback with what it has read.
LEMMA CallsWait ==
  ASSUME IInv, IInv', BInv, CInv, past.plain, past'.plain = past.plain, frames # <<>>, Runner.waits = "nothing",
         Runner.work # <<>>, Head(Runner.work).do = "call", UNCHANGED <<length, elements, answer>>,
         NEW g, frames' = WithRunner(g), g.op = Runner.op, g.made = Runner.made,
         g.work \in {Runner.work, Tail(Runner.work)}
  PROVE  CInv' /\ UNCHANGED Contract!vars
  <1>1. /\ Runner \in Frame /\ Runner.work \in Seq(Instructions)
        /\ Promised(Runner, length, elements) /\ AllReadable(elements) /\ length \in Nat
    BY RunnerFaithful
  <1>2. Runner.op = "forEach"
    <2>1. CASE Runner.op \notin Callers
      <3>1. PICK made \in Seq(Readable), t \in Seq(Readable) : Toward(Runner, length, elements, made, t)
        BY <1>1, <2>1 DEF Promised
      <3> QED BY <1>1, <3>1, TowardKinds
    <2>2. CASE Runner.op = "apply"
      <3>1. \/ \E q \in Seq(Takes) : Runner.work = Append(q, Invoke)
            \/ Runner.work = <<Invoke>>
        BY <1>1, <2>2 DEF Promised, Applying
      <3>2. Invoke.do = "invoke" /\ Head(<<Invoke>>) = Invoke
        BY DEF Invoke
      <3>3. PICK q \in Seq(Takes) : Runner.work = Append(q, Invoke)
        BY <3>1, <3>2
      <3>4. Head(Runner.work) = Invoke \/ Head(Runner.work) \in Takes
        BY <3>3, AppendedHead
      <3> QED BY <3>2, <3>4 DEF Takes
    <2> QED BY <2>1, <2>2 DEF Callers
  <1>3. Runner.made = <<>> /\ \A j \in DOMAIN Runner.work : Runner.work[j].do = "call"
    BY <1>1, <1>2 DEF Promised
  <1>4. \A j \in DOMAIN g.work : g.work[j].do = "call"
    <2>1. \A j \in DOMAIN Tail(Runner.work) :
            j + 1 \in DOMAIN Runner.work /\ Tail(Runner.work)[j] = Runner.work[j + 1]
      BY <1>1, SeqTail
    <2> QED BY <1>3, <2>1
  <1>5. Promised(g, length, elements)
    BY <1>2, <1>3, <1>4 DEF Promised, Callers
  <1>6. Runner.op \in Callers
    BY <1>2 DEF Callers
  <1>7. CInv' /\ Seen' = Seen
    BY <1>5, <1>6, CallerGoesOn
  <1> QED BY <1>7, ContractStays

\* An element that is read at once.
LEMMA ReadElementRefines ==
  ASSUME IInv, IInv', BInv, CInv, past.plain, frames # <<>>, Runner.waits = "nothing", Runner.work # <<>>,
         NEW i, ReadElement(i),
         Head(Runner.work).do = "takeLast" => i = (length - 1) % 2^Width,
         Head(Runner.work).do # "takeLast" => i = Head(Runner.work).at
  PROVE  CInv' /\ UNCHANGED Contract!vars
  <1>1. /\ Runner \in Frame /\ AllReadable(elements)
        /\ ~IsAccessor(i) /\ ValueAt(i) = At(elements, i)
    BY RunnerFaithful
  <1>2. PICK v : v = At(elements, i)
    OBVIOUS
  <1>3. v \in Readable
    BY <1>1, <1>2, AtReadable
  <1>4. Reads(Runner, v) /\ UNCHANGED <<length, elements>>
    BY <1>1, <1>2 DEF ReadElement
  <1>5. past'.plain = past.plain
    BY <1>4, ReadsPlain
  <1>6. \/ /\ Head(Runner.work).do \in {"take", "takeLast", "collect"}
           /\ \E g : /\ frames' = WithRunner(g) /\ g.op = Runner.op /\ g.before = Runner.before
                     /\ g.waits = "nothing"
                     /\ g.work = Tail(Runner.work) /\ g.made = Append(Runner.made, v)
        \/ /\ Head(Runner.work).do = "move"
           /\ \E g : /\ frames' = WithRunner(g) /\ g.op = Runner.op /\ g.before = Runner.before
                     /\ g.waits = "nothing"
                     /\ g.work = <<Write(Head(Runner.work).to, v)>> \o Tail(Runner.work)
                     /\ g.made = Runner.made
        \/ /\ Head(Runner.work).do = "call"
           /\ \E g : /\ frames' = WithRunner(g) /\ g.op = Runner.op /\ g.waits = "callback"
                     /\ g.work = Runner.work /\ g.made = Runner.made
    BY <1>1, <1>3, <1>4, ReadsValue
  <1>7. UNCHANGED <<length, elements, answer>>
    BY <1>1, <1>3, <1>4, ReadsValue
  <1>8. CASE Head(Runner.work).do = "take"
    BY <1>2, <1>5, <1>6, <1>7, <1>8, TakesRefine
  <1>9. CASE Head(Runner.work).do = "takeLast"
    BY <1>2, <1>5, <1>6, <1>7, <1>9, TakesLastRefine
  <1>10. CASE Head(Runner.work).do = "collect"
    BY <1>2, <1>5, <1>6, <1>7, <1>10, CollectsRefine
  <1>11. CASE Head(Runner.work).do = "move"
    BY <1>2, <1>5, <1>6, <1>7, <1>11, MovesRefine
  <1>12. CASE Head(Runner.work).do = "call"
    BY <1>2, <1>5, <1>6, <1>7, <1>12, CallsWait
  <1> QED BY <1>6, <1>8, <1>9, <1>10, <1>11, <1>12

LEMMA NextDoneParts ==
  ASSUME NEW f \in Frame
  PROVE  /\ NextDone(f).op = f.op /\ NextDone(f).before = f.before /\ NextDone(f).made = f.made
         /\ NextDone(f).work = Tail(f.work) /\ NextDone(f).waits = "nothing"
  BY DEF NextDone, Frame

\* push, splice and shift: an element is written or goes.
LEMMA WritesRefine ==
  ASSUME IInv, IInv', BInv, CInv, past.plain, UNCHANGED past, frames # <<>>, Runner.waits = "nothing",
         Runner.work # <<>>, Head(Runner.work).do \in {"write", "erase"}, answer' = answer,
         frames' = WithRunner(NextDone(Runner)),
         \A y \in Int : y # Head(Runner.work).at => At(elements', y) = At(elements, y),
         Head(Runner.work).do = "write" => At(elements', Head(Runner.work).at) = Head(Runner.work).value,
         (Head(Runner.work).do = "write" => Head(Runner.work).value \in Readable) => AllReadable(elements')
  PROVE  CInv' /\ UNCHANGED Contract!vars
  <1>1. /\ Runner \in Frame /\ Runner.work \in Seq(Instructions) /\ Promised(Runner, length, elements)
        /\ AllReadable(elements) /\ length \in Nat /\ DOMAIN elements \subseteq Int
    BY RunnerFaithful
  <1>2. Runner.op \notin Callers
    BY <1>1, CallersDo
  <1>3. PICK g : g = NextDone(Runner)
    OBVIOUS
  <1>4. /\ g.op = Runner.op /\ g.before = Runner.before /\ g.made = Runner.made
        /\ g.work = Tail(Runner.work) /\ g.waits = "nothing"
    BY <1>1, <1>3, NextDoneParts
  <1>5. ASSUME NEW made \in Seq(Readable), NEW t \in Seq(Readable), Toward(Runner, length, elements, made, t)
        PROVE  Runner.op \in Writers /\ Writing(Runner, elements, made, t) /\ Leads(Runner.work, elements, t)
    <2>1. Runner.op \in Writers /\ Writing(Runner, elements, made, t)
      BY <1>1, <1>5, TowardKinds
    <2> QED BY <1>1, <2>1, WritingParts
  <1>6. Head(Runner.work).do = "write" => Head(Runner.work).value \in Readable
    <2>1. PICK made \in Seq(Readable), t \in Seq(Readable) : Toward(Runner, length, elements, made, t)
      BY <1>1, <1>2 DEF Promised
    <2>2. Leads(Runner.work, elements, t)
      BY <1>5, <2>1
    <2>3. Rightly(Head(Runner.work), elements, t) \/ Head(Runner.work) = SetLength(Len(t))
      BY <2>2, LeadsHead
    <2>4. SetLength(Len(t)).do = "setLength"
      BY DEF SetLength
    <2>5. Rightly(Head(Runner.work), elements, t)
      BY <2>3, <2>4
    <2> QED BY <2>5, SeqElement DEF Rightly
  <1>7. AllReadable(elements')
    BY <1>6
  <1>8. ASSUME NEW made \in Seq(Readable), NEW t \in Seq(Readable), Toward(Runner, length, elements, made, t)
        PROVE  Toward(g, length', elements', made, t)
    <2>1. Runner.op \in Writers /\ Writing(Runner, elements, made, t) /\ Leads(Runner.work, elements, t)
      BY <1>5, <1>8
    <2>2. Leads(Tail(Runner.work), elements', t)
      BY <1>1, <2>1, LeadsDeed
    <2>3. Writing(g, elements', made, t)
      BY <1>1, <1>4, <2>1, <2>2, WritingGoesOn
    <2> QED BY <1>4, <2>1, <2>3 DEF Toward
  <1>9. past'.plain = past.plain /\ frames' = WithRunner(g)
    BY <1>3
  <1> QED BY <1>2, <1>4, <1>7, <1>8, <1>9, OperationGoesOn

LEMMA DoWriteRefines ==
  ASSUME IInv, IInv', BInv, CInv, past.plain, DoWrite
  PROVE  CInv' /\ UNCHANGED Contract!vars
  <1>1. /\ frames # <<>> /\ Runner.waits = "nothing" /\ Runner.work # <<>>
        /\ Instruction.do = "write" /\ Instruction = Head(Runner.work)
    BY AtRunner DEF DoWrite
  <1>2. AllReadable(elements) /\ ~IsAccessor(Instruction.at)
    BY <1>1, RunnerFaithful
  <1>3. /\ StoreElement(Instruction.at, Instruction.value) /\ frames' = WithRunner(NextDone(Runner))
        /\ UNCHANGED <<answer, past>>
    BY <1>2 DEF DoWrite
  <1>4. PICK i, v : i = Instruction.at /\ v = Instruction.value
    OBVIOUS
  <1>5. elements' = [j \in DOMAIN elements \cup {i} |-> IF j = i THEN v ELSE elements[j]]
    BY <1>3, <1>4 DEF StoreElement
  <1>6. \A y : At(elements', y) = IF y = i THEN v ELSE At(elements, y)
    BY <1>5 DEF At
  <1>7. v \in Readable => AllReadable(elements')
    BY <1>2, <1>5 DEF AllReadable
  <1> QED BY <1>1, <1>3, <1>4, <1>6, <1>7, WritesRefine

LEMMA DoEraseRefines ==
  ASSUME IInv, IInv', BInv, CInv, past.plain, DoErase
  PROVE  CInv' /\ UNCHANGED Contract!vars
  <1>1. /\ frames # <<>> /\ Runner.waits = "nothing" /\ Runner.work # <<>>
        /\ Instruction.do = "erase" /\ Instruction = Head(Runner.work)
    BY AtRunner DEF DoErase
  <1>2. AllReadable(elements)
    BY <1>1, RunnerFaithful
  <1>3. /\ RemoveElement(Instruction.at) /\ frames' = WithRunner(NextDone(Runner))
        /\ UNCHANGED <<answer, past>>
    BY DEF DoErase
  <1>4. PICK i : i = Instruction.at
    OBVIOUS
  <1>5. elements' = [j \in DOMAIN elements \ {i} |-> elements[j]]
    BY <1>3, <1>4 DEF RemoveElement
  <1>6. \A y : y # i => At(elements', y) = At(elements, y)
    BY <1>5 DEF At
  <1>7. AllReadable(elements')
    BY <1>2, <1>5 DEF AllReadable
  <1> QED BY <1>1, <1>3, <1>4, <1>6, <1>7, WritesRefine

\* The length is set, and all is done.
LEMMA DoSetLengthRefines ==
  ASSUME IInv, IInv', BInv, CInv, past.plain, DoSetLength
  PROVE  CInv' /\ UNCHANGED Contract!vars
  <1>1. /\ frames # <<>> /\ Runner.waits = "nothing" /\ Runner.work # <<>>
        /\ Instruction.do = "setLength" /\ Instruction = Head(Runner.work)
    BY AtRunner DEF DoSetLength
  <1>2. /\ length' = Instruction.to /\ elements' = elements /\ frames' = WithRunner(NextDone(Runner))
        /\ UNCHANGED <<answer, past>>
    BY DEF DoSetLength, StoreLength
  <1>3. /\ Runner \in Frame /\ Runner.work \in Seq(Instructions) /\ Promised(Runner, length, elements)
        /\ AllReadable(elements) /\ length \in Nat
    BY <1>1, RunnerFaithful
  <1>4. Runner.op \notin Callers
    BY <1>1, <1>3, CallersDo
  <1>5. PICK g : g = NextDone(Runner)
    OBVIOUS
  <1>6. /\ g.op = Runner.op /\ g.before = Runner.before /\ g.made = Runner.made
        /\ g.work = Tail(Runner.work) /\ g.waits = "nothing"
    BY <1>3, <1>5, NextDoneParts
  <1>7. ASSUME NEW made \in Seq(Readable), NEW t \in Seq(Readable), Toward(Runner, length, elements, made, t)
        PROVE  Toward(g, length', elements', made, t)
    <2>1. Writing(Runner, elements, made, t)
      BY <1>1, <1>3, <1>7, TowardKinds
    <2>2. Leads(Runner.work, elements, t) /\ Runner.made = made
      BY <1>1, <1>3, <2>1, WritingParts
    <2>3. Head(Runner.work).to = Len(t) /\ Tail(Runner.work) = <<>> /\ Shown(Len(t), elements) = t
      BY <1>1, <2>2, LeadsEnds
    <2>4. Done(g, length', elements', made, t)
      BY <1>1, <1>2, <1>6, <2>2, <2>3 DEF Done
    <2> QED BY <2>4 DEF Toward
  <1>8. past'.plain = past.plain /\ frames' = WithRunner(g) /\ AllReadable(elements') /\ answer' = answer
    BY <1>2, <1>3, <1>5
  <1> QED BY <1>1, <1>4, <1>6, <1>7, <1>8, OperationGoesOn

LEMMA DoDropLastRefines ==
  ASSUME IInv, IInv', BInv, CInv, past.plain, DoDropLast
  PROVE  CInv' /\ UNCHANGED Contract!vars
  <1>1. /\ frames # <<>> /\ Runner.waits = "nothing" /\ Runner.work # <<>>
        /\ Instruction.do = "dropLast" /\ Instruction = Head(Runner.work)
    BY AtRunner DEF DoDropLast
  <1>2. /\ length' = (length - 1) % 2^Width /\ elements' = elements /\ frames' = WithRunner(NextDone(Runner))
        /\ answer' = answer
    BY DEF DoDropLast, StoreLength
  <1>3. past'.plain = past.plain
    BY DEF DoDropLast, IInv, PastOK
  <1>4. /\ Runner \in Frame /\ Runner.work \in Seq(Instructions) /\ Promised(Runner, length, elements)
        /\ AllReadable(elements) /\ length \in Nat /\ length \in Lengths
    BY <1>1, RunnerFaithful
  <1>5. Runner.op \notin Callers
    BY <1>1, <1>4, CallersDo
  <1>6. PICK g : g = NextDone(Runner)
    OBVIOUS
  <1>7. /\ g.op = Runner.op /\ g.before = Runner.before /\ g.made = Runner.made
        /\ g.work = Tail(Runner.work) /\ g.waits = "nothing"
    BY <1>4, <1>6, NextDoneParts
  <1>8. ASSUME NEW made \in Seq(Readable), NEW t \in Seq(Readable), Toward(Runner, length, elements, made, t)
        PROVE  Toward(g, length', elements', made, t)
    <2>1. Popping(Runner, length, elements, made, t)
      BY <1>1, <1>4, <1>8, TowardKinds
    <2>2. TakeLast.do # "dropLast" /\ Head(<<TakeLast, DropLast>>) = TakeLast
      BY DEF TakeLast
    <2>3. length > 0 /\ t = Shown(length - 1, elements) /\ Runner.work = <<DropLast>> /\ Runner.made = made
      BY <1>1, <2>1, <2>2 DEF Popping
    <2>4. length' = length - 1
      BY <1>2, <1>4, <2>3, OneLess
    <2>5. g.work = <<>>
      BY <1>7, <2>3
    <2>6. Done(g, length', elements', made, t)
      BY <1>2, <1>7, <2>3, <2>4, <2>5 DEF Done
    <2> QED BY <2>6 DEF Toward
  <1>9. frames' = WithRunner(g) /\ AllReadable(elements')
    BY <1>2, <1>4, <1>6
  <1> QED BY <1>1, <1>2, <1>3, <1>5, <1>7, <1>8, <1>9, OperationGoesOn

\* The next argument of concat.
Argues(f, made, t) == \E s \in Seq(Readable) : Adds(f.work, t, s) /\ f.made \o s = made

LEMMA NextArgument ==
  ASSUME NEW f \in Frame, NEW n \in Nat, NEW e, AllReadable(e), NEW made, NEW t \in Seq(Readable),
         Gathering(f, n, e, made, t), f.work # <<>>, Head(f.work).do \in {"spread", "add"}
  PROVE  Argues(f, made, t)
  <1>1. \/ f.work = <<>> /\ f.made = made
        \/ /\ f.work # <<>> /\ Head(f.work).do = "collect"
           /\ \E q \in Seq(Collects), w \in Seq(Instructions), s \in Seq(Readable) :
                /\ q # <<>> /\ f.work = q \o w /\ f.made \o Vals(e, q) \o s = made /\ Adds(w, t, s)
                /\ Head(f.work) = q[1] /\ Tail(f.work) = Tail(q) \o w /\ Tail(q) \in Seq(Collects)
        \/ /\ f.work # <<>> /\ Head(f.work).do \in {"spread", "add"}
           /\ \E s \in Seq(Readable) : Adds(f.work, t, s) /\ f.made \o s = made
    BY GatheringParts
  <1> QED BY <1>1 DEF Argues

\* concat comes to an argument.
LEMMA DoSpreadRefines ==
  ASSUME IInv, IInv', BInv, CInv, past.plain, DoSpread
  PROVE  CInv' /\ UNCHANGED Contract!vars
  <1>1. /\ frames # <<>> /\ Runner.waits = "nothing" /\ Runner.work # <<>>
        /\ Instruction.do = "spread" /\ Instruction = Head(Runner.work)
    BY AtRunner DEF DoSpread
  <1>2. /\ Runner \in Frame /\ Runner.work \in Seq(Instructions) /\ Promised(Runner, length, elements)
        /\ AllReadable(elements) /\ length \in Nat /\ Runner.made \in Seq(Values)
    BY <1>1, RunnerFaithful
  <1>3. Runner.op \notin Callers
    BY <1>1, <1>2, CallersDo
  <1>4. PICK g : g = [Runner EXCEPT !.work = Each(Collect, 0, length) \o Tail(@)]
    OBVIOUS
  <1>5. /\ frames' = WithRunner(g) /\ UNCHANGED <<length, elements, answer, past>>
    BY <1>4 DEF DoSpread
  <1>6. /\ g.op = Runner.op /\ g.before = Runner.before /\ g.made = Runner.made
        /\ g.work = Each(Collect, 0, length) \o Tail(Runner.work) /\ g.waits = "nothing"
    BY <1>1, <1>2, <1>4 DEF Frame
  <1>7. PICK q, v : q = Each(Collect, 0, length) /\ v = Vals(elements, q)
    OBVIOUS
  <1>8. q \in Seq(Collects) /\ v = Shown(length, elements)
    <2>1. PICK l : l = IF length > 0 THEN length - 0 ELSE 0
      OBVIOUS
    <2>2. q \in Seq(Collects) /\ v = [k \in 1..l |-> At(elements, 0 + k - 1)]
      BY <1>2, <1>7, <2>1, EachCollect
    <2>3. l = length
      BY <1>2, <2>1
    <2> QED BY <2>2, <2>3 DEF Shown
  <1>9. ASSUME NEW made \in Seq(Readable), NEW t \in Seq(Readable), Toward(Runner, length, elements, made, t)
        PROVE  Toward(g, length, elements, made, t)
    <2>1. Runner.op \in {"concat", "slice"} /\ Gathering(Runner, length, elements, made, t)
      BY <1>1, <1>2, <1>9, TowardKinds
    <2>2. PICK f : f = Runner
      OBVIOUS
    <2>3. PICK s \in Seq(Readable) : Adds(f.work, t, s) /\ f.made \o s = made
      <3>1. /\ f \in Frame /\ Gathering(f, length, elements, made, t) /\ f.work # <<>>
            /\ Head(f.work).do \in {"spread", "add"}
        BY <1>1, <1>2, <2>1, <2>2
      <3>2. AllReadable(elements) /\ length \in Nat
        BY <1>2
      <3>3. Argues(f, made, t)
        BY <3>1, <3>2, NextArgument
      <3> QED BY <3>3 DEF Argues
    <2>4. Adds(Runner.work, t, s) /\ Runner.made \o s = made
      BY <2>2, <2>3
    <2>5. PICK s2 : Short(Tail(Runner.work), t, s2) /\ (s = t \o s2 \/ (s2 = <<>> /\ s = t))
      BY <1>1, <1>2, <2>4, AddsParts
    <2>6. s2 \in Seq(Readable)
      <3>1. s2 = <<>> \/ s2 = t \/ \E x \in Datum : s2 = <<x>>
        BY <2>5 DEF Short, Part
      <3>2. \A x \in Datum : x \in Readable
        BY DEF Readable
      <3>3. \A x \in Readable : <<x>> \in Seq(Readable)
        OBVIOUS
      <3>4. <<>> \in Seq(Readable)
        OBVIOUS
      <3> QED BY <3>1, <3>2, <3>3, <3>4
    <2>7. s = t \o s2
      BY <2>5
    <2>8. Shown(length, elements) = t
      BY <2>1 DEF Gathering
    <2>9. g.made \o Vals(elements, q) \o s2 = made
      <3>1. PICK m : m = Runner.made
        OBVIOUS
      <3>2. Readable \subseteq Values
        BY DEF Values, Readable
      <3>3. m \in Seq(Values) /\ t \in Seq(Values) /\ s2 \in Seq(Values)
        BY <1>2, <2>6, <3>1, <3>2
      <3>4. m \o t \o s2 = m \o (t \o s2)
        BY <3>3, JoinedThree
      <3> QED BY <1>6, <1>7, <1>8, <2>4, <2>7, <2>8, <3>1, <3>4
    <2>10. Adds(Tail(Runner.work), t, s2)
      BY <2>5 DEF Adds
    <2>11. Tail(Runner.work) \in Seq(Instructions)
      BY <1>1, <1>2, SeqTail
    <2>12. Gathering(g, length, elements, made, t)
      BY <1>6, <1>7, <1>8, <2>6, <2>8, <2>9, <2>10, <2>11 DEF Gathering
    <2> QED BY <1>6, <2>1, <2>12 DEF Toward
  <1> QED BY <1>1, <1>2, <1>3, <1>5, <1>6, <1>9, OperationGoesOn

LEMMA DoAddRefines ==
  ASSUME IInv, IInv', BInv, CInv, past.plain, DoAdd
  PROVE  CInv' /\ UNCHANGED Contract!vars
  <1>1. /\ frames # <<>> /\ Runner.waits = "nothing" /\ Runner.work # <<>>
        /\ Instruction.do = "add" /\ Instruction = Head(Runner.work)
    BY AtRunner DEF DoAdd
  <1>2. /\ Runner \in Frame /\ Runner.work \in Seq(Instructions) /\ Promised(Runner, length, elements)
        /\ AllReadable(elements) /\ length \in Nat /\ Runner.made \in Seq(Values)
    BY <1>1, RunnerFaithful
  <1>3. Runner.op \notin Callers
    BY <1>1, <1>2, CallersDo
  <1>4. PICK g : g = [NextDone(Runner) EXCEPT !.made = Append(@, Instruction.value)]
    OBVIOUS
  <1>5. /\ frames' = WithRunner(g) /\ UNCHANGED <<length, elements, answer, past>>
    BY <1>4 DEF DoAdd
  <1>6. /\ g.op = Runner.op /\ g.before = Runner.before /\ g.made = Append(Runner.made, Instruction.value)
        /\ g.work = Tail(Runner.work) /\ g.waits = "nothing"
    BY <1>1, <1>2, <1>4 DEF Frame, NextDone
  <1>7. Instruction.value \in Datum
    BY <1>1, <1>2, SeqTail, InstructionParts
  <1>8. ASSUME NEW made \in Seq(Readable), NEW t \in Seq(Readable), Toward(Runner, length, elements, made, t)
        PROVE  Toward(g, length, elements, made, t)
    <2>1. Gathering(Runner, length, elements, made, t)
      BY <1>1, <1>2, <1>8, TowardKinds
    <2>2. PICK f : f = Runner
      OBVIOUS
    <2>3. PICK s \in Seq(Readable) : Adds(f.work, t, s) /\ f.made \o s = made
      <3>1. /\ f \in Frame /\ Gathering(f, length, elements, made, t) /\ f.work # <<>>
            /\ Head(f.work).do \in {"spread", "add"}
        BY <1>1, <1>2, <2>1, <2>2
      <3>2. AllReadable(elements) /\ length \in Nat
        BY <1>2
      <3>3. Argues(f, made, t)
        BY <3>1, <3>2, NextArgument
      <3> QED BY <3>3 DEF Argues
    <2>4. Adds(Runner.work, t, s) /\ Runner.made \o s = made
      BY <2>2, <2>3
    <2>5. Tail(Runner.work) = <<>> /\ s = <<Instruction.value>>
      BY <1>1, <1>2, <2>4, AddsParts
    <2>6. Append(Runner.made, Instruction.value) = made
      <3>1. PICK m, x : m = Runner.made /\ x = Instruction.value
        OBVIOUS
      <3>2. m \in Seq(Values) /\ x \in Values
        BY <1>2, <1>7, <3>1 DEF Values
      <3>3. Append(m, x) = m \o <<x>>
        BY <3>2
      <3> QED BY <2>4, <2>5, <3>1, <3>3
    <2>7. Shown(length, elements) = t
      BY <2>1 DEF Gathering
    <2>8. Done(g, length, elements, made, t)
      BY <1>6, <2>5, <2>6, <2>7 DEF Done
    <2> QED BY <2>8 DEF Toward
  <1> QED BY <1>1, <1>2, <1>3, <1>5, <1>6, <1>8, OperationGoesOn

LEMMA ReadsRefine ==
  ASSUME IInv, IInv', BInv, CInv, past.plain, DoRead \/ DoTakeLast
  PROVE  CInv' /\ UNCHANGED Contract!vars
  <1>1. CASE DoRead
    <2>1. /\ frames # <<>> /\ Runner.waits = "nothing" /\ Runner.work # <<>>
          /\ Instruction.do \in {"take", "move", "collect"} /\ Instruction = Head(Runner.work)
          /\ ReadElement(Instruction.at)
      BY <1>1, AtRunner DEF DoRead
    <2> QED BY <2>1, ReadElementRefines
  <1>2. CASE DoTakeLast
    <2>1. /\ frames # <<>> /\ Runner.waits = "nothing" /\ Runner.work # <<>>
          /\ Instruction.do \in {"takeLast"} /\ Instruction = Head(Runner.work)
          /\ ReadElement((length - 1) % 2^Width)
      BY <1>2, AtRunner DEF DoTakeLast
    <2> QED BY <2>1, ReadElementRefines
  <1> QED BY <1>1, <1>2

LEMMA DoCallRefines ==
  ASSUME IInv, IInv', BInv, CInv, past.plain, DoCall
  PROVE  CInv' /\ UNCHANGED Contract!vars
  <1>1. /\ frames # <<>> /\ Runner.waits = "nothing" /\ Runner.work # <<>>
        /\ Instruction.do = "call" /\ Instruction = Head(Runner.work)
    BY AtRunner DEF DoCall
  <1>2. CASE ReadElement(Instruction.at)
    BY <1>1, <1>2, ReadElementRefines
  <1>3. CASE frames' = WithRunner(NextDone(Runner)) /\ UNCHANGED <<length, lengthValue, elements, answer, past>>
    <2>1. Runner \in Frame
      BY <1>1, RunnerOK
    <2>2. PICK g : g = NextDone(Runner)
      OBVIOUS
    <2>3. g.op = Runner.op /\ g.made = Runner.made /\ g.work = Tail(Runner.work)
      BY <2>1, <2>2, NextDoneParts
    <2>4. frames' = WithRunner(g) /\ past'.plain = past.plain
      BY <1>3, <2>2
    <2> QED BY <1>1, <1>3, <2>3, <2>4, CallsWait
  <1> QED BY <1>2, <1>3 DEF DoCall

\* apply calls its function with the elements.
LEMMA DoInvokeRefines ==
  ASSUME IInv, IInv', BInv, CInv, past.plain, DoInvoke
  PROVE  CInv' /\ Contract!Next
  <1>1. /\ frames # <<>> /\ Runner.waits = "nothing" /\ Runner.work # <<>>
        /\ Instruction.do = "invoke" /\ Instruction = Head(Runner.work)
    BY AtRunner DEF DoInvoke
  <1>2. /\ Runner \in Frame /\ Runner.work \in Seq(Instructions) /\ Promised(Runner, length, elements)
        /\ AllReadable(elements) /\ length \in Nat /\ Runner.made \in Seq(Values)
    BY <1>1, RunnerFaithful
  <1>3. Runner.op = "apply"
    <2>1. CASE Runner.op \notin Callers
      <3>1. PICK made \in Seq(Readable), t \in Seq(Readable) : Toward(Runner, length, elements, made, t)
        BY <1>2, <2>1 DEF Promised
      <3> QED BY <1>1, <1>2, <3>1, TowardKinds
    <2>2. CASE Runner.op = "forEach"
      <3>1. Runner.work[1].do = "call"
        BY <1>1, <1>2, <2>2 DEF Promised
      <3> QED BY <1>1, <1>2, <3>1
    <2> QED BY <2>1, <2>2 DEF Callers
  <1>4. /\ length <= MaxArguments
        /\ \E q \in Seq(Takes) : Runner.work = Append(q, Invoke)
                                 /\ Runner.made \o Vals(elements, q) = Shown(length, elements)
    BY <1>1, <1>2, <1>3 DEF Promised, Applying
  <1>5. PICK q \in Seq(Takes) : Runner.work = Append(q, Invoke)
                                /\ Runner.made \o Vals(elements, q) = Shown(length, elements)
    BY <1>4
  <1>6. q = <<>>
    <2>1. q # <<>> => Head(Runner.work) \in Takes
      BY <1>5, AppendedHead
    <2> QED BY <1>1, <2>1 DEF Takes
  <1>7. Runner.work = <<Invoke>>
    BY <1>5, <1>6
  <1>8. Runner.made = Shown(length, elements)
    <2>1. PICK m : m = Runner.made
      OBVIOUS
    <2>2. m \o <<>> = m
      BY <1>2, <2>1, EmptyJoined
    <2> QED BY <1>5, <1>6, <2>1, <2>2, ValsEmpty
  <1>9. PICK g : g = [Runner EXCEPT !.waits = "callback", !.made = <<>>]
    OBVIOUS
  <1>10. g.op = "apply" /\ g.waits = "callback" /\ g.made = <<>> /\ g.work = <<Invoke>>
    BY <1>2, <1>3, <1>7, <1>9 DEF Frame
  <1>11. /\ frames' = WithRunner(g) /\ Answer("apply", Runner.made, FALSE, FALSE)
         /\ UNCHANGED <<length, elements, past>>
    BY <1>9 DEF DoInvoke
  <1>12. Promised(g, length, elements)
    BY <1>10 DEF Promised, Applying, Callers
  <1>13. Runner.op \in Callers /\ g.op = Runner.op /\ past'.plain = past.plain
    BY <1>3, <1>10, <1>11 DEF Callers
  <1>14. CInv' /\ Seen = Shown(length, elements) /\ Seen' = Seen
    BY <1>1, <1>11, <1>12, <1>13, CallerGoesOn
  <1>15. Len(Seen) <= MaxArguments
    BY <1>2, <1>4, <1>14, ShownSeq
  <1>16. Answer("apply", Seen, FALSE, FALSE)
    BY <1>8, <1>11, <1>14
  <1> QED BY <1>13, <1>14, <1>15, <1>16, ContractApplies

\* An operation ends.
LEMMA DoReturnRefines ==
  ASSUME IInv, IInv', BInv, CInv, past.plain, DoReturn
  PROVE  CInv' /\ Contract!Next
  <1>1. frames # <<>> /\ Runner.waits = "nothing" /\ Runner.work = <<>>
    BY DEF DoReturn, ProgramRuns
  <1>2. PICK f, threw : /\ f = Runner
                        /\ threw = (Runner.op \in {"pop", "shift"} /\ Runner.made[1] = NoValue)
    OBVIOUS
  <1>3. /\ frames' = Front(frames) /\ Answer(f.op, f.made, threw, f.inside)
        /\ UNCHANGED <<length, elements, past>>
    BY <1>2 DEF DoReturn
  <1>4. /\ f \in Frame /\ Promised(f, length, elements) /\ AllReadable(elements) /\ length \in Nat
        /\ Seen = IF f.op \in Callers THEN Shown(length, elements) ELSE f.before
    BY <1>1, <1>2, RunnerFaithful
  <1>5. AllReadable(elements') /\ past'.plain = past.plain
    BY <1>3, <1>4
  <1>6. CInv' /\ Seen' = Shown(length, elements)
    BY <1>1, <1>3, <1>5, FaithfulNext, SeenNext
  <1>7. CASE f.op \in Callers
    <2>1. f.made = <<>>
      <3>1. CASE f.op = "forEach"
        BY <1>4, <3>1 DEF Promised
      <3>2. CASE f.op = "apply"
        <4>1. \A q \in Seq(Takes) : <<>> # Append(q, Invoke)
          BY AppendedHead
        <4> QED BY <1>1, <1>2, <1>4, <3>2, <4>1 DEF Promised, Applying
      <3> QED BY <1>7, <3>1, <3>2 DEF Callers
    <2>2. threw = FALSE
      BY <1>2, <1>7 DEF Callers
    <2>3. Answer(f.op, <<>>, FALSE, f.inside)
      BY <1>3, <2>1, <2>2
    <2>4. Seen' = Seen
      BY <1>4, <1>6, <1>7
    <2> QED BY <1>5, <1>6, <1>7, <2>3, <2>4, ContractCallsEnd
  <1>8. CASE f.op \notin Callers
    <2>1. PICK made \in Seq(Readable), t \in Seq(Readable) :
            Outcome(f.op, f.before, made, t) /\ Toward(f, length, elements, made, t)
      BY <1>4, <1>8 DEF Promised
    <2>2. f.made = made /\ Shown(length, elements) = t
      BY <1>1, <1>2, <1>4, <2>1, TowardKinds
    <2>3. threw = FALSE
      <3>1. ASSUME f.op \in {"pop", "shift"}
            PROVE  made # <<>>
        <4>1. CASE f.op = "pop"
          BY <2>1, <4>1 DEF Outcome
        <4>2. CASE f.op = "shift"
          <5>1. PICK c : c = f.before
            OBVIOUS
          <5>2. c \in Seq(Readable) /\ c # <<>> /\ made = SubSeq(c, 0 + 1, 0 + 1)
            BY <1>4, <2>1, <4>2, <5>1 DEF Outcome, Promised, Callers
          <5>3. Len(SubSeq(c, 1, 1)) = 1
            BY <5>2
          <5> QED BY <5>2, <5>3
        <4> QED BY <3>1, <4>1, <4>2
      <3>2. made # <<>> => made[1] \in Readable
        OBVIOUS
      <3> QED BY <1>2, <2>2, <3>1, <3>2, ArrayValuesAssumption DEF Readable
    <2>4. Outcome(f.op, Seen, made, Seen')
      BY <1>4, <1>6, <1>8, <2>1, <2>2
    <2>5. Answer(f.op, made, FALSE, f.inside)
      BY <1>3, <2>2, <2>3
    <2>6. Contract!Next
      BY <1>5, <2>4, <2>5, ContractReturns
    <2> QED BY <1>6, <2>6
  <1> QED BY <1>7, <1>8

LEMMA InstructionsRefine ==
  ASSUME IInv, IInv', BInv, CInv, past.plain,
         \/ DoRead \/ DoTakeLast \/ DoCall \/ DoInvoke \/ DoWrite \/ DoErase \/ DoSetLength
         \/ DoDropLast \/ DoSpread \/ DoAdd \/ DoReturn
  PROVE  CInv' /\ (Contract!Next \/ UNCHANGED Contract!vars)
  BY ReadsRefine, DoCallRefines, DoInvokeRefines, DoWriteRefines, DoEraseRefines, DoSetLengthRefines,
     DoDropLastRefines, DoSpreadRefines, DoAddRefines, DoReturnRefines

\* Only forEach and apply wait, for a callback.
LEMMA WaitingCalls ==
  ASSUME IInv, BInv, CInv, past.plain, frames # <<>>, Runner.waits # "nothing"
  PROVE  /\ Runner.op \in Callers /\ Runner.waits = "callback" /\ Runner \in Frame /\ Runner.work # <<>>
         /\ Promised(Runner, length, elements) /\ AllReadable(elements) /\ Seen = Shown(length, elements)
  <1>1. Runner.waits = "callback" /\ FrameOK(Runner, past.lost) /\ Runner \in Frame
    BY ProgramReads, RunnerOK
  <1>2. Promised(Runner, length, elements)
    BY OuterWait
  <1>3. AllReadable(elements)
    BY ElementsReadable
  <1>4. Runner.op \in Callers
    BY <1>1, <1>2 DEF Promised
  <1>5. Runner.work # <<>>
    BY <1>1 DEF FrameOK, Waiting
  <1>6. ProgramRuns
    BY <1>1 DEF ProgramRuns
  <1> QED BY <1>1, <1>2, <1>3, <1>4, <1>5, <1>6, SeenIdle

\* A callback ends.
LEMMA ReturnsRefine ==
  ASSUME IInv, IInv', BInv, CInv, past.plain, \/ \E v \in Datum : Returns(v)
                                              \/ Throws
  PROVE  CInv' /\ (Contract!Next \/ UNCHANGED Contract!vars)
  <1>0. frames # <<>> /\ Runner.waits # "nothing"
    BY DEF Returns, Throws
  <1>1. /\ Runner.op \in Callers /\ Runner.waits = "callback" /\ Runner \in Frame /\ Runner.work # <<>>
        /\ Promised(Runner, length, elements) /\ AllReadable(elements) /\ Seen = Shown(length, elements)
    BY <1>0, WaitingCalls
  <1>2. ASSUME NEW v \in Datum, Returns(v)
        PROVE  CInv' /\ UNCHANGED Contract!vars
    <2>1. frames' = WithRunner(NextDone(Runner)) /\ UNCHANGED <<length, elements, answer, past>>
      BY <1>1, <1>2 DEF Returns
    <2>2. PICK g : g = NextDone(Runner)
      OBVIOUS
    <2>3. /\ g.op = Runner.op /\ g.made = Runner.made /\ g.work = Tail(Runner.work) /\ g.waits = "nothing"
      BY <1>1, <2>2, NextDoneParts
    <2>4. g \in Frame
      BY <1>0, <2>1, <2>2, NextRunner
    <2>5. Promised(g, length, elements)
      <3>1. CASE Runner.op = "forEach"
        <4>1. Runner.made = <<>> /\ \A j \in DOMAIN Runner.work : Runner.work[j].do = "call"
          BY <1>1, <3>1 DEF Promised
        <4>2. \A j \in DOMAIN Tail(Runner.work) :
                j + 1 \in DOMAIN Runner.work /\ Tail(Runner.work)[j] = Runner.work[j + 1]
          BY <1>1, SeqTail DEF Frame
        <4> QED BY <2>3, <3>1, <4>1, <4>2 DEF Promised, Callers
      <3>2. CASE Runner.op = "apply"
        <4>1. Runner.work = <<Invoke>> /\ Runner.made = <<>>
          BY <1>1, <3>2 DEF Promised, Applying
        <4>2. g.work = <<>>
          BY <2>3, <4>1
        <4> QED BY <2>3, <3>2, <4>1, <4>2 DEF Promised, Applying, Callers
      <3> QED BY <1>1, <3>1, <3>2 DEF Callers
    <2>6. past'.plain = past.plain /\ frames' = WithRunner(g)
      BY <2>1, <2>2
    <2>7. CInv'
      BY <1>0, <1>1, <2>1, <2>4, <2>5, <2>6, FaithfulNext
    <2>8. Seen' = Shown(length, elements)
      BY <1>0, <1>1, <2>1, <2>3, <2>4, <2>6, SeenNext
    <2> QED BY <1>1, <2>1, <2>6, <2>7, <2>8, ContractStays
  <1>3. CASE Throws
    <2>1. PICK f : f = [Runner EXCEPT !.inside = TRUE, !.waits = "nothing"]
      OBVIOUS
    <2>2. f.op = Runner.op
      BY <1>1, <2>1 DEF Frame
    <2>3. /\ frames' = Front(frames) /\ Answer(f.op, <<>>, TRUE, f.inside)
          /\ UNCHANGED <<length, elements, past>>
      BY <1>1, <1>3, <2>1 DEF Throws, GivesUp
    <2>4. CInv'
      BY <1>0, <1>1, <2>3, FaithfulNext
    <2>5. Seen' = Shown(length, elements)
      BY <1>0, <2>3, SeenNext
    <2>6. Contract!Next
      BY <1>1, <2>2, <2>3, <2>5, ContractCallsEnd
    <2> QED BY <2>4, <2>6
  <1> QED BY <1>2, <1>3

LEMMA StepsRefine ==
  ASSUME IInv, BInv, CInv, [Next]_vars
  PROVE  CInv' /\ [Contract!Next]_(Contract!vars)
  <1>0. IInv'
    BY StepsKeep
  <1>1. CASE ~past.plain
    <2>1. ~past'.plain
      BY <1>1, PlainBefore
    <2>2. UNCHANGED Contract!vars
      <3>1. Seen' = Seen
        BY <1>1, <2>1 DEF Seen
      <3>2. Told' = Told
        BY <1>1, <2>1 DEF Told
      <3>3. past'.plain = past.plain
        BY <1>0, <1>1, <2>1 DEF IInv, PastOK
      <3> QED BY <3>1, <3>2, <3>3 DEF Contract!vars
    <2> QED BY <2>1, <2>2 DEF CInv
  <1>2. CASE past.plain /\ ~past'.plain
    <2>1. past'.plain = FALSE
      BY <1>0, <1>2 DEF IInv, PastOK
    <2>2. Contract!Next
      BY <1>2, <2>1, ContractForfeits
    <2> QED BY <1>2, <2>2 DEF CInv
  <1>3. CASE past.plain /\ past'.plain /\ Next
    <2>1. CASE \/ \E i \in Indices : \/ \E v \in Datum : PutElement(i, v)
                                     \/ DeleteElement(i)
                                     \/ DefineAccessor(i)
               \/ \E n \in 0..MaxLength : PutLength(n)
      <3>1. CASE \E i \in Indices, v \in Datum : PutElement(i, v)
        BY <1>3, <3>1, PutFaithful
      <3>2. CASE \E i \in Indices : DeleteElement(i)
        BY <1>3, <3>2, DeleteFaithful
      <3>3. CASE \E n \in 0..MaxLength : PutLength(n)
        BY <1>3, <3>3, PutLengthFaithful
      <3>4. CASE \E i \in Indices : DefineAccessor(i)
        BY <1>0, <1>3, <3>4 DEF DefineAccessor, IInv, PastOK
      <3> QED BY <2>1, <3>1, <3>2, <3>3, <3>4
    <2>2. CASE \/ \E items \in SeqOf(Datum, MaxItems) :
                    \/ Push(items)
                    \/ \E s \in -1..MaxLength, n \in -1..MaxLength : Splice(s, n, items)
               \/ Pop \/ Shift \/ Apply \/ ForEach
               \/ \E items \in SeqOf(Datum \cup {ThisArray}, 1) : Concat(items)
               \/ \E begin \in 0..MaxLength, end \in SliceEnds : Slice(begin, end)
      BY <1>3, <2>2, OperationsRefine
    <2>3. CASE \/ DoRead \/ DoTakeLast \/ DoCall \/ DoInvoke \/ DoWrite \/ DoErase \/ DoSetLength
               \/ DoDropLast \/ DoSpread \/ DoAdd \/ DoReturn
      BY <1>0, <1>3, <2>3, InstructionsRefine
    <2>4. CASE (\E v \in Datum : Returns(v)) \/ Throws
      BY <1>0, <1>3, <2>4, ReturnsRefine
    <2> QED BY <1>3, <2>1, <2>2, <2>3, <2>4 DEF Next
  <1>4. CASE UNCHANGED vars
    <2>1. CInv'
      BY <1>4 DEF vars, CInv, Faithful, AllReadable
    <2>2. Seen' = Seen /\ Told' = Told /\ past'.plain = past.plain
      BY <1>4 DEF vars, Seen, Told, HalfDone, ProgramRuns, Runner, Content, ValueAt
    <2> QED BY <2>1, <2>2 DEF Contract!vars
  <1> QED BY <1>1, <1>2, <1>3, <1>4

LEMMA InitRefines ==
  ASSUME Init
  PROVE  CInv /\ Contract!Init
  <1>1. PICK n \in 0..MaxLength : \/ ArrayOf(n, [i \in {} |-> Undefined])
                                  \/ \E e \in [0..(n - 1) -> Datum] : ArrayOf(n, e)
    BY DEF Init
  <1>2. frames = <<>> /\ answer = NoAnswer /\ past.plain = TRUE
    BY DEF Init
  <1>3. length = n /\ n \in Nat
    BY <1>1, Bounds DEF ArrayOf
  <1>4. AllReadable(elements)
    BY <1>1 DEF ArrayOf, AllReadable, Readable
  <1>5. CInv
    BY <1>2, <1>4 DEF CInv, Faithful
  <1>6. Seen = Shown(n, elements)
    BY <1>2, <1>3, SeenIs DEF SeenOf
  <1>7. Seen \in [1..n -> Contract!Readable]
    BY <1>4, <1>6, AtReadable DEF Shown, Contract!Readable, Readable
  <1>8. Told = Contract!NoAnswer
    BY <1>2, SeenIs DEF NoAnswer, Contract!NoAnswer
  <1> QED BY <1>2, <1>5, <1>7, <1>8 DEF Contract!Init

\* Element by element, push, pop, shift, splice, concat, slice and apply do to an
\* array without accessors, and return, what the language says they do at once;
\* forEach leaves the array to its callback (builtin.cc 371-411, 441-611,
\* startup.js 232-257).
THEOREM ContractRefined == Spec => ImplementsContract
  <1>1. Init => CInv /\ Contract!Init
    BY InitRefines
  <1>2. IInv /\ BInv /\ CInv /\ [Next]_vars => CInv' /\ [Contract!Next]_(Contract!vars)
    BY StepsRefine
  <1>3. Init => IInv /\ BInv
    BY InitKeeps, InitCalm
  <1>4. IInv /\ BInv /\ [Next]_vars => IInv' /\ BInv'
    BY StepsKeep, StepsCalm
  <1> QED BY <1>1, <1>2, <1>3, <1>4, PTL DEF Spec, ImplementsContract, Contract!Spec
=============================================================================
