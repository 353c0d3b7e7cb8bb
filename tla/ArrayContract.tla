---------------------------- MODULE ArrayContract ----------------------------
(***************************************************************************)
(* What an array promises to a program that reads it below its length: it  *)
(* is a sequence, on which every built-in operation is one step.  A        *)
(* position that comes below the length again may read as anything: there  *)
(* the program keeps elements the language would have removed.             *)
(*                                                                         *)
(* The promise is for elements that are plain values.  A program that puts *)
(* an accessor in the array forfeits it.                                   *)
(***************************************************************************)
EXTENDS Integers, Sequences, SequencesExt

CONSTANTS
  Datum,       \* the values of elements
  Undefined,   \* undefined, which a missing element reads as
  ThisArray,   \* the array, as an argument of concat
  MaxLength,   \* bound: the longest array
  MaxArguments, \* the most arguments apply passes on
  MaxItems     \* bound: the most items one operation adds

VARIABLES
  content,   \* what a[0], a[1], ... up to the length read
  answer,    \* what the last operation returned, or passed on
  plain      \* no accessor was ever defined

vars == <<content, answer, plain>>

Readable == Datum \cup {Undefined}

NoAnswer == [op |-> "none", made |-> <<>>, threw |-> FALSE]
Answers(op, made) == answer' = [op |-> op, made |-> made, threw |-> FALSE]

Init ==
  /\ content \in UNION {[1..n -> Readable] : n \in 0..MaxLength}
  /\ answer = NoAnswer
  /\ plain = TRUE

\* The content becomes one of length n, of which s is given.
Becomes(s, n) ==
  /\ content' \in [1..n -> Readable]
  /\ \A k \in DOMAIN s : k <= n => content'[k] = s[k]

PutElement(i, v) ==
  /\ IF i < Len(content) THEN content' = [content EXCEPT ![i + 1] = v]
     ELSE Becomes(content, i + 1) /\ content'[i + 1] = v
  /\ answer' = NoAnswer

PutLength(n) == Becomes(content, n) /\ answer' = NoAnswer

DeleteElement(i) ==
  /\ content' = [k \in DOMAIN content |-> IF k = i + 1 THEN Undefined ELSE content[k]]
  /\ answer' = NoAnswer

Push(items) == content' = content \o items /\ Answers("push", <<>>)

Pop ==
  IF content = <<>> THEN UNCHANGED content /\ Answers("pop", <<Undefined>>)
  ELSE content' = Front(content) /\ Answers("pop", <<Last(content)>>)

Splice(op, start, count, items) ==
  /\ content' = SubSeq(content, 1, start) \o items
                  \o SubSeq(content, start + count + 1, Len(content))
  /\ Answers(op, SubSeq(content, start + 1, start + count))

\* An argument of concat: this array, or else a value.
Spread(item) == IF item = ThisArray THEN content ELSE <<item>>

Concat(items) ==
  /\ UNCHANGED content
  /\ Answers("concat", content \o FlattenSeq([k \in DOMAIN items |-> Spread(items[k])]))

\* Where slice stops, asked for end: a negative one counts back from the length.
SliceEnds == (-MaxLength..MaxLength) \cup {Undefined}
SliceEnd(end) ==
  IF end = Undefined THEN Len(content) ELSE IF end < 0 THEN Len(content) + end ELSE end

\* Elements past the length may be asked for.
Slice(begin, end) ==
  /\ UNCHANGED content
  /\ \E made \in [1..(IF SliceEnd(end) > begin THEN SliceEnd(end) - begin ELSE 0) -> Readable] :
       /\ \A k \in DOMAIN made : begin + k \in DOMAIN content => made[k] = content[begin + k]
       /\ Answers("slice", made)

\* The function is called with the elements for arguments.
Apply ==
  /\ Len(content) <= MaxArguments
  /\ UNCHANGED content /\ Answers("apply", content)

\* The end of an operation that calls functions.  What they do to the array are
\* operations of their own.
CallsEnd ==
  /\ UNCHANGED content
  /\ \E op \in {"apply", "forEach"}, threw \in BOOLEAN :
       answer' = [op |-> op, made |-> <<>>, threw |-> threw]

Forfeit == plain' = FALSE /\ content' = <<>> /\ answer' = NoAnswer

\* The program goes on.
Forget == answer' = NoAnswer /\ UNCHANGED content

Operation ==
  \/ Forget
  \/ \E i \in 0..(MaxLength - 1), v \in Datum : PutElement(i, v)
  \/ \E n \in 0..MaxLength : PutLength(n)
  \/ \E i \in 0..(MaxLength - 1) : DeleteElement(i)
  \/ Pop
  \/ \E items \in SeqOf(Datum, MaxItems) : Push(items)
  \/ \E start \in 0..Len(content), items \in SeqOf(Datum, MaxItems) :
       \E count \in 0..(Len(content) - start) : Splice("splice", start, count, items)
  \/ content # <<>> /\ Splice("shift", 0, 1, <<>>)
  \/ content = <<>> /\ UNCHANGED content /\ Answers("shift", <<Undefined>>)
  \/ \E items \in SeqOf(Datum \cup {ThisArray}, 1) : Concat(items)
  \/ \E begin \in 0..MaxLength, end \in SliceEnds : Slice(begin, end)
  \/ Apply
  \/ CallsEnd

Next == plain /\ (Forfeit \/ (UNCHANGED plain /\ Operation))

Spec == Init /\ [][Next]_vars
=============================================================================
