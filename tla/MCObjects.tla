------------------------------ MODULE MCObjects ------------------------------
(***************************************************************************)
(* Instances of Objects for TLC.                                           *)
(***************************************************************************)
EXTENDS Objects, TLC

CONSTANTS base, derived, name1, name2, datum, function1

\* One object, or one and its prototype.
Alone == {base}
Pair == {base, derived}
NoProtos == [o \in Alone |-> NoObject]
Protos == [o \in Pair |-> IF o = derived THEN base ELSE NoObject]

OneName == {name1}
TwoNames == {name1, name2}
OneDatum == {datum}
NoData == {}
OneFunction == {function1}

\* All names in one bucket of one: every collision there can be.  Nothing then
\* tells one name from another.
HashCodes == [n \in Name |-> 3]
OneBucket == 1
NameSymmetry == Permutations(Name)

NoUses == {}

\* Bound: two names meet in the bucket of base alone, with nothing else going
\* on.  States beyond are checked, but not what follows them.
Memory(o) == objects[o][0].memory
TwoNamesInBase ==
  /\ making = {derived} /\ Memory(derived) = <<>>
  /\ answer = Undefined
  /\ \A i \in DOMAIN stack : stack[i].kind = "define"
SameName ==
  \E n \in Name : \A o \in Object :
    Memory(o) # <<>> => Len(Memory(o)) = 1 /\ Memory(o)[1].key = n
Collisions == TwoNamesInBase \/ SameName

\* Bound: what a setter does that a literal calls, { set n (x) {}, n: 1 }, is not
\* followed.
LiteralAlone == making # {} => stack = <<>>
=============================================================================
