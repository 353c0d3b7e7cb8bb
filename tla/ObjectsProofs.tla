---------------------------- MODULE ObjectsProofs ----------------------------
(***************************************************************************)
(* Objects with any names, prototypes, accessors and uses: their storage   *)
(* stays sound, and what is read-only stays as it is.  Without the uses    *)
(* that spoil a property: every null has its exception, and every step is  *)
(* one the language promises.                                              *)
(***************************************************************************)
EXTENDS Objects, SequenceTheorems, FiniteSetTheorems, TLAPS

Facts == INSTANCE HashMapFacts WITH Key <- Name, Value <- Property

Sound(t) == t \in Table /\ InMemory(t) /\ Placed(t)

\* What no step may disturb: the rest of TypeOK matters to no table.
IInv ==
  /\ objects \in [Object -> Table]
  /\ \A o \in Object : Sound(objects[o])
  /\ stack \in Seq(FrameType)

-----------------------------------------------------------------------------
(* The operations on one table.                                            *)

LEMMA ZeroType == Zero \in Property
  BY DEF Zero, Property

LEMMA Assumptions ==
  /\ Facts!HashAssumption /\ Facts!SizeAssumption /\ Facts!SpareAssumption /\ Facts!ZeroAssumption
  BY StorageAssumption, ZeroType
     DEF Facts!HashAssumption, Facts!SizeAssumption, Facts!SpareAssumption, Facts!ZeroAssumption

\* The operators of HashMapFacts are those of Objects.
LEMMA SameTables ==
  ASSUME NEW t
  PROVE  Facts!Good(t) <=> Sound(t)
  <1>1. Facts!Table = Table /\ Facts!Index = Index
    BY DEF Facts!Table, Table, Facts!Bucket, Bucket, Facts!Node, Node, Facts!Index, Index
  <1>2. Facts!InMemory(t) <=> InMemory(t)
    BY <1>1 DEF Facts!InMemory, InMemory
  <1>3. Facts!Placed(t) <=> Placed(t)
    BY <1>1 DEF Facts!Placed, Placed, Facts!IndexOf, IndexOf
  <1> QED BY <1>1, <1>2, <1>3 DEF Facts!Good, Sound

LEMMA SameLookup ==
  ASSUME NEW t, NEW k
  PROVE  /\ Facts!IndexOf(k) = IndexOf(k)
         /\ Facts!Position(t, k) = Position(t, k)
         /\ Facts!Has(t, k) <=> Has(t, k)
         /\ Facts!At(t, k) = At(t, k)
  BY DEF Facts!IndexOf, IndexOf, Facts!Position, Position, Facts!Has, Has, Facts!At, At

LEMMA SameSubscript ==
  ASSUME NEW t, NEW k
  PROVE  Facts!Subscript(t, k) = Subscript(t, k)
  BY DEF Facts!Subscript, Subscript, Facts!Has, Has, Facts!Position, Position, Facts!IndexOf, IndexOf,
         Facts!AddEntry, AddEntry, Facts!Reallocated, Reallocated

LEMMA SameChanges ==
  ASSUME NEW t, NEW k, NEW v
  PROVE  /\ Facts!Store(t, k, v) = Store(t, k, v)
         /\ Facts!Erase(t, k) = Erase(t, k)
         /\ \A i, p : Facts!Write(t, i, p, v) = Write(t, i, p, v)
  <1>1. \A s, i, p : Facts!Write(s, i, p, v) = Write(s, i, p, v)
    BY DEF Facts!Write, Write
  <1>2. Facts!Store(t, k, v) = Store(t, k, v)
    BY <1>1, SameSubscript, SameLookup DEF Facts!Store, Store
  <1>3. Facts!Erase(t, k) = Erase(t, k)
    BY DEF Facts!Erase, Erase, Facts!Position, Position, Facts!IndexOf, IndexOf
  <1> QED BY <1>1, <1>2, <1>3

LEMMA Subscripted ==
  ASSUME NEW t, Sound(t), NEW k \in Name
  PROVE  /\ Sound(Subscript(t, k)) /\ Has(Subscript(t, k), k)
         /\ \A l \in Name : Has(t, l) => Has(Subscript(t, k), l) /\ At(Subscript(t, k), l) = At(t, l)
         /\ \A l \in Name \ {k} : Has(Subscript(t, k), l) => Has(t, l)
  <1>1. Facts!Good(t)
    BY SameTables
  <1>2. /\ Facts!Good(Facts!Subscript(t, k)) /\ Facts!Has(Facts!Subscript(t, k), k)
        /\ \A l \in Name \ {k} : Facts!Has(Facts!Subscript(t, k), l) <=> Facts!Has(t, l)
        /\ \A l \in Name : Facts!Has(t, l) => Facts!At(Facts!Subscript(t, k), l) = Facts!At(t, l)
    BY <1>1, Assumptions, Facts!SubscriptMap
  <1>3. /\ Facts!Good(Subscript(t, k)) /\ Facts!Has(Subscript(t, k), k)
        /\ \A l \in Name \ {k} : Facts!Has(Subscript(t, k), l) <=> Facts!Has(t, l)
        /\ \A l \in Name : Facts!Has(t, l) => Facts!At(Subscript(t, k), l) = Facts!At(t, l)
    BY <1>2, SameSubscript
  <1> DEFINE s == Subscript(t, k)
  <1>4. /\ Facts!Good(s) /\ Facts!Has(s, k)
        /\ \A l \in Name \ {k} : Facts!Has(s, l) <=> Facts!Has(t, l)
        /\ \A l \in Name : Facts!Has(t, l) => Facts!At(s, l) = Facts!At(t, l)
    BY <1>3
  <1> HIDE DEF s
  <1>5. /\ Sound(s) /\ Has(s, k)
        /\ \A l \in Name : Has(t, l) => Has(s, l) /\ At(s, l) = At(t, l)
        /\ \A l \in Name \ {k} : Has(s, l) => Has(t, l)
    BY <1>4, SameTables, SameLookup
  <1> QED BY <1>5 DEF s

LEMMA Stored ==
  ASSUME NEW t, Sound(t), NEW k \in Name, NEW v \in Property
  PROVE  /\ Sound(Store(t, k, v)) /\ Has(Store(t, k, v), k) /\ At(Store(t, k, v), k) = v
         /\ \A l \in Name \ {k} :
              Has(t, l) => Has(Store(t, k, v), l) /\ At(Store(t, k, v), l) = At(t, l)
         /\ \A l \in Name \ {k} : Has(Store(t, k, v), l) => Has(t, l)
  <1>1. Facts!Good(t)
    BY SameTables
  <1>2. /\ Facts!Good(Facts!Store(t, k, v))
        /\ Facts!Has(Facts!Store(t, k, v), k) /\ Facts!At(Facts!Store(t, k, v), k) = v
        /\ \A l \in Name \ {k} : Facts!Has(Facts!Store(t, k, v), l) <=> Facts!Has(t, l)
        /\ \A l \in Name \ {k} : Facts!Has(t, l) => Facts!At(Facts!Store(t, k, v), l) = Facts!At(t, l)
    BY <1>1, Assumptions, Facts!StoreMap
  <1> DEFINE s == Store(t, k, v)
  <1>3. /\ Facts!Good(s) /\ Facts!Has(s, k) /\ Facts!At(s, k) = v
        /\ \A l \in Name \ {k} : Facts!Has(s, l) <=> Facts!Has(t, l)
        /\ \A l \in Name \ {k} : Facts!Has(t, l) => Facts!At(s, l) = Facts!At(t, l)
    BY <1>2, SameChanges
  <1> HIDE DEF s
  <1>4. /\ Sound(s) /\ Has(s, k) /\ At(s, k) = v
        /\ \A l \in Name \ {k} : Has(t, l) => Has(s, l) /\ At(s, l) = At(t, l)
        /\ \A l \in Name \ {k} : Has(s, l) => Has(t, l)
    BY <1>3, SameTables, SameLookup
  <1> QED BY <1>4 DEF s

LEMMA ErasedEntry ==
  ASSUME NEW t, Sound(t), NEW k \in Name, Has(t, k)
  PROVE  /\ Sound(Erase(t, k)) /\ ~Has(Erase(t, k), k)
         /\ \A l \in Name \ {k} :
              Has(t, l) => Has(Erase(t, k), l) /\ At(Erase(t, k), l) = At(t, l)
         /\ \A l \in Name \ {k} : Has(Erase(t, k), l) => Has(t, l)
  <1>1. Facts!Good(t) /\ Facts!Has(t, k)
    BY SameTables, SameLookup
  <1>2. /\ Facts!Good(Facts!Erase(t, k)) /\ ~Facts!Has(Facts!Erase(t, k), k)
        /\ \A l \in Name \ {k} : Facts!Has(Facts!Erase(t, k), l) <=> Facts!Has(t, l)
        /\ \A l \in Name \ {k} : Facts!Has(t, l) => Facts!At(Facts!Erase(t, k), l) = Facts!At(t, l)
    BY <1>1, Assumptions, Facts!EraseMap
  <1> DEFINE s == Erase(t, k)
  <1>3. /\ Facts!Good(s) /\ ~Facts!Has(s, k)
        /\ \A l \in Name \ {k} : Facts!Has(s, l) <=> Facts!Has(t, l)
        /\ \A l \in Name \ {k} : Facts!Has(t, l) => Facts!At(s, l) = Facts!At(t, l)
    BY <1>2, SameChanges
  <1> HIDE DEF s
  <1>4. /\ Sound(s) /\ ~Has(s, k)
        /\ \A l \in Name \ {k} : Has(t, l) => Has(s, l) /\ At(s, l) = At(t, l)
        /\ \A l \in Name \ {k} : Has(s, l) => Has(t, l)
    BY <1>3, SameTables, SameLookup
  <1> QED BY <1>4 DEF s

\* Writing to a node, whichever it is, moves no key.
LEMMA WrittenNode ==
  ASSUME NEW t, Sound(t), NEW k \in Name, NEW p \in 1..Len(t[IndexOf(k)].memory), NEW v \in Property
  PROVE  Sound(Write(t, IndexOf(k), p, v))
  <1> DEFINE i == Facts!IndexOf(k)
  <1>1. Facts!Good(t) /\ i \in Facts!Index
    BY Assumptions, SameTables, Facts!IndexType
  <1>2. p \in 1..Len(t[i].memory)
    BY SameLookup
  <1> HIDE DEF i
  <1>3. Facts!Good(Facts!Write(t, i, p, v))
    BY <1>1, <1>2, Assumptions, Facts!Written
  <1>4. Facts!Good(Write(t, i, p, v))
    BY <1>3, SameChanges
  <1>5. i = IndexOf(k)
    BY SameLookup DEF i
  <1> QED BY <1>4, <1>5, SameTables

\* What the nodes hold.
LEMMA NodeType ==
  ASSUME NEW t, Sound(t), NEW k \in Name, NEW p \in 1..Len(t[IndexOf(k)].memory)
  PROVE  t[IndexOf(k)].memory[p].value \in Property
  <1>1. IndexOf(k) \in Index
    BY Assumptions, Facts!IndexType, SameLookup DEF Facts!Index, Index
  <1>2. t[IndexOf(k)].memory \in Seq(Node)
    BY <1>1 DEF Sound, Table, Bucket
  <1>3. t[IndexOf(k)].memory[p] \in Node
    BY <1>2
  <1> QED BY <1>3 DEF Node

LEMMA EntryType ==
  ASSUME NEW t, Sound(t), NEW k \in Name, Has(t, k)
  PROVE  At(t, k) \in Property /\ Position(t, k) \in Nat \ {0}
  <1>1. Facts!Good(t) /\ Facts!Has(t, k)
    BY SameTables, SameLookup
  <1>2. Facts!Position(t, k) \in 1..t[Facts!IndexOf(k)].len
    BY <1>1, Assumptions, Facts!Found
  <1>3. Position(t, k) \in 1..t[IndexOf(k)].len
    BY <1>2, SameLookup
  <1>4. IndexOf(k) \in Index
    BY Assumptions, Facts!IndexType, SameLookup DEF Facts!Index, Index
  <1>5. t[IndexOf(k)].len <= Len(t[IndexOf(k)].memory) /\ t[IndexOf(k)].len \in Nat
        /\ Len(t[IndexOf(k)].memory) \in Nat
    BY <1>4 DEF Sound, InMemory, Table, Bucket
  <1>6. Position(t, k) \in 1..Len(t[IndexOf(k)].memory)
    BY <1>3, <1>5
  <1>7. At(t, k) \in Property
    BY <1>6, NodeType DEF At
  <1> QED BY <1>6, <1>7

LEMMA EmptySound == Sound(EmptyTable)
  <1>1. <<>> \in Seq(Node) /\ Len(<<>>) = 0 /\ 0 \in Nat
    OBVIOUS
  <1>2. EmptyTable \in Table
    BY <1>1 DEF EmptyTable, Table, Bucket
  <1>3. InMemory(EmptyTable) /\ Placed(EmptyTable)
    BY <1>1 DEF EmptyTable, InMemory, Placed
  <1> QED BY <1>2, <1>3 DEF Sound
-----------------------------------------------------------------------------
(* The stack.                                                              *)

LEMMA AccessorFrameType == AccessorFrame \in FrameType
  BY DEF FrameType

LEMMA DefineFrameType ==
  ASSUME NEW f \in FrameType, f.kind = "define"
  PROVE  /\ f.object \in Object /\ f.name \in Name /\ f.node \in Nat \ {0}
         /\ [f EXCEPT !.moved = TRUE] \in FrameType
         /\ \A phase \in {"value", "get", "set"} : [f EXCEPT !.phase = phase] \in FrameType
  <1>1. f # AccessorFrame
    BY DEF AccessorFrame
  <1> QED BY <1>1 DEF FrameType

LEMMA NewFrameType ==
  ASSUME NEW o \in Object, NEW n \in Name, NEW p \in Nat \ {0}, NEW b \in SUBSET Property
  PROVE  DefineFrame(o, n, p, b) \in FrameType
  BY DEF DefineFrame, FrameType

LEMMA Under ==
  ASSUME NEW s \in Seq(FrameType), s # <<>>
  PROVE  /\ Len(s) \in 1..Len(s) /\ s[Len(s)] \in FrameType
         /\ SubSeq(s, 1, Len(s) - 1) \in Seq(FrameType)
         /\ Len(SubSeq(s, 1, Len(s) - 1)) = Len(s) - 1
         /\ \A i \in 1..(Len(s) - 1) : SubSeq(s, 1, Len(s) - 1)[i] = s[i]
  <1>1. Len(s) \in Nat /\ Len(s) # 0
    BY EmptySeq
  <1>2. Len(s) \in 1..Len(s)
    BY <1>1
  <1>3. s[Len(s)] \in FrameType
    BY <1>2
  <1> DEFINE r == SubSeq(s, 1, Len(s) - 1)
  <1>4. \A i \in 1..(Len(s) - 1) : s[i] \in FrameType
    BY <1>1
  <1>5. r \in Seq(FrameType)
    BY <1>1, <1>4, SubSeqProperties
  <1>6. Len(r) = IF 1 <= Len(s) - 1 THEN Len(s) - 1 - 1 + 1 ELSE 0
    BY <1>1, <1>4, SubSeqProperties
  <1>7. \A i \in 1..(Len(s) - 1 - 1 + 1) : r[i] = s[1 + i - 1]
    BY <1>1, <1>4, SubSeqProperties
  <1>8. Len(r) = Len(s) - 1
    <2>1. PICK n \in Nat \ {0} : Len(s) = n
      BY <1>1
    <2>2. /\ 1 <= n - 1 => Len(r) = n - 1 - 1 + 1
          /\ ~(1 <= n - 1) => Len(r) = 0
      BY <1>6, <2>1
    <2> HIDE DEF r
    <2>3. CASE 1 <= n - 1
      <3>1. n - 1 - 1 + 1 = n - 1
        OBVIOUS
      <3> QED BY <2>1, <2>2, <2>3, <3>1
    <2>4. CASE ~(1 <= n - 1)
      <3>1. n - 1 = 0
        BY <2>4
      <3> QED BY <2>1, <2>2, <2>4, <3>1
    <2> QED BY <2>3, <2>4
  <1>9. \A i \in 1..(Len(s) - 1) : r[i] = s[i]
    <2> HIDE DEF r
    <2> QED BY <1>1, <1>7
  <1> QED BY <1>2, <1>3, <1>5, <1>8, <1>9

LEMMA Upon ==
  ASSUME NEW s \in Seq(FrameType), NEW f \in FrameType
  PROVE  Append(s, f) \in Seq(FrameType)
  OBVIOUS

LEMMA PointersType ==
  ASSUME stack \in Seq(FrameType), NEW o, NEW n, NEW s \in Pointers(o, n)
  PROVE  s \in Seq(FrameType)
  <1>1. \A i \in 1..Len(stack) : Stale(stack[i], o, n) \in FrameType
    <2> TAKE i \in 1..Len(stack)
    <2>1. stack[i] \in FrameType
      OBVIOUS
    <2> QED BY <2>1, DefineFrameType DEF Stale
  <1>2. [i \in 1..Len(stack) |-> Stale(stack[i], o, n)] \in Seq(FrameType)
    BY <1>1, IsASeq
  <1>3. DOMAIN stack = 1..Len(stack)
    OBVIOUS
  <1> QED BY <1>2, <1>3 DEF Pointers

-----------------------------------------------------------------------------
(* What a step has to show.                                                *)

\* The objects whose read-only properties a step may not touch.
Protected(o) ==
  /\ o \notin making
  /\ \A i \in DOMAIN stack : stack[i].kind = "define" => stack[i].object # o

\* The table t keeps what is read-only in s.
Keeps(s, t) ==
  \A l \in Name :
    Has(s, l) /\ At(s, l).flags \cap {"accessor", "writable"} = {}
    => \/ Has(t, l) /\ At(t, l) = At(s, l)
       \/ ~Has(t, l) /\ "configurable" \in At(s, l).flags

StepKeeps == \A o \in Object : Protected(o) => Keeps(objects[o], objects'[o])

LEMMA Untouched ==
  ASSUME IInv, UNCHANGED objects, stack' \in Seq(FrameType)
  PROVE  IInv' /\ StepKeeps
  <1>1. \A t : Keeps(t, t)
    BY DEF Keeps
  <1>2. StepKeeps
    BY <1>1 DEF StepKeeps
  <1> QED BY <1>2 DEF IInv

LEMMA Touched ==
  ASSUME IInv, NEW o \in Object, NEW t, Sound(t),
         Protected(o) => Keeps(objects[o], t),
         objects' = [objects EXCEPT ![o] = t], stack' \in Seq(FrameType)
  PROVE  IInv' /\ StepKeeps
  <1>1. \A u : Keeps(u, u)
    BY DEF Keeps
  <1>2. objects'[o] = t /\ \A q \in Object \ {o} : objects'[q] = objects[q]
    BY DEF IInv
  <1>3. StepKeeps
    BY <1>1, <1>2 DEF StepKeeps
  <1>4. objects' \in [Object -> Table]
    BY DEF IInv, Sound
  <1>5. \A q \in Object : Sound(objects'[q])
    BY <1>2 DEF IInv
  <1> QED BY <1>3, <1>4, <1>5 DEF IInv
LEMMA Outcomes ==
  ASSUME stack \in Seq(FrameType), NEW v, Reply(v) \/ Reject \/ Crash \/ Call(v)
  PROVE  stack' \in Seq(FrameType)
  <1>1. Append(stack, AccessorFrame) \in Seq(FrameType)
    BY AccessorFrameType, Upon
  <1> QED BY <1>1 DEF Reply, Reject, Crash, Call

-----------------------------------------------------------------------------
(* The operations of objects.                                              *)

LEMMA GetStep ==
  ASSUME IInv, NEW o \in Object, NEW n \in Name, Get(o, n)
  PROVE  IInv' /\ StepKeeps
  <1>1. stack' \in Seq(FrameType)
    BY Outcomes DEF Get, GetFrom, IInv
  <1> QED BY <1>1, Untouched DEF Get

LEMMA RefusedStep ==
  ASSUME IInv, NEW p, PutRefused(p), UNCHANGED objects
  PROVE  IInv' /\ StepKeeps
  <1>1. stack' \in Seq(FrameType)
    BY Outcomes DEF PutRefused, IInv
  <1> QED BY <1>1, Untouched

LEMMA CreatedType ==
  ASSUME NEW p \in Property, NEW v \in Values
  PROVE  Created(p, v) \in Property
  BY DEF Created, Property, Flags

\* A table written at a name that is not read-only.
LEMMA StoreKeeps ==
  ASSUME NEW t, Sound(t), NEW n \in Name, NEW p \in Property,
         Has(t, n) => "writable" \in At(t, n).flags
  PROVE  Keeps(t, Store(t, n, p))
  <1> DEFINE u == Store(t, n, p)
  <1>1. \A l \in Name \ {n} : Has(t, l) => Has(u, l) /\ At(u, l) = At(t, l)
    BY Stored
  <1> HIDE DEF u
  <1>2. Keeps(t, u)
    BY <1>1 DEF Keeps
  <1> QED BY <1>2 DEF u

LEMMA PutOwnStep ==
  ASSUME IInv, NEW o \in Object, NEW n \in Name, NEW v \in Values, HasOwn(o, n), PutOwn(o, n, v)
  PROVE  IInv' /\ StepKeeps
  <1> DEFINE p == Own(o, n)
             q == [p EXCEPT !.value = v]
  <1>1. CASE "writable" \in p.flags
    <2>1. Sound(objects[o]) /\ stack' \in Seq(FrameType) /\ objects' = [objects EXCEPT ![o] = Store(@, n, q)]
      BY <1>1 DEF IInv, PutOwn, Reply
    <2>2. p \in Property
      BY <2>1, EntryType DEF HasOwn, Own
    <2>3. q \in Property
      BY <2>2 DEF Property
    <2>4. At(objects[o], n) = p
      BY DEF Own
    <2> HIDE DEF p, q
    <2>5. Sound(Store(objects[o], n, q)) /\ Keeps(objects[o], Store(objects[o], n, q))
      BY <1>1, <2>1, <2>3, <2>4, Stored, StoreKeeps
    <2> DEFINE u == Store(objects[o], n, q)
    <2>6. objects' = [objects EXCEPT ![o] = u]
      BY <2>1
    <2> HIDE DEF u
    <2>7. Sound(u) /\ Keeps(objects[o], u)
      BY <2>5 DEF u
    <2> QED BY <2>1, <2>6, <2>7, Touched
  <1>2. CASE "writable" \notin p.flags
    BY <1>2, RefusedStep DEF PutOwn
  <1> QED BY <1>1, <1>2

LEMMA PutNewStep ==
  ASSUME IInv, NEW o \in Object, NEW n \in Name, NEW v \in Values, ~HasOwn(o, n), PutNew(o, n, v)
  PROVE  IInv' /\ StepKeeps
  <1> DEFINE t == Subscript(objects[o], n)
             q == Created(At(t, n), v)
             h == Holder(o, n)
  <1>1. CASE h = NoObject \/ "writable" \in Own(h, n).flags
    <2>1. Sound(objects[o]) /\ objects' = [objects EXCEPT ![o] = Store(t, n, q)]
      BY <1>1 DEF IInv, PutNew
    <2>2. stack' \in Seq(FrameType)
      BY <1>1, PointersType DEF IInv, PutNew
    <2>3. /\ Sound(t) /\ Has(t, n)
          /\ \A l \in Name : Has(objects[o], l) => Has(t, l) /\ At(t, l) = At(objects[o], l)
      BY <2>1, Subscripted
    <2> HIDE DEF t
    <2>4. q \in Property
      BY <2>3, EntryType, CreatedType
    <2> HIDE DEF q, h
    <2> DEFINE u == Store(t, n, q)
    <2>5. /\ Sound(u)
          /\ \A l \in Name \ {n} : Has(t, l) => Has(u, l) /\ At(u, l) = At(t, l)
      BY <2>3, <2>4, Stored
    <2>6. objects' = [objects EXCEPT ![o] = u]
      BY <2>1
    <2> HIDE DEF u
    <2>7. Keeps(objects[o], u)
      BY <2>3, <2>5 DEF Keeps, HasOwn
    <2> QED BY <2>2, <2>5, <2>6, <2>7, Touched
  <1>2. CASE ~(h = NoObject \/ "writable" \in Own(h, n).flags)
    BY <1>2, RefusedStep DEF PutNew
  <1> QED BY <1>1, <1>2

LEMMA AssignsStep ==
  ASSUME IInv, NEW o \in Object, NEW n \in Name, NEW v \in Values, Assigns(o, n, v)
  PROVE  IInv' /\ StepKeeps
  BY PutOwnStep, PutNewStep DEF Assigns

LEMMA DeleteStep ==
  ASSUME IInv, NEW o \in Object, NEW n \in Name, Delete(o, n)
  PROVE  IInv' /\ StepKeeps
  <1>1. stack' \in Seq(FrameType)
    BY Outcomes DEF Delete, Reply, Reject, IInv
  <1>2. CASE UNCHANGED objects
    BY <1>1, <1>2, Untouched
  <1>3. CASE /\ HasOwn(o, n) /\ "configurable" \in Own(o, n).flags
             /\ objects' = [objects EXCEPT ![o] = Erase(@, n)]
    <2> DEFINE u == Erase(objects[o], n)
    <2>1. Sound(objects[o]) /\ Has(objects[o], n)
      BY <1>3 DEF IInv, HasOwn
    <2>2. /\ Sound(u) /\ ~Has(u, n)
          /\ \A l \in Name \ {n} : Has(objects[o], l) => Has(u, l) /\ At(u, l) = At(objects[o], l)
      BY <2>1, ErasedEntry
    <2>3. objects' = [objects EXCEPT ![o] = u]
      BY <1>3
    <2> HIDE DEF u
    <2>4. Keeps(objects[o], u)
      BY <1>3, <2>2 DEF Keeps, Own
    <2> QED BY <1>1, <2>2, <2>3, <2>4, Touched
  <1> QED BY <1>2, <1>3 DEF Delete

-----------------------------------------------------------------------------
(* Object literals, built-in objects and defineProperty.                   *)

LEMMA WritesStep ==
  ASSUME IInv, NEW o \in Object, o \in making, NEW n \in Name, NEW p \in Property, Writes(o, n, p)
  PROVE  IInv' /\ StepKeeps
  <1> DEFINE u == Store(objects[o], n, p)
  <1>1. Sound(u)
    BY Stored DEF IInv
  <1>2. objects' = [objects EXCEPT ![o] = u]
    BY DEF Writes
  <1>3. stack' \in Seq(FrameType)
    BY PointersType DEF Writes, IInv
  <1> HIDE DEF u
  <1>4. ~Protected(o)
    BY DEF Protected
  <1> QED BY <1>1, <1>2, <1>3, <1>4, Touched

LEMMA NewEntryType ==
  ASSUME IInv, NEW o \in Object, NEW n \in Name
  PROVE  At(Subscript(objects[o], n), n) \in Property
  <1>1. Sound(objects[o])
    BY DEF IInv
  <1>2. Sound(Subscript(objects[o], n)) /\ Has(Subscript(objects[o], n), n)
    BY <1>1, Subscripted
  <1> QED BY <1>2, EntryType

LEMMA LiteralStep ==
  ASSUME IInv, NEW o \in Object, NEW n \in Name, NEW f \in Functions, LiteralAccessor(o, n, f)
  PROVE  IInv' /\ StepKeeps
  <1> DEFINE p == At(Subscript(objects[o], n), n)
             q == [p EXCEPT !.flags = {"accessor", "configurable"}]
  <1>1. p \in Property
    BY NewEntryType
  <1>2. o \in making /\ (Writes(o, n, [q EXCEPT !.value = f]) \/ Writes(o, n, [q EXCEPT !.set = f]))
    BY DEF LiteralAccessor, IsLiteral
  <1> HIDE DEF p
  <1>3. [q EXCEPT !.value = f] \in Property /\ [q EXCEPT !.set = f] \in Property
    BY <1>1 DEF Property, Flags, Values
  <1> HIDE DEF q
  <1> QED BY <1>2, <1>3, WritesStep

LEMMA BuiltInStep ==
  ASSUME IInv, NEW o \in Object, NEW n \in Name, NEW v \in Data, BuiltIn(o, n, v)
  PROVE  IInv' /\ StepKeeps
  <1> DEFINE p == At(Subscript(objects[o], n), n)
  <1>1. p \in Property
    BY NewEntryType
  <1>2. PICK w \in {{}, {"writable"}} : Writes(o, n, [p EXCEPT !.value = v, !.flags = w])
    BY DEF BuiltIn
  <1>3. o \in making
    BY DEF BuiltIn, IsBuiltIn
  <1> HIDE DEF p
  <1>4. [p EXCEPT !.value = v, !.flags = w] \in Property
    BY <1>1 DEF Property, Flags, Values
  <1> QED BY <1>2, <1>3, <1>4, WritesStep

LEMMA DefineStep ==
  ASSUME IInv, NEW o \in Object, NEW n \in Name, DefineProperty(o, n)
  PROVE  IInv' /\ StepKeeps
  <1> DEFINE t == Subscript(objects[o], n)
             before == IF HasOwn(o, n) /\ "descriptorGetter" \notin Uses
                       THEN {Own(o, n)} ELSE {}
  <1>1. /\ Sound(t) /\ Has(t, n)
        /\ \A l \in Name : Has(objects[o], l) => Has(t, l) /\ At(t, l) = At(objects[o], l)
    BY Subscripted DEF IInv
  <1>2. objects' = [objects EXCEPT ![o] = t]
    BY DEF DefineProperty
  <1>3. PICK s \in Pointers(o, n) : stack' = Append(s, DefineFrame(o, n, Position(t, n), before))
    BY DEF DefineProperty
  <1> HIDE DEF t
  <1>4. before \in SUBSET Property
    BY EntryType DEF IInv, HasOwn, Own
  <1>5. Position(t, n) \in Nat \ {0}
    BY <1>1, EntryType
  <1> HIDE DEF before
  <1>6. stack' \in Seq(FrameType)
    BY <1>3, <1>4, <1>5, PointersType, NewFrameType, Upon DEF IInv
  <1>7. Keeps(objects[o], t)
    BY <1>1 DEF Keeps
  <1> QED BY <1>1, <1>2, <1>6, <1>7, Touched

\* What the Property* points to is a property, whatever has moved since.
LEMMA PointedType ==
  ASSUME IInv, NEW f \in FrameType, f.kind = "define"
  PROVE  Pointed(f) \in Property
  <1> DEFINE t == objects[f.object]
  <1>1. f.name \in Name /\ f.node \in Nat \ {0} /\ Sound(t)
    BY DefineFrameType DEF IInv
  <1>2. CASE f.moved \/ f.node > Len(t[IndexOf(f.name)].memory)
    BY <1>2, ZeroType DEF Pointed
  <1>3. CASE ~(f.moved \/ f.node > Len(t[IndexOf(f.name)].memory))
    <2>1. IndexOf(f.name) \in Index
      BY <1>1, Assumptions, Facts!IndexType, SameLookup DEF Facts!Index, Index
    <2>2. Len(t[IndexOf(f.name)].memory) \in Nat
      BY <1>1, <2>1 DEF Sound, Table, Bucket
    <2>3. f.node \in 1..Len(t[IndexOf(f.name)].memory)
      BY <1>1, <1>3, <2>2
    <2>4. t[IndexOf(f.name)].memory[f.node].value \in Property
      BY <1>1, <2>3, NodeType
    <2> QED BY <1>3, <2>4 DEF Pointed
  <1> QED BY <1>2, <1>3

\* Writing through it.
LEMMA ThroughStep ==
  ASSUME IInv, NEW i \in DOMAIN stack, stack[i].kind = "define",
         NEW p \in Property, ThroughPointer(stack[i], p), stack' \in Seq(FrameType)
  PROVE  IInv' /\ StepKeeps
  <1> DEFINE f == stack[i]
             t == objects[f.object]
             u == Write(t, IndexOf(f.name), f.node, p)
  <1>1. f \in FrameType
    BY DEF IInv
  <1>2. f.object \in Object /\ f.name \in Name /\ f.node \in Nat \ {0}
    BY <1>1, DefineFrameType
  <1>3. Sound(t)
    BY <1>2 DEF IInv
  <1>4. CASE f.moved \/ f.node > Len(t[IndexOf(f.name)].memory)
    BY <1>4, Untouched DEF ThroughPointer
  <1>5. CASE ~(f.moved \/ f.node > Len(t[IndexOf(f.name)].memory))
    <2>1. IndexOf(f.name) \in Index
      BY <1>2, Assumptions, Facts!IndexType, SameLookup DEF Facts!Index, Index
    <2>2. Len(t[IndexOf(f.name)].memory) \in Nat
      BY <1>3, <2>1 DEF Sound, Table, Bucket
    <2>3. f.node \in 1..Len(t[IndexOf(f.name)].memory)
      BY <1>2, <1>5, <2>2
    <2>4. Sound(u)
      BY <1>2, <1>3, <2>3, WrittenNode
    <2>5. objects' = [objects EXCEPT ![f.object] = u]
      BY <1>5 DEF ThroughPointer
    <2>6. ~Protected(f.object)
      BY DEF Protected
    <2> HIDE DEF u
    <2> QED BY <1>2, <2>4, <2>5, <2>6, Touched
  <1> QED BY <1>4, <1>5

\* The frame i of the stack gets its attribute: it and those above it are
\* replaced by what rest and f make of them.
LEMMA AttributeStep ==
  ASSUME IInv, NEW i \in DOMAIN stack, stack[i].kind = "define",
         NEW rest \in Seq(FrameType), NEW v \in Values \cup {Nil},
         Attribute(rest, stack[i], v)
  PROVE  IInv' /\ StepKeeps
  <1> DEFINE f == stack[i]
             p == Pointed(f)
  <1>1. f \in FrameType
    BY DEF IInv
  <1>2. p \in Property
    BY <1>1, PointedType
  <1>3. /\ [p EXCEPT !.value = v, !.flags = {"configurable"}] \in Property
        /\ [p EXCEPT !.value = v] \in Property
        /\ [p EXCEPT !.set = v, !.flags = {"accessor", "configurable"}] \in Property
    <2> HIDE DEF p
    <2> QED BY <1>2 DEF Property, Flags
  <1>4. stack \in Seq(FrameType) /\ \A phase \in {"value", "get", "set"} :
          Append(rest, [f EXCEPT !.phase = phase]) \in Seq(FrameType)
    BY <1>1, DefineFrameType, Upon DEF IInv
  <1>5. CASE UNCHANGED <<objects, stack>>
    BY <1>4, <1>5, Untouched
  <1>6. CASE Asks(rest, f, "get") /\ UNCHANGED objects
    BY <1>4, <1>6, Untouched DEF Asks
  <1>7. CASE /\ ThroughPointer(f, [p EXCEPT !.value = v, !.flags = {"configurable"}])
             /\ DefineEnds(rest)
    BY <1>3, <1>7, ThroughStep DEF DefineEnds
  <1>8. CASE ThroughPointer(f, [p EXCEPT !.value = v]) /\ Asks(rest, f, "set")
    BY <1>3, <1>4, <1>8, ThroughStep DEF Asks
  <1>9. CASE /\ ThroughPointer(f, [p EXCEPT !.set = v, !.flags = {"accessor", "configurable"}])
             /\ DefineEnds(rest)
    BY <1>3, <1>9, ThroughStep DEF DefineEnds
  <1> QED BY <1>5, <1>6, <1>7, <1>8, <1>9 DEF Attribute

LEMMA AttributeGivenStep ==
  ASSUME IInv, AttributeGiven
  PROVE  IInv' /\ StepKeeps
  <1>1. stack # <<>> /\ Top.kind = "define"
    BY DEF AttributeGiven, DefineRuns
  <1>2. PICK v \in Values : Attribute(Popped, Top, v)
    BY DEF AttributeGiven, Values
  <1>3. Popped \in Seq(FrameType) /\ Len(stack) \in DOMAIN stack
    BY <1>1, Under DEF IInv, Popped
  <1> QED BY <1>1, <1>2, <1>3, AttributeStep DEF Top

LEMMA ReturnStep ==
  ASSUME IInv, Return
  PROVE  IInv' /\ StepKeeps
  <1>1. /\ Popped \in Seq(FrameType) /\ Len(stack) \in Nat
        /\ Len(Popped) = Len(stack) - 1
        /\ \A i \in 1..(Len(stack) - 1) : Popped[i] = stack[i]
    BY Under DEF IInv, Popped, Return
  <1>2. CASE Popped # <<>> /\ Popped[Len(Popped)].kind = "define"
    <2> DEFINE i == Len(Popped)
    <2>1. i \in 1..Len(Popped) /\ SubSeq(Popped, 1, i - 1) \in Seq(FrameType)
      BY <1>1, <1>2, Under
    <2>2. i \in DOMAIN stack /\ Popped[i] = stack[i]
      BY <1>1, <2>1
    <2>3. PICK v \in Values \cup {Nil} : Attribute(SubSeq(Popped, 1, i - 1), Popped[i], v)
      BY <1>2 DEF Return
    <2> HIDE DEF i
    <2> QED BY <1>2, <2>1, <2>2, <2>3, AttributeStep DEF i
  <1>3. CASE ~(Popped # <<>> /\ Popped[Len(Popped)].kind = "define")
    BY <1>1, <1>3, Untouched DEF Return
  <1> QED BY <1>2, <1>3

-----------------------------------------------------------------------------
(* The theorems.                                                           *)

LEMMA Initially == Init => IInv
  <1> SUFFICES ASSUME Init PROVE IInv
    OBVIOUS
  <1>1. \A o \in Object : objects[o] = EmptyTable
    BY DEF Init
  <1>2. objects \in [Object -> Table]
    BY EmptySound DEF Init, Sound
  <1>3. stack \in Seq(FrameType)
    BY DEF Init
  <1> QED BY <1>1, <1>2, <1>3, EmptySound DEF IInv

LEMMA Step == IInv /\ [Next]_vars => IInv' /\ StepKeeps
  <1> SUFFICES ASSUME IInv, [Next]_vars PROVE IInv' /\ StepKeeps
    OBVIOUS
  <1>1. ASSUME NEW o \in Object, NEW n \in Name, Get(o, n) PROVE IInv' /\ StepKeeps
    BY <1>1, GetStep
  <1>2. ASSUME NEW o \in Object, NEW n \in Name, NEW v \in Values,
               Put(o, n, v) \/ LiteralProperty(o, n, v)
        PROVE  IInv' /\ StepKeeps
    BY <1>2, AssignsStep DEF Put, LiteralProperty
  <1>3. ASSUME NEW o \in Object, NEW n \in Name, Delete(o, n) PROVE IInv' /\ StepKeeps
    BY <1>3, DeleteStep
  <1>4. ASSUME NEW o \in Object, NEW n \in Name, NEW f \in Functions, LiteralAccessor(o, n, f)
        PROVE  IInv' /\ StepKeeps
    BY <1>4, LiteralStep
  <1>5. ASSUME NEW o \in Object, NEW n \in Name, NEW v \in Data, BuiltIn(o, n, v)
        PROVE  IInv' /\ StepKeeps
    BY <1>5, BuiltInStep
  <1>6. ASSUME NEW o \in Object, NEW n \in Name, DefineProperty(o, n) PROVE IInv' /\ StepKeeps
    BY <1>6, DefineStep
  <1>7. CASE UNCHANGED <<objects, stack>>
    BY <1>7, Untouched DEF IInv
  <1>8. CASE AttributeGiven
    BY <1>8, AttributeGivenStep
  <1>9. CASE AttributeCalls
    <2>1. stack' \in Seq(FrameType)
      BY <1>9, AccessorFrameType, Upon DEF AttributeCalls, IInv
    <2> QED BY <1>9, <2>1, Untouched DEF AttributeCalls
  <1>10. CASE Return
    BY <1>10, ReturnStep
  <1> QED
    BY <1>1, <1>2, <1>3, <1>4, <1>5, <1>6, <1>7, <1>8, <1>9, <1>10
       DEF Next, Made, Throw, Catch, vars

THEOREM Invariant == Spec => []IInv
  BY Initially, Step, PTL DEF Spec

\* However many accessors run in the middle of however many defineProperty
\* calls, on whatever objects and prototypes, and wherever a stale Property*
\* points by then: no name is stored twice or in another's bucket
\* (builtin.cc 252-262, coll.hh 287-342).
THEOREM StorageAlwaysSound == Spec => []StorageSound
  <1>1. IInv => StorageSound
    BY DEF IInv, StorageSound, Sound
  <1> QED BY <1>1, Invariant, PTL

\* A read-only property keeps its value through every operation on every
\* object, until code defines a property of its own object
\* (context.cc 163-229, context.hh 307-316).
THEOREM ReadOnlyAlwaysKept == Spec => ReadOnlyKept
  <1>1. StepKeeps =>
          \A o \in Object, n \in Name :
            /\ o \notin making
            /\ \A i \in DOMAIN stack : stack[i].kind = "define" => stack[i].object # o
            /\ ReadOnly(o, n)
            => \/ HasOwn(o, n)' /\ Own(o, n)' = Own(o, n)
               \/ ~HasOwn(o, n)' /\ "configurable" \in Own(o, n).flags
    BY DEF StepKeeps, Protected, Keeps, ReadOnly, HasOwn, Own
  <1> QED BY <1>1, Invariant, Step, PTL DEF Spec, ReadOnlyKept

-----------------------------------------------------------------------------
(* Chains of prototypes.                                                   *)

\* Where looking for n ends.
Stops(n, p) == p = NoObject \/ HasOwn(p, n)

\* What Holder is, with its recursive function named.
IsNearest(f, n) ==
  f = [p \in Object \cup {NoObject} |->
         IF p = NoObject THEN p ELSE IF HasOwn(p, n) THEN p ELSE f[Proto[p]]]
Nearest(n) == CHOOSE f : IsNearest(f, n)

LEMMA HolderIs ==
  ASSUME NEW o, NEW n
  PROVE  Holder(o, n) = Nearest(n)[o]
  BY DEF Holder, Nearest, IsNearest

\* The objects from p on, until one stops the search.
Closed(C, n) ==
  /\ C \subseteq Object \cup {NoObject}
  /\ \A q \in C : ~Stops(n, q) => Proto[q] \in C
Path(n, p) ==
  {q \in Object \cup {NoObject} : \A C \in SUBSET (Object \cup {NoObject}) :
     Closed(C, n) /\ p \in C => q \in C}
Ends(n, p) == {q \in Path(n, p) : Stops(n, q)}

LEMMA PathClosed ==
  ASSUME NEW n, NEW p \in Object \cup {NoObject}
  PROVE  /\ Closed(Path(n, p), n) /\ p \in Path(n, p)
         /\ \A C : Closed(C, n) /\ p \in C => Path(n, p) \subseteq C
  <1>1. p \in Path(n, p)
    BY DEF Path
  <1>2. \A C : Closed(C, n) /\ p \in C => Path(n, p) \subseteq C
    BY DEF Path, Closed
  <1>3. ASSUME NEW q \in Path(n, p), ~Stops(n, q) PROVE Proto[q] \in Path(n, p)
    <2>1. q \in Object
      BY <1>3 DEF Path, Stops
    <2>2. Proto[q] \in Object \cup {NoObject}
      BY <2>1, ProtoAssumption
    <2>3. ASSUME NEW C \in SUBSET (Object \cup {NoObject}), Closed(C, n), p \in C
          PROVE  Proto[q] \in C
      <3>1. q \in C
        BY <1>2, <2>3
      <3> QED BY <1>3, <2>3, <3>1 DEF Closed
    <2> QED BY <2>2, <2>3 DEF Path
  <1> QED BY <1>1, <1>2, <1>3 DEF Closed, Path

LEMMA EndsHere ==
  ASSUME NEW n, NEW p \in Object \cup {NoObject}, Stops(n, p)
  PROVE  Ends(n, p) = {p}
  <1>1. Closed({p}, n)
    BY DEF Closed
  <1>2. Path(n, p) = {p}
    BY <1>1, PathClosed
  <1> QED BY <1>2 DEF Ends

LEMMA EndsFurther ==
  ASSUME NEW n, NEW p \in Object, ~Stops(n, p)
  PROVE  Ends(n, p) = Ends(n, Proto[p])
  <1> DEFINE r == Proto[p]
             A == Path(n, p)
             B == Path(n, r)
  <1>1. r \in Object \cup {NoObject}
    BY ProtoAssumption
  <1>2. Closed(A, n) /\ p \in A /\ \A C : Closed(C, n) /\ p \in C => A \subseteq C
    BY PathClosed
  <1>3. Closed(B, n) /\ r \in B /\ \A C : Closed(C, n) /\ r \in C => B \subseteq C
    BY <1>1, PathClosed
  <1> HIDE DEF A, B
  <1>4. r \in A
    BY <1>2 DEF Closed
  <1>5. B \subseteq A
    BY <1>2, <1>3, <1>4
  <1>6. Closed(B \cup {p}, n)
    BY <1>3 DEF Closed
  <1>7. A \subseteq B \cup {p}
    BY <1>2, <1>6
  <1>8. {q \in A : Stops(n, q)} = {q \in B : Stops(n, q)}
    BY <1>5, <1>7
  <1> QED BY <1>8 DEF Ends, A, B

LEMMA NearestThere ==
  ASSUME NEW n
  PROVE  IsNearest(Nearest(n), n)
  <1> DEFINE f == [p \in Object \cup {NoObject} |-> CHOOSE q : q \in Ends(n, p)]
  <1>1. ASSUME NEW p \in Object \cup {NoObject}, Stops(n, p) PROVE f[p] = p
    <2>1. Ends(n, p) = {p}
      BY <1>1, EndsHere
    <2> QED BY <2>1
  <1>2. ASSUME NEW p \in Object, ~Stops(n, p) PROVE f[p] = f[Proto[p]]
    <2>1. Proto[p] \in Object \cup {NoObject}
      BY ProtoAssumption
    <2>2. Ends(n, p) = Ends(n, Proto[p])
      BY <1>2, EndsFurther
    <2> QED BY <2>1, <2>2
  <1>3. \A p \in Object \cup {NoObject} :
          f[p] = IF p = NoObject THEN p ELSE IF HasOwn(p, n) THEN p ELSE f[Proto[p]]
    <2> HIDE DEF f
    <2> QED BY <1>1, <1>2 DEF Stops
  <1>4. IsNearest(f, n)
    <2>1. f = [p \in Object \cup {NoObject} |-> f[p]]
      OBVIOUS
    <2> HIDE DEF f
    <2> QED BY <1>3, <2>1 DEF IsNearest
  <1> HIDE DEF f
  <1> QED BY <1>4 DEF Nearest

\* What the nearest object of the chain that has n is, and that there is one or
\* the chain has ended.
LEMMA HolderStep ==
  ASSUME NEW n, NEW o \in Object
  PROVE  /\ Holder(NoObject, n) = NoObject
         /\ Holder(o, n) = IF HasOwn(o, n) THEN o ELSE Holder(Proto[o], n)
  <1> DEFINE f == Nearest(n)
  <1>1. IsNearest(f, n)
    BY NearestThere
  <1> HIDE DEF f
  <1>2. o # NoObject
    BY ProtoAssumption
  <1>3. /\ f[NoObject] = NoObject
        /\ f[o] = IF HasOwn(o, n) THEN o ELSE f[Proto[o]]
    BY <1>1, <1>2 DEF IsNearest
  <1> QED BY <1>3, HolderIs DEF f

LEMMA HolderHas ==
  ASSUME NEW n, NEW o \in Object
  PROVE  Holder(o, n) = NoObject \/ (Holder(o, n) \in Object /\ HasOwn(Holder(o, n), n))
  <1> DEFINE Held(p) == Holder(p, n) = NoObject \/ (Holder(p, n) \in Object /\ HasOwn(Holder(p, n), n))
             chain == {p \in Object : ~Held(p)}
  <1>1. CASE chain = {}
    BY <1>1
  <1>2. CASE chain # {}
    <2>1. PICK p \in chain : Proto[p] \notin chain
      BY <1>2, ChainsEnd
    <2>2. Held(NoObject)
      BY HolderStep
    <2>3. Held(Proto[p])
      BY <2>1, <2>2, ProtoAssumption
    <2>4. Held(p)
      <3>1. CASE HasOwn(p, n)
        BY <2>1, <3>1, HolderStep
      <3>2. CASE ~HasOwn(p, n)
        <4>1. Holder(p, n) = Holder(Proto[p], n)
          BY <2>1, <3>2, HolderStep
        <4> QED BY <2>3, <4>1
      <3> QED BY <3>1, <3>2
    <2> QED BY <2>1, <2>4
  <1> QED BY <1>1, <1>2

-----------------------------------------------------------------------------
(* Types.                                                                  *)

Typing ==
  /\ making \subseteq Object /\ known \subseteq Object
  /\ answer \in Values \cup {Nil, Crashed}
  /\ exc \in BOOLEAN

LEMMA OwnType ==
  ASSUME IInv, NEW o \in Object, NEW n \in Name, HasOwn(o, n)
  PROVE  /\ Own(o, n) \in Property
         /\ Own(o, n).value \in Values \cup {Nil} /\ Own(o, n).set \in Values \cup {Nil}
  <1>1. Sound(objects[o]) /\ Has(objects[o], n)
    BY DEF IInv, HasOwn
  <1>2. At(objects[o], n) \in Property
    BY <1>1, EntryType
  <1> QED BY <1>2 DEF Own, Property

LEMMA Answers ==
  ASSUME Typing, NEW v,
         \/ Reply(v) /\ v \in Values \cup {Nil}
         \/ Reject
         \/ Crash
         \/ Call(v)
  PROVE  answer' \in Values \cup {Nil, Crashed} /\ exc' \in BOOLEAN
  BY DEF Typing, Reply, Reject, Crash, Call, Values

LEMMA RefusalAnswers ==
  ASSUME Typing, NEW p, PutRefused(p)
  PROVE  answer' \in Values \cup {Nil, Crashed} /\ exc' \in BOOLEAN
  BY Answers DEF PutRefused

LEMMA GetTyped ==
  ASSUME IInv, Typing, NEW o \in Object, NEW n \in Name, Get(o, n)
  PROVE  Typing'
  <1> DEFINE h == Holder(o, n)
  <1>1. h = NoObject \/ (h \in Object /\ HasOwn(h, n))
    BY HolderHas
  <1>2. (IF h = NoObject THEN Reply(Undefined) ELSE GetFrom(Own(h, n))) /\ UNCHANGED <<making, known>>
    BY DEF Get
  <1> HIDE DEF h
  <1>3. CASE h = NoObject
    BY <1>2, <1>3, Answers DEF Typing, Values
  <1>4. CASE h # NoObject
    <2>1. Own(h, n).value \in Values \cup {Nil} /\ GetFrom(Own(h, n))
      BY <1>1, <1>2, <1>4, OwnType
    <2>2. answer' \in Values \cup {Nil, Crashed} /\ exc' \in BOOLEAN
      BY <2>1, Answers DEF GetFrom, Values
    <2> QED BY <1>2, <2>2 DEF Typing
  <1> QED BY <1>3, <1>4

LEMMA AssignsTyped ==
  ASSUME Typing, NEW o \in Object, NEW n \in Name, NEW v \in Values, Assigns(o, n, v)
  PROVE  Typing'
  <1>1. answer' \in Values \cup {Nil, Crashed} /\ exc' \in BOOLEAN
    <2>1. CASE PutOwn(o, n, v)
      BY <2>1, RefusalAnswers, Answers DEF PutOwn, Values
    <2>2. CASE PutNew(o, n, v)
      BY <2>2, RefusalAnswers DEF PutNew, Values, Typing
    <2> QED BY <2>1, <2>2 DEF Assigns
  <1> QED BY <1>1 DEF Assigns, Exposed, Typing

LEMMA AttributeTyped ==
  ASSUME Typing, NEW rest, NEW f, NEW v, Attribute(rest, f, v)
  PROVE  Typing'
  BY DEF Attribute, Typing, Asks, DefineEnds, Values

LEMMA TypedStep == IInv /\ Typing /\ [Next]_vars => Typing'
  <1> SUFFICES ASSUME IInv, Typing, [Next]_vars PROVE Typing'
    OBVIOUS
  <1>1. ASSUME NEW o \in Object, NEW n \in Name, Get(o, n) PROVE Typing'
    BY <1>1, GetTyped
  <1>2. ASSUME NEW o \in Object, NEW n \in Name, NEW v \in Values,
               Put(o, n, v) \/ LiteralProperty(o, n, v)
        PROVE  Typing'
    BY <1>2, AssignsTyped DEF Put, LiteralProperty
  <1>3. ASSUME NEW o \in Object, NEW n \in Name, Delete(o, n) PROVE Typing'
    <2>1. answer' \in Values \cup {Nil, Crashed} /\ exc' \in BOOLEAN
      BY <1>3, Answers DEF Delete, Values
    <2> QED BY <1>3, <2>1 DEF Delete, Typing
  <1>4. ASSUME NEW o \in Object, NEW n \in Name, NEW f \in Functions, LiteralAccessor(o, n, f)
        PROVE  Typing'
    BY <1>4 DEF LiteralAccessor, Writes, Typing, Values
  <1>5. ASSUME NEW o \in Object, NEW n \in Name, NEW v \in Data, BuiltIn(o, n, v) PROVE Typing'
    BY <1>5 DEF BuiltIn, Writes, Typing, Values
  <1>6. ASSUME NEW o \in Object, NEW n \in Name, DefineProperty(o, n) PROVE Typing'
    BY <1>6 DEF DefineProperty, Typing
  <1>7. ASSUME NEW o \in Object, Made(o) PROVE Typing'
    BY <1>7 DEF Made, Typing
  <1>8. CASE AttributeGiven
    BY <1>8, AttributeTyped DEF AttributeGiven
  <1>9. CASE Return
    <2>1. PICK v \in IF answer = Nil THEN {Nil} ELSE Values :
            IF Popped # <<>> /\ Popped[Len(Popped)].kind = "define"
            THEN Attribute(SubSeq(Popped, 1, Len(Popped) - 1), Popped[Len(Popped)], v)
            ELSE /\ stack' = Popped
                 /\ answer' = v
                 /\ UNCHANGED <<objects, making, known, exc>>
      BY <1>9 DEF Return
    <2>2. CASE Popped # <<>> /\ Popped[Len(Popped)].kind = "define"
      BY <2>1, <2>2, AttributeTyped
    <2>3. CASE ~(Popped # <<>> /\ Popped[Len(Popped)].kind = "define")
      BY <2>1, <2>3 DEF Typing
    <2> QED BY <2>2, <2>3
  <1>10. CASE AttributeCalls \/ Throw \/ Catch
    BY <1>10 DEF AttributeCalls, Throw, Catch, Typing, Values
  <1>11. CASE UNCHANGED vars
    BY <1>11 DEF vars, Typing
  <1> QED BY <1>1, <1>2, <1>3, <1>4, <1>5, <1>6, <1>7, <1>8, <1>9, <1>10, <1>11 DEF Next

LEMMA TypedInvariant == Spec => []Typing
  <1>1. Init => Typing
    BY DEF Init, Typing, Values
  <1> QED BY <1>1, TypedStep, Invariant, PTL DEF Spec

\* The state is of its type, whatever the programs do to the properties: what a
\* Get answers is a value, null or a dead process, also when it is found along a
\* chain of prototypes (context.cc 66-113).
THEOREM Typed == Spec => []TypeOK
  <1>1. IInv /\ Typing => TypeOK
    BY DEF IInv, Typing, TypeOK
  <1> QED BY <1>1, Invariant, TypedInvariant, PTL

-----------------------------------------------------------------------------
(* Programs whose descriptors have no accessors of their own.              *)

Settled == "descriptorGetter" \notin Uses
Simple == Uses = {}

\* A defineProperty has the attributes of its descriptor to ask for.
Pending == stack # <<>> /\ Top.kind = "define"

BeingDefined(o, n) == Pending /\ Top.object = o /\ Top.name = n

\* Nothing runs in the middle of a defineProperty: it is on top, and its
\* Property* is the entry it made.
Undisturbed ==
  /\ \A i \in 1..Len(stack) : stack[i].kind = "define" => i = Len(stack)
  /\ Pending =>
       /\ answer \notin {Nil, Crashed}
       /\ ~Top.moved
       /\ Has(objects[Top.object], Top.name)
       /\ Top.node = Position(objects[Top.object], Top.name)

\* Reading the entry gives a value.
Readable(p) == "accessor" \in p.flags \/ p.value # Nil

\* What the entry of a data or an accessor property looks like.
Formed(p) ==
  IF "accessor" \in p.flags
  THEN /\ p.flags = {"accessor", "configurable"}
       /\ p.value \in Functions \cup {Nil} /\ p.set \in Functions \cup {Nil}
  ELSE p.value # Nil

Sane(p) == Readable(p) /\ (Simple => Formed(p))

AllSane ==
  \A o \in Object, n \in Name :
    Has(objects[o], n) /\ ~BeingDefined(o, n) => Sane(At(objects[o], n))

\* What is left in memory is no accessor, and an object being made has nothing
\* left there at all.
Clean(t) ==
  \A i \in Index : \A q \in (t[i].len + 1)..Len(t[i].memory) :
    "accessor" \notin t[i].memory[q].value.flags
Full(t) == \A i \in Index : t[i].len = Len(t[i].memory)
CleanMemory ==
  \A o \in Object : Clean(objects[o]) /\ (o \in making => Full(objects[o]))

\* What a defineProperty has found and made so far.
HalfDefined ==
  Pending =>
    /\ Top.before = {} \/ \E p \in Property : Top.before = {p}
    /\ Top.phase = "set" => At(objects[Top.object], Top.name).value \in Functions

KInv ==
  /\ IInv /\ Typing /\ ExceptionsMatch /\ Undisturbed /\ AllSane
  /\ Simple => CleanMemory /\ HalfDefined /\ answer # Crashed

\* Accessors run, or nothing does.
Quiet(s) == \A i \in 1..Len(s) : s[i].kind = "accessor"

LEMMA Kinds ==
  ASSUME NEW f \in FrameType
  PROVE  f.kind \in {"accessor", "define"} /\ (f.kind = "accessor" => f = AccessorFrame)
  BY DEF FrameType, AccessorFrame

LEMMA QuietIs ==
  ASSUME stack \in Seq(FrameType), Undisturbed
  PROVE  ~Pending <=> Quiet(stack)
  <1>1. Len(stack) \in Nat /\ \A i \in 1..Len(stack) : stack[i].kind \in {"accessor", "define"}
    BY Kinds
  <1>2. stack # <<>> => Len(stack) \in 1..Len(stack)
    BY Under
  <1>3. stack = <<>> => Len(stack) = 0
    OBVIOUS
  <1>4. ASSUME ~Pending, NEW i \in 1..Len(stack) PROVE stack[i].kind = "accessor"
    <2>1. stack # <<>>
      BY <1>1, <1>3, <1>4
    <2> QED BY <1>1, <1>4, <2>1 DEF Pending, Undisturbed, Top
  <1>5. ASSUME Quiet(stack) PROVE ~Pending
    BY <1>2, <1>5 DEF Quiet, Pending, Top
  <1> QED BY <1>4, <1>5 DEF Quiet

LEMMA QuietAfter ==
  ASSUME stack' \in Seq(FrameType), Quiet(stack')
  PROVE  ~Pending' /\ Undisturbed' /\ HalfDefined'
  <1>1. stack' # <<>> => Len(stack') \in 1..Len(stack')
    BY Under
  <1>2. ~Pending'
    BY <1>1 DEF Quiet, Pending, Top
  <1>3. \A i \in 1..Len(stack') : stack'[i].kind # "define"
    BY DEF Quiet
  <1> QED BY <1>2, <1>3 DEF Undisturbed, HalfDefined

LEMMA Pushed ==
  ASSUME NEW s \in Seq(FrameType), NEW f \in FrameType
  PROVE  /\ Append(s, f) \in Seq(FrameType) /\ Append(s, f) # <<>>
         /\ Len(Append(s, f)) = Len(s) + 1 /\ Append(s, f)[Len(Append(s, f))] = f
         /\ \A i \in 1..Len(s) : Append(s, f)[i] = s[i]
  OBVIOUS

LEMMA QuietPushed ==
  ASSUME NEW s \in Seq(FrameType), Quiet(s)
  PROVE  Quiet(Append(s, AccessorFrame))
  <1>1. AccessorFrame \in FrameType /\ AccessorFrame.kind = "accessor"
    BY AccessorFrameType DEF AccessorFrame
  <1>2. Len(s) \in Nat
    OBVIOUS
  <1> HIDE DEF AccessorFrame
  <1> QED BY <1>1, <1>2, Pushed DEF Quiet

\* A defineProperty is pushed on accessors.
LEMMA PendingAfter ==
  ASSUME NEW s \in Seq(FrameType), Quiet(s), NEW f \in FrameType, f.kind = "define",
         stack' = Append(s, f)
  PROVE  /\ Pending' /\ Top' = f
         /\ \A i \in 1..Len(stack') : stack'[i].kind = "define" => i = Len(stack')
  <1>1. /\ stack' # <<>> /\ Len(stack') = Len(s) + 1 /\ stack'[Len(stack')] = f
        /\ \A i \in 1..Len(s) : stack'[i] = s[i]
    BY Pushed
  <1>2. Len(s) \in Nat
    OBVIOUS
  <1>3. \A i \in 1..Len(stack') : stack'[i].kind = "define" => i = Len(stack')
    BY <1>1, <1>2 DEF Quiet
  <1> QED BY <1>1, <1>3 DEF Pending, Top

LEMMA PoppedQuiet ==
  ASSUME stack \in Seq(FrameType), stack # <<>>, Undisturbed
  PROVE  /\ Popped \in Seq(FrameType) /\ Quiet(Popped) /\ Top \in FrameType
         /\ Len(Popped) = Len(stack) - 1 /\ Len(stack) \in Nat \ {0}
  <1>1. /\ Len(stack) \in 1..Len(stack) /\ Top \in FrameType
        /\ Popped \in Seq(FrameType) /\ Len(Popped) = Len(stack) - 1
        /\ \A i \in 1..(Len(stack) - 1) : Popped[i] = stack[i]
    BY Under DEF Popped, Top
  <1>2. Len(stack) \in Nat
    OBVIOUS
  <1>3. ASSUME NEW i \in 1..(Len(stack) - 1) PROVE stack[i].kind = "accessor"
    <2>1. i \in 1..Len(stack) /\ i # Len(stack)
      BY <1>2
    <2> QED BY <2>1, Kinds DEF Undisturbed
  <1>4. Quiet(Popped)
    BY <1>1, <1>3 DEF Quiet
  <1> QED BY <1>1, <1>2, <1>4

LEMMA PointersSame ==
  ASSUME stack \in Seq(FrameType), Quiet(stack), NEW o, NEW n, NEW s \in Pointers(o, n)
  PROVE  s = stack
  <1>1. DOMAIN stack = 1..Len(stack)
    OBVIOUS
  <1>2. \A i \in DOMAIN stack : Stale(stack[i], o, n) = stack[i]
    BY <1>1 DEF Quiet, Stale
  <1>3. [i \in DOMAIN stack |-> Stale(stack[i], o, n)] = [i \in DOMAIN stack |-> stack[i]]
    BY <1>2
  <1>4. [i \in DOMAIN stack |-> stack[i]] = stack
    OBVIOUS
  <1> QED BY <1>3, <1>4 DEF Pointers

LEMMA CodeQuiet ==
  ASSUME KInv, CodeRuns
  PROVE  Quiet(stack) /\ ~Pending /\ exc = FALSE
  <1>1. ~Pending
    BY DEF CodeRuns, Pending
  <1> QED BY <1>1, QuietIs DEF KInv, IInv, CodeRuns, ExceptionsMatch, Typing

-----------------------------------------------------------------------------
(* What is past the entries of a table.                                    *)

LEMMA Buckets ==
  ASSUME NEW t, Sound(t), NEW i \in Index
  PROVE  /\ t[i].len \in Nat /\ Len(t[i].memory) \in Nat
         /\ t[i].len <= Len(t[i].memory)
         /\ t[i].memory \in Seq(Node)
  <1>1. t[i].memory \in Seq(Node) /\ t[i].len \in Nat /\ t[i].len <= Len(t[i].memory)
    BY DEF Sound, Table, Bucket, InMemory
  <1> QED BY <1>1, LenProperties

LEMMA NameIndex ==
  ASSUME NEW k \in Name
  PROVE  IndexOf(k) \in Index
  BY Assumptions, Facts!IndexType, SameLookup DEF Facts!Index, Index

LEMMA SubscriptClean ==
  ASSUME NEW t, Sound(t), NEW k \in Name
  PROVE  /\ Clean(t) => /\ Clean(Subscript(t, k))
                        /\ ~Has(t, k) => "accessor" \notin At(Subscript(t, k), k).flags
         /\ Full(t) => /\ Full(Subscript(t, k))
                       /\ ~Has(t, k) => At(Subscript(t, k), k) = Zero
  <1>1. CASE Has(t, k)
    BY <1>1 DEF Subscript
  <1>2. CASE ~Has(t, k)
    <2> DEFINE s == Subscript(t, k)
               i == IndexOf(k)
    <2>1. i \in Index
      BY NameIndex
    <2>2. Facts!Good(t) /\ ~Facts!Has(t, k)
      BY <1>2, SameTables, SameLookup
    <2>3. LET u == Facts!Subscript(t, k)
              j == Facts!IndexOf(k)
          IN /\ u[j].len = t[j].len + 1
             /\ Facts!At(u, k) = IF t[j].len < Len(t[j].memory)
                                 THEN t[j].memory[t[j].len + 1].value ELSE Zero
             /\ \A q \in (t[j].len + 2) .. Len(u[j].memory) :
                  q <= Len(t[j].memory) /\ u[j].memory[q] = t[j].memory[q]
             /\ t[j].len = Len(t[j].memory) => Len(u[j].memory) = t[j].len + 1
             /\ \A l \in Facts!Index \ {j} : u[l] = t[l]
      BY <2>2, Assumptions, Facts!SubscriptPast
    <2>4. s = Facts!Subscript(t, k) /\ i = Facts!IndexOf(k) /\ Index = Facts!Index
      BY SameSubscript, SameLookup DEF Index, Facts!Index
    <2> HIDE DEF s, i
    <2>5. /\ s[i].len = t[i].len + 1
          /\ At(s, k) = IF t[i].len < Len(t[i].memory)
                        THEN t[i].memory[t[i].len + 1].value ELSE Zero
          /\ \A q \in (t[i].len + 2) .. Len(s[i].memory) :
               q <= Len(t[i].memory) /\ s[i].memory[q] = t[i].memory[q]
          /\ t[i].len = Len(t[i].memory) => Len(s[i].memory) = t[i].len + 1
          /\ \A l \in Index \ {i} : s[l] = t[l]
      BY <2>3, <2>4, SameLookup
    <2>6. /\ t[i].len \in Nat /\ Len(t[i].memory) \in Nat
          /\ t[i].len <= Len(t[i].memory)
      BY <2>1, Buckets
    <2>7. ASSUME Clean(t) PROVE Clean(s)
      <3>1. ASSUME NEW q \in (s[i].len + 1)..Len(s[i].memory)
            PROVE  "accessor" \notin s[i].memory[q].value.flags
        <4>1. q \in (t[i].len + 2)..Len(s[i].memory)
          BY <2>5, <2>6
        <4>2. q \in (t[i].len + 1)..Len(t[i].memory) /\ s[i].memory[q] = t[i].memory[q]
          BY <2>5, <2>6, <4>1
        <4> QED BY <2>1, <2>7, <4>2 DEF Clean
      <3> QED BY <2>5, <2>7, <3>1 DEF Clean
    <2>8. ASSUME Clean(t) PROVE "accessor" \notin At(s, k).flags
      <3>1. CASE t[i].len < Len(t[i].memory)
        <4>1. t[i].len + 1 \in (t[i].len + 1)..Len(t[i].memory)
          BY <2>6, <3>1
        <4> QED BY <2>1, <2>5, <2>8, <3>1, <4>1 DEF Clean
      <3>2. CASE ~(t[i].len < Len(t[i].memory))
        BY <2>5, <3>2 DEF Zero
      <3> QED BY <3>1, <3>2
    <2>9. ASSUME Full(t) PROVE Full(s) /\ At(s, k) = Zero
      <3>1. t[i].len = Len(t[i].memory)
        BY <2>1, <2>9 DEF Full
      <3>2. At(s, k) = Zero
        BY <2>5, <2>6, <3>1
      <3> QED BY <2>5, <2>9, <3>1, <3>2 DEF Full
    <2> QED BY <2>7, <2>8, <2>9 DEF s
  <1> QED BY <1>1, <1>2

\* Writing to an entry.
LEMMA WriteClean ==
  ASSUME NEW t, Sound(t), NEW k \in Name, Has(t, k), NEW v \in Property
  PROVE  /\ Clean(t) => Clean(Write(t, IndexOf(k), Position(t, k), v))
         /\ Full(t) => Full(Write(t, IndexOf(k), Position(t, k), v))
  <1> DEFINE i == IndexOf(k)
             p == Position(t, k)
             s == Write(t, i, p, v)
  <1>1. i \in Index /\ i \in Facts!Index
    BY NameIndex DEF Index, Facts!Index
  <1>2. Facts!Good(t) /\ Facts!Has(t, k)
    BY SameTables, SameLookup
  <1>3. p \in 1..t[i].len
    BY <1>2, Assumptions, Facts!Found, SameLookup
  <1>4. /\ t[i].len \in Nat /\ Len(t[i].memory) \in Nat
        /\ t[i].len <= Len(t[i].memory)
    BY <1>1, Buckets
  <1>5. s = Facts!Write(t, i, p, v) /\ Index = Facts!Index
    BY SameChanges DEF Index, Facts!Index
  <1> HIDE DEF i, p, s
  <1>6. /\ Facts!HashAssumption /\ Facts!SizeAssumption /\ Facts!SpareAssumption /\ Facts!ZeroAssumption
        /\ Facts!Good(t) /\ i \in Facts!Index /\ p \in 1..Len(t[i].memory) /\ v \in Property
    BY <1>1, <1>2, <1>3, <1>4, Assumptions
  <1>7. LET u == Facts!Write(t, i, p, v)
        IN /\ Facts!Good(u)
           /\ u[i].len = t[i].len
           /\ Len(u[i].memory) = Len(t[i].memory)
           /\ \A q \in 1 .. Len(t[i].memory) :
                /\ u[i].memory[q].key = t[i].memory[q].key
                /\ u[i].memory[q].value = IF q = p THEN v ELSE t[i].memory[q].value
           /\ \A j \in Facts!Index \ {i} : u[j] = t[j]
    BY <1>6, Facts!Written
  <1>8. /\ s[i].len = t[i].len
        /\ Len(s[i].memory) = Len(t[i].memory)
        /\ \A q \in 1 .. Len(t[i].memory) :
             s[i].memory[q].value = IF q = p THEN v ELSE t[i].memory[q].value
        /\ \A j \in Index \ {i} : s[j] = t[j]
    BY <1>5, <1>7
  <1>9. ASSUME Clean(t) PROVE Clean(s)
    <2>1. ASSUME NEW q \in (s[i].len + 1)..Len(s[i].memory)
          PROVE  "accessor" \notin s[i].memory[q].value.flags
      <3>1. q \in (t[i].len + 1)..Len(t[i].memory) /\ q \in 1..Len(t[i].memory) /\ q # p
        BY <1>3, <1>4, <1>8
      <3> QED BY <1>1, <1>8, <1>9, <3>1 DEF Clean
    <2> QED BY <1>8, <1>9, <2>1 DEF Clean
  <1>10. ASSUME Full(t) PROVE Full(s)
    BY <1>1, <1>8, <1>10 DEF Full
  <1> QED BY <1>9, <1>10 DEF s, i, p

LEMMA StoreClean ==
  ASSUME NEW t, Sound(t), NEW k \in Name, NEW v \in Property
  PROVE  /\ Clean(t) => Clean(Store(t, k, v))
         /\ Full(t) => Full(Store(t, k, v))
  <1> DEFINE s == Subscript(t, k)
  <1>1. Sound(s) /\ Has(s, k)
    BY Subscripted
  <1>2. (Clean(t) => Clean(s)) /\ (Full(t) => Full(s))
    BY SubscriptClean
  <1>3. Store(t, k, v) = Write(s, IndexOf(k), Position(s, k), v)
    BY DEF Store
  <1> HIDE DEF s
  <1> QED BY <1>1, <1>2, <1>3, WriteClean

LEMMA EraseClean ==
  ASSUME NEW t, Sound(t), NEW k \in Name, Has(t, k), Clean(t),
         "accessor" \notin t[IndexOf(k)].memory[t[IndexOf(k)].len].value.flags
  PROVE  Clean(Erase(t, k))
  <1> DEFINE i == IndexOf(k)
             s == Erase(t, k)
  <1>1. i \in Index
    BY NameIndex
  <1>2. Facts!Good(t) /\ Facts!Has(t, k)
    BY SameTables, SameLookup
  <1>3. /\ t[i].len \in Nat /\ Len(t[i].memory) \in Nat
        /\ t[i].len <= Len(t[i].memory)
    BY <1>1, Buckets
  <1>4. LET u == Facts!Erase(t, k)
            j == Facts!IndexOf(k)
        IN /\ u[j].len = t[j].len - 1
           /\ Len(u[j].memory) = Len(t[j].memory)
           /\ \A l \in Facts!Index \ {j} : u[l] = t[l]
    BY <1>2, Assumptions, Facts!Erased
  <1>5. LET u == Facts!Erase(t, k)
            j == Facts!IndexOf(k)
        IN \A q \in t[j].len .. Len(t[j].memory) : u[j].memory[q] = t[j].memory[q]
    BY <1>2, Assumptions, Facts!ErasedPast
  <1>6. s = Facts!Erase(t, k) /\ i = Facts!IndexOf(k) /\ Index = Facts!Index
    BY SameChanges, SameLookup DEF Index, Facts!Index
  <1>7. "accessor" \notin t[i].memory[t[i].len].value.flags
    OBVIOUS
  <1> HIDE DEF s, i
  <1>8. /\ s[i].len = t[i].len - 1
        /\ Len(s[i].memory) = Len(t[i].memory)
        /\ \A l \in Index \ {i} : s[l] = t[l]
        /\ \A q \in t[i].len .. Len(t[i].memory) : s[i].memory[q] = t[i].memory[q]
    BY <1>4, <1>5, <1>6
  <1>9. ASSUME NEW q \in (s[i].len + 1)..Len(s[i].memory)
        PROVE  "accessor" \notin s[i].memory[q].value.flags
    <2>1. q \in t[i].len .. Len(t[i].memory)
      BY <1>3, <1>8
    <2>2. q = t[i].len \/ q \in (t[i].len + 1)..Len(t[i].memory)
      BY <1>3, <2>1
    <2> QED BY <1>1, <1>7, <1>8, <2>1, <2>2 DEF Clean
  <1>10. Clean(s)
    BY <1>8, <1>9 DEF Clean
  <1> QED BY <1>10 DEF s

-----------------------------------------------------------------------------
(* The operations keep it.                                                 *)

KRest ==
  /\ ExceptionsMatch /\ Undisturbed /\ AllSane
  /\ Simple => CleanMemory /\ HalfDefined /\ answer # Crashed

LEMMA Nothing ==
  /\ \A v \in Values : v # Nil /\ v # Crashed
  /\ Undefined \in Values /\ Nil # Crashed /\ Functions \subseteq Values /\ Data \subseteq Values
  BY ValuesAssumption DEF Values

\* Tables that differ from the old ones in the property n of o.
LEMMA SaneChanged ==
  ASSUME IInv, AllSane, NEW o \in Object, NEW n \in Name, NEW t,
         objects' = [objects EXCEPT ![o] = t],
         \A l \in Name \ {n} :
           Has(t, l) => Has(objects[o], l) /\ At(t, l) = At(objects[o], l),
         Has(t, n) /\ ~BeingDefined(o, n)' => Sane(At(t, n)),
         \A p \in Object, l \in Name : BeingDefined(p, l) => p = o /\ l = n
  PROVE  AllSane'
  <1>1. objects'[o] = t /\ \A q \in Object \ {o} : objects'[q] = objects[q]
    BY DEF IInv
  <1>2. ASSUME NEW p \in Object, NEW l \in Name,
               Has(objects'[p], l), ~BeingDefined(p, l)'
        PROVE  Sane(At(objects'[p], l))
    <2>1. CASE p = o /\ l = n
      BY <1>1, <1>2, <2>1
    <2>2. CASE p = o /\ l # n
      <3>1. Has(objects[p], l) /\ At(objects'[p], l) = At(objects[p], l)
        BY <1>1, <1>2, <2>2
      <3> QED BY <2>2, <3>1 DEF AllSane
    <2>3. CASE p # o
      BY <1>1, <1>2, <2>3 DEF AllSane
    <2> QED BY <2>1, <2>2, <2>3
  <1> QED BY <1>2 DEF AllSane

LEMMA CleanChanged ==
  ASSUME IInv, CleanMemory, NEW o \in Object, NEW t, objects' = [objects EXCEPT ![o] = t],
         Clean(t), o \in making => Full(t), making' \subseteq making
  PROVE  CleanMemory'
  <1>1. objects'[o] = t /\ \A q \in Object \ {o} : objects'[q] = objects[q]
    BY DEF IInv
  <1> QED BY <1>1 DEF CleanMemory

\* What the answers of an operation of running code may be.
LEMMA Outcome ==
  ASSUME KInv, CodeRuns, IInv', NEW v,
         \/ Reply(v) /\ v \in Values
         \/ Reject
         \/ Crash
         \/ Call(v)
  PROVE  /\ ExceptionsMatch' /\ Quiet(stack')
         /\ answer' = Crashed => Crash \/ (v \notin Functions /\ Call(v))
  <1>1. Quiet(stack) /\ exc = FALSE /\ stack \in Seq(FrameType)
    BY CodeQuiet DEF KInv, IInv
  <1>2. Quiet(Append(stack, AccessorFrame))
    BY <1>1, QuietPushed
  <1>3. CASE Reply(v) /\ v \in Values
    BY <1>1, <1>3, Nothing DEF Reply, ExceptionsMatch
  <1>4. CASE Reject
    BY <1>1, <1>4, Nothing DEF Reject, Reply, ExceptionsMatch
  <1>5. CASE Crash
    BY <1>1, <1>5 DEF Crash, ExceptionsMatch
  <1>6. CASE Call(v)
    BY <1>1, <1>2, <1>6, Nothing DEF Call, Crash, ExceptionsMatch
  <1> QED BY <1>3, <1>4, <1>5, <1>6

\* An operation of running code that leaves accessors running, or nothing.
LEMMA CodeStep ==
  ASSUME KInv, IInv', CodeRuns, Quiet(stack'), ExceptionsMatch', AllSane',
         Simple => CleanMemory' /\ answer' # Crashed
  PROVE  KRest'
  BY QuietAfter DEF KRest, IInv

LEMMA NothingChanged ==
  ASSUME KInv, ~Pending, UNCHANGED <<objects, making>>
  PROVE  AllSane' /\ (Simple => CleanMemory')
  <1>1. AllSane'
    BY DEF KInv, AllSane, BeingDefined
  <1> QED BY <1>1 DEF KInv, CleanMemory

LEMMA SaneEntry ==
  ASSUME KInv, ~Pending, NEW o \in Object, NEW n \in Name, HasOwn(o, n)
  PROVE  Sane(Own(o, n)) /\ Own(o, n) \in Property
  BY OwnType DEF KInv, AllSane, BeingDefined, HasOwn, Own

LEMMA RefusedSane ==
  ASSUME KInv, CodeRuns, IInv', NEW p \in Property, Sane(p), PutRefused(p)
  PROVE  /\ ExceptionsMatch' /\ Quiet(stack')
         /\ Simple => answer' # Crashed
  <1>1. CASE Reject
    BY <1>1, Outcome, Nothing DEF Crash, Reject, Reply
  <1>2. CASE "accessor" \in p.flags /\ p.set # Nil /\ Call(p.set)
    <2>1. Simple => p.set \in Functions
      BY <1>2 DEF Sane, Formed
    <2>2. ExceptionsMatch' /\ Quiet(stack')
      BY <1>2, Outcome
    <2>3. ASSUME Simple PROVE answer' # Crashed
      BY <1>2, <2>1, <2>3, Nothing DEF Call
    <2> QED BY <2>2, <2>3
  <1> QED BY <1>1, <1>2 DEF PutRefused

LEMMA GetSane ==
  ASSUME KInv, IInv', NEW o \in Object, NEW n \in Name, Get(o, n)
  PROVE  KRest'
  <1> DEFINE h == Holder(o, n)
             p == Own(h, n)
  <1>1. CodeRuns /\ ~Pending /\ UNCHANGED <<objects, making>>
    BY CodeQuiet DEF Get
  <1>2. h = NoObject \/ (h \in Object /\ HasOwn(h, n))
    BY HolderHas
  <1>3. IF h = NoObject THEN Reply(Undefined) ELSE GetFrom(p)
    BY DEF Get
  <1>4. h # NoObject => Sane(p) /\ p \in Property
    BY <1>1, <1>2, SaneEntry
  <1> HIDE DEF h, p
  <1>5. /\ ExceptionsMatch' /\ Quiet(stack')
        /\ Simple => answer' # Crashed
    <2>1. CASE h = NoObject
      BY <1>1, <1>3, <2>1, Outcome, Nothing DEF Reply
    <2>2. CASE h # NoObject /\ "accessor" \notin p.flags
      <3>1. p.value \in Values /\ Reply(p.value)
        BY <1>3, <1>4, <2>2 DEF GetFrom, Sane, Readable, Property
      <3> QED BY <1>1, <3>1, Outcome, Nothing DEF Reply
    <2>3. CASE h # NoObject /\ "accessor" \in p.flags /\ p.value = Nil
      BY <1>1, <1>3, <2>3, Outcome, Nothing DEF GetFrom, Reply
    <2>4. CASE h # NoObject /\ "accessor" \in p.flags /\ p.value # Nil
      <3>1. Call(p.value)
        BY <1>3, <2>4 DEF GetFrom
      <3>2. ExceptionsMatch' /\ Quiet(stack')
        BY <1>1, <3>1, Outcome
      <3>3. Simple => p.value \in Functions
        BY <1>4, <2>4 DEF Sane, Formed
      <3> QED BY <3>1, <3>2, <3>3, Nothing DEF Call
    <2> QED BY <2>1, <2>2, <2>3, <2>4
  <1> QED BY <1>1, <1>5, NothingChanged, CodeStep

\* Writing an entry of running code.
LEMMA StoreSane ==
  ASSUME KInv, IInv', ~Pending, NEW o \in Object, NEW n \in Name, NEW p \in Property, Sane(p),
         objects' = [objects EXCEPT ![o] = Store(@, n, p)], UNCHANGED making
  PROVE  AllSane' /\ (Simple => CleanMemory')
  <1> DEFINE t == Store(objects[o], n, p)
  <1>1. Sound(objects[o])
    BY DEF KInv, IInv
  <1>2. /\ Has(t, n) /\ At(t, n) = p
        /\ \A l \in Name \ {n} : Has(t, l) => Has(objects[o], l) /\ At(t, l) = At(objects[o], l)
    BY <1>1, Stored
  <1>3. (Clean(objects[o]) => Clean(t)) /\ (Full(objects[o]) => Full(t))
    BY <1>1, StoreClean
  <1>4. objects' = [objects EXCEPT ![o] = t]
    OBVIOUS
  <1> HIDE DEF t
  <1>5. AllSane'
    BY <1>2, <1>4, SaneChanged DEF KInv, BeingDefined
  <1>6. Simple => CleanMemory'
    BY <1>3, <1>4, CleanChanged DEF KInv, CleanMemory
  <1> QED BY <1>5, <1>6

LEMMA PutOwnSane ==
  ASSUME KInv, IInv', CodeRuns, NEW o \in Object, NEW n \in Name, NEW v \in Values,
         HasOwn(o, n), PutOwn(o, n, v), UNCHANGED making
  PROVE  KRest'
  <1> DEFINE p == Own(o, n)
             q == [p EXCEPT !.value = v]
  <1>1. ~Pending /\ Sane(p) /\ p \in Property
    BY CodeQuiet, SaneEntry
  <1>2. CASE "writable" \in p.flags
    <2>1. objects' = [objects EXCEPT ![o] = Store(@, n, q)] /\ Reply(Undefined)
      BY <1>2 DEF PutOwn
    <2> HIDE DEF p
    <2>2. q \in Property /\ q.value = v /\ q.flags = p.flags
      BY <1>1 DEF Property
    <2>3. Simple => "accessor" \notin p.flags
      BY <1>1, <1>2 DEF Sane, Formed
    <2> HIDE DEF q
    <2>4. Sane(q)
      BY <2>2, <2>3, Nothing DEF Sane, Readable, Formed
    <2>5. AllSane' /\ (Simple => CleanMemory')
      BY <1>1, <2>1, <2>2, <2>4, StoreSane
    <2>6. ExceptionsMatch' /\ Quiet(stack') /\ answer' # Crashed
      BY <2>1, Outcome, Nothing DEF Reply
    <2> QED BY <2>5, <2>6, CodeStep
  <1>3. CASE "writable" \notin p.flags
    <2>1. PutRefused(p) /\ UNCHANGED objects
      BY <1>3 DEF PutOwn
    <2> HIDE DEF p
    <2> QED BY <1>1, <2>1, RefusedSane, NothingChanged, CodeStep
  <1> QED BY <1>2, <1>3

\* A new entry, written to.
LEMMA NewSane ==
  ASSUME KInv, IInv', ~Pending, NEW o \in Object, NEW n \in Name, NEW p \in Property, Sane(p),
         objects' = [objects EXCEPT ![o] = Store(Subscript(@, n), n, p)], UNCHANGED making
  PROVE  AllSane' /\ (Simple => CleanMemory')
  <1> DEFINE s == Subscript(objects[o], n)
             t == Store(s, n, p)
  <1>1. Sound(objects[o])
    BY DEF KInv, IInv
  <1>2. /\ Sound(s) /\ Has(s, n)
        /\ \A l \in Name \ {n} : Has(s, l) => Has(objects[o], l) /\ At(s, l) = At(objects[o], l)
    BY <1>1, Subscripted
  <1>3. (Clean(objects[o]) => Clean(s)) /\ (Full(objects[o]) => Full(s))
    BY <1>1, SubscriptClean
  <1>4. objects' = [objects EXCEPT ![o] = t]
    OBVIOUS
  <1> HIDE DEF s
  <1>5. /\ Has(t, n) /\ At(t, n) = p
        /\ \A l \in Name \ {n} : Has(t, l) => Has(s, l) /\ At(t, l) = At(s, l)
    BY <1>2, Stored
  <1>6. (Clean(s) => Clean(t)) /\ (Full(s) => Full(t))
    BY <1>2, StoreClean
  <1> HIDE DEF t
  <1>7. AllSane'
    <2>1. \A l \in Name \ {n} : Has(t, l) => Has(objects[o], l) /\ At(t, l) = At(objects[o], l)
      BY <1>2, <1>5
    <2>2. IInv /\ AllSane /\ \A r \in Object, l \in Name : ~BeingDefined(r, l)
      BY DEF KInv, BeingDefined
    <2>3. Sane(At(t, n))
      BY <1>5
    <2> QED BY <1>4, <2>1, <2>2, <2>3, SaneChanged
  <1>8. Simple => CleanMemory'
    BY <1>3, <1>4, <1>6, CleanChanged DEF KInv, CleanMemory
  <1> QED BY <1>7, <1>8

LEMMA PutNewSane ==
  ASSUME KInv, IInv', CodeRuns, NEW o \in Object, NEW n \in Name, NEW v \in Values,
         ~HasOwn(o, n), PutNew(o, n, v), UNCHANGED making
  PROVE  KRest'
  <1> DEFINE h == Holder(o, n)
             p == At(Subscript(objects[o], n), n)
             q == Created(p, v)
  <1>1. ~Pending /\ Quiet(stack) /\ exc = FALSE /\ Sound(objects[o]) /\ stack \in Seq(FrameType)
    BY CodeQuiet DEF KInv, IInv
  <1>2. h = NoObject \/ (h \in Object /\ HasOwn(h, n))
    BY HolderHas
  <1>3. CASE h = NoObject \/ "writable" \in Own(h, n).flags
    <2>1. /\ objects' = [objects EXCEPT ![o] = Store(Subscript(@, n), n, q)]
          /\ stack' \in Pointers(o, n) /\ answer' = Undefined /\ UNCHANGED exc
      BY <1>3 DEF PutNew
    <2>2. p \in Property
      BY NewEntryType DEF KInv
    <2>3. Simple => "accessor" \notin p.flags
      BY <1>1, SubscriptClean DEF KInv, CleanMemory, HasOwn
    <2> HIDE DEF p, h
    <2>4. q \in Property /\ q.value = v /\ q.flags = p.flags \cup {"writable", "configurable"}
      BY <2>2 DEF Created, Property, Flags
    <2> HIDE DEF q
    <2>5. Sane(q)
      BY <2>3, <2>4, Nothing DEF Sane, Readable, Formed
    <2>6. AllSane' /\ (Simple => CleanMemory')
      BY <1>1, <2>1, <2>4, <2>5, NewSane
    <2>7. Quiet(stack')
      BY <1>1, <2>1, PointersSame
    <2>8. ExceptionsMatch' /\ answer' # Crashed
      BY <1>1, <2>1, Nothing DEF ExceptionsMatch
    <2> QED BY <2>6, <2>7, <2>8, CodeStep
  <1>4. CASE ~(h = NoObject \/ "writable" \in Own(h, n).flags)
    <2>1. PutRefused(Own(h, n)) /\ UNCHANGED objects
      BY <1>4 DEF PutNew
    <2>2. Sane(Own(h, n)) /\ Own(h, n) \in Property
      BY <1>1, <1>2, <1>4, SaneEntry
    <2> HIDE DEF h
    <2> QED BY <1>1, <2>1, <2>2, RefusedSane, NothingChanged, CodeStep
  <1> QED BY <1>3, <1>4

LEMMA DeleteSane ==
  ASSUME KInv, IInv', NEW o \in Object, NEW n \in Name, Delete(o, n)
  PROVE  KRest'
  <1>1. CodeRuns /\ ~Pending /\ UNCHANGED making
    BY CodeQuiet DEF Delete
  <1>2. /\ ExceptionsMatch' /\ Quiet(stack')
        /\ Simple => answer' # Crashed
    BY <1>1, Outcome, Nothing DEF Delete, Reply, Reject
  <1>3. CASE UNCHANGED objects
    BY <1>1, <1>2, <1>3, NothingChanged, CodeStep
  <1>4. CASE /\ HasOwn(o, n)
             /\ objects' = [objects EXCEPT ![o] = Erase(@, n)]
    <2> DEFINE t == Erase(objects[o], n)
    <2>1. Sound(objects[o]) /\ Has(objects[o], n)
      BY <1>4 DEF KInv, IInv, HasOwn
    <2>2. /\ ~Has(t, n)
          /\ \A l \in Name \ {n} : Has(t, l) => Has(objects[o], l) /\ At(t, l) = At(objects[o], l)
      BY <2>1, ErasedEntry
    <2>3. objects' = [objects EXCEPT ![o] = t]
      BY <1>4
    <2>4. ASSUME Simple PROVE Clean(t) /\ o \notin making
      <3>1. o \notin making /\ "accessor" \notin LeftInMemory(o, n).flags
        BY <1>4, <2>4 DEF Delete, Simple
      <3>2. "accessor" \notin objects[o][IndexOf(n)].memory[objects[o][IndexOf(n)].len].value.flags
        BY <3>1 DEF LeftInMemory
      <3>3. Clean(objects[o])
        BY <2>4 DEF KInv, CleanMemory
      <3> QED BY <2>1, <3>1, <3>2, <3>3, EraseClean
    <2> HIDE DEF t
    <2>5. AllSane'
      BY <1>1, <2>2, <2>3, SaneChanged DEF KInv, BeingDefined
    <2>6. Simple => CleanMemory'
      BY <1>1, <2>3, <2>4, CleanChanged DEF KInv
    <2> QED BY <1>1, <1>2, <2>5, <2>6, CodeStep
  <1> QED BY <1>3, <1>4 DEF Delete

\* An entry of an object being made is given the value, setter and flags of p.
LEMMA WritesSane ==
  ASSUME KInv, IInv', CodeRuns, NEW o \in Object, NEW n \in Name, NEW p \in Property, Sane(p),
         Writes(o, n, p)
  PROVE  KRest'
  <1>1. ~Pending /\ Quiet(stack) /\ exc = FALSE /\ stack \in Seq(FrameType)
    BY CodeQuiet DEF KInv, IInv
  <1>2. /\ objects' = [objects EXCEPT ![o] = Store(@, n, p)]
        /\ stack' \in Pointers(o, n) /\ answer' = Undefined /\ UNCHANGED <<making, exc>>
    BY DEF Writes
  <1>3. AllSane' /\ (Simple => CleanMemory')
    BY <1>1, <1>2, StoreSane
  <1>4. Quiet(stack')
    BY <1>1, <1>2, PointersSame
  <1>5. ExceptionsMatch' /\ answer' # Crashed
    BY <1>1, <1>2, Nothing DEF ExceptionsMatch
  <1> QED BY <1>3, <1>4, <1>5, CodeStep

\* What the entry was, or what the memory has for it.
LEMMA EntrySane ==
  ASSUME KInv, ~Pending, NEW o \in Object, NEW n \in Name
  PROVE  LET p == At(Subscript(objects[o], n), n)
         IN /\ p \in Property
            /\ HasOwn(o, n) => p = Own(o, n) /\ Sane(p)
            /\ Simple /\ o \in making /\ ~HasOwn(o, n) => p = Zero
  <1>1. Sound(objects[o])
    BY DEF KInv, IInv
  <1>2. At(Subscript(objects[o], n), n) \in Property
    BY NewEntryType DEF KInv
  <1>3. HasOwn(o, n) => Subscript(objects[o], n) = objects[o]
    BY DEF HasOwn, Subscript
  <1>4. HasOwn(o, n) => Sane(Own(o, n))
    BY SaneEntry
  <1>5. Simple /\ o \in making /\ ~HasOwn(o, n) => At(Subscript(objects[o], n), n) = Zero
    BY <1>1, SubscriptClean DEF KInv, CleanMemory, HasOwn
  <1> QED BY <1>2, <1>3, <1>4, <1>5 DEF Own

\* The two entries a literal can make of p.
LEMMA LiteralEntry ==
  ASSUME NEW p \in Property, NEW f \in Functions,
         Simple => p = Zero \/ (Formed(p) /\ "accessor" \in p.flags)
  PROVE  LET q == [p EXCEPT !.flags = {"accessor", "configurable"}]
         IN /\ [q EXCEPT !.value = f] \in Property /\ Sane([q EXCEPT !.value = f])
            /\ [q EXCEPT !.set = f] \in Property /\ Sane([q EXCEPT !.set = f])
  <1> DEFINE q == [p EXCEPT !.flags = {"accessor", "configurable"}]
             g == [q EXCEPT !.value = f]
             s == [q EXCEPT !.set = f]
  <1>1. p.value \in Values \cup {Nil} /\ p.set \in Values \cup {Nil} /\ p.flags \subseteq Flags
    BY DEF Property
  <1>2. Simple => p.value \in Functions \cup {Nil} /\ p.set \in Functions \cup {Nil}
    BY DEF Formed, Zero
  <1>3. /\ g.value = f /\ g.set = p.set /\ g.flags = {"accessor", "configurable"}
        /\ s.value = p.value /\ s.set = f /\ s.flags = {"accessor", "configurable"}
        /\ g \in Property /\ s \in Property
    BY <1>1, Nothing DEF Property, Flags
  <1> HIDE DEF g, s
  <1>4. Sane(g) /\ Sane(s)
    BY <1>2, <1>3 DEF Sane, Readable, Formed
  <1> QED BY <1>3, <1>4 DEF g, s

LEMMA LiteralSane ==
  ASSUME KInv, IInv', NEW o \in Object, NEW n \in Name, NEW f \in Functions, LiteralAccessor(o, n, f)
  PROVE  KRest'
  <1> DEFINE p == At(Subscript(objects[o], n), n)
             q == [p EXCEPT !.flags = {"accessor", "configurable"}]
  <1>1. CodeRuns /\ ~Pending /\ o \in making
    BY CodeQuiet DEF LiteralAccessor, IsLiteral
  <1>2. /\ p \in Property
        /\ HasOwn(o, n) => p = Own(o, n) /\ Sane(p)
        /\ Simple /\ o \in making /\ ~HasOwn(o, n) => p = Zero
    BY <1>1, EntrySane
  <1>3. Writes(o, n, [q EXCEPT !.value = f]) \/ Writes(o, n, [q EXCEPT !.set = f])
    BY DEF LiteralAccessor
  <1>4. Simple => (HasOwn(o, n) => "accessor" \in Own(o, n).flags)
    BY DEF LiteralAccessor, Simple
  <1> HIDE DEF p
  <1>5. Simple => p = Zero \/ (Formed(p) /\ "accessor" \in p.flags)
    BY <1>1, <1>2, <1>4 DEF Sane
  <1>6. /\ [q EXCEPT !.value = f] \in Property /\ Sane([q EXCEPT !.value = f])
        /\ [q EXCEPT !.set = f] \in Property /\ Sane([q EXCEPT !.set = f])
    BY <1>2, <1>5, LiteralEntry
  <1> HIDE DEF q
  <1> QED BY <1>1, <1>3, <1>6, WritesSane

LEMMA BuiltInSane ==
  ASSUME KInv, IInv', NEW o \in Object, NEW n \in Name, NEW v \in Data, BuiltIn(o, n, v)
  PROVE  KRest'
  <1> DEFINE p == At(Subscript(objects[o], n), n)
  <1>1. CodeRuns /\ ~Pending
    BY CodeQuiet DEF BuiltIn
  <1>2. p \in Property
    BY NewEntryType DEF KInv
  <1>3. PICK w \in {{}, {"writable"}} : Writes(o, n, [p EXCEPT !.value = v, !.flags = w])
    BY DEF BuiltIn
  <1> HIDE DEF p
  <1> DEFINE q == [p EXCEPT !.value = v, !.flags = w]
  <1>4. q \in Property /\ q.value = v /\ q.flags = w
    BY <1>2, Nothing DEF Property, Flags
  <1> HIDE DEF q
  <1>5. Sane(q)
    BY <1>4, Nothing DEF Sane, Readable, Formed
  <1> QED BY <1>1, <1>3, <1>4, <1>5, WritesSane DEF q

\* Subscripting makes an entry nobody reads yet.
LEMMA DefineSane ==
  ASSUME KInv, IInv', NEW o \in Object, NEW n \in Name, DefineProperty(o, n)
  PROVE  KRest'
  <1> DEFINE t == Subscript(objects[o], n)
             before == IF HasOwn(o, n) /\ "descriptorGetter" \notin Uses
                       THEN {Own(o, n)} ELSE {}
             f == DefineFrame(o, n, Position(t, n), before)
  <1>1. /\ ~Pending /\ Quiet(stack) /\ exc = FALSE /\ stack \in Seq(FrameType) /\ Sound(objects[o])
        /\ answer \notin {Nil, Crashed}
    BY CodeQuiet DEF DefineProperty, KInv, IInv, CodeRuns
  <1>2. /\ Sound(t) /\ Has(t, n)
        /\ \A l \in Name \ {n} : Has(t, l) => Has(objects[o], l) /\ At(t, l) = At(objects[o], l)
    BY <1>1, Subscripted
  <1>3. (Clean(objects[o]) => Clean(t)) /\ (Full(objects[o]) => Full(t))
    BY <1>1, SubscriptClean
  <1>4. objects' = [objects EXCEPT ![o] = t] /\ UNCHANGED <<making, answer, exc>>
    BY DEF DefineProperty
  <1>5. PICK s \in Pointers(o, n) : stack' = Append(s, f)
    BY DEF DefineProperty
  <1>6. s = stack
    BY <1>1, PointersSame
  <1>7. before \in SUBSET Property /\ (before = {} \/ \E p \in Property : before = {p})
    BY <1>1, SaneEntry
  <1> HIDE DEF before
  <1>8. Position(t, n) \in Nat \ {0}
    BY <1>2, EntryType
  <1>9. /\ f \in FrameType /\ f.kind = "define" /\ f.object = o /\ f.name = n
        /\ f.node = Position(t, n) /\ f.moved = FALSE /\ f.phase = "value" /\ f.before = before
    BY <1>7, <1>8, NewFrameType DEF DefineFrame
  <1> HIDE DEF f, t
  <1>10. /\ Pending' /\ Top' = f
         /\ \A i \in 1..Len(stack') : stack'[i].kind = "define" => i = Len(stack')
    BY <1>1, <1>5, <1>6, <1>9, PendingAfter
  <1>11. BeingDefined(o, n)'
    BY <1>9, <1>10 DEF BeingDefined
  <1>12. AllSane'
    <2>1. IInv /\ AllSane
      BY DEF KInv
    <2>2. \A r \in Object, l \in Name : BeingDefined(r, l) => r = o /\ l = n
      BY <1>1 DEF BeingDefined
    <2>3. Has(t, n) /\ ~BeingDefined(o, n)' => Sane(At(t, n))
      BY <1>11
    <2>4. objects' = [objects EXCEPT ![o] = t]
      BY <1>4
    <2>5. \A l \in Name \ {n} : Has(t, l) => Has(objects[o], l) /\ At(t, l) = At(objects[o], l)
      BY <1>2
    <2> QED BY <2>1, <2>2, <2>3, <2>4, <2>5, SaneChanged
  <1>13. Simple => CleanMemory'
    BY <1>3, <1>4, CleanChanged DEF KInv, CleanMemory
  <1>14. objects'[o] = t
    BY <1>4 DEF KInv, IInv
  <1>15. Undisturbed'
    BY <1>1, <1>2, <1>4, <1>9, <1>10, <1>14 DEF Undisturbed
  <1>16. HalfDefined'
    BY <1>7, <1>9, <1>10 DEF HalfDefined
  <1>17. ExceptionsMatch' /\ answer' # Crashed
    BY <1>1, <1>4 DEF ExceptionsMatch
  <1> QED BY <1>12, <1>13, <1>15, <1>16, <1>17 DEF KRest

\* The Property* is that of the entry.
LEMMA ThroughIs ==
  ASSUME KInv, Pending
  PROVE  LET o == Top.object
             n == Top.name
         IN /\ o \in Object /\ n \in Name /\ Top \in FrameType
            /\ Sound(objects[o]) /\ Has(objects[o], n)
            /\ Pointed(Top) = At(objects[o], n) /\ At(objects[o], n) \in Property
            /\ \A p : ThroughPointer(Top, p) => objects' = [objects EXCEPT ![o] = Store(@, n, p)]
  <1> DEFINE o == Top.object
             n == Top.name
             t == objects[o]
             i == IndexOf(n)
  <1>1. Top \in FrameType /\ Top.kind = "define"
    BY Under DEF KInv, IInv, Pending, Top
  <1>2. o \in Object /\ n \in Name
    BY <1>1, DefineFrameType
  <1>3. /\ Sound(t) /\ Has(t, n) /\ Top.node = Position(t, n) /\ ~Top.moved
    BY <1>2 DEF KInv, IInv, Undisturbed
  <1>4. Facts!Good(t) /\ Facts!Has(t, n)
    BY <1>3, SameTables, SameLookup
  <1>5. Position(t, n) \in 1..t[i].len
    BY <1>2, <1>4, Assumptions, Facts!Found, SameLookup
  <1>6. i \in Index
    BY <1>2, NameIndex
  <1>7. t[i].len \in Nat /\ Len(t[i].memory) \in Nat /\ t[i].len <= Len(t[i].memory)
    BY <1>3, <1>6, Buckets
  <1>8. ~(Position(t, n) > Len(t[i].memory))
    BY <1>5, <1>7
  <1>9. Pointed(Top) = At(t, n) /\ At(t, n) \in Property
    BY <1>2, <1>3, <1>8, EntryType DEF Pointed, At
  <1>10. ASSUME NEW p, ThroughPointer(Top, p) PROVE objects' = [objects EXCEPT ![o] = Store(@, n, p)]
    <2>1. Store(t, n, p) = Write(t, i, Position(t, n), p)
      BY <1>3 DEF Store, Subscript
    <2>2. objects' = [objects EXCEPT ![o] = Write(t, i, Position(t, n), p)]
      BY <1>3, <1>8, <1>10 DEF ThroughPointer
    <2> QED BY <2>1, <2>2
  <1> QED BY <1>1, <1>2, <1>3, <1>9, <1>10

\* It stays where it is.
LEMMA StoredPosition ==
  ASSUME NEW t, Sound(t), NEW k \in Name, Has(t, k), NEW v \in Property
  PROVE  Position(Store(t, k, v), k) = Position(t, k)
  <1> DEFINE i == IndexOf(k)
             p == Position(t, k)
             s == Store(t, k, v)
             hits(u) == {q \in 1..u[i].len : u[i].memory[q].key = k}
  <1>1. i \in Index /\ i \in Facts!Index
    BY NameIndex DEF Index, Facts!Index
  <1>2. Facts!Good(t) /\ Facts!Has(t, k)
    BY SameTables, SameLookup
  <1>3. p \in 1..t[i].len
    BY <1>2, Assumptions, Facts!Found, SameLookup
  <1>4. /\ t[i].len \in Nat /\ Len(t[i].memory) \in Nat
        /\ t[i].len <= Len(t[i].memory)
    BY <1>1, Buckets
  <1>5. s = Facts!Write(t, i, p, v)
    BY SameChanges DEF Store, Subscript
  <1> HIDE DEF p, s
  <1>6. /\ Facts!HashAssumption /\ Facts!SizeAssumption /\ Facts!SpareAssumption /\ Facts!ZeroAssumption
        /\ Facts!Good(t) /\ i \in Facts!Index /\ p \in 1..Len(t[i].memory) /\ v \in Property
    BY <1>1, <1>2, <1>3, <1>4, Assumptions
  <1>7. LET u == Facts!Write(t, i, p, v)
        IN /\ Facts!Good(u)
           /\ u[i].len = t[i].len
           /\ Len(u[i].memory) = Len(t[i].memory)
           /\ \A q \in 1 .. Len(t[i].memory) :
                /\ u[i].memory[q].key = t[i].memory[q].key
                /\ u[i].memory[q].value = IF q = p THEN v ELSE t[i].memory[q].value
           /\ \A j \in Facts!Index \ {i} : u[j] = t[j]
    BY <1>6, Facts!Written
  <1>8. /\ s[i].len = t[i].len
        /\ \A q \in 1 .. Len(t[i].memory) : s[i].memory[q].key = t[i].memory[q].key
    BY <1>5, <1>7
  <1>9. hits(s) = hits(t)
    BY <1>4, <1>8
  <1> DEFINE place(S) == IF S = {} THEN 0 ELSE CHOOSE q \in S : \A r \in S : q <= r
  <1>10. \A u : Position(u, k) = place(hits(u))
    BY DEF Position
  <1> HIDE DEF place, hits
  <1> QED BY <1>9, <1>10 DEF s, p

\* The entry being defined is given something.
LEMMA DefinedSane ==
  ASSUME KInv, Pending, NEW o \in Object, NEW n \in Name, o = Top.object, n = Top.name,
         NEW p \in Property, ThroughPointer(Top, p), UNCHANGED making,
         BeingDefined(o, n)' \/ Sane(p)
  PROVE  /\ AllSane' /\ (Simple => CleanMemory')
         /\ Has(objects'[o], n) /\ At(objects'[o], n) = p
         /\ Position(objects'[o], n) = Position(objects[o], n)
  <1> DEFINE t == Store(objects[o], n, p)
  <1>1. /\ Sound(objects[o]) /\ Has(objects[o], n)
        /\ objects' = [objects EXCEPT ![o] = Store(@, n, p)]
    BY ThroughIs
  <1>2. \A r \in Object, l \in Name : BeingDefined(r, l) => r = o /\ l = n
    BY DEF BeingDefined
  <1>3. /\ Has(t, n) /\ At(t, n) = p
        /\ \A l \in Name \ {n} : Has(t, l) => Has(objects[o], l) /\ At(t, l) = At(objects[o], l)
    BY <1>1, Stored
  <1>4. (Clean(objects[o]) => Clean(t)) /\ (Full(objects[o]) => Full(t))
    BY <1>1, StoreClean
  <1>5. objects' = [objects EXCEPT ![o] = t] /\ IInv /\ AllSane
    BY <1>1 DEF KInv
  <1>6. Position(t, n) = Position(objects[o], n)
    BY <1>1, StoredPosition
  <1> HIDE DEF t
  <1>7. AllSane'
    <2>1. Has(t, n) /\ ~BeingDefined(o, n)' => Sane(At(t, n))
      BY <1>3
    <2>2. \A l \in Name \ {n} : Has(t, l) => Has(objects[o], l) /\ At(t, l) = At(objects[o], l)
      BY <1>3
    <2> QED BY <1>2, <1>5, <2>1, <2>2, SaneChanged
  <1>8. Simple => CleanMemory'
    BY <1>4, <1>5, CleanChanged DEF KInv, CleanMemory
  <1>9. objects'[o] = t
    BY <1>5 DEF IInv
  <1> QED BY <1>3, <1>6, <1>7, <1>8, <1>9

-----------------------------------------------------------------------------
(* An attribute is given to the defineProperty on top.                     *)

\* It asks for the next one, and is still defining the same property.
LEMMA AsksSane ==
  ASSUME KInv, Pending, IInv', NEW o \in Object, NEW n \in Name, o = Top.object, n = Top.name,
         NEW phase \in {"get", "set"}, Asks(Popped, Top, phase),
         UNCHANGED exc,
         Has(objects'[o], n), Position(objects'[o], n) = Position(objects[o], n),
         Simple /\ phase = "set" => At(objects'[o], n).value \in Functions
  PROVE  /\ BeingDefined(o, n)' /\ Undisturbed' /\ ExceptionsMatch' /\ answer' # Crashed
         /\ Simple => HalfDefined'
  <1> DEFINE f == [Top EXCEPT !.phase = phase]
  <1>1. stack \in Seq(FrameType) /\ stack # <<>> /\ Undisturbed
    BY DEF KInv, IInv, Pending
  <1>2. Popped \in Seq(FrameType) /\ Quiet(Popped) /\ Top \in FrameType /\ Top.kind = "define"
    BY <1>1, PoppedQuiet DEF Pending
  <1>3. /\ f \in FrameType /\ f.kind = "define" /\ f.object = o /\ f.name = n
        /\ f.node = Top.node /\ f.moved = Top.moved /\ f.phase = phase /\ f.before = Top.before
    <2>1. Top \in [kind : {"define"}, object : Object, name : Name, node : Nat \ {0},
                   moved : BOOLEAN, phase : {"value", "get", "set"}, before : SUBSET Property]
      BY <1>2 DEF FrameType, AccessorFrame
    <2>2. f \in FrameType
      BY <1>2, DefineFrameType
    <2> QED BY <2>1, <2>2
  <1>4. stack' = Append(Popped, f) /\ answer' \notin {Nil, Crashed} /\ answer \notin {Nil, Crashed}
    BY <1>1, Nothing DEF Asks, Undisturbed
  <1> HIDE DEF f
  <1>5. /\ Pending' /\ Top' = f
        /\ \A i \in 1..Len(stack') : stack'[i].kind = "define" => i = Len(stack')
    BY <1>2, <1>3, <1>4, PendingAfter
  <1>6. BeingDefined(o, n)'
    BY <1>3, <1>5 DEF BeingDefined
  <1>7. Undisturbed'
    BY <1>1, <1>3, <1>4, <1>5 DEF Undisturbed
  <1>8. Simple => HalfDefined'
    BY <1>3, <1>5 DEF HalfDefined, KInv
  <1>9. ExceptionsMatch'
    BY <1>4 DEF ExceptionsMatch, KInv
  <1> QED BY <1>4, <1>6, <1>7, <1>8, <1>9

\* It has all it needs, and returns.
LEMMA DefineEndsSane ==
  ASSUME KInv, Pending, IInv', DefineEnds(Popped), UNCHANGED exc
  PROVE  Undisturbed' /\ HalfDefined' /\ ExceptionsMatch' /\ answer' # Crashed
  <1>1. stack \in Seq(FrameType) /\ stack # <<>> /\ Undisturbed /\ exc = FALSE
    BY DEF KInv, IInv, Pending, Undisturbed, ExceptionsMatch, Typing
  <1>2. Popped \in Seq(FrameType) /\ Quiet(Popped)
    BY <1>1, PoppedQuiet
  <1>3. stack' = Popped /\ answer' = Undefined
    BY DEF DefineEnds
  <1>4. Undisturbed' /\ HalfDefined'
    BY <1>2, <1>3, QuietAfter
  <1>5. ExceptionsMatch' /\ answer' # Crashed
    BY <1>1, <1>3, Nothing DEF ExceptionsMatch
  <1> QED BY <1>4, <1>5

LEMMA AttributeGivenSane ==
  ASSUME KInv, IInv', AttributeGiven
  PROVE  KRest'
  <1> DEFINE p == Pointed(Top)
  <1>1. Pending
    BY DEF AttributeGiven, DefineRuns, Pending
  <1>2. PICK v \in Values :
          /\ Attribute(Popped, Top, v)
          /\ Simple /\ Top.phase # "value" => v \in Functions
    BY Nothing DEF AttributeGiven, Simple
  <1>3. PICK o \in Object, n \in Name : o = Top.object /\ n = Top.name
    BY <1>1, ThroughIs
  <1>4. /\ Has(objects[o], n) /\ p = At(objects[o], n) /\ p \in Property
    BY <1>1, <1>3, ThroughIs
  <1>5. UNCHANGED <<making, known, exc>>
    BY <1>2 DEF Attribute
  <1>6. Simple => CleanMemory /\ HalfDefined
    BY DEF KInv
  <1>7. Simple /\ Top.phase = "set" => p.value \in Functions
    BY <1>1, <1>3, <1>4, <1>6 DEF HalfDefined
  <1> HIDE DEF p
  <1>8. ASSUME Top.phase = "value", v = Undefined, Asks(Popped, Top, "get"), UNCHANGED objects
        PROVE  KRest'
    <2>1. /\ BeingDefined(o, n)' /\ Undisturbed' /\ ExceptionsMatch' /\ answer' # Crashed
          /\ Simple => HalfDefined'
      BY <1>1, <1>3, <1>4, <1>5, <1>8, AsksSane
    <2>2. AllSane'
      <3>1. AllSane /\ \A r \in Object, l \in Name : BeingDefined(r, l) => r = o /\ l = n
        BY <1>3 DEF KInv, BeingDefined
      <3> QED BY <1>8, <2>1, <3>1 DEF AllSane
    <2>3. Simple => CleanMemory'
      BY <1>5, <1>6, <1>8 DEF CleanMemory
    <2> QED BY <2>1, <2>2, <2>3 DEF KRest
  <1>9. ASSUME Top.phase = "get", ThroughPointer(Top, [p EXCEPT !.value = v]),
               Asks(Popped, Top, "set")
        PROVE  KRest'
    <2> DEFINE q == [p EXCEPT !.value = v]
    <2>1. q \in Property /\ q.value = v
      BY <1>4 DEF Property
    <2>2. ThroughPointer(Top, q)
      BY <1>9
    <2> HIDE DEF q
    <2>3. /\ BeingDefined(o, n)' \/ Sane(q)
          /\ Has(objects'[o], n) /\ Position(objects'[o], n) = Position(objects[o], n)
          /\ At(objects'[o], n) = q
      <3>1. /\ o \in Object /\ n \in Name
            /\ Sound(objects[o]) /\ Has(objects[o], n)
            /\ objects' = [objects EXCEPT ![o] = Store(@, n, q)]
        BY <1>1, <1>3, <2>2, ThroughIs
      <3>2. objects'[o] = Store(objects[o], n, q)
        BY <3>1 DEF KInv, IInv
      <3>3. /\ Has(objects'[o], n) /\ Position(objects'[o], n) = Position(objects[o], n)
            /\ At(objects'[o], n) = q
        BY <2>1, <3>1, <3>2, Stored, StoredPosition
      <3>4. Simple => v \in Functions
        BY <1>2, <1>9
      <3>5. BeingDefined(o, n)'
        BY <1>1, <1>3, <1>5, <1>9, <2>1, <3>3, <3>4, AsksSane
      <3> QED BY <3>3, <3>5
    <2>4. /\ BeingDefined(o, n)' /\ Undisturbed' /\ ExceptionsMatch' /\ answer' # Crashed
          /\ Simple => HalfDefined'
      BY <1>1, <1>2, <1>3, <1>5, <1>9, <2>1, <2>3, AsksSane
    <2>5. AllSane' /\ (Simple => CleanMemory')
      BY <1>1, <1>3, <1>5, <2>1, <2>2, <2>3, DefinedSane
    <2> QED BY <2>4, <2>5 DEF KRest
  <1>10. ASSUME NEW q \in Property, Sane(q), ThroughPointer(Top, q), DefineEnds(Popped)
         PROVE  KRest'
    <2>1. AllSane' /\ (Simple => CleanMemory')
      BY <1>1, <1>3, <1>5, <1>10, DefinedSane
    <2>2. Undisturbed' /\ HalfDefined' /\ ExceptionsMatch' /\ answer' # Crashed
      BY <1>1, <1>5, <1>10, DefineEndsSane
    <2> QED BY <2>1, <2>2 DEF KRest
  <1>11. ASSUME ThroughPointer(Top, [p EXCEPT !.value = v, !.flags = {"configurable"}]),
                DefineEnds(Popped)
         PROVE  KRest'
    <2> DEFINE q == [p EXCEPT !.value = v, !.flags = {"configurable"}]
    <2>1. q \in Property /\ q.value = v /\ q.flags = {"configurable"}
      BY <1>4 DEF Property, Flags
    <2>2. ThroughPointer(Top, q)
      BY <1>11
    <2> HIDE DEF q
    <2>3. Sane(q)
      BY <2>1, Nothing DEF Sane, Readable, Formed
    <2> QED BY <1>10, <1>11, <2>1, <2>2, <2>3
  <1>12. ASSUME Top.phase = "set",
                ThroughPointer(Top, [p EXCEPT !.set = v, !.flags = {"accessor", "configurable"}]),
                DefineEnds(Popped)
         PROVE  KRest'
    <2> DEFINE q == [p EXCEPT !.set = v, !.flags = {"accessor", "configurable"}]
    <2>1. /\ q \in Property /\ q.set = v /\ q.flags = {"accessor", "configurable"}
          /\ q.value = p.value
      BY <1>4 DEF Property, Flags
    <2>2. ThroughPointer(Top, q)
      BY <1>12
    <2>3. Simple => p.value \in Functions /\ v \in Functions
      BY <1>2, <1>7, <1>12
    <2> HIDE DEF q
    <2>4. Sane(q)
      BY <2>1, <2>3 DEF Sane, Readable, Formed
    <2> QED BY <1>10, <1>12, <2>1, <2>2, <2>4
  <1> QED BY <1>2, <1>8, <1>9, <1>11, <1>12, Nothing DEF Attribute, p

-----------------------------------------------------------------------------
(* The functions of accessors, and exceptions.                             *)

LEMMA ThrowSane ==
  ASSUME KInv, IInv', Throw
  PROVE  KRest'
  <1>1. CodeRuns /\ Quiet(stack) /\ ~Pending /\ UNCHANGED <<objects, making, stack>>
        /\ answer' = Nil /\ exc' = TRUE
    BY CodeQuiet DEF Throw
  <1>2. ExceptionsMatch' /\ Quiet(stack') /\ answer' # Crashed
    BY <1>1, Nothing DEF ExceptionsMatch
  <1> QED BY <1>1, <1>2, NothingChanged, CodeStep

\* Whoever has a null any_ref has no defineProperty to go on with.
LEMMA CatchSane ==
  ASSUME KInv, IInv', Catch
  PROVE  KRest'
  <1>1. /\ answer = Nil /\ UNCHANGED <<objects, making, stack>>
        /\ exc = TRUE /\ answer' = Undefined /\ exc' = FALSE
    BY Nothing DEF Catch, KInv, ExceptionsMatch, Typing
  <1>2. ~Pending
    BY <1>1 DEF KInv, Undisturbed
  <1>3. Quiet(stack')
    BY <1>1, <1>2, QuietIs DEF KInv, IInv
  <1>4. ExceptionsMatch' /\ answer' # Crashed
    BY <1>1, Nothing DEF ExceptionsMatch
  <1>5. Undisturbed' /\ HalfDefined'
    BY <1>3, QuietAfter DEF IInv
  <1> QED BY <1>1, <1>2, <1>4, <1>5, NothingChanged DEF KRest

LEMMA ReturnSane ==
  ASSUME KInv, IInv', Return
  PROVE  KRest'
  <1>1. ~Pending /\ stack # <<>> /\ stack \in Seq(FrameType)
    BY DEF Return, Pending, KInv, IInv
  <1>2. Popped \in Seq(FrameType) /\ Quiet(Popped)
    BY <1>1, PoppedQuiet DEF KInv
  <1>3. ~(Popped # <<>> /\ Popped[Len(Popped)].kind = "define")
    BY <1>2, Under DEF Quiet
  <1>4. PICK v \in IF answer = Nil THEN {Nil} ELSE Values :
          stack' = Popped /\ answer' = v /\ UNCHANGED <<objects, making, known, exc>>
    BY <1>3 DEF Return
  <1>5. ExceptionsMatch' /\ answer' # Crashed
    BY <1>4, Nothing DEF ExceptionsMatch, KInv, Return
  <1>6. Undisturbed' /\ HalfDefined'
    BY <1>2, <1>4, QuietAfter
  <1> QED BY <1>1, <1>4, <1>5, <1>6, NothingChanged DEF KRest

LEMMA StaysSame ==
  ASSUME KInv, IInv', UNCHANGED <<objects, stack, answer, exc>>, making' \subseteq making
  PROVE  KRest'
  BY DEF KInv, KRest, ExceptionsMatch, Undisturbed, Pending, Top, AllSane, BeingDefined,
         CleanMemory, HalfDefined

-----------------------------------------------------------------------------
(* Every null any_ref has its exception.                                   *)

LEMMA EmptyHas ==
  ASSUME NEW n \in Name
  PROVE  ~Has(EmptyTable, n)
  <1>1. EmptyTable[IndexOf(n)].len = 0
    BY NameIndex DEF EmptyTable
  <1>2. {p \in 1..EmptyTable[IndexOf(n)].len : EmptyTable[IndexOf(n)].memory[p].key = n} = {}
    BY <1>1
  <1> QED BY <1>2 DEF Has, Position

LEMMA KInit == Init => KInv
  <1> SUFFICES ASSUME Init PROVE KInv
    OBVIOUS
  <1>1. IInv /\ Typing
    BY Initially, Nothing DEF Init, Typing
  <1>2. ExceptionsMatch /\ answer # Crashed
    BY Nothing DEF Init, ExceptionsMatch
  <1>3. ~Pending /\ HalfDefined /\ Undisturbed
    BY DEF Init, Pending, Undisturbed, HalfDefined
  <1>4. \A o \in Object : objects[o] = EmptyTable
    BY DEF Init
  <1>5. \A i \in Index : EmptyTable[i] = [memory |-> <<>>, len |-> 0]
    BY DEF EmptyTable
  <1>6. \A n \in Name : ~Has(EmptyTable, n)
    BY EmptyHas
  <1>7. Clean(EmptyTable) /\ Full(EmptyTable)
    <2>1. Len(<<>>) = 0
      OBVIOUS
    <2> QED BY <1>5, <2>1 DEF Clean, Full
  <1>8. AllSane /\ CleanMemory
    BY <1>4, <1>6, <1>7 DEF AllSane, CleanMemory
  <1> QED BY <1>1, <1>2, <1>3, <1>8 DEF KInv

LEMMA KStep ==
  ASSUME Settled, KInv, [Next]_vars
  PROVE  KInv'
  <1>1. IInv' /\ Typing'
    BY Step, TypedStep DEF KInv
  <1> SUFFICES KRest'
    BY <1>1 DEF KInv, KRest
  <1>2. ASSUME NEW o \in Object, NEW n \in Name, Get(o, n) PROVE KRest'
    BY <1>1, <1>2, GetSane
  <1>3. ASSUME NEW o \in Object, NEW n \in Name, NEW v \in Values,
               Put(o, n, v) \/ LiteralProperty(o, n, v)
        PROVE  KRest'
    BY <1>1, <1>3, PutOwnSane, PutNewSane DEF Put, LiteralProperty, Assigns
  <1>4. ASSUME NEW o \in Object, NEW n \in Name, Delete(o, n) PROVE KRest'
    BY <1>1, <1>4, DeleteSane
  <1>5. ASSUME NEW o \in Object, NEW n \in Name, NEW f \in Functions, LiteralAccessor(o, n, f)
        PROVE  KRest'
    BY <1>1, <1>5, LiteralSane
  <1>6. ASSUME NEW o \in Object, NEW n \in Name, NEW v \in Data, BuiltIn(o, n, v) PROVE KRest'
    BY <1>1, <1>6, BuiltInSane
  <1>7. ASSUME NEW o \in Object, NEW n \in Name, DefineProperty(o, n) PROVE KRest'
    BY <1>1, <1>7, DefineSane
  <1>8. CASE \E o \in Object : Made(o)
    BY <1>1, <1>8, StaysSame DEF Made
  <1>9. CASE AttributeGiven
    BY <1>1, <1>9, AttributeGivenSane
  <1>10. ~AttributeCalls
    BY DEF AttributeCalls, Settled
  <1>11. CASE Throw
    BY <1>1, <1>11, ThrowSane
  <1>12. CASE Catch
    BY <1>1, <1>12, CatchSane
  <1>13. CASE Return
    BY <1>1, <1>13, ReturnSane
  <1>14. CASE UNCHANGED vars
    BY <1>1, <1>14, StaysSame DEF vars
  <1> QED
    BY <1>2, <1>3, <1>4, <1>5, <1>6, <1>7, <1>8, <1>9, <1>10, <1>11, <1>12, <1>13, <1>14 DEF Next

\* Programs whose descriptors have no accessors of their own get a null any_ref
\* when an exception is set and at no other time: an entry is given a value, or
\* is an accessor, before code that could read it runs
\* (evalast.cc 1070, context.hh 261-271, builtin.cc 248-270).
THEOREM ExceptionsMatched ==
  ASSUME Settled
  PROVE  Spec => []ExceptionsMatch
  <1>1. Init => KInv
    BY KInit
  <1>2. KInv /\ [Next]_vars => KInv'
    BY KStep
  <1>3. KInv => ExceptionsMatch
    BY DEF KInv
  <1> QED BY <1>1, <1>2, <1>3, PTL DEF Spec

-----------------------------------------------------------------------------
(* The refinement.                                                         *)

\* What a literal or RegExp makes.
WellMade(p) == {"accessor", "writable"} \cap p.flags # {} \/ "configurable" \notin p.flags

\* Nobody has an object that is being made, and what is being redefined is
\* configurable.
Fresh ==
  /\ known \cap making = {}
  /\ \A o \in making, n \in Name : HasOwn(o, n) => WellMade(Own(o, n))
  /\ Pending => Top.object \in known /\ \A p \in Top.before : "configurable" \in p.flags

LEMMA SameValues == Model!Values = Values
  BY DEF Model!Values, Values

\* What a set of at most one entry means.
Meant(e) == IF e = {} THEN [kind |-> "absent"] ELSE Described(CHOOSE p \in e : TRUE)

LEMMA MeantIs ==
  /\ Meant({}) = [kind |-> "absent"]
  /\ \A p : Meant({p}) = Described(p)
  <1>1. ASSUME NEW p PROVE (CHOOSE q \in {p} : TRUE) = p
    OBVIOUS
  <1> QED BY <1>1 DEF Meant

LEMMA DescribedKind ==
  ASSUME NEW p
  PROVE  Described(p).kind \in {"accessor", "data"} /\ Described(p) # [kind |-> "absent"]
  BY DEF Described

LEMMA DescriptorIs ==
  IInv /\ Undisturbed =>
    \A o \in Object, n \in Name :
      Descriptors[o][n] =
        IF BeingDefined(o, n) THEN Meant(Top.before)
        ELSE IF HasOwn(o, n) THEN Described(Own(o, n)) ELSE [kind |-> "absent"]
  <1> SUFFICES ASSUME IInv, Undisturbed, NEW o \in Object, NEW n \in Name
               PROVE  Descriptors[o][n] =
                        IF BeingDefined(o, n) THEN Meant(Top.before)
                        ELSE IF HasOwn(o, n) THEN Described(Own(o, n)) ELSE [kind |-> "absent"]
    OBVIOUS
  <1>1. Descriptors[o][n] = Meant(Entry(o, n))
    BY DEF Descriptors, Meant
  <1>2. stack # <<>> => Len(stack) \in DOMAIN stack /\ DOMAIN stack = 1..Len(stack)
    BY Under DEF IInv
  <1>3. stack # <<>> /\ Defining(o, n) # {} <=> BeingDefined(o, n)
    BY <1>2 DEF Defining, BeingDefined, Pending, Undisturbed, Top
  <1> QED BY <1>1, <1>3, MeantIs DEF Entry

LEMMA DescriptorNext ==
  (IInv /\ Undisturbed =>
    \A o \in Object, n \in Name :
      Descriptors[o][n] =
        IF BeingDefined(o, n) THEN Meant(Top.before)
        ELSE IF HasOwn(o, n) THEN Described(Own(o, n)) ELSE [kind |-> "absent"])'
  BY DescriptorIs, PTL

LEMMA RunningIs ==
  IInv /\ Undisturbed => Running = IF Pending THEN Len(stack) - 1 ELSE Len(stack)
  <1> SUFFICES ASSUME IInv, Undisturbed
               PROVE  Running = IF Pending THEN Len(stack) - 1 ELSE Len(stack)
    OBVIOUS
  <1>1. stack \in Seq(FrameType) /\ DOMAIN stack = 1..Len(stack) /\ Len(stack) \in Nat
    BY DEF IInv
  <1>2. stack # <<>> => Len(stack) \in 1..Len(stack)
    BY Under, <1>1
  <1>3. CASE Pending
    <2>1. /\ Len(stack) - 1 \in Nat /\ stack[Len(stack)].kind # "accessor"
          /\ stack # <<>>
      BY <1>1, <1>2, <1>3 DEF Pending, Top
    <2>2. \A i \in 1..(Len(stack) - 1) : Popped[i].kind = "accessor" /\ Popped[i] = stack[i]
      <3>1. Quiet(Popped) /\ Len(Popped) = Len(stack) - 1
        BY <1>1, <2>1, PoppedQuiet
      <3>2. \A i \in 1..(Len(stack) - 1) : Popped[i] = stack[i]
        BY <1>1, <2>1, Under DEF Popped
      <3> QED BY <3>1, <3>2 DEF Quiet
    <2>3. {i \in DOMAIN stack : stack[i].kind = "accessor"} = 1..(Len(stack) - 1)
      BY <1>1, <2>1, <2>2
    <2>4. Cardinality(1..(Len(stack) - 1)) = Len(stack) - 1
      BY <2>1, FS_Interval
    <2> QED BY <1>3, <2>3, <2>4 DEF Running
  <1>4. CASE ~Pending
    <2>1. \A i \in 1..Len(stack) : stack[i].kind = "accessor"
      BY <1>1, <1>4, QuietIs DEF Quiet
    <2>2. {i \in DOMAIN stack : stack[i].kind = "accessor"} = 1..Len(stack)
      BY <1>1, <2>1
    <2>3. Cardinality(1..Len(stack)) = Len(stack)
      BY <1>1, FS_Interval
    <2> QED BY <1>4, <2>2, <2>3 DEF Running
  <1> QED BY <1>3, <1>4

LEMMA RunningNext ==
  (IInv /\ Undisturbed => Running = IF Pending THEN Len(stack) - 1 ELSE Len(stack))'
  BY RunningIs, PTL

Absent == [kind |-> "absent"]

\* Running code finds the descriptors of the entries.
LEMMA DescriptorOf ==
  ASSUME KInv, ~Pending, NEW o \in Object, NEW n \in Name
  PROVE  Descriptors[o][n] = IF HasOwn(o, n) THEN Described(Own(o, n)) ELSE Absent
  BY DescriptorIs DEF KInv, BeingDefined, Absent

LEMMA DescriptorsType ==
  /\ Descriptors = [o \in Object |-> [n \in Name |-> Descriptors[o][n]]]
  /\ Descriptors' = [o \in Object |-> [n \in Name |-> Descriptors'[o][n]]]
  BY DEF Descriptors

\* The two functions agree that follow the same chain.
IsOwner(f, n) ==
  f = [p \in Object \cup {NoObject} |->
         IF p = NoObject THEN Absent
         ELSE IF Descriptors[p][n] # Absent THEN Descriptors[p][n] ELSE f[Proto[p]]]
Owner(n) == CHOOSE f : IsOwner(f, n)

LEMMA LookupIs ==
  ASSUME NEW o, NEW n
  PROVE  Model!Lookup(o, n) = Owner(n)[o]
  BY DEF Model!Lookup, Owner, IsOwner, Model!Absent, Absent

LEMMA OwnerIs ==
  ASSUME NEW n, NEW f, IsOwner(f, n), NEW g, IsOwner(g, n), NEW o \in Object
  PROVE  f[o] = g[o]
  <1> DEFINE chain == {p \in Object : f[p] # g[p]}
  <1>1. CASE chain = {}
    BY <1>1
  <1>2. CASE chain # {}
    <2>1. PICK p \in chain : Proto[p] \notin chain
      BY <1>2, ChainsEnd
    <2>2. p \in Object /\ p # NoObject /\ Proto[p] \in Object \cup {NoObject}
      BY <2>1, ProtoAssumption
    <2>3. f[NoObject] = Absent /\ g[NoObject] = Absent
      BY DEF IsOwner
    <2>4. f[Proto[p]] = g[Proto[p]]
      BY <2>1, <2>2, <2>3
    <2>5. /\ f[p] = IF Descriptors[p][n] # Absent THEN Descriptors[p][n] ELSE f[Proto[p]]
          /\ g[p] = IF Descriptors[p][n] # Absent THEN Descriptors[p][n] ELSE g[Proto[p]]
      BY <2>2 DEF IsOwner
    <2>6. f[p] = g[p]
      BY <2>4, <2>5
    <2> QED BY <2>1, <2>6
  <1> QED BY <1>1, <1>2

LEMMA LookupHolder ==
  ASSUME KInv, ~Pending, NEW o \in Object, NEW n \in Name
  PROVE  Model!Lookup(o, n) = IF Holder(o, n) = NoObject THEN Absent
                              ELSE Described(Own(Holder(o, n), n))
  <1> DEFINE found(p) == IF Holder(p, n) = NoObject THEN Absent
                         ELSE Described(Own(Holder(p, n), n))
             f == [p \in Object \cup {NoObject} |-> found(p)]
  <1>1. f[NoObject] = Absent
    BY HolderStep
  <1>2. ASSUME NEW p \in Object
        PROVE  f[p] = IF Descriptors[p][n] # Absent THEN Descriptors[p][n] ELSE f[Proto[p]]
    <2>1. p # NoObject /\ Proto[p] \in Object \cup {NoObject}
      BY ProtoAssumption
    <2>2. CASE HasOwn(p, n)
      <3>1. Holder(p, n) = p
        BY <2>2, HolderStep
      <3>2. Descriptors[p][n] = Described(Own(p, n))
        BY <2>2, DescriptorOf
      <3>3. Described(Own(p, n)) # Absent
        BY DescribedKind DEF Absent
      <3> QED BY <2>1, <3>1, <3>2, <3>3
    <2>3. CASE ~HasOwn(p, n)
      <3>1. Holder(p, n) = Holder(Proto[p], n)
        BY <2>3, HolderStep
      <3>2. Descriptors[p][n] = Absent
        BY <2>3, DescriptorOf
      <3> QED BY <2>1, <3>1, <3>2
    <2> QED BY <2>2, <2>3
  <1>3. IsOwner(f, n)
    <2>1. f = [p \in Object \cup {NoObject} |-> f[p]]
      OBVIOUS
    <2>2. NoObject \notin Object
      BY ProtoAssumption
    <2> HIDE DEF f
    <2>3. \A p \in Object \cup {NoObject} :
            f[p] = IF p = NoObject THEN Absent
                   ELSE IF Descriptors[p][n] # Absent THEN Descriptors[p][n] ELSE f[Proto[p]]
      BY <1>1, <1>2, <2>2
    <2> QED BY <2>1, <2>3 DEF IsOwner
  <1>4. f[o] = found(o)
    OBVIOUS
  <1> HIDE DEF f
  <1>5. IsOwner(Owner(n), n)
    BY <1>3 DEF Owner
  <1>6. Owner(n)[o] = f[o]
    BY <1>3, <1>5, OwnerIs
  <1> QED BY <1>4, <1>6, LookupIs

-----------------------------------------------------------------------------
(* What the steps are in the model of the language.                        *)

LEMMA SetsIs ==
  ASSUME NEW o \in Object, NEW n \in Name, NEW d,
         \A r \in Object, l \in Name :
           Descriptors'[r][l] = IF r = o /\ l = n THEN d ELSE Descriptors[r][l]
  PROVE  Model!Sets(o, n, d)
  <1> DEFINE D == Descriptors
             E == Descriptors'
  <1>1. /\ D = [r \in Object |-> [l \in Name |-> D[r][l]]]
        /\ E = [r \in Object |-> [l \in Name |-> E[r][l]]]
    BY DescriptorsType
  <1>2. \A r \in Object, l \in Name : E[r][l] = IF r = o /\ l = n THEN d ELSE D[r][l]
    OBVIOUS
  <1> HIDE DEF D, E
  <1>3. E = [D EXCEPT ![o][n] = d]
    <2>1. [D EXCEPT ![o][n] = d] =
            [r \in Object |-> IF r = o THEN [D[o] EXCEPT ![n] = d] ELSE D[r]]
      BY <1>1
    <2>2. \A r \in Object : D[r] = [l \in Name |-> D[r][l]] /\ E[r] = [l \in Name |-> E[r][l]]
      BY <1>1
    <2>3. [D[o] EXCEPT ![n] = d] = [l \in Name |-> IF l = n THEN d ELSE D[o][l]]
      BY <2>2
    <2>4. \A r \in Object : E[r] = IF r = o THEN [D[o] EXCEPT ![n] = d] ELSE D[r]
      <3>1. ASSUME NEW r \in Object, r # o PROVE E[r] = D[r]
        <4>1. \A l \in Name : E[r][l] = D[r][l]
          BY <1>2, <3>1
        <4> QED BY <2>2, <4>1
      <3>2. E[o] = [l \in Name |-> IF l = n THEN d ELSE D[o][l]]
        <4>1. \A l \in Name : E[o][l] = IF l = n THEN d ELSE D[o][l]
          BY <1>2
        <4> QED BY <2>2, <4>1
      <3> QED BY <2>3, <3>1, <3>2
    <2> QED BY <1>1, <2>1, <2>4
  <1>4. E[o][n] = d
    BY <1>2
  <1> QED BY <1>3, <1>4 DEF Model!Sets, D, E

LEMMA DescriptorsSame ==
  ASSUME \A r \in Object, l \in Name : Descriptors'[r][l] = Descriptors[r][l]
  PROVE  Descriptors' = Descriptors
  <1> DEFINE D == Descriptors
             E == Descriptors'
  <1>1. /\ D = [r \in Object |-> [l \in Name |-> D[r][l]]]
        /\ E = [r \in Object |-> [l \in Name |-> E[r][l]]]
    BY DescriptorsType
  <1>2. \A r \in Object, l \in Name : E[r][l] = D[r][l]
    OBVIOUS
  <1> HIDE DEF D, E
  <1>3. E = D
    BY <1>1, <1>2
  <1> QED BY <1>3 DEF D, E

LEMMA ObjectsSame ==
  ASSUME KInv, KInv', ~Pending, ~Pending', UNCHANGED objects
  PROVE  Descriptors' = Descriptors
  <1>1. \A r \in Object, l \in Name :
          Descriptors'[r][l] = IF HasOwn(r, l) THEN Described(Own(r, l)) ELSE [kind |-> "absent"]
    BY DescriptorNext DEF KInv, BeingDefined, HasOwn, Own
  <1>2. \A r \in Object, l \in Name : Descriptors'[r][l] = Descriptors[r][l]
    BY <1>1, DescriptorOf DEF Absent
  <1> QED BY <1>2, DescriptorsSame

\* The property n of o has changed, no other, and nothing is being defined.
LEMMA TableMapped ==
  ASSUME KInv, KInv', ~Pending', NEW o \in Object, NEW n \in Name, NEW t,
         objects' = [objects EXCEPT ![o] = t],
         \A l \in Name \ {n} : Has(t, l) <=> Has(objects[o], l),
         \A l \in Name \ {n} : Has(t, l) => At(t, l) = At(objects[o], l),
         \A r \in Object, l \in Name : BeingDefined(r, l) => r = o /\ l = n
  PROVE  Model!Sets(o, n, IF Has(t, n) THEN Described(At(t, n)) ELSE Absent)
  <1>1. objects'[o] = t /\ \A r \in Object \ {o} : objects'[r] = objects[r]
    BY DEF KInv, IInv
  <1>2. \A r \in Object, l \in Name :
          Descriptors'[r][l] =
            IF Has(objects'[r], l) THEN Described(At(objects'[r], l)) ELSE Absent
    BY DescriptorNext DEF KInv, BeingDefined, HasOwn, Own, Absent
  <1>3. \A r \in Object, l \in Name :
          ~(r = o /\ l = n) =>
            Descriptors[r][l] =
              IF Has(objects[r], l) THEN Described(At(objects[r], l)) ELSE Absent
    BY DescriptorIs DEF KInv, HasOwn, Own, Absent
  <1>4. ASSUME NEW r \in Object, NEW l \in Name
        PROVE  Descriptors'[r][l] =
                 IF r = o /\ l = n THEN (IF Has(t, n) THEN Described(At(t, n)) ELSE Absent)
                 ELSE Descriptors[r][l]
    <2>1. CASE r = o /\ l = n
      BY <1>1, <1>2, <2>1
    <2>2. CASE r = o /\ l # n
      <3>1. (Has(t, l) <=> Has(objects[r], l)) /\ (Has(t, l) => At(t, l) = At(objects[r], l))
        BY <2>2
      <3> QED BY <1>1, <1>2, <1>3, <2>2, <3>1
    <2>3. CASE r # o
      BY <1>1, <1>2, <1>3, <2>3
    <2> QED BY <2>1, <2>2, <2>3
  <1> QED BY <1>4, SetsIs

LEMMA StoreMapped ==
  ASSUME KInv, KInv', ~Pending', NEW o \in Object, NEW n \in Name, NEW p \in Property,
         objects' = [objects EXCEPT ![o] = Store(@, n, p)],
         \A r \in Object, l \in Name : BeingDefined(r, l) => r = o /\ l = n
  PROVE  Model!Sets(o, n, Described(p))
  <1> DEFINE t == Store(objects[o], n, p)
  <1>1. Sound(objects[o])
    BY DEF KInv, IInv
  <1>2. /\ Has(t, n) /\ At(t, n) = p
        /\ \A l \in Name \ {n} : Has(t, l) <=> Has(objects[o], l)
        /\ \A l \in Name \ {n} : Has(t, l) => At(t, l) = At(objects[o], l)
    BY <1>1, Stored
  <1>3. objects' = [objects EXCEPT ![o] = t]
    OBVIOUS
  <1> HIDE DEF t
  <1>4. Model!Sets(o, n, IF Has(t, n) THEN Described(At(t, n)) ELSE Absent)
    BY <1>2, <1>3, TableMapped
  <1> QED BY <1>2, <1>4

\* Assigning to operator[] of an entry that is there, or has just been made.
LEMMA StoreTwice ==
  ASSUME NEW t, Sound(t), NEW n \in Name, NEW p
  PROVE  Store(Subscript(t, n), n, p) = Store(t, n, p)
  <1>1. Has(Subscript(t, n), n)
    BY Subscripted
  <1>2. Subscript(Subscript(t, n), n) = Subscript(t, n)
    <2> DEFINE s == Subscript(t, n)
    <2>1. Has(s, n)
      BY <1>1
    <2> HIDE DEF s
    <2>2. Subscript(s, n) = s
      BY <2>1 DEF Subscript
    <2> QED BY <2>2 DEF s
  <1> QED BY <1>2 DEF Store

LEMMA EraseMapped ==
  ASSUME KInv, KInv', ~Pending, ~Pending', NEW o \in Object, NEW n \in Name, HasOwn(o, n),
         objects' = [objects EXCEPT ![o] = Erase(@, n)]
  PROVE  Model!Sets(o, n, Absent)
  <1> DEFINE t == Erase(objects[o], n)
  <1>1. Sound(objects[o]) /\ Has(objects[o], n)
    BY DEF KInv, IInv, HasOwn
  <1>2. /\ ~Has(t, n)
        /\ \A l \in Name \ {n} : Has(t, l) <=> Has(objects[o], l)
        /\ \A l \in Name \ {n} : Has(t, l) => At(t, l) = At(objects[o], l)
    BY <1>1, ErasedEntry
  <1>3. objects' = [objects EXCEPT ![o] = t]
    OBVIOUS
  <1> HIDE DEF t
  <1>4. \A r \in Object, l \in Name : ~BeingDefined(r, l)
    BY DEF BeingDefined
  <1>5. Model!Sets(o, n, IF Has(t, n) THEN Described(At(t, n)) ELSE Absent)
    BY <1>2, <1>3, <1>4, TableMapped
  <1> QED BY <1>2, <1>5

\* The answers.
LEMMA RepliesIs ==
  ASSUME KInv, KInv', ~Pending, ~Pending', UNCHANGED stack
  PROVE  /\ answer' # Nil => Model!Replies(answer')
         /\ answer' = Nil => Model!Replies(Thrown)
  <1>1. Running' = Running
    BY RunningIs, RunningNext DEF KInv
  <1> QED BY <1>1 DEF Model!Replies, Given

LEMMA RunsIs ==
  ASSUME KInv, KInv', ~Pending, ~Pending', NEW f \in Functions, Call(f)
  PROVE  Model!Runs(f)
  <1>1. /\ Len(stack') = Len(stack) + 1 /\ answer' = Undefined
    BY DEF Call, KInv, IInv
  <1>2. Running' = Running + 1
    BY <1>1, RunningIs, RunningNext DEF KInv
  <1>3. f # Undefined /\ Given' = Undefined
    BY <1>1, ValuesAssumption, Nothing DEF Given
  <1> QED BY <1>2, <1>3 DEF Model!Runs

LEMMA ReplyMapped ==
  ASSUME KInv, KInv', ~Pending, ~Pending', NEW v \in Values, Reply(v)
  PROVE  Model!Replies(v)
  BY RepliesIs, Nothing DEF Reply

LEMMA RejectMapped ==
  ASSUME KInv, KInv', ~Pending, ~Pending', Reject, UNCHANGED objects
  PROVE  Model!Refuses
  <1>1. UNCHANGED stack /\ answer' \in {Undefined, Nil}
    BY DEF Reject, Reply
  <1>2. Model!Replies(Undefined) \/ Model!Replies(Thrown)
    BY <1>1, RepliesIs
  <1>3. Descriptors' = Descriptors
    BY ObjectsSame
  <1> QED BY <1>2, <1>3 DEF Model!Refuses

\* The code runs before and after it.
LEMMA CodeAfter ==
  ASSUME KInv, KInv', Quiet(stack')
  PROVE  ~Pending'
  BY QuietAfter DEF KInv, IInv

\* The language has not thrown either.
LEMMA CodeGiven ==
  ASSUME KInv, answer \notin {Nil, Crashed}
  PROVE  Given # Thrown /\ Given = answer
  BY ValuesAssumption DEF Given, KInv, Typing, Values

LEMMA DescribedIs ==
  ASSUME NEW p
  PROVE  /\ "accessor" \in p.flags =>
              /\ Described(p).kind = "accessor"
              /\ Described(p).get = Orundef(p.value) /\ Described(p).set = Orundef(p.set)
         /\ "accessor" \notin p.flags =>
              /\ Described(p).kind = "data" /\ Described(p).value = p.value
              /\ Described(p).writable = ("writable" \in p.flags)
         /\ Described(p).configurable = ("configurable" \in p.flags)
  BY DEF Described

LEMMA GetMapped ==
  ASSUME Simple, KInv, KInv', NEW o \in Object, NEW n \in Name, Get(o, n)
  PROVE  Model!Get(o, n) /\ ~Pending'
  <1> DEFINE h == Holder(o, n)
             p == Own(h, n)
  <1>1. CodeRuns /\ ~Pending /\ Quiet(stack) /\ UNCHANGED objects /\ stack \in Seq(FrameType)
    BY CodeQuiet DEF Get, KInv, IInv
  <1>2. h = NoObject \/ (h \in Object /\ HasOwn(h, n))
    BY HolderHas
  <1>3. IF h = NoObject THEN Reply(Undefined) ELSE GetFrom(p)
    BY DEF Get
  <1>4. h # NoObject => Formed(p) /\ p \in Property
    BY <1>1, <1>2, SaneEntry DEF Sane
  <1>5. Model!Lookup(o, n) = IF h = NoObject THEN Absent ELSE Described(p)
    BY <1>1, LookupHolder
  <1> HIDE DEF h, p
  <1>6. \/ h = NoObject /\ Reply(Undefined)
        \/ h # NoObject /\ "accessor" \notin p.flags /\ Reply(p.value) /\ p.value \in Values
        \/ h # NoObject /\ "accessor" \in p.flags /\ p.value = Nil /\ Reply(Undefined)
        \/ h # NoObject /\ "accessor" \in p.flags /\ p.value \in Functions /\ Call(p.value)
    BY <1>3, <1>4 DEF GetFrom, Formed, Property
  <1>7. ~Pending'
    <2>1. CASE UNCHANGED stack
      BY <1>1, <2>1, CodeAfter
    <2>2. CASE \E f \in Functions : Call(f)
      <3>1. stack' = Append(stack, AccessorFrame)
        BY <2>2 DEF Call
      <3> QED BY <1>1, <3>1, QuietPushed, CodeAfter
    <2> QED BY <1>6, <2>1, <2>2 DEF Reply
  <1>8. Descriptors' = Descriptors
    BY <1>1, <1>7, ObjectsSame
  <1> DEFINE d == Model!Lookup(o, n)
  <1>9. \/ d.kind = "absent" /\ Model!Replies(Undefined)
        \/ d.kind = "data" /\ Model!Replies(d.value)
        \/ d.kind = "accessor" /\ Model!Runs(d.get)
        \/ d.kind = "accessor" /\ d.get = Undefined /\ Model!Replies(Undefined)
    <2>1. d = IF h = NoObject THEN Absent ELSE Described(p)
      BY <1>5
    <2> HIDE DEF d
    <2>2. CASE h = NoObject /\ Reply(Undefined)
      <3>1. Model!Replies(Undefined)
        BY <1>1, <1>7, <2>2, ReplyMapped, Nothing
      <3> QED BY <2>1, <2>2, <3>1 DEF Absent
    <2>3. CASE h # NoObject /\ "accessor" \notin p.flags /\ Reply(p.value) /\ p.value \in Values
      <3>1. Model!Replies(p.value)
        BY <1>1, <1>7, <2>3, ReplyMapped
      <3>2. d.kind = "data" /\ d.value = p.value
        BY <2>1, <2>3, DescribedIs
      <3> QED BY <3>1, <3>2
    <2>4. CASE h # NoObject /\ "accessor" \in p.flags /\ p.value = Nil /\ Reply(Undefined)
      <3>1. Model!Replies(Undefined)
        BY <1>1, <1>7, <2>4, ReplyMapped, Nothing
      <3>2. d.kind = "accessor" /\ d.get = Undefined
        BY <2>1, <2>4, DescribedIs DEF Orundef
      <3> QED BY <3>1, <3>2
    <2>5. CASE h # NoObject /\ "accessor" \in p.flags /\ p.value \in Functions /\ Call(p.value)
      <3>1. Model!Runs(p.value)
        BY <1>1, <1>7, <2>5, RunsIs
      <3>2. d.kind = "accessor" /\ d.get = p.value
        BY <2>1, <2>5, DescribedIs, Nothing DEF Orundef
      <3> QED BY <3>1, <3>2
    <2> QED BY <1>6, <2>2, <2>3, <2>4, <2>5
  <1> QED BY <1>7, <1>8, <1>9 DEF Model!Get

LEMMA RefusedMapped ==
  ASSUME Simple, KInv, KInv', CodeRuns, UNCHANGED objects,
         NEW p \in Property, Formed(p), "writable" \notin p.flags, PutRefused(p)
  PROVE  LET d == Described(p)
         IN /\ ~Pending'
            /\ \/ d.kind = "data" /\ ~d.writable /\ Model!Refuses
               \/ d.kind = "accessor" /\ Model!Runs(d.set) /\ UNCHANGED Descriptors
               \/ d.kind = "accessor" /\ d.set = Undefined /\ Model!Refuses
  <1> DEFINE d == Described(p)
  <1>1. ~Pending /\ Quiet(stack) /\ stack \in Seq(FrameType)
    BY CodeQuiet DEF KInv, IInv
  <1>2. /\ "accessor" \in p.flags =>
              d.kind = "accessor" /\ d.set = Orundef(p.set)
        /\ "accessor" \notin p.flags =>
              d.kind = "data" /\ d.writable = ("writable" \in p.flags)
    BY DescribedIs
  <1> HIDE DEF d
  <1>3. CASE "accessor" \in p.flags /\ p.set # Nil /\ Call(p.set)
    <2>1. p.set \in Functions
      BY <1>3 DEF Formed
    <2>2. ~Pending'
      <3>1. stack' = Append(stack, AccessorFrame)
        BY <1>3, <2>1 DEF Call
      <3> QED BY <1>1, <3>1, QuietPushed, CodeAfter
    <2>3. Model!Runs(p.set)
      BY <1>1, <1>3, <2>1, <2>2, RunsIs
    <2>4. d.set = p.set
      BY <1>2, <1>3 DEF Orundef
    <2>5. Descriptors' = Descriptors
      BY <1>1, <2>2, ObjectsSame
    <2> QED BY <1>2, <1>3, <2>2, <2>3, <2>4, <2>5 DEF d
  <1>4. CASE ~("accessor" \in p.flags /\ p.set # Nil) /\ Reject
    <2>1. UNCHANGED stack
      BY <1>4 DEF Reject, Reply
    <2>2. ~Pending'
      BY <1>1, <2>1, CodeAfter
    <2>3. Model!Refuses
      BY <1>1, <1>4, <2>2, RejectMapped
    <2>4. CASE "accessor" \in p.flags
      <3>1. d.set = Undefined
        BY <1>2, <1>4, <2>4 DEF Orundef
      <3> QED BY <1>2, <2>2, <2>3, <2>4, <3>1 DEF d
    <2>5. CASE "accessor" \notin p.flags
      <3>1. d.kind = "data" /\ ~d.writable
        BY <1>2, <2>5
      <3> QED BY <2>2, <2>3, <3>1 DEF d
    <2> QED BY <2>4, <2>5
  <1> QED BY <1>3, <1>4 DEF PutRefused

\* An assignment that makes a data property, or changes the value of one.
LEMMA AssignMapped ==
  ASSUME KInv, KInv', ~Pending, NEW o \in Object, NEW n \in Name,
         NEW v \in Values, NEW q \in Property,
         objects' = [objects EXCEPT ![o] = Store(@, n, q)],
         UNCHANGED stack, answer' = Undefined,
         q.value = v, "writable" \in q.flags, "accessor" \notin q.flags,
         HasOwn(o, n) => /\ "accessor" \notin Own(o, n).flags
                         /\ "configurable" \in q.flags <=> "configurable" \in Own(o, n).flags,
         ~HasOwn(o, n) => "configurable" \in q.flags,
         LET d == Model!Lookup(o, n) IN d.kind = "absent" \/ (d.kind = "data" /\ d.writable)
  PROVE  Model!Put(o, n, v) /\ ~Pending'
  <1>1. ~Pending' /\ \A r \in Object, l \in Name : ~BeingDefined(r, l)
    BY DEF Pending, Top, BeingDefined
  <1>2. Model!Sets(o, n, Described(q))
    BY <1>1, StoreMapped
  <1>3. Model!Replies(Undefined)
    BY <1>1, RepliesIs, Nothing
  <1> DEFINE mine == Descriptors[o][n]
             c == mine.kind = "data" => mine.configurable
  <1>4. Described(q) = Model!Plain(v, TRUE, c)
    <2>1. Described(q) = [kind |-> "data", value |-> v, writable |-> TRUE,
                          configurable |-> "configurable" \in q.flags]
      BY DEF Described
    <2>2. c = ("configurable" \in q.flags)
      <3>1. CASE HasOwn(o, n)
        <4>1. mine = Described(Own(o, n))
          BY <3>1, DescriptorOf
        <4> HIDE DEF mine
        <4>2. mine.kind = "data" /\ mine.configurable = ("configurable" \in Own(o, n).flags)
          BY <3>1, <4>1, DescribedIs
        <4>3. "configurable" \in q.flags <=> "configurable" \in Own(o, n).flags
          BY <3>1
        <4>4. CASE "configurable" \in q.flags
          <5>1. mine.configurable = TRUE
            BY <4>2, <4>3, <4>4
          <5> QED BY <4>4, <5>1
        <4>5. CASE "configurable" \notin q.flags
          <5> DEFINE kept == "configurable" \in Own(o, n).flags
          <5>1. kept = FALSE
            BY <4>3, <4>5
          <5> HIDE DEF kept
          <5>2. mine.configurable = FALSE
            BY <4>2, <5>1 DEF kept
          <5>3. c = FALSE
            BY <4>2, <5>2
          <5> QED BY <4>5, <5>3
        <4> QED BY <4>4, <4>5
      <3>2. CASE ~HasOwn(o, n)
        <4>1. mine = Absent
          BY <3>2, DescriptorOf
        <4>2. mine.kind # "data"
          BY <4>1 DEF Absent
        <4> HIDE DEF mine
        <4> QED BY <3>2, <4>2
      <3> QED BY <3>1, <3>2
    <2> HIDE DEF c
    <2> QED BY <2>1, <2>2 DEF Model!Plain
  <1>5. Model!Sets(o, n, Model!Plain(v, TRUE, mine.kind = "data" => mine.configurable))
    BY <1>2, <1>4
  <1> QED BY <1>1, <1>3, <1>5 DEF Model!Put

LEMMA PutRefusedMapped ==
  ASSUME Simple, KInv, KInv', CodeRuns, UNCHANGED objects, NEW o \in Object, NEW n \in Name,
         NEW v, NEW p \in Property, Formed(p), "writable" \notin p.flags, PutRefused(p),
         Model!Lookup(o, n) = Described(p)
  PROVE  Model!Put(o, n, v) /\ ~Pending'
  <1>1. LET d == Described(p)
        IN /\ ~Pending'
           /\ \/ d.kind = "data" /\ ~d.writable /\ Model!Refuses
              \/ d.kind = "accessor" /\ Model!Runs(d.set) /\ UNCHANGED Descriptors
              \/ d.kind = "accessor" /\ d.set = Undefined /\ Model!Refuses
    BY RefusedMapped
  <1>2. LET d == Model!Lookup(o, n)
        IN /\ ~Pending'
           /\ \/ d.kind = "data" /\ ~d.writable /\ Model!Refuses
              \/ d.kind = "accessor" /\ Model!Runs(d.set) /\ UNCHANGED Descriptors
              \/ d.kind = "accessor" /\ d.set = Undefined /\ Model!Refuses
    BY <1>1
  <1> QED BY <1>2 DEF Model!Put

LEMMA PutMapped ==
  ASSUME Simple, KInv, KInv', NEW o \in Object, NEW n \in Name, NEW v \in Values, Put(o, n, v)
  PROVE  Model!Put(o, n, v) /\ ~Pending'
  <1> DEFINE h == Holder(o, n)
  <1>1. CodeRuns /\ ~Pending /\ Quiet(stack) /\ stack \in Seq(FrameType) /\ Sound(objects[o])
    BY CodeQuiet DEF Put, KInv, IInv
  <1>2. h = NoObject \/ (h \in Object /\ HasOwn(h, n))
    BY HolderHas
  <1>3. Model!Lookup(o, n) = IF h = NoObject THEN Absent ELSE Described(Own(h, n))
    BY <1>1, LookupHolder
  <1>4. h # NoObject => Formed(Own(h, n)) /\ Own(h, n) \in Property
    BY <1>1, <1>2, SaneEntry DEF Sane
  <1>5. HasOwn(o, n) => h = o /\ h # NoObject
    BY HolderStep, ProtoAssumption
  <1>6. IF HasOwn(o, n) THEN PutOwn(o, n, v) ELSE PutNew(o, n, v)
    BY DEF Put, Assigns
  <1> HIDE DEF h
  <1>7. CASE HasOwn(o, n) /\ "writable" \in Own(o, n).flags
    <2> DEFINE p == Own(o, n)
               q == [p EXCEPT !.value = v]
    <2>1. objects' = [objects EXCEPT ![o] = Store(@, n, q)] /\ Reply(Undefined)
      BY <1>6, <1>7 DEF PutOwn
    <2>2. p \in Property /\ Formed(p)
      BY <1>4, <1>5, <1>7
    <2>3. Model!Lookup(o, n) = Described(p)
      BY <1>3, <1>5, <1>7
    <2>4. p = Own(o, n) /\ "writable" \in p.flags
      BY <1>7
    <2> HIDE DEF p
    <2>5. q \in Property /\ q.value = v /\ q.flags = p.flags
      BY <2>2 DEF Property
    <2>6. "accessor" \notin p.flags
      BY <2>2, <2>4 DEF Formed
    <2> HIDE DEF q
    <2>7. LET d == Model!Lookup(o, n) IN d.kind = "absent" \/ (d.kind = "data" /\ d.writable)
      <3>1. Described(p).kind = "data" /\ Described(p).writable = ("writable" \in p.flags)
        BY <2>6, DescribedIs
      <3> QED BY <2>3, <2>4, <3>1
    <2>8. UNCHANGED stack /\ answer' = Undefined
      BY <2>1 DEF Reply
    <2> QED BY <1>1, <1>7, <2>1, <2>4, <2>5, <2>6, <2>7, <2>8, AssignMapped
  <1>8. CASE HasOwn(o, n) /\ "writable" \notin Own(o, n).flags
    <2>1. PutRefused(Own(o, n)) /\ UNCHANGED objects
      BY <1>6, <1>8 DEF PutOwn
    <2>2. Model!Lookup(o, n) = Described(Own(o, n)) /\ Formed(Own(o, n)) /\ Own(o, n) \in Property
      BY <1>3, <1>4, <1>5, <1>8
    <2> QED BY <1>1, <1>8, <2>1, <2>2, PutRefusedMapped
  <1>9. CASE ~HasOwn(o, n) /\ (h = NoObject \/ "writable" \in Own(h, n).flags)
    <2> DEFINE t == Subscript(objects[o], n)
               p == At(t, n)
               q == Created(p, v)
    <2>1. /\ objects' = [objects EXCEPT ![o] = Store(t, n, q)]
          /\ stack' \in Pointers(o, n) /\ answer' = Undefined
      BY <1>6, <1>9 DEF PutNew, h
    <2>2. Store(t, n, q) = Store(objects[o], n, q)
      BY <1>1, StoreTwice
    <2>3. p \in Property
      BY NewEntryType DEF KInv
    <2>4. "accessor" \notin p.flags
      BY <1>1, <1>9, SubscriptClean DEF KInv, CleanMemory, HasOwn
    <2> HIDE DEF p, t
    <2>5. q \in Property /\ q.value = v /\ q.flags = p.flags \cup {"writable", "configurable"}
      BY <2>3 DEF Created, Property, Flags
    <2> HIDE DEF q
    <2>6. objects' = [objects EXCEPT ![o] = Store(@, n, q)]
      BY <2>1, <2>2
    <2>7. UNCHANGED stack
      BY <1>1, <2>1, PointersSame
    <2>8. LET d == Model!Lookup(o, n) IN d.kind = "absent" \/ (d.kind = "data" /\ d.writable)
      <3>1. CASE h = NoObject
        BY <1>3, <3>1 DEF Absent
      <3>2. CASE h # NoObject /\ "writable" \in Own(h, n).flags
        <4>1. "accessor" \notin Own(h, n).flags
          BY <1>4, <3>2 DEF Formed
        <4>2. /\ Described(Own(h, n)).kind = "data"
              /\ Described(Own(h, n)).writable = ("writable" \in Own(h, n).flags)
          BY <4>1, DescribedIs
        <4> QED BY <1>3, <3>2, <4>2
      <3> QED BY <1>9, <3>1, <3>2
    <2>9. "writable" \in q.flags /\ "configurable" \in q.flags /\ "accessor" \notin q.flags
      BY <2>4, <2>5
    <2> QED BY <1>1, <1>9, <2>1, <2>5, <2>6, <2>7, <2>8, <2>9, AssignMapped
  <1>10. CASE ~HasOwn(o, n) /\ ~(h = NoObject \/ "writable" \in Own(h, n).flags)
    <2>1. PutRefused(Own(h, n)) /\ UNCHANGED objects
      BY <1>6, <1>10 DEF PutNew, h
    <2>2. /\ Model!Lookup(o, n) = Described(Own(h, n)) /\ Formed(Own(h, n)) /\ Own(h, n) \in Property
          /\ "writable" \notin Own(h, n).flags
      BY <1>3, <1>4, <1>10
    <2> QED BY <1>1, <2>1, <2>2, PutRefusedMapped
  <1> QED BY <1>7, <1>8, <1>9, <1>10

LEMMA DeleteMapped ==
  ASSUME Simple, KInv, KInv', NEW o \in Object, NEW n \in Name, Delete(o, n)
  PROVE  Model!Delete(o, n) /\ ~Pending'
  <1> DEFINE mine == Descriptors[o][n]
  <1>1. CodeRuns /\ ~Pending /\ Quiet(stack)
    BY CodeQuiet DEF Delete
  <1>2. UNCHANGED stack
    BY DEF Delete, Reply, Reject
  <1>3. ~Pending'
    BY <1>1, <1>2, CodeAfter
  <1>4. mine = IF HasOwn(o, n) THEN Described(Own(o, n)) ELSE Absent
    BY <1>1, DescriptorOf
  <1>6. CASE ~HasOwn(o, n) /\ UNCHANGED objects /\ Reply(Undefined)
    <2>1. mine = Absent
      BY <1>4, <1>6
    <2>2. \A r \in Object, l \in Name :
            Descriptors'[r][l] = IF r = o /\ l = n THEN Absent ELSE Descriptors[r][l]
      BY <1>1, <1>3, <1>6, <2>1, ObjectsSame
    <2>3. Model!Sets(o, n, Absent)
      BY <2>2, SetsIs
    <2>4. Model!Replies(Undefined)
      BY <1>1, <1>3, <1>6, ReplyMapped, Nothing
    <2> QED BY <1>3, <2>1, <2>3, <2>4 DEF Model!Delete, Model!Absent, Absent
  <1>7. CASE HasOwn(o, n) /\ "configurable" \notin Own(o, n).flags /\ UNCHANGED objects /\ Reject
    <2>1. mine # Absent /\ ~mine.configurable
      BY <1>4, <1>7, DescribedIs, DescribedKind DEF Absent
    <2>2. Model!Refuses
      BY <1>1, <1>3, <1>7, RejectMapped
    <2> QED BY <1>3, <2>1, <2>2 DEF Model!Delete, Model!Absent, Absent
  <1>8. CASE /\ HasOwn(o, n) /\ "configurable" \in Own(o, n).flags /\ Reply(Undefined)
             /\ objects' = [objects EXCEPT ![o] = Erase(@, n)]
    <2>1. Model!Sets(o, n, Absent)
      BY <1>1, <1>3, <1>8, EraseMapped
    <2>2. Model!Replies(Undefined)
      BY <1>1, <1>3, <1>8, ReplyMapped, Nothing
    <2>3. mine.configurable = TRUE
      BY <1>4, <1>8, DescribedIs
    <2> QED BY <1>3, <2>1, <2>2, <2>3 DEF Model!Delete, Model!Absent, Absent
  <1> QED BY <1>6, <1>7, <1>8 DEF Delete

LEMMA WritesMapped ==
  ASSUME KInv, KInv', CodeRuns, NEW o \in Object, NEW n \in Name, NEW q \in Property,
         Writes(o, n, q)
  PROVE  Model!Sets(o, n, Described(q)) /\ Model!Replies(Undefined) /\ UNCHANGED making /\ ~Pending'
  <1>1. ~Pending /\ Quiet(stack) /\ stack \in Seq(FrameType)
    BY CodeQuiet DEF KInv, IInv
  <1>2. UNCHANGED stack /\ answer' = Undefined /\ objects' = [objects EXCEPT ![o] = Store(@, n, q)]
    BY <1>1, PointersSame DEF Writes
  <1>3. ~Pending' /\ \A r \in Object, l \in Name : ~BeingDefined(r, l)
    BY <1>1, <1>2, CodeAfter DEF BeingDefined
  <1>4. Model!Sets(o, n, Described(q))
    BY <1>2, <1>3, StoreMapped
  <1> QED BY <1>1, <1>2, <1>3, <1>4, RepliesIs, Nothing DEF Writes

LEMMA AccessorIs ==
  ASSUME NEW q, q.flags = {"accessor", "configurable"}
  PROVE  Described(q) = Model!Accessor(Orundef(q.value), Orundef(q.set), TRUE)
  <1> DEFINE c == "configurable" \in q.flags
  <1>1. Described(q) = [kind |-> "accessor", get |-> Orundef(q.value), set |-> Orundef(q.set),
                        configurable |-> c]
    BY DEF Described
  <1>2. c = TRUE
    OBVIOUS
  <1> HIDE DEF c
  <1> QED BY <1>1, <1>2 DEF Model!Accessor

LEMMA LiteralMapped ==
  ASSUME Simple, KInv, KInv', NEW o \in Object, NEW n \in Name, NEW f \in Functions,
         LiteralAccessor(o, n, f)
  PROVE  Model!LiteralAccessor(o, n, f) /\ o \in making /\ UNCHANGED making
  <1> DEFINE p == At(Subscript(objects[o], n), n)
             q == [p EXCEPT !.flags = {"accessor", "configurable"}]
             d == Descriptors[o][n]
             old == IF d.kind = "accessor" THEN d ELSE Model!Accessor(Undefined, Undefined, TRUE)
             a == [q EXCEPT !.value = f]
             b == [q EXCEPT !.set = f]
  <1>1. CodeRuns /\ ~Pending /\ o \in making
    BY CodeQuiet DEF LiteralAccessor, IsLiteral
  <1>2. /\ p \in Property
        /\ HasOwn(o, n) => p = Own(o, n)
        /\ ~HasOwn(o, n) => p = Zero
    BY <1>1, EntrySane
  <1>3. Writes(o, n, a) \/ Writes(o, n, b)
    BY DEF LiteralAccessor
  <1>4. HasOwn(o, n) => "accessor" \in Own(o, n).flags
    BY DEF LiteralAccessor, Simple
  <1>5. d = IF HasOwn(o, n) THEN Described(Own(o, n)) ELSE Absent
    BY <1>1, DescriptorOf
  <1> HIDE DEF p, d
  <1>6. d.kind # "data" /\ old.get = Orundef(p.value) /\ old.set = Orundef(p.set)
    <2>1. CASE HasOwn(o, n)
      BY <1>2, <1>4, <1>5, <2>1, DescribedIs
    <2>2. CASE ~HasOwn(o, n)
      <3>1. d.kind = "absent"
        BY <1>5, <2>2 DEF Absent
      <3>2. old = Model!Accessor(Undefined, Undefined, TRUE)
        BY <3>1
      <3>3. Orundef(p.value) = Undefined /\ Orundef(p.set) = Undefined
        BY <1>2, <2>2 DEF Zero, Orundef
      <3> HIDE DEF old
      <3> QED BY <3>1, <3>2, <3>3 DEF Model!Accessor
    <2> QED BY <2>1, <2>2
  <1>7. /\ a \in Property /\ a.flags = {"accessor", "configurable"} /\ a.value = f /\ a.set = p.set
        /\ b \in Property /\ b.flags = {"accessor", "configurable"} /\ b.value = p.value /\ b.set = f
    BY <1>2, Nothing DEF Property, Flags
  <1> HIDE DEF q, a, b, old
  <1>8. Orundef(f) = f
    BY Nothing DEF Orundef
  <1>9. /\ Described(a) = Model!Accessor(f, old.set, TRUE)
        /\ Described(b) = Model!Accessor(old.get, f, TRUE)
    BY <1>6, <1>7, <1>8, AccessorIs
  <1>10. /\ \/ Model!Sets(o, n, Model!Accessor(f, old.set, TRUE))
            \/ Model!Sets(o, n, Model!Accessor(old.get, f, TRUE))
         /\ Model!Replies(Undefined) /\ UNCHANGED making
    <2>1. CASE Writes(o, n, a)
      <3>1. Model!Sets(o, n, Described(a)) /\ Model!Replies(Undefined) /\ UNCHANGED making
        BY <1>1, <1>7, <2>1, WritesMapped
      <3> QED BY <1>9, <3>1
    <2>2. CASE Writes(o, n, b)
      <3>1. Model!Sets(o, n, Described(b)) /\ Model!Replies(Undefined) /\ UNCHANGED making
        BY <1>1, <1>7, <2>2, WritesMapped
      <3> QED BY <1>9, <3>1
    <2> QED BY <1>3, <2>1, <2>2
  <1> QED BY <1>1, <1>6, <1>10 DEF Model!LiteralAccessor, old, d

LEMMA PlainIs ==
  ASSUME NEW q, "accessor" \notin q.flags, NEW w \in BOOLEAN, NEW c \in BOOLEAN,
         "writable" \in q.flags <=> w, "configurable" \in q.flags <=> c
  PROVE  Described(q) = Model!Plain(q.value, w, c)
  <1> DEFINE x == "writable" \in q.flags
             y == "configurable" \in q.flags
  <1>1. Described(q) = [kind |-> "data", value |-> q.value, writable |-> x, configurable |-> y]
    BY DEF Described
  <1>2. x = w /\ y = c
    OBVIOUS
  <1> HIDE DEF x, y
  <1> QED BY <1>1, <1>2 DEF Model!Plain

LEMMA BuiltInMapped ==
  ASSUME Simple, KInv, KInv', NEW o \in Object, NEW n \in Name, NEW v \in Data, BuiltIn(o, n, v)
  PROVE  Model!BuiltIn(o, n, v) /\ o \in making /\ UNCHANGED making
  <1> DEFINE p == At(Subscript(objects[o], n), n)
  <1>1. CodeRuns /\ ~Pending /\ o \in making /\ ~HasOwn(o, n)
    BY CodeQuiet DEF BuiltIn, IsBuiltIn
  <1>2. p \in Property
    BY NewEntryType DEF KInv
  <1>3. PICK w \in {{}, {"writable"}} : Writes(o, n, [p EXCEPT !.value = v, !.flags = w])
    BY DEF BuiltIn
  <1> HIDE DEF p
  <1> DEFINE q == [p EXCEPT !.value = v, !.flags = w]
  <1>4. q \in Property /\ q.value = v /\ q.flags = w
    BY <1>2, Nothing DEF Property, Flags
  <1>5. Writes(o, n, q)
    BY <1>3
  <1> HIDE DEF q
  <1>6. Model!Sets(o, n, Described(q)) /\ Model!Replies(Undefined) /\ UNCHANGED making
    BY <1>1, <1>4, <1>5, WritesMapped
  <1>7. \E x \in BOOLEAN : Described(q) = Model!Plain(v, x, FALSE)
    <2>1. CASE w = {}
      <3>1. Described(q) = Model!Plain(v, FALSE, FALSE)
        BY <1>4, <2>1, PlainIs
      <3> QED BY <3>1
    <2>2. CASE w = {"writable"}
      <3>1. Described(q) = Model!Plain(v, TRUE, FALSE)
        <4>1. "accessor" \notin q.flags /\ "configurable" \notin q.flags /\ "writable" \in q.flags
          BY <1>4, <2>2
        <4>2. /\ "writable" \in q.flags <=> TRUE
              /\ "configurable" \in q.flags <=> FALSE
          BY <4>1
        <4>3. Described(q) = Model!Plain(q.value, TRUE, FALSE)
          BY <4>1, <4>2, PlainIs, Zenon
        <4> QED BY <1>4, <4>3
      <3> QED BY <3>1
    <2> QED BY <1>3, <2>1, <2>2
  <1>8. Descriptors[o][n] = Absent
    BY <1>1, DescriptorOf
  <1> QED BY <1>1, <1>6, <1>7, <1>8 DEF Model!BuiltIn, Model!Absent, Absent

\* Without prototypes and accessors to heed, a Put makes the data property.
LEMMA LiteralIs ==
  ASSUME Simple, KInv, Fresh, NEW o \in Object, NEW n \in Name, NEW v \in Values,
         LiteralProperty(o, n, v)
  PROVE  /\ \E q \in Property :
              /\ objects' = [objects EXCEPT ![o] = Store(@, n, q)]
              /\ q.value = v /\ "accessor" \notin q.flags
              /\ "writable" \in q.flags /\ "configurable" \in q.flags
         /\ CodeRuns /\ o \in making /\ UNCHANGED <<making, known, stack>> /\ answer' = Undefined
         /\ HasOwn(o, n) => "accessor" \notin Own(o, n).flags /\ "configurable" \in Own(o, n).flags
  <1> DEFINE h == Holder(o, n)
  <1>1. /\ CodeRuns /\ o \in making /\ UNCHANGED making /\ known' = Exposed(o)
        /\ HasOwn(o, n) => "accessor" \notin Own(o, n).flags /\ "configurable" \in Own(o, n).flags
        /\ IF HasOwn(o, n) THEN PutOwn(o, n, v) ELSE PutNew(o, n, v)
        /\ h \notin {o, NoObject} => "writable" \in Own(h, n).flags
    BY DEF LiteralProperty, IsLiteral, Assigns, Simple
  <1>2. ~Pending /\ Quiet(stack) /\ stack \in Seq(FrameType) /\ Sound(objects[o])
    BY <1>1, CodeQuiet DEF KInv, IInv
  <1>3. h = NoObject \/ (h \in Object /\ HasOwn(h, n))
    BY HolderHas
  <1> HIDE DEF h
  <1>4. UNCHANGED stack => UNCHANGED known
    BY <1>1 DEF Exposed
  <1>5. CASE HasOwn(o, n)
    <2> DEFINE p == Own(o, n)
               q == [p EXCEPT !.value = v]
    <2>1. p \in Property /\ "writable" \in p.flags
      BY <1>1, <1>2, <1>5, SaneEntry DEF Fresh, WellMade
    <2>2. objects' = [objects EXCEPT ![o] = Store(@, n, q)] /\ Reply(Undefined)
      BY <1>1, <1>5, <2>1 DEF PutOwn
    <2>3. "accessor" \notin p.flags /\ "configurable" \in p.flags
      BY <1>1, <1>5
    <2> HIDE DEF p
    <2>4. q \in Property /\ q.value = v /\ q.flags = p.flags
      BY <2>1 DEF Property
    <2> HIDE DEF q
    <2> QED BY <1>1, <1>4, <2>1, <2>2, <2>3, <2>4 DEF Reply
  <1>6. CASE ~HasOwn(o, n)
    <2> DEFINE t == Subscript(objects[o], n)
               p == At(t, n)
               q == Created(p, v)
    <2>1. h = NoObject \/ "writable" \in Own(h, n).flags
      BY <1>1, <1>3, <1>6
    <2>2. /\ objects' = [objects EXCEPT ![o] = Store(t, n, q)]
          /\ stack' \in Pointers(o, n) /\ answer' = Undefined
      BY <1>1, <1>6, <2>1 DEF PutNew, h
    <2>3. Store(t, n, q) = Store(objects[o], n, q)
      BY <1>2, StoreTwice
    <2>4. p \in Property
      BY NewEntryType DEF KInv
    <2>5. "accessor" \notin p.flags
      BY <1>2, <1>6, SubscriptClean DEF KInv, CleanMemory, HasOwn
    <2> HIDE DEF p, t
    <2>6. q \in Property /\ q.value = v /\ q.flags = p.flags \cup {"writable", "configurable"}
      BY <2>4 DEF Created, Property, Flags
    <2> HIDE DEF q
    <2>7. UNCHANGED stack
      BY <1>2, <2>2, PointersSame
    <2> QED BY <1>1, <1>4, <1>6, <2>2, <2>3, <2>5, <2>6, <2>7
  <1> QED BY <1>5, <1>6

LEMMA LiteralDataMapped ==
  ASSUME Simple, KInv, KInv', Fresh, NEW o \in Object, NEW n \in Name, NEW v \in Values,
         LiteralProperty(o, n, v)
  PROVE  Model!LiteralData(o, n, v) /\ o \in making /\ UNCHANGED making
  <1> DEFINE mine == Descriptors[o][n]
             d == Model!Plain(v, TRUE, TRUE)
  <1>1. /\ CodeRuns /\ o \in making /\ UNCHANGED <<making, stack>> /\ answer' = Undefined
        /\ HasOwn(o, n) => "accessor" \notin Own(o, n).flags /\ "configurable" \in Own(o, n).flags
    BY LiteralIs
  <1>2. PICK q \in Property :
          /\ objects' = [objects EXCEPT ![o] = Store(@, n, q)]
          /\ q.value = v /\ "accessor" \notin q.flags
          /\ "writable" \in q.flags /\ "configurable" \in q.flags
    BY LiteralIs
  <1>3. ~Pending /\ Quiet(stack)
    BY <1>1, CodeQuiet
  <1>4. ~Pending' /\ \A r \in Object, l \in Name : ~BeingDefined(r, l)
    BY <1>1, <1>3, CodeAfter DEF BeingDefined
  <1>5. Model!Sets(o, n, Described(q))
    BY <1>2, <1>4, StoreMapped
  <1>6. Described(q) = d
    <2>1. /\ "writable" \in q.flags <=> TRUE
          /\ "configurable" \in q.flags <=> TRUE
      BY <1>2
    <2>2. Described(q) = Model!Plain(q.value, TRUE, TRUE)
      BY <1>2, <2>1, PlainIs, Zenon
    <2> QED BY <1>2, <2>2
  <1>7. Model!Replies(Undefined)
    BY <1>1, <1>3, <1>4, RepliesIs, Nothing
  <1>8. mine.kind # "accessor" /\ Model!MayBecome(mine, d)
    <2>1. CASE HasOwn(o, n)
      <3>1. mine = Described(Own(o, n))
        BY <1>3, <2>1, DescriptorOf
      <3>2. mine.kind = "data" /\ mine.configurable = TRUE
        BY <1>1, <2>1, <3>1, DescribedIs
      <3> HIDE DEF mine, d
      <3> QED BY <3>2 DEF Model!MayBecome
    <2>2. CASE ~HasOwn(o, n)
      <3>1. mine = Model!Absent
        BY <1>3, <2>2, DescriptorOf DEF Absent, Model!Absent
      <3>2. Model!Absent.kind # "accessor"
        BY DEF Model!Absent
      <3> HIDE DEF mine, d
      <3> QED BY <3>1, <3>2 DEF Model!MayBecome
    <2> QED BY <2>1, <2>2
  <1>9. Model!Sets(o, n, d)
    BY <1>5, <1>6
  <1> HIDE DEF d
  <1> QED BY <1>1, <1>7, <1>8, <1>9 DEF Model!LiteralData, d

\* Until it has what it needs a defineProperty changes nothing.
LEMMA DefineMapped ==
  ASSUME Simple, KInv, KInv', NEW o \in Object, NEW n \in Name, DefineProperty(o, n)
  PROVE  UNCHANGED Model!vars
  <1> DEFINE t == Subscript(objects[o], n)
             before == IF HasOwn(o, n) /\ "descriptorGetter" \notin Uses
                       THEN {Own(o, n)} ELSE {}
             f == DefineFrame(o, n, Position(t, n), before)
  <1>1. /\ ~Pending /\ Quiet(stack) /\ stack \in Seq(FrameType) /\ Sound(objects[o])
    BY CodeQuiet DEF DefineProperty, KInv, IInv
  <1>2. /\ Sound(t) /\ Has(t, n)
        /\ \A l \in Name \ {n} : Has(t, l) <=> Has(objects[o], l)
        /\ \A l \in Name : Has(objects[o], l) => At(t, l) = At(objects[o], l)
    BY <1>1, Subscripted
  <1>3. objects' = [objects EXCEPT ![o] = t] /\ UNCHANGED <<making, answer>>
    BY DEF DefineProperty
  <1>4. PICK s \in Pointers(o, n) : stack' = Append(s, f)
    BY DEF DefineProperty
  <1>5. s = stack
    BY <1>1, PointersSame
  <1>6. before \in SUBSET Property
    BY <1>1, SaneEntry
  <1>7. Meant(before) = Descriptors[o][n]
    BY <1>1, DescriptorOf, MeantIs DEF Simple, Absent
  <1> HIDE DEF before
  <1>8. Position(t, n) \in Nat \ {0}
    BY <1>2, EntryType
  <1>9. /\ f \in FrameType /\ f.kind = "define" /\ f.object = o /\ f.name = n /\ f.before = before
    BY <1>6, <1>8, NewFrameType DEF DefineFrame
  <1> HIDE DEF f, t
  <1>10. Pending' /\ Top' = f /\ Len(stack') = Len(stack) + 1 /\ Len(stack) \in Nat
    BY <1>1, <1>4, <1>5, <1>9, PendingAfter
  <1>11. \A r \in Object, l \in Name : BeingDefined(r, l)' <=> r = o /\ l = n
    BY <1>9, <1>10 DEF BeingDefined
  <1>12. objects'[o] = t /\ \A r \in Object \ {o} : objects'[r] = objects[r]
    BY <1>3 DEF KInv, IInv
  <1>13. ASSUME NEW r \in Object, NEW l \in Name PROVE Descriptors'[r][l] = Descriptors[r][l]
    <2>1. CASE r = o /\ l = n
      <3>1. Descriptors'[r][l] = Meant(Top.before)'
        BY <1>11, <2>1, DescriptorNext DEF KInv
      <3>2. Meant(Top.before)' = Meant(f.before)
        BY <1>10 DEF Meant
      <3> QED BY <1>7, <1>9, <2>1, <3>1, <3>2
    <2>2. CASE ~(r = o /\ l = n)
      <3>1. Descriptors'[r][l] =
              IF HasOwn(r, l)' THEN Described(Own(r, l)') ELSE [kind |-> "absent"]
        BY <1>11, <2>2, DescriptorNext DEF KInv
      <3>2. (HasOwn(r, l)' <=> HasOwn(r, l)) /\ (HasOwn(r, l) => Own(r, l)' = Own(r, l))
        BY <1>2, <1>12, <2>2 DEF HasOwn, Own
      <3> QED BY <1>1, <3>1, <3>2, DescriptorOf DEF Absent
    <2> QED BY <2>1, <2>2
  <1>14. Descriptors' = Descriptors
    BY <1>13, DescriptorsSame
  <1>15. Running' = Running
    BY <1>1, <1>10, RunningIs, RunningNext DEF KInv
  <1> QED BY <1>3, <1>14, <1>15 DEF Model!vars, Given

LEMMA AsksMapped ==
  ASSUME Simple, KInv, KInv', Pending, UNCHANGED making,
         NEW o \in Object, NEW n \in Name, o = Top.object, n = Top.name,
         NEW phase \in {"get", "set"}, Asks(Popped, Top, phase),
         \A r \in Object, l \in Name :
           ~(r = o /\ l = n) => /\ HasOwn(r, l)' <=> HasOwn(r, l)
                                /\ HasOwn(r, l) => Own(r, l)' = Own(r, l)
  PROVE  UNCHANGED Model!vars
  <1> DEFINE f == [Top EXCEPT !.phase = phase]
  <1>1. stack \in Seq(FrameType) /\ stack # <<>> /\ Undisturbed /\ answer \notin {Nil, Crashed}
    BY DEF KInv, IInv, Pending, Undisturbed
  <1>2. /\ Popped \in Seq(FrameType) /\ Quiet(Popped) /\ Top \in FrameType /\ Top.kind = "define"
        /\ Len(Popped) = Len(stack) - 1 /\ Len(stack) \in Nat \ {0}
    BY <1>1, PoppedQuiet DEF Pending
  <1>3. f \in FrameType /\ f.kind = "define" /\ f.object = o /\ f.name = n /\ f.before = Top.before
    <2>1. Top \in [kind : {"define"}, object : Object, name : Name, node : Nat \ {0},
                   moved : BOOLEAN, phase : {"value", "get", "set"}, before : SUBSET Property]
      BY <1>2 DEF FrameType, AccessorFrame
    <2>2. f \in FrameType
      BY <1>2, DefineFrameType
    <2> QED BY <2>1, <2>2
  <1>4. stack' = Append(Popped, f) /\ answer' = answer
    BY <1>1 DEF Asks
  <1> HIDE DEF f
  <1>5. Pending' /\ Top' = f
    BY <1>2, <1>3, <1>4, PendingAfter
  <1>6. Len(stack') = Len(stack)
    BY <1>2, <1>3, <1>4, Pushed
  <1>7. \A r \in Object, l \in Name :
          (BeingDefined(r, l)' <=> r = o /\ l = n) /\ (BeingDefined(r, l) <=> r = o /\ l = n)
    BY <1>3, <1>5 DEF BeingDefined
  <1>8. ASSUME NEW r \in Object, NEW l \in Name PROVE Descriptors'[r][l] = Descriptors[r][l]
    <2>1. CASE r = o /\ l = n
      <3>1. Descriptors'[r][l] = Meant(Top.before)' /\ Descriptors[r][l] = Meant(Top.before)
        BY <1>7, <2>1, DescriptorNext, DescriptorIs DEF KInv
      <3>2. Meant(Top.before)' = Meant(f.before)
        BY <1>5 DEF Meant
      <3> QED BY <1>3, <3>1, <3>2
    <2>2. CASE ~(r = o /\ l = n)
      <3>1. Descriptors'[r][l] =
              IF HasOwn(r, l)' THEN Described(Own(r, l)') ELSE [kind |-> "absent"]
        BY <1>7, <2>2, DescriptorNext DEF KInv
      <3>2. Descriptors[r][l] =
              IF HasOwn(r, l) THEN Described(Own(r, l)) ELSE [kind |-> "absent"]
        BY <1>7, <2>2, DescriptorIs DEF KInv
      <3>3. (HasOwn(r, l)' <=> HasOwn(r, l)) /\ (HasOwn(r, l) => Own(r, l)' = Own(r, l))
        BY <2>2
      <3> QED BY <3>1, <3>2, <3>3
    <2> QED BY <2>1, <2>2
  <1>9. Descriptors' = Descriptors
    BY <1>8, DescriptorsSame
  <1>10. Running' = Running
    BY <1>2, <1>5, <1>6, RunningIs, RunningNext DEF KInv
  <1> QED BY <1>4, <1>9, <1>10 DEF Model!vars, Given

\* What the code defines is what a program gets that asks for read-only and
\* configurable.
LEMMA AskedFor ==
  ASSUME NEW c, NEW d,
         \/ \E v \in Values : d = Model!Plain(v, FALSE, TRUE)
         \/ \E g, f \in Functions : d = Model!Accessor(g, f, TRUE)
  PROVE  /\ d \in Model!Descriptor
         /\ Model!Asked([writable |-> {FALSE}, configurable |-> {TRUE}], c, d)
  <1>1. ASSUME NEW v \in Values, d = Model!Plain(v, FALSE, TRUE)
        PROVE  /\ d \in Model!Descriptor
               /\ Model!Asked([writable |-> {FALSE}, configurable |-> {TRUE}], c, d)
    BY <1>1, SameValues DEF Model!Plain, Model!Descriptor, Model!Asked
  <1>2. ASSUME NEW g \in Functions, NEW f \in Functions, d = Model!Accessor(g, f, TRUE)
        PROVE  /\ d \in Model!Descriptor
               /\ Model!Asked([writable |-> {FALSE}, configurable |-> {TRUE}], c, d)
    BY <1>2 DEF Model!Accessor, Model!Descriptor, Model!Asked
  <1> QED BY <1>1, <1>2

\* The last attribute makes the property.
LEMMA DefinedMapped ==
  ASSUME Simple, KInv, KInv', Pending, NEW o \in Object, NEW n \in Name,
         o = Top.object, n = Top.name,
         NEW q \in Property, ThroughPointer(Top, q), DefineEnds(Popped), Fresh,
         \/ \E v \in Values : Described(q) = Model!Plain(v, FALSE, TRUE)
         \/ \E g, f \in Functions : Described(q) = Model!Accessor(g, f, TRUE)
  PROVE  Model!DefineProperty(o, n) /\ Given # Thrown
  <1>1. stack \in Seq(FrameType) /\ stack # <<>> /\ Undisturbed /\ answer \notin {Nil, Crashed}
    BY DEF KInv, IInv, Pending, Undisturbed
  <1>2. /\ Popped \in Seq(FrameType) /\ Quiet(Popped)
        /\ Len(Popped) = Len(stack) - 1 /\ Len(stack) \in Nat \ {0}
    BY <1>1, PoppedQuiet
  <1>3. stack' = Popped /\ answer' = Undefined
    BY DEF DefineEnds
  <1>4. ~Pending'
    BY <1>2, <1>3, CodeAfter
  <1>5. Running' = Running
    BY <1>2, <1>3, <1>4, RunningIs, RunningNext DEF KInv
  <1>6. Given' = Undefined
    BY <1>3, Nothing DEF Given
  <1>7. Model!Sets(o, n, Described(q))
    <2>1. objects' = [objects EXCEPT ![o] = Store(@, n, q)]
      BY ThroughIs
    <2>2. \A r \in Object, l \in Name : BeingDefined(r, l) => r = o /\ l = n
      BY DEF BeingDefined
    <2> QED BY <1>4, <2>1, <2>2, StoreMapped
  <1>8. Model!MayBecome(Descriptors[o][n], Described(q))
    <2>1. Descriptors[o][n] = Meant(Top.before)
      BY DescriptorIs DEF KInv, BeingDefined
    <2>2. CASE Top.before = {}
      BY <2>1, <2>2, MeantIs DEF Model!MayBecome, Model!Absent
    <2>3. ASSUME NEW p \in Property, Top.before = {p}
          PROVE  Model!MayBecome(Descriptors[o][n], Described(q))
      <3>1. Descriptors[o][n] = Described(p) /\ "configurable" \in p.flags
        BY <2>1, <2>3, MeantIs DEF Fresh
      <3>2. Descriptors[o][n].configurable = TRUE
        BY <3>1, DescribedIs
      <3> QED BY <3>2 DEF Model!MayBecome
    <2> QED BY <2>2, <2>3 DEF KInv, HalfDefined
  <1>9. Given # Thrown
    BY <1>1, CodeGiven
  <1>10. Model!Replies(Undefined)
    BY <1>5, <1>6 DEF Model!Replies
  <1> DEFINE c == Descriptors[o][n]
             d == Described(q)
  <1> HIDE DEF c, d
  <1>11. /\ d \in Model!Descriptor
         /\ Model!Asked([writable |-> {FALSE}, configurable |-> {TRUE}], c, d)
    BY AskedFor DEF d
  <1> QED BY <1>7, <1>8, <1>9, <1>10, <1>11 DEF Model!DefineProperty, c, d

LEMMA AttributeMapped ==
  ASSUME Simple, KInv, KInv', Fresh, AttributeGiven
  PROVE  \/ UNCHANGED Model!vars
         \/ /\ Top.object \in Object /\ Top.name \in Name
            /\ Model!DefineProperty(Top.object, Top.name)
            /\ UNCHANGED making /\ Given # Thrown
  <1> DEFINE p == Pointed(Top)
  <1>1. Pending
    BY DEF AttributeGiven, DefineRuns, Pending
  <1>2. PICK v \in Values :
          /\ Attribute(Popped, Top, v)
          /\ Top.phase # "value" => v \in Functions
    BY Nothing DEF AttributeGiven, Simple
  <1>3. PICK o \in Object, n \in Name : o = Top.object /\ n = Top.name
    BY <1>1, ThroughIs
  <1>4. /\ Sound(objects[o]) /\ Has(objects[o], n) /\ p = At(objects[o], n) /\ p \in Property
    BY <1>1, <1>3, ThroughIs
  <1>5. UNCHANGED <<making, known, exc>>
    BY <1>2 DEF Attribute
  <1>6. Top.phase = "set" => p.value \in Functions
    BY <1>1, <1>3, <1>4 DEF HalfDefined, KInv
  <1> HIDE DEF p
  <1>7. ASSUME Asks(Popped, Top, "get"), UNCHANGED objects PROVE UNCHANGED Model!vars
    <2>1. \A r \in Object, l \in Name : /\ HasOwn(r, l)' <=> HasOwn(r, l)
                                        /\ HasOwn(r, l) => Own(r, l)' = Own(r, l)
      BY <1>7 DEF HasOwn, Own
    <2> QED BY <1>1, <1>3, <1>5, <1>7, <2>1, AsksMapped
  <1>8. ASSUME ThroughPointer(Top, [p EXCEPT !.value = v]), Asks(Popped, Top, "set")
        PROVE  UNCHANGED Model!vars
    <2> DEFINE q == [p EXCEPT !.value = v]
    <2>1. q \in Property
      BY <1>4 DEF Property
    <2>2. ThroughPointer(Top, q)
      BY <1>8
    <2> HIDE DEF q
    <2> DEFINE t == Store(objects[o], n, q)
    <2>3. objects' = [objects EXCEPT ![o] = t]
      BY <1>1, <1>3, <2>2, ThroughIs
    <2>4. /\ \A l \in Name \ {n} : Has(t, l) <=> Has(objects[o], l)
          /\ \A l \in Name \ {n} : Has(objects[o], l) => At(t, l) = At(objects[o], l)
      BY <1>4, <2>1, Stored
    <2> HIDE DEF t
    <2>5. objects'[o] = t /\ \A r \in Object \ {o} : objects'[r] = objects[r]
      BY <2>3 DEF KInv, IInv
    <2>6. \A r \in Object, l \in Name :
            ~(r = o /\ l = n) => /\ HasOwn(r, l)' <=> HasOwn(r, l)
                                 /\ HasOwn(r, l) => Own(r, l)' = Own(r, l)
      BY <2>4, <2>5 DEF HasOwn, Own
    <2> QED BY <1>1, <1>3, <1>5, <1>8, <2>6, AsksMapped
  <1>9. ASSUME ThroughPointer(Top, [p EXCEPT !.value = v, !.flags = {"configurable"}]),
               DefineEnds(Popped)
        PROVE  Model!DefineProperty(o, n) /\ Given # Thrown
    <2> DEFINE q == [p EXCEPT !.value = v, !.flags = {"configurable"}]
    <2>1. q \in Property /\ q.value = v /\ q.flags = {"configurable"}
      BY <1>4 DEF Property, Flags
    <2>2. ThroughPointer(Top, q)
      BY <1>9
    <2> HIDE DEF q
    <2>3. Described(q) = Model!Plain(v, FALSE, TRUE)
      <3>1. "accessor" \notin q.flags /\ "configurable" \in q.flags /\ "writable" \notin q.flags
        BY <2>1
      <3>2. /\ "writable" \in q.flags <=> FALSE
            /\ "configurable" \in q.flags <=> TRUE
        BY <3>1
      <3>3. Described(q) = Model!Plain(q.value, FALSE, TRUE)
        BY <3>1, <3>2, PlainIs, Zenon
      <3> QED BY <2>1, <3>3
    <2> QED BY <1>1, <1>3, <1>9, <2>1, <2>2, <2>3, DefinedMapped
  <1>10. ASSUME Top.phase = "set",
                ThroughPointer(Top, [p EXCEPT !.set = v, !.flags = {"accessor", "configurable"}]),
                DefineEnds(Popped)
         PROVE  Model!DefineProperty(o, n) /\ Given # Thrown
    <2> DEFINE q == [p EXCEPT !.set = v, !.flags = {"accessor", "configurable"}]
    <2>1. /\ q \in Property /\ q.set = v /\ q.flags = {"accessor", "configurable"}
          /\ q.value = p.value
      BY <1>4 DEF Property, Flags
    <2>2. ThroughPointer(Top, q)
      BY <1>10
    <2>3. p.value \in Functions /\ v \in Functions
      BY <1>2, <1>6, <1>10
    <2> HIDE DEF q
    <2>4. Described(q) = Model!Accessor(p.value, v, TRUE)
      BY <2>1, <2>3, AccessorIs, Nothing DEF Orundef
    <2> QED BY <1>1, <1>3, <1>10, <2>1, <2>2, <2>3, <2>4, DefinedMapped
  <1>11. UNCHANGED Model!vars \/ (Model!DefineProperty(o, n) /\ Given # Thrown)
    BY <1>2, <1>7, <1>8, <1>9, <1>10, Nothing DEF Attribute, p
  <1> QED BY <1>3, <1>5, <1>11

LEMMA ThrowMapped ==
  ASSUME KInv, KInv', Throw
  PROVE  Model!Throw /\ UNCHANGED making /\ Given # Thrown
  <1>1. CodeRuns /\ ~Pending /\ Quiet(stack) /\ UNCHANGED <<objects, making, stack>> /\ answer' = Nil
    BY CodeQuiet DEF Throw
  <1>2. ~Pending'
    BY <1>1, CodeAfter
  <1>3. Descriptors' = Descriptors /\ Model!Replies(Thrown)
    BY <1>1, <1>2, ObjectsSame, RepliesIs
  <1> QED BY <1>1, <1>3, CodeGiven DEF Model!Throw, Model!Replies, CodeRuns

LEMMA CatchMapped ==
  ASSUME KInv, KInv', Catch
  PROVE  Model!Catch /\ UNCHANGED making
  <1>1. answer = Nil /\ answer' = Undefined /\ UNCHANGED <<objects, making, stack>>
    BY Nothing DEF Catch, KInv, ExceptionsMatch, Typing
  <1>2. ~Pending /\ Quiet(stack)
    BY <1>1, QuietIs DEF KInv, IInv, Undisturbed
  <1>3. ~Pending'
    BY <1>1, <1>2, CodeAfter
  <1>4. Descriptors' = Descriptors /\ Model!Replies(Undefined)
    BY <1>1, <1>2, <1>3, ObjectsSame, RepliesIs, Nothing
  <1> QED BY <1>1, <1>4 DEF Model!Catch, Model!Replies, Given

LEMMA ReturnMapped ==
  ASSUME Simple, KInv, KInv', Return
  PROVE  Model!Return /\ UNCHANGED making /\ ~Pending'
  <1>1. ~Pending /\ stack # <<>> /\ stack \in Seq(FrameType) /\ Undisturbed /\ answer # Crashed
    BY DEF Return, Pending, KInv, IInv
  <1>2. /\ Popped \in Seq(FrameType) /\ Quiet(Popped)
        /\ Len(Popped) = Len(stack) - 1 /\ Len(stack) \in Nat \ {0}
    BY <1>1, PoppedQuiet
  <1>3. ~(Popped # <<>> /\ Popped[Len(Popped)].kind = "define")
    BY <1>2, Under DEF Quiet
  <1>4. PICK v \in IF answer = Nil THEN {Nil} ELSE Values :
          stack' = Popped /\ answer' = v /\ UNCHANGED <<objects, making, known, exc>>
    BY <1>3 DEF Return
  <1>5. ~Pending'
    BY <1>2, <1>4, CodeAfter
  <1>6. Descriptors' = Descriptors
    BY <1>1, <1>4, <1>5, ObjectsSame
  <1>7. Running > 0 /\ Running' = Running - 1
    BY <1>1, <1>2, <1>4, <1>5, RunningIs, RunningNext DEF KInv
  <1>8. Given' \in IF Given = Thrown THEN {Thrown} ELSE Model!Values
    <2>1. CASE answer = Nil
      BY <1>4, <2>1 DEF Given
    <2>2. CASE answer # Nil
      <3>1. Given # Thrown
        BY <1>1, <2>2, CodeGiven
      <3>2. Given' \in Values
        BY <1>4, <2>2, Nothing DEF Given
      <3> QED BY <3>1, <3>2, SameValues
    <2> QED BY <2>1, <2>2
  <1> QED BY <1>4, <1>5, <1>6, <1>7, <1>8 DEF Model!Return

LEMMA MadeMapped ==
  ASSUME KInv, KInv', NEW o \in Object, Made(o)
  PROVE  o \in making /\ Model!Made(o)
  <1>1. CodeRuns /\ ~Pending /\ Quiet(stack) /\ UNCHANGED <<objects, stack, answer>>
        /\ o \in making /\ making' = making \ {o}
    BY CodeQuiet DEF Made
  <1>2. ~Pending'
    BY <1>1, CodeAfter
  <1>3. Descriptors' = Descriptors
    BY <1>1, <1>2, ObjectsSame
  <1>4. Running' = Running
    BY <1>1, <1>2, RunningIs, RunningNext DEF KInv
  <1> QED BY <1>1, <1>3, <1>4 DEF Model!Made, Given

LEMMA StutterMapped ==
  ASSUME UNCHANGED vars
  PROVE  UNCHANGED Model!vars
  BY DEF vars, Model!vars, Descriptors, Entry, Defining, HasOwn, Own, Top, Running, Given

LEMMA MappedInit == Init => Model!Init
  <1> SUFFICES ASSUME Init PROVE Model!Init
    OBVIOUS
  <1>1. KInv /\ ~Pending
    BY KInit DEF Init, Pending
  <1>2. \A o \in Object : objects[o] = EmptyTable
    BY DEF Init
  <1>3. ASSUME NEW o \in Object, NEW n \in Name PROVE Descriptors[o][n] = Absent
    <2>1. ~HasOwn(o, n)
      BY <1>2, EmptyHas DEF HasOwn
    <2> QED BY <1>1, <2>1, DescriptorOf
  <1>4. Descriptors = [o \in Object |-> [n \in Name |-> Absent]]
    <2> DEFINE D == Descriptors
    <2>1. D = [o \in Object |-> [n \in Name |-> D[o][n]]]
      BY DescriptorsType
    <2>2. \A o \in Object, n \in Name : D[o][n] = Absent
      BY <1>3
    <2> HIDE DEF D
    <2>3. D = [o \in Object |-> [n \in Name |-> Absent]]
      BY <2>1, <2>2
    <2> QED BY <2>3 DEF D
  <1>5. Running = 0
    <2>1. Len(stack) = 0
      BY DEF Init
    <2> QED BY <1>1, <2>1, RunningIs DEF KInv
  <1>6. Given = Undefined /\ making \in SUBSET Object
    BY Nothing DEF Init, Given
  <1> QED BY <1>4, <1>5, <1>6 DEF Model!Init, Model!Absent, Absent

-----------------------------------------------------------------------------
(* The objects that are being made.                                        *)

LEMMA FreshInit ==
  ASSUME Init
  PROVE  Fresh
  <1>1. \A o \in making, n \in Name : ~HasOwn(o, n)
    BY EmptyHas DEF Init, HasOwn
  <1> QED BY <1>1 DEF Init, Fresh, Pending

\* Steps that leave these objects alone.
LEMMA FreshKept ==
  ASSUME Fresh, making' \subseteq making, known' \cap making' = {},
         \A o \in making' : objects'[o] = objects[o],
         Pending' => Top.object' \in known' /\ \A p \in Top.before' : "configurable" \in p.flags
  PROVE  Fresh'
  <1>1. \A o \in making', n \in Name : HasOwn(o, n)' => WellMade(Own(o, n)')
    BY DEF Fresh, HasOwn, Own
  <1> QED BY <1>1 DEF Fresh

\* Steps that write an entry of one of them.
LEMMA FreshWritten ==
  ASSUME KInv, Fresh, NEW o \in making, NEW n \in Name, NEW q \in Property, WellMade(q),
         objects' = [objects EXCEPT ![o] = Store(@, n, q)],
         UNCHANGED <<making, known>>, ~Pending'
  PROVE  Fresh'
  <1> DEFINE t == Store(objects[o], n, q)
  <1>1. o \in Object /\ Sound(objects[o])
    BY DEF KInv, IInv, Typing
  <1>2. /\ At(t, n) = q
        /\ \A l \in Name \ {n} : Has(t, l) => Has(objects[o], l) /\ At(t, l) = At(objects[o], l)
    BY <1>1, Stored
  <1>3. objects' = [objects EXCEPT ![o] = t]
    OBVIOUS
  <1> HIDE DEF t
  <1>4. objects'[o] = t /\ \A r \in Object \ {o} : objects'[r] = objects[r]
    BY <1>1, <1>3 DEF KInv, IInv
  <1>5. ASSUME NEW r \in making, NEW l \in Name, Has(objects'[r], l)
        PROVE  WellMade(At(objects'[r], l))
    <2>1. CASE r = o /\ l = n
      BY <1>2, <1>4, <2>1
    <2>2. CASE r = o /\ l # n
      BY <1>2, <1>4, <1>5, <2>2 DEF Fresh, HasOwn, Own
    <2>3. CASE r # o
      BY <1>4, <1>5, <2>3 DEF Fresh, HasOwn, Own, KInv, Typing
    <2> QED BY <2>1, <2>2, <2>3
  <1> QED BY <1>5 DEF Fresh, HasOwn, Own

LEMMA FreshDefining ==
  ASSUME Simple, KInv, Fresh, NEW o \in Object, NEW n \in Name, DefineProperty(o, n)
  PROVE  Fresh'
  <1> DEFINE t == Subscript(objects[o], n)
             before == IF HasOwn(o, n) /\ "descriptorGetter" \notin Uses
                       THEN {Own(o, n)} ELSE {}
             f == DefineFrame(o, n, Position(t, n), before)
  <1>1. /\ Quiet(stack) /\ stack \in Seq(FrameType) /\ Sound(objects[o]) /\ ~Pending
        /\ o \in known /\ UNCHANGED <<making, known>>
    BY CodeQuiet DEF DefineProperty, KInv, IInv
  <1>2. Sound(t) /\ Has(t, n)
    BY <1>1, Subscripted
  <1>3. \A r \in Object \ {o} : objects'[r] = objects[r]
    BY DEF DefineProperty, KInv, IInv
  <1>4. PICK s \in Pointers(o, n) : stack' = Append(s, f)
    BY DEF DefineProperty
  <1>5. s = stack
    BY <1>1, PointersSame
  <1>6. before \in SUBSET Property /\ \A p \in before : "configurable" \in p.flags
    BY <1>1, SaneEntry DEF DefineProperty, Simple
  <1> HIDE DEF before
  <1>7. Position(t, n) \in Nat \ {0}
    BY <1>2, EntryType
  <1>8. f \in FrameType /\ f.kind = "define" /\ f.object = o /\ f.before = before
    BY <1>6, <1>7, NewFrameType DEF DefineFrame
  <1> HIDE DEF f, t
  <1>9. Top' = f
    BY <1>1, <1>4, <1>5, <1>8, PendingAfter
  <1>10. \A r \in making : r \in Object /\ r # o
    BY <1>1 DEF Fresh, KInv, Typing
  <1> QED BY <1>1, <1>3, <1>6, <1>8, <1>9, <1>10, FreshKept DEF Fresh

LEMMA FreshAttribute ==
  ASSUME Simple, KInv, KInv', Fresh, AttributeGiven
  PROVE  Fresh'
  <1>1. Pending /\ stack \in Seq(FrameType) /\ stack # <<>> /\ Undisturbed /\ answer \notin {Nil, Crashed}
    BY DEF AttributeGiven, DefineRuns, Pending, KInv, IInv, Undisturbed
  <1>2. /\ Popped \in Seq(FrameType) /\ Quiet(Popped) /\ Top \in FrameType /\ Top.kind = "define"
    BY <1>1, PoppedQuiet DEF Pending
  <1>3. PICK v \in Values : Attribute(Popped, Top, v)
    BY Nothing DEF AttributeGiven, Simple
  <1>4. UNCHANGED <<making, known>> /\ v # Nil
    BY <1>3, Nothing DEF Attribute
  <1>5. \A r \in making : r \in Object /\ r # Top.object
    BY <1>1 DEF Fresh, KInv, Typing
  <1>6. \A r \in making : objects'[r] = objects[r]
    <2>1. ASSUME NEW p, ThroughPointer(Top, p) PROVE \A r \in making : objects'[r] = objects[r]
      <3>1. objects' = [objects EXCEPT ![Top.object] = Store(@, Top.name, p)]
        BY <1>1, <2>1, ThroughIs
      <3> QED BY <1>5, <3>1 DEF KInv, IInv
    <2> QED BY <1>3, <1>4, <2>1 DEF Attribute
  <1>7. ASSUME NEW phase \in {"value", "get", "set"}, Asks(Popped, Top, phase)
        PROVE  Top.object' = Top.object /\ Top.before' = Top.before
    <2> DEFINE f == [Top EXCEPT !.phase = phase]
    <2>1. Top \in [kind : {"define"}, object : Object, name : Name, node : Nat \ {0},
                   moved : BOOLEAN, phase : {"value", "get", "set"}, before : SUBSET Property]
      BY <1>2 DEF FrameType, AccessorFrame
    <2>2. f \in FrameType /\ f.kind = "define" /\ f.object = Top.object /\ f.before = Top.before
      BY <1>2, <2>1, DefineFrameType
    <2>3. stack' = Append(Popped, f)
      BY <1>7 DEF Asks
    <2> HIDE DEF f
    <2>4. Top' = f
      BY <1>2, <2>2, <2>3, PendingAfter
    <2> QED BY <2>2, <2>4
  <1>8. ASSUME DefineEnds(Popped) PROVE ~Pending'
    BY <1>2, <1>8, CodeAfter DEF DefineEnds
  <1>9. \/ Top.object' = Top.object /\ Top.before' = Top.before
        \/ ~Pending'
    BY <1>3, <1>4, <1>7, <1>8 DEF Attribute
  <1> QED BY <1>1, <1>4, <1>6, <1>9, FreshKept DEF Fresh

LEMMA FreshStep ==
  ASSUME Simple, KInv, KInv', Fresh, [Next]_vars
  PROVE  Fresh'
  <1>1. ASSUME UNCHANGED <<objects, making, known>>, ~Pending' PROVE Fresh'
    BY <1>1, FreshKept DEF Fresh
  <1>2. ASSUME NEW o \in Object, NEW n \in Name, Get(o, n) PROVE Fresh'
    BY <1>1, <1>2, GetMapped DEF Get
  <1>3. ASSUME NEW o \in known, ~Pending', UNCHANGED <<making, known>>,
               \A r \in Object \ {o} : objects'[r] = objects[r]
        PROVE  Fresh'
    <2>1. \A r \in making : r \in Object \ {o}
      BY <1>3 DEF Fresh, KInv, Typing
    <2> QED BY <1>3, <2>1, FreshKept DEF Fresh
  <1>4. ASSUME NEW o \in Object, NEW n \in Name, NEW v \in Values, Put(o, n, v) PROVE Fresh'
    <2>1. o \in known /\ UNCHANGED <<making, known>> /\ ~Pending'
      BY <1>4, PutMapped DEF Put, Assigns, Exposed
    <2>2. \A r \in Object \ {o} : objects'[r] = objects[r]
      BY <1>4 DEF Put, Assigns, PutOwn, PutNew, KInv, IInv
    <2> QED BY <1>3, <2>1, <2>2
  <1>5. ASSUME NEW o \in Object, NEW n \in Name, NEW v \in Values, LiteralProperty(o, n, v)
        PROVE  Fresh'
    <2>1. CodeRuns /\ o \in making /\ UNCHANGED <<making, known, stack>>
      BY <1>5, LiteralIs
    <2>2. PICK q \in Property :
            objects' = [objects EXCEPT ![o] = Store(@, n, q)] /\ "writable" \in q.flags
      BY <1>5, LiteralIs
    <2>3. ~Pending'
      BY <2>1, CodeQuiet, CodeAfter
    <2> QED BY <2>1, <2>2, <2>3, FreshWritten DEF WellMade
  <1>6. ASSUME NEW o \in Object, NEW n \in Name, NEW q \in Property, CodeRuns, o \in making,
               Writes(o, n, q), WellMade(q)
        PROVE  Fresh'
    <2>1. ~Pending'
      BY <1>6, WritesMapped
    <2>2. objects' = [objects EXCEPT ![o] = Store(@, n, q)] /\ UNCHANGED <<making, known>>
      BY <1>6 DEF Writes
    <2> QED BY <1>6, <2>1, <2>2, FreshWritten
  <1>7. ASSUME NEW o \in Object, NEW n \in Name, NEW f \in Functions, LiteralAccessor(o, n, f)
        PROVE  Fresh'
    <2> DEFINE p == At(Subscript(objects[o], n), n)
               q == [p EXCEPT !.flags = {"accessor", "configurable"}]
               a == [q EXCEPT !.value = f]
               b == [q EXCEPT !.set = f]
    <2>1. CodeRuns /\ o \in making /\ (Writes(o, n, a) \/ Writes(o, n, b))
      BY <1>7 DEF LiteralAccessor, IsLiteral
    <2>2. p \in Property
      BY NewEntryType DEF KInv
    <2> HIDE DEF p
    <2>3. /\ a \in Property /\ a.flags = {"accessor", "configurable"}
          /\ b \in Property /\ b.flags = {"accessor", "configurable"}
      BY <2>2, Nothing DEF Property, Flags
    <2> HIDE DEF a, b
    <2>4. WellMade(a) /\ WellMade(b)
      BY <2>3 DEF WellMade
    <2> QED BY <1>6, <2>1, <2>3, <2>4
  <1>8. ASSUME NEW o \in Object, NEW n \in Name, NEW v \in Data, BuiltIn(o, n, v) PROVE Fresh'
    <2> DEFINE p == At(Subscript(objects[o], n), n)
    <2>1. CodeRuns /\ o \in making
      BY <1>8 DEF BuiltIn, IsBuiltIn
    <2>2. PICK w \in {{}, {"writable"}} : Writes(o, n, [p EXCEPT !.value = v, !.flags = w])
      BY <1>8 DEF BuiltIn
    <2>3. p \in Property
      BY NewEntryType DEF KInv
    <2> HIDE DEF p
    <2> DEFINE q == [p EXCEPT !.value = v, !.flags = w]
    <2>4. q \in Property /\ q.flags = w /\ Writes(o, n, q)
      BY <2>2, <2>3, Nothing DEF Property, Flags
    <2> HIDE DEF q
    <2>5. WellMade(q)
      BY <2>4 DEF WellMade
    <2> QED BY <1>6, <2>1, <2>4, <2>5
  <1>9. ASSUME NEW o \in Object, NEW n \in Name, Delete(o, n) PROVE Fresh'
    <2>1. o \in known /\ UNCHANGED <<making, known>> /\ ~Pending'
      BY <1>9, DeleteMapped DEF Delete
    <2>2. \A r \in Object \ {o} : objects'[r] = objects[r]
      BY <1>9 DEF Delete, KInv, IInv
    <2> QED BY <1>3, <2>1, <2>2
  <1>10. ASSUME NEW o \in Object, Made(o) PROVE Fresh'
    <2>1. /\ UNCHANGED objects /\ making' = making \ {o} /\ known' = known \cup {o}
          /\ CodeRuns /\ UNCHANGED stack
      BY <1>10 DEF Made
    <2>2. ~Pending'
      BY <2>1, CodeQuiet, CodeAfter
    <2> QED BY <2>1, <2>2, FreshKept DEF Fresh
  <1>11. CASE Throw
    <2>1. CodeRuns /\ UNCHANGED stack
      BY <1>11 DEF Throw
    <2>2. ~Pending'
      BY <2>1, CodeQuiet, CodeAfter
    <2> QED BY <1>1, <1>11, <2>2 DEF Throw
  <1>12. CASE Catch \/ UNCHANGED vars
    <2>1. UNCHANGED <<objects, making, known, stack>>
      BY <1>12 DEF Catch, vars
    <2>2. Pending' = Pending /\ Top' = Top
      BY <2>1 DEF Pending, Top
    <2> QED BY <2>1, <2>2, FreshKept DEF Fresh
  <1>13. CASE Return
    <2>1. UNCHANGED <<objects, making, known>> /\ ~Pending'
      <3>1. ~Pending' /\ UNCHANGED making
        BY <1>13, ReturnMapped
      <3>2. stack \in Seq(FrameType) /\ stack # <<>> /\ Undisturbed
        BY <1>13 DEF Return, KInv, IInv
      <3>3. ~(Popped # <<>> /\ Popped[Len(Popped)].kind = "define")
        BY <3>2, PoppedQuiet, Under DEF Quiet
      <3> QED BY <1>13, <3>1, <3>3 DEF Return
    <2> QED BY <1>1, <2>1
  <1>14. ~AttributeCalls
    BY DEF AttributeCalls, Simple
  <1> QED
    BY <1>2, <1>4, <1>5, <1>7, <1>8, <1>9, <1>10, <1>11, <1>12, <1>13, <1>14,
       FreshDefining, FreshAttribute DEF Next

\* Every step is one of the model, or leaves its variables alone.
LEMMA MappedStep ==
  ASSUME Simple, KInv, KInv', Fresh, [Next]_vars
  PROVE  [Model!Next]_Model!vars
  <1>1. ASSUME NEW o \in Object, NEW n \in Name, UNCHANGED making, Given # Thrown,
               IF o \in making THEN Model!Making(o, n) ELSE Model!Operation(o, n)
        PROVE  Model!Next
    BY <1>1 DEF Model!Next
  <1>2. ASSUME NEW o \in Object, NEW n \in Name, CodeRuns, UNCHANGED making,
               \/ /\ o \in known
                  /\ \/ Model!Get(o, n)
                     \/ \E v \in Values : Model!Put(o, n, v)
                     \/ Model!Delete(o, n)
               \/ /\ o \in making
                  /\ \/ \E v \in Values : Model!LiteralData(o, n, v) \/ Model!BuiltIn(o, n, v)
                     \/ \E f \in Functions : Model!LiteralAccessor(o, n, f)
        PROVE  Model!Next
    <2>1. Given # Thrown
      BY <1>2, CodeGiven DEF CodeRuns
    <2>2. IF o \in making THEN Model!Making(o, n) ELSE Model!Operation(o, n)
      BY <1>2, SameValues DEF Fresh, Model!Making, Model!Operation
    <2> QED BY <1>1, <1>2, <2>1, <2>2
  <1>3. ASSUME NEW o \in Object, NEW n \in Name, Get(o, n) PROVE Model!Next
    BY <1>2, <1>3, GetMapped DEF Get
  <1>4. ASSUME NEW o \in Object, NEW n \in Name, NEW v \in Values,
               Put(o, n, v) \/ LiteralProperty(o, n, v)
        PROVE  Model!Next
    <2>1. CASE Put(o, n, v)
      BY <1>2, <2>1, PutMapped DEF Put, Assigns
    <2>2. CASE LiteralProperty(o, n, v)
      BY <1>2, <2>2, LiteralDataMapped DEF LiteralProperty
    <2> QED BY <1>4, <2>1, <2>2
  <1>5. ASSUME NEW o \in Object, NEW n \in Name, Delete(o, n) PROVE Model!Next
    BY <1>2, <1>5, DeleteMapped DEF Delete
  <1>6. ASSUME NEW o \in Object, NEW n \in Name, NEW f \in Functions, LiteralAccessor(o, n, f)
        PROVE  Model!Next
    BY <1>2, <1>6, LiteralMapped DEF LiteralAccessor
  <1>7. ASSUME NEW o \in Object, NEW n \in Name, NEW v \in Data, BuiltIn(o, n, v)
        PROVE  Model!Next
    BY <1>2, <1>7, BuiltInMapped, Nothing DEF BuiltIn
  <1>8. ASSUME NEW o \in Object, NEW n \in Name, DefineProperty(o, n) PROVE UNCHANGED Model!vars
    BY <1>8, DefineMapped
  <1>9. ASSUME NEW o \in Object, Made(o) PROVE Model!Next
    BY <1>9, MadeMapped DEF Model!Next
  <1>10. ASSUME AttributeGiven PROVE [Model!Next]_Model!vars
    <2>1. CASE UNCHANGED Model!vars
      BY <2>1
    <2>2. CASE /\ Top.object \in Object /\ Top.name \in Name
               /\ Model!DefineProperty(Top.object, Top.name)
               /\ UNCHANGED making /\ Given # Thrown
      <3>1. Model!Operation(Top.object, Top.name)
        BY <2>2 DEF Model!Operation
      <3>2. Top.object \notin making
        BY <1>10 DEF AttributeGiven, DefineRuns, Pending, Fresh
      <3> QED BY <1>1, <2>2, <3>1, <3>2
    <2> QED BY <1>10, <2>1, <2>2, AttributeMapped
  <1>11. ~AttributeCalls
    BY DEF AttributeCalls, Simple
  <1>12. ASSUME Throw PROVE Model!Next
    BY <1>12, ThrowMapped DEF Model!Next
  <1>13. ASSUME Catch PROVE Model!Next
    BY <1>13, CatchMapped DEF Model!Next
  <1>14. ASSUME Return PROVE Model!Next
    BY <1>14, ReturnMapped DEF Model!Next
  <1>15. CASE UNCHANGED vars
    BY <1>15, StutterMapped
  <1>16. CASE Next
    BY <1>3, <1>4, <1>5, <1>6, <1>7, <1>8, <1>9, <1>10, <1>11, <1>12, <1>13, <1>14, <1>16 DEF Next
  <1> QED BY <1>15, <1>16

\* Programs that do none of these uses, and ask defineProperty for what is read-only
\* and configurable, find the properties of the language, whatever the objects,
\* their prototypes, the names that share a bucket and the accessors that run in
\* the middle of an operation: every step does to the descriptors what
\* PropertyModel says, and runs the accessor it says (context.cc 66-229,
\* context.hh 261-316, evalast.cc 443-479, builtin.cc 243-268).
THEOREM PropertiesRefined ==
  ASSUME Simple
  PROVE  Spec => ImplementsPropertyModel
  <1>1. Settled
    BY DEF Simple, Settled
  <1>2. Init => KInv /\ Fresh /\ Model!Init
    BY KInit, FreshInit, MappedInit
  <1>3. KInv /\ [Next]_vars => KInv'
    BY <1>1, KStep
  <1>4. KInv /\ KInv' /\ Fresh /\ [Next]_vars => Fresh'
    BY FreshStep
  <1>5. KInv /\ KInv' /\ Fresh /\ [Next]_vars => [Model!Next]_Model!vars
    BY MappedStep
  <1> QED BY <1>2, <1>3, <1>4, <1>5, PTL DEF Spec, ImplementsPropertyModel, Model!Spec
=============================================================================
