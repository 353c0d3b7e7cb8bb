---------------------------- MODULE HashMapProofs ----------------------------
(***************************************************************************)
(* Proofs about HashMapStore, for any keys, values, hash codes and number  *)
(* of buckets, and any padding of gc_realloc.                              *)
(*                                                                         *)
(* IInv is inductive.  WalkComplete speaks of the end of a walk only, so   *)
(* it is strengthened to WalkInv, which says of a walk on its way what it  *)
(* has collected of the places passed.  That a place passed again gives no *)
(* name twice needs one more fact: the node left at the start of an        *)
(* emptied bucket has a key of that bucket (MemoryPlaced), so that it is   *)
(* no entry of another.                                                    *)
(***************************************************************************)
EXTENDS HashMapStore, HashMapFacts, WellFoundedInduction

\* A set of numbers that is not empty has a least element.
LEMMA Minimum ==
  ASSUME NEW S \in SUBSET Nat, S # {}
  PROVE  \E x \in S : \A y \in S : x <= y
<1> DEFINE Below == {pair \in Nat \X Nat : pair[1] < pair[2]}
<1>1. IsWellFoundedOn(Below, Nat)
  BY NatLessThanWellFounded, Zenon DEF OpToRel
<1>2. \E x \in S : \A y \in S : ~ (<<y, x>> \in Below)
  <2> HIDE DEF Below
  <2>. QED BY <1>1, WFMin
<1>3. PICK x \in S : \A y \in S : ~ (<<y, x>> \in Below)
  BY <1>2
<1>4. ASSUME NEW y \in S PROVE x <= y
  <2>1. <<y, x>> \notin Below /\ x \in Nat /\ y \in Nat
    BY <1>3
  <2>2. ~ (y < x)
    BY <2>1
  <2>. QED BY <2>1, <2>2
<1>. QED BY <1>4

-----------------------------------------------------------------------------

IInv == TypeOK /\ KeysPlaced

LEMMA InvGood ==
  ASSUME IInv
  PROVE  Good(table)
BY DEF IInv, TypeOK, KeysPlaced, Good

LEMMA FirstFromFacts ==
  ASSUME Good(table), NEW i \in 0 .. HASH_SIZE
  PROVE  LET f == FirstFrom(table, i)
         IN /\ f \in Iterator
            /\ f # End => /\ f.index \in Index
                          /\ f.node \in 1 .. Len(table[f.index].memory)
<1> DEFINE allocated == {j \in i .. HASH_SIZE - 1 : table[j].memory # <<>>}
           f == FirstFrom(table, i)
<1>1. HASH_SIZE \in Nat
  BY SizeAssumption
<1>2. CASE allocated = {}
  BY <1>1, <1>2 DEF FirstFrom, End, Iterator
<1>3. CASE allocated # {}
  <2>1. allocated \in SUBSET Nat
    BY <1>1
  <2>2. \E j \in allocated : \A l \in allocated : j <= l
    BY <1>3, <2>1, Minimum
  <2> DEFINE least == CHOOSE j \in allocated : \A l \in allocated : j <= l
  <2>3. least \in allocated
    BY <2>2
  <2>4. f = [index |-> least, node |-> 1]
    BY <1>3 DEF FirstFrom
  <2> HIDE DEF least, f
  <2>5. least \in Index /\ table[least].memory # <<>>
    BY <1>1, <2>3 DEF Index
  <2>6. table[least].memory \in Seq(Node)
    BY <2>5 DEF Good, Table, Bucket
  <2>7. Len(table[least].memory) \in Nat \ {0}
    BY <2>5, <2>6, EmptySeq, LenProperties
  <2>8. f \in Iterator
    BY <1>1, <2>4, <2>5 DEF Iterator, Index
  <2>. QED BY <2>4, <2>5, <2>7, <2>8 DEF f
<1>. QED BY <1>2, <1>3

LEMMA Initially ==
  Init => IInv
<1> SUFFICES ASSUME Init PROVE IInv
  OBVIOUS
<1>1. \A i \in Index : table[i] = [memory |-> <<>>, len |-> 0]
  BY DEF Init, EmptyTable
<1>2. <<>> \in Seq(Node) /\ Len(<<>>) = 0
  BY EmptySeq
<1>3. table \in Table
  BY <1>2 DEF Init, EmptyTable, Table, Bucket
<1>4. InMemory(table) /\ Placed(table)
  BY <1>1, <1>2 DEF InMemory, Placed
<1>5. End \in Iterator
  BY SizeAssumption DEF End, Iterator
<1>6. names \in Seq(Key)
  BY DEF Init
<1>. QED BY <1>3, <1>4, <1>5, <1>6 DEF Init, IInv, TypeOK, KeysPlaced

\* A step that changes the table leaves a good one.
LEMMA Changed ==
  ASSUME IInv, ~walking, Good(table'), UNCHANGED <<walking, it, names>>
  PROVE  IInv'
BY DEF IInv, TypeOK, KeysPlaced, Good

LEMMA Consecution ==
  IInv /\ [Next]_vars => IInv'
<1> SUFFICES ASSUME IInv, [Next]_vars PROVE IInv'
  OBVIOUS
<1>1. Good(table)
  BY InvGood
<1>2. ASSUME NEW k \in Key, Add(k) PROVE IInv'
  <2>1. Good(table')
    BY <1>1, <1>2, SubscriptMap DEF Add
  <2>. QED BY <1>2, <2>1, Changed DEF Add
<1>3. ASSUME NEW k \in Key, NEW v \in Value, Assign(k, v) PROVE IInv'
  <2>1. Good(table')
    BY <1>1, <1>3, StoreMap DEF Assign
  <2>. QED BY <1>3, <2>1, Changed DEF Assign
<1>4. ASSUME NEW k \in Key, Remove(k) PROVE IInv'
  <2>1. Good(table')
    BY <1>1, <1>4, EraseMap DEF Remove
  <2>. QED BY <1>4, <2>1, Changed DEF Remove
<1>5. CASE StartWalk
  <2>1. /\ it' \in Iterator
        /\ it' # End => /\ it'.index \in Index
                        /\ it'.node \in 1 .. Len(table[it'.index].memory)
    BY <1>1, <1>5, FirstFromFacts, SizeAssumption DEF StartWalk, Begin
  <2>2. names' \in Seq(Key)
    BY <1>5 DEF StartWalk
  <2>. QED BY <1>5, <2>1, <2>2 DEF StartWalk, IInv, TypeOK, KeysPlaced, InMemory, Placed
<1>6. CASE Visit
  <2> DEFINE b == table[it.index]
  <2>1. /\ it.index \in Index /\ it.node \in 1 .. Len(b.memory)
        /\ it \in [index : 0 .. HASH_SIZE, node : Nat]
    BY <1>6 DEF Visit, IInv, TypeOK, Iterator
  <2>2. b.memory \in Seq(Node) /\ b.len \in Nat /\ b.len <= Len(b.memory)
    BY <2>1, <1>1 DEF Good, Table, Bucket, InMemory
  <2>3. b.memory[it.node].key \in Key
    <3>1. b.memory[it.node] \in Node
      <4> HIDE DEF b
      <4>. QED BY <2>1, <2>2, ElementOfSeq
    <3>. QED BY <3>1 DEF Node
  <2>4. names' \in Seq(Key)
    BY <1>6, <2>3, AppendProperties DEF Visit, Visited, IInv, TypeOK
  <2>5. /\ it' \in Iterator
        /\ it' # End => /\ it'.index \in Index
                        /\ it'.node \in 1 .. Len(table[it'.index].memory)
    <3>1. CASE it.node < b.len
      <4>1. it' = [it EXCEPT !.node = it.node + 1]
        BY <1>6, <3>1 DEF Visit, Advance
      <4>2. /\ it' \in [index : 0 .. HASH_SIZE, node : Nat]
            /\ it'.index = it.index /\ it'.node = it.node + 1
        BY <2>1, <4>1
      <4>. QED BY <2>1, <2>2, <3>1, <4>2 DEF Iterator
    <3>2. CASE ~ (it.node < b.len)
      <4>1. it.index + 1 \in 0 .. HASH_SIZE
        BY <2>1, SizeAssumption DEF Index
      <4>2. it' = FirstFrom(table, it.index + 1)
        BY <1>6, <3>2 DEF Visit, Advance
      <4>. QED BY <1>1, <4>1, <4>2, FirstFromFacts
    <3>. QED BY <3>1, <3>2
  <2>. QED BY <1>6, <2>4, <2>5 DEF Visit, IInv, TypeOK, KeysPlaced, InMemory, Placed
<1>7. CASE EndWalk
  <2>1. names' \in Seq(Key)
    BY <1>7 DEF EndWalk
  <2>. QED BY <1>7, <2>1 DEF EndWalk, IInv, TypeOK, KeysPlaced, InMemory, Placed
<1>8. CASE UNCHANGED vars
  BY <1>8 DEF vars, IInv, TypeOK, KeysPlaced, InMemory, Placed
<1>. QED BY <1>2, <1>3, <1>4, <1>5, <1>6, <1>7, <1>8 DEF Next

THEOREM Invariance == Spec => []IInv
BY Initially, Consecution, PTL DEF Spec

\* The arrays, the lengths and the iterator have their types, and no iterator
\* leaves the memory of its bucket (coll.hh 245-300).
THEOREM TypeCorrect == Spec => []TypeOK
<1>1. IInv => TypeOK
  BY DEF IInv
<1>. QED BY <1>1, Invariance, PTL

\* No sequence of insertions and erasures stores a key twice or in a bucket
\* that is not its own (coll.hh 302-355).
THEOREM NoDuplicates == Spec => []KeysPlaced
<1>1. IInv => KeysPlaced
  BY DEF IInv
<1>. QED BY <1>1, Invariance, PTL

-----------------------------------------------------------------------------
(* A walk.                                                                 *)

\* The iterator has been at position p of bucket i, or would have been.
Passed(at, i, p) == i < at.index \/ (i = at.index /\ p < at.node)

\* Where an iterator stops in bucket b: at its entries, or at the start of an
\* emptied one.
Stops(b, p) == p <= b.len \/ (b.len = 0 /\ p = 1)

\* The entries passed have given their keys, once each, and no other key was
\* collected but at a place passed.
WalkInv ==
  walking =>
    /\ it # End => Stops(table[it.index], it.node)
    /\ \A i \in Index : \A p \in 1 .. table[i].len :
         Passed(it, i, p) => \E n \in DOMAIN names : Times(table[i].memory[p].key) = {n}
    /\ \A n \in DOMAIN names : \E i \in Index : \E p \in 1 .. Len(table[i].memory) :
         Passed(it, i, p) /\ Stops(table[i], p) /\ table[i].memory[p].key = names[n]

\* FirstFrom skips the buckets without memory, and no other.
LEMMA Skipped ==
  ASSUME NEW t, NEW i \in 0 .. HASH_SIZE
  PROVE  LET f == FirstFrom(t, i)
         IN /\ f.index \in i .. HASH_SIZE
            /\ \A j \in Index : i <= j /\ j < f.index => t[j].memory = <<>>
            /\ f # End => f.index \in Index /\ f.node = 1
            /\ f = End => f.index = HASH_SIZE
<1> DEFINE allocated == {j \in i .. HASH_SIZE - 1 : t[j].memory # <<>>}
           f == FirstFrom(t, i)
<1>1. HASH_SIZE \in Nat
  BY SizeAssumption
<1>2. CASE allocated = {}
  <2>1. f = End
    BY <1>2 DEF FirstFrom
  <2>2. \A j \in Index : i <= j => t[j].memory = <<>>
    BY <1>1, <1>2 DEF Index
  <2> HIDE DEF f
  <2>3. f.index = HASH_SIZE
    BY <2>1 DEF End
  <2>. QED BY <1>1, <2>1, <2>2, <2>3 DEF f
<1>3. CASE allocated # {}
  <2>1. allocated \in SUBSET Nat
    BY <1>1
  <2>2. \E j \in allocated : \A l \in allocated : j <= l
    BY <1>3, <2>1, Minimum
  <2> DEFINE least == CHOOSE j \in allocated : \A l \in allocated : j <= l
  <2>3. least \in allocated /\ \A l \in allocated : least <= l
    BY <2>2
  <2>4. f = [index |-> least, node |-> 1]
    BY <1>3 DEF FirstFrom
  <2> HIDE DEF least, f
  <2>5. f.index = least /\ f.node = 1
    BY <2>4
  <2>6. least \in Index /\ least \in i .. HASH_SIZE
    BY <1>1, <2>3 DEF Index
  <2>7. \A j \in Index : i <= j /\ j < least => t[j].memory = <<>>
    <3>1. ASSUME NEW j \in Index, i <= j, j < least, t[j].memory # <<>> PROVE FALSE
      <4>1. j \in allocated
        BY <1>1, <3>1 DEF Index
      <4>2. least <= j
        BY <2>3, <4>1
      <4>3. least \in Nat /\ j \in Nat
        BY <2>1, <2>3, <4>1
      <4>. QED BY <3>1, <4>2, <4>3
    <3>. QED BY <3>1
  <2>8. f # End
    BY <2>5 DEF End
  <2>. QED BY <2>5, <2>6, <2>7, <2>8 DEF f
<1>. QED BY <1>2, <1>3

\* The places of l in the sequence s.
Places(s, l) == {n \in DOMAIN s : s[n] = l}

\* What Append adds to the places of a key.
LEMMA TimesAppended ==
  ASSUME NEW k \in Key, names \in Seq(Key), names' = Append(names, k)
  PROVE  /\ DOMAIN names' = DOMAIN names \cup {Len(names) + 1}
         /\ Len(names) + 1 \notin DOMAIN names
         /\ names'[Len(names) + 1] = k
         /\ \A n \in DOMAIN names : names'[n] = names[n]
         /\ Places(names', k) = Places(names, k) \cup {Len(names) + 1}
         /\ \A l \in Key : l # k => Places(names', l) = Places(names, l)
<1>1. PICK m \in Nat : m = Len(names)
  BY LenProperties
<1>2. /\ DOMAIN names = 1 .. m /\ DOMAIN names' = 1 .. m + 1
      /\ names'[m + 1] = k /\ \A n \in 1 .. m : names'[n] = names[n]
  BY <1>1, AppendProperties, LenProperties
<1>3. 1 .. m + 1 = (1 .. m) \cup {m + 1} /\ m + 1 \notin 1 .. m
  OBVIOUS
<1>. QED BY <1>1, <1>2, <1>3 DEF Places

LEMMA StartsWalk ==
  ASSUME IInv, StartWalk
  PROVE  WalkInv'
<1>1. Good(table) /\ UNCHANGED table /\ it' = FirstFrom(table, 0) /\ names' = <<>>
  BY InvGood DEF StartWalk, Begin
<1>2. 0 \in 0 .. HASH_SIZE /\ HASH_SIZE \in Nat
  BY SizeAssumption
<1>3. /\ it' \in Iterator /\ it'.index \in 0 .. HASH_SIZE
      /\ it' # End => it'.index \in Index /\ it'.node = 1
                      /\ it'.node \in 1 .. Len(table[it'.index].memory)
      /\ it' = End => it'.index = HASH_SIZE
      /\ \A j \in Index : 0 <= j /\ j < it'.index => table[j].memory = <<>>
  BY <1>1, <1>2, FirstFromFacts, Skipped
<1>4. \A i \in Index : /\ i \in Nat /\ i < HASH_SIZE /\ 0 <= i
                       /\ table[i].len \in Nat /\ table[i].len <= Len(table[i].memory)
                       /\ table[i].memory = <<>> => table[i].len = 0
  BY <1>1, <1>2, EmptySeq, LenProperties DEF Good, Table, Bucket, InMemory, Index
<1>5. it' # End => Stops(table[it'.index], it'.node)
  <2>1. ASSUME it' # End PROVE table[it'.index].len \in Nat /\ it'.node = 1
    BY <1>3, <1>4, <2>1
  <2>. QED BY <2>1 DEF Stops
<1>6. ASSUME NEW i \in Index, NEW p \in 1 .. table[i].len PROVE ~ Passed(it', i, p)
  BY <1>2, <1>3, <1>4 DEF Passed, End
<1>7. DOMAIN names' = {}
  BY <1>1
<1>. QED BY <1>1, <1>5, <1>6, <1>7 DEF WalkInv

\* What operator++ passes: the place it was at, and places with no entries.
LEMMA Advances ==
  ASSUME IInv, WalkInv, Visit
  PROVE  /\ it.index \in Index /\ it.node \in 1 .. Len(table[it.index].memory)
         /\ Stops(table[it.index], it.node)
         /\ Passed(it', it.index, it.node)
         /\ it' # End => Stops(table[it'.index], it'.node)
         /\ \A i \in Index : \A p \in 1 .. Len(table[i].memory) : Passed(it, i, p) => Passed(it', i, p)
         /\ \A i \in Index : \A p \in 1 .. table[i].len :
              Passed(it', i, p) => Passed(it, i, p) \/ (i = it.index /\ p = it.node)
<1> DEFINE b == table[it.index]
<1>1. /\ Good(table) /\ it.index \in Index /\ it.node \in 1 .. Len(b.memory)
      /\ Stops(b, it.node) /\ it' = Advance(table, it)
      /\ it \in [index : 0 .. HASH_SIZE, node : Nat]
  BY InvGood DEF IInv, TypeOK, Iterator, Visit, WalkInv
<1>2. HASH_SIZE \in Nat /\ it.index \in Nat /\ it.index < HASH_SIZE /\ it.node \in Nat
  BY <1>1, IndexFacts
<1>3. b.len \in Nat /\ b.len <= Len(b.memory) /\ Len(b.memory) \in Nat
  BY <1>1, BucketFacts
<1>4. CASE it.node < b.len
  <2>1. it' = [it EXCEPT !.node = it.node + 1]
    BY <1>1, <1>4 DEF Advance
  <2>2. it'.index = it.index /\ it'.node = it.node + 1
    BY <1>1, <2>1
  <2>3. Stops(table[it'.index], it'.node)
    BY <1>2, <1>3, <1>4, <2>2 DEF Stops
  <2>4. /\ Passed(it', it.index, it.node)
        /\ \A i \in Index, p \in Int :
             Passed(it', i, p) <=> Passed(it, i, p) \/ (i = it.index /\ p = it.node)
    BY <1>2, <2>2, IndexFacts DEF Passed
  <2> HIDE DEF b
  <2>5. \A i \in Index : 1 .. table[i].len \subseteq Int /\ 1 .. Len(table[i].memory) \subseteq Int
    OBVIOUS
  <2>. QED BY <1>1, <2>3, <2>4, <2>5 DEF b
<1>5. CASE ~ (it.node < b.len)
  <2>1. it.index + 1 \in 0 .. HASH_SIZE /\ it' = FirstFrom(table, it.index + 1)
    BY <1>1, <1>2, <1>3, <1>5 DEF Advance
  <2>2. /\ it'.index \in it.index + 1 .. HASH_SIZE
        /\ \A j \in Index : it.index + 1 <= j /\ j < it'.index => table[j].memory = <<>>
        /\ it' # End => it'.index \in Index /\ it'.node = 1
        /\ it' = End => it'.index = HASH_SIZE
    BY <2>1, Skipped
  <2>3. it' # End => Stops(table[it'.index], it'.node)
    <3>1. ASSUME it' # End PROVE table[it'.index].len \in Nat /\ it'.node = 1
      BY <1>1, <2>2, <3>1, BucketFacts
    <3>. QED BY <3>1 DEF Stops
  <2>4. it.index \in Nat /\ it'.index \in Nat /\ it.node \in Nat /\ b.len \in Nat
        /\ it.index < it'.index
    BY <1>2, <1>3, <2>2
  <2>5. ASSUME NEW i \in Index, NEW p \in 1 .. table[i].len, Passed(it', i, p), ~ Passed(it, i, p)
        PROVE  i = it.index /\ p = it.node
    <3>1. /\ i \in Nat /\ i < HASH_SIZE /\ table[i].len \in Nat /\ p \in Nat
          /\ table[i].memory = <<>> => table[i].len = 0
      BY <1>1, BucketFacts, IndexFacts
    <3>2. table[i].memory # <<>>
      BY <3>1
    <3>3. i <= it'.index
      BY <2>4, <2>5, <3>1 DEF Passed
    <3>4. i # it'.index
      <4>1. CASE it' = End
        BY <1>2, <2>2, <3>1, <4>1
      <4>2. CASE it' # End
        <5>1. it'.node = 1 /\ 1 <= p
          BY <2>2, <3>1, <4>2
        <5>. QED BY <2>4, <2>5, <3>1, <5>1 DEF Passed
      <4>. QED BY <4>1, <4>2
    <3>5. i < it'.index
      BY <2>4, <3>1, <3>3, <3>4
    <3>6. ~ (it.index + 1 <= i)
      BY <2>2, <3>2, <3>5
    <3>7. i = it.index /\ ~ (p < it.node)
      BY <2>4, <2>5, <3>1, <3>6 DEF Passed
    <3>8. p <= b.len
      BY <3>1, <3>7
    <3>. QED BY <1>5, <2>4, <3>1, <3>7, <3>8
  <2>6. \A i \in Index : \A p \in 1 .. Len(table[i].memory) : Passed(it, i, p) => Passed(it', i, p)
    <3>1. ASSUME NEW i \in Index, NEW p, Passed(it, i, p) PROVE Passed(it', i, p)
      <4>1. i \in Nat
        BY IndexFacts
      <4>. QED BY <2>4, <3>1, <4>1 DEF Passed
    <3>. QED BY <3>1
  <2>7. Passed(it', it.index, it.node)
    BY <2>4 DEF Passed
  <2>. QED BY <1>1, <2>3, <2>5, <2>6, <2>7
<1>. QED BY <1>4, <1>5

\* Of the places an iterator stops at, none but the entry of a key has the key.
LEMMA StopsOnce ==
  ASSUME Good(table), MemoryPlaced(table),
         NEW i \in Index, NEW p \in 1 .. table[i].len,
         NEW j \in Index, NEW q \in 1 .. Len(table[j].memory), Stops(table[j], q),
         table[j].memory[q].key = table[i].memory[p].key
  PROVE  j = i /\ q = p
<1>1. /\ table[i].len \in Nat /\ Len(table[i].memory) \in Nat /\ table[i].len <= Len(table[i].memory)
      /\ Len(table[j].memory) \in Nat
  BY BucketFacts
<1>2. p \in 1 .. Len(table[i].memory)
  BY <1>1
<1>3. j = i
  BY <1>2 DEF MemoryPlaced
<1>4. q \in 1 .. table[i].len
  BY <1>1, <1>3 DEF Stops
<1>. QED BY <1>3, <1>4 DEF Good, Placed

LEMMA VisitsWalk ==
  ASSUME IInv, MemoryPlaced(table), WalkInv, Visit
  PROVE  WalkInv'
<1> DEFINE x == it.index
           y == it.node
<1>1. /\ Good(table) /\ names \in Seq(Key) /\ UNCHANGED <<table, walking>> /\ walking
      /\ names' = Append(names, table[x].memory[y].key)
  BY InvGood DEF IInv, TypeOK, Visit, Visited
<1>2. /\ x \in Index /\ y \in 1 .. Len(table[x].memory) /\ Stops(table[x], y) /\ Passed(it', x, y)
      /\ it' # End => Stops(table[it'.index], it'.node)
      /\ \A i \in Index : \A p \in 1 .. Len(table[i].memory) : Passed(it, i, p) => Passed(it', i, p)
      /\ \A i \in Index : \A p \in 1 .. table[i].len :
           Passed(it', i, p) => Passed(it, i, p) \/ (i = x /\ p = y)
  BY Advances
<1> HIDE DEF x, y
<1>3. PICK k \in Key : k = table[x].memory[y].key
  <2>1. table[x].memory[y] \in Node
    BY <1>1, <1>2, BucketFacts, ElementOfSeq
  <2>. QED BY <2>1 DEF Node
<1>4. /\ \A i \in Index : \A p \in 1 .. table[i].len : Passed(it, i, p) =>
           \E n \in DOMAIN names : Places(names, table[i].memory[p].key) = {n}
      /\ \A n \in DOMAIN names : \E i \in Index : \E p \in 1 .. Len(table[i].memory) :
           Passed(it, i, p) /\ Stops(table[i], p) /\ table[i].memory[p].key = names[n]
  BY <1>1 DEF WalkInv, Times, Places
<1> DEFINE m == Len(names) + 1
<1>5. /\ DOMAIN names' = DOMAIN names \cup {m} /\ m \notin DOMAIN names /\ names'[m] = k
      /\ \A n \in DOMAIN names : names'[n] = names[n]
      /\ Places(names', k) = Places(names, k) \cup {m}
      /\ \A l \in Key : l # k => Places(names', l) = Places(names, l)
  BY <1>1, <1>3, TimesAppended
<1> HIDE DEF m
<1>6. ~ Passed(it, x, y)
  <2>1. x \in Nat /\ y \in Nat
    BY <1>2, IndexFacts DEF Stops, y, x
  <2>. QED BY <2>1 DEF Passed, x, y
<1>7. ASSUME NEW i \in Index, NEW p \in 1 .. table[i].len, Passed(it', i, p)
      PROVE  \E n \in DOMAIN names' : Places(names', table[i].memory[p].key) = {n}
  <2>1. PICK l \in Key : l = table[i].memory[p].key
    <3>1. p \in 1 .. Len(table[i].memory)
      BY <1>1, BucketFacts
    <3>2. table[i].memory[p] \in Node
      BY <1>1, <3>1, BucketFacts, ElementOfSeq
    <3>. QED BY <3>2 DEF Node
  <2>2. CASE i = x /\ p = y
    <3>1. l = k
      BY <1>3, <2>1, <2>2
    <3>2. Places(names, k) = {}
      <4>1. ASSUME NEW n \in DOMAIN names, names[n] = k PROVE FALSE
        <5>1. PICK j \in Index : \E q \in 1 .. Len(table[j].memory) :
                Passed(it, j, q) /\ Stops(table[j], q) /\ table[j].memory[q].key = names[n]
          BY <1>4
        <5>2. PICK q \in 1 .. Len(table[j].memory) :
                Passed(it, j, q) /\ Stops(table[j], q) /\ table[j].memory[q].key = names[n]
          BY <5>1
        <5>3. j = i /\ q = p
          BY <1>1, <2>1, <3>1, <4>1, <5>2, StopsOnce
        <5>. QED BY <1>6, <2>2, <5>2, <5>3
      <4>. QED BY <4>1 DEF Places
    <3>3. Places(names', l) = {m} /\ m \in DOMAIN names'
      BY <1>5, <3>1, <3>2
    <3>. QED BY <2>1, <3>3
  <2>3. CASE ~ (i = x /\ p = y)
    <3>1. Passed(it, i, p)
      BY <1>2, <1>7, <2>3
    <3>2. PICK n \in DOMAIN names : Places(names, l) = {n}
      BY <1>4, <2>1, <3>1
    <3>3. l # k
      <4>1. ASSUME l = k PROVE x = i /\ y = p
        BY <1>1, <1>2, <1>3, <2>1, <4>1, StopsOnce
      <4>. QED BY <2>3, <4>1
    <3>4. Places(names', l) = {n} /\ n \in DOMAIN names'
      BY <1>5, <2>1, <3>2, <3>3
    <3>. QED BY <2>1, <3>4
  <2>. QED BY <2>2, <2>3
<1>8. ASSUME NEW n \in DOMAIN names'
      PROVE  \E i \in Index : \E p \in 1 .. Len(table[i].memory) :
               Passed(it', i, p) /\ Stops(table[i], p) /\ table[i].memory[p].key = names'[n]
  <2>1. CASE n = m
    BY <1>2, <1>3, <1>5, <2>1
  <2>2. CASE n # m
    <3>1. n \in DOMAIN names /\ names'[n] = names[n]
      BY <1>5, <2>2
    <3>2. PICK i \in Index : \E p \in 1 .. Len(table[i].memory) :
            Passed(it, i, p) /\ Stops(table[i], p) /\ table[i].memory[p].key = names[n]
      BY <1>4, <3>1
    <3>3. PICK p \in 1 .. Len(table[i].memory) :
            Passed(it, i, p) /\ Stops(table[i], p) /\ table[i].memory[p].key = names[n]
      BY <3>2
    <3>4. Passed(it', i, p)
      BY <1>2, <3>3
    <3>. QED BY <3>1, <3>3, <3>4
  <2>. QED BY <2>1, <2>2
<1>9. table' = table /\ (it' # End => Stops(table'[it'.index], it'.node))
  BY <1>1, <1>2
<1>10. \A i \in Index : \A p \in 1 .. table'[i].len : Passed(it', i, p) =>
         \E n \in DOMAIN names' : Places(names', table'[i].memory[p].key) = {n}
  BY <1>7, <1>9
<1>11. \A n \in DOMAIN names' : \E i \in Index : \E p \in 1 .. Len(table'[i].memory) :
         Passed(it', i, p) /\ Stops(table'[i], p) /\ table'[i].memory[p].key = names'[n]
  BY <1>8, <1>9
<1>. QED BY <1>9, <1>10, <1>11 DEF WalkInv, Times, Places

\* The inductive invariant of walks.
WInv == IInv /\ MemoryPlaced(table) /\ WalkInv

LEMMA WalkInitially ==
  Init => WInv
<1> SUFFICES ASSUME Init PROVE WInv
  OBVIOUS
<1>1. \A i \in Index : Len(table[i].memory) = 0
  <2>1. \A i \in Index : table[i].memory = <<>>
    BY DEF Init, EmptyTable
  <2>. QED BY <2>1, EmptySeq
<1>2. MemoryPlaced(table)
  BY <1>1 DEF MemoryPlaced
<1>. QED BY <1>2, Initially DEF Init, WInv, WalkInv

LEMMA WalkConsecution ==
  WInv /\ [Next]_vars => WInv'
<1> SUFFICES ASSUME WInv, [Next]_vars PROVE WInv'
  OBVIOUS
<1>1. Good(table) /\ MemoryPlaced(table) /\ IInv /\ WalkInv
  BY InvGood DEF WInv
<1>2. IInv'
  BY <1>1, Consecution
<1>3. MemoryPlaced(table')
  <2>1. ASSUME NEW k \in Key, Add(k) PROVE MemoryPlaced(table')
    BY <1>1, <2>1, SubscriptMemory DEF Add
  <2>2. ASSUME NEW k \in Key, NEW v \in Value, Assign(k, v) PROVE MemoryPlaced(table')
    BY <1>1, <2>2, StoreMemory DEF Assign
  <2>3. ASSUME NEW k \in Key, Remove(k) PROVE MemoryPlaced(table')
    BY <1>1, <2>3, EraseMemory DEF Remove
  <2>4. ASSUME UNCHANGED table PROVE MemoryPlaced(table')
    BY <1>1, <2>4
  <2>. QED BY <2>1, <2>2, <2>3, <2>4 DEF Next, StartWalk, Visit, EndWalk, vars
<1>4. WalkInv'
  <2>1. ASSUME ~ walking' PROVE WalkInv'
    BY <2>1 DEF WalkInv
  <2>2. CASE StartWalk
    BY <1>1, <2>2, StartsWalk
  <2>3. CASE Visit
    BY <1>1, <2>3, VisitsWalk
  <2>4. CASE UNCHANGED vars
    BY <1>1, <2>4 DEF vars, WalkInv, Times
  <2>5. CASE EndWalk
    BY <2>1, <2>5 DEF EndWalk
  <2>6. ASSUME ~ walking, UNCHANGED walking PROVE WalkInv'
    BY <2>1, <2>6
  <2>. QED BY <2>2, <2>3, <2>4, <2>5, <2>6 DEF Next, Add, Assign, Remove
<1>. QED BY <1>2, <1>3, <1>4 DEF WInv

LEMMA WalkEnds ==
  WInv => WalkComplete
<1> SUFFICES ASSUME WInv, walking, it = End, NEW k \in Key
             PROVE  IF Has(table, k) THEN \E n \in DOMAIN names : Times(k) = {n}
                    ELSE Times(k) # {} => \E i \in Index :
                           Emptied(i) /\ table[i].memory[1].key = k
  BY DEF WalkComplete
<1>1. /\ Good(table)
      /\ \A i \in Index : \A p \in 1 .. table[i].len : Passed(it, i, p) =>
           \E n \in DOMAIN names : Times(table[i].memory[p].key) = {n}
      /\ \A n \in DOMAIN names : \E i \in Index : \E p \in 1 .. Len(table[i].memory) :
           Passed(it, i, p) /\ Stops(table[i], p) /\ table[i].memory[p].key = names[n]
  BY InvGood DEF WInv, WalkInv
<1>2. CASE Has(table, k)
  <2> DEFINE i == IndexOf(k)
             p == Position(table, k)
  <2>1. i \in Index /\ p \in 1 .. table[i].len /\ table[i].memory[p].key = k
    BY <1>1, <1>2, Found, IndexType
  <2>2. Passed(it, i, p)
    BY <2>1, IndexFacts DEF Passed, End
  <2> HIDE DEF i, p
  <2>. QED BY <1>1, <1>2, <2>1, <2>2
<1>3. CASE ~ Has(table, k)
  <2> SUFFICES ASSUME NEW n \in DOMAIN names, names[n] = k
               PROVE  \E i \in Index : Emptied(i) /\ table[i].memory[1].key = k
    BY <1>3 DEF Times
  <2>1. PICK i \in Index : \E p \in 1 .. Len(table[i].memory) :
          Passed(it, i, p) /\ Stops(table[i], p) /\ table[i].memory[p].key = names[n]
    BY <1>1
  <2>2. PICK p \in 1 .. Len(table[i].memory) :
          Passed(it, i, p) /\ Stops(table[i], p) /\ table[i].memory[p].key = names[n]
    BY <2>1
  <2>3. /\ table[i].len \in Nat /\ Len(table[i].memory) \in Nat
        /\ table[i].memory = <<>> => Len(table[i].memory) = 0
    BY <1>1, BucketFacts, EmptySeq
  <2>4. p \notin 1 .. table[i].len
    BY <1>1, <1>3, <2>2, Entry
  <2>5. table[i].len = 0 /\ p = 1
    BY <2>2, <2>3, <2>4 DEF Stops
  <2>6. table[i].memory # <<>>
    BY <2>3, <2>5
  <2>. QED BY <2>2, <2>5, <2>6 DEF Emptied
<1>. QED BY <1>2, <1>3

\* A walk over any table meets every entry exactly once, and besides at most the
\* last erased key of each emptied bucket (coll.hh 248-261, 357-362).
THEOREM WalksAreComplete == Spec => []WalkComplete
<1>1. Spec => []WInv
  BY WalkInitially, WalkConsecution, PTL DEF Spec
<1>. QED BY <1>1, WalkEnds, PTL

-----------------------------------------------------------------------------
(* The refinement.                                                         *)

\* The map after a step on key k, when nothing else has changed.
LEMMA OneEntry ==
  ASSUME NEW k \in Key,
         Has(table, k)',
         \A l \in Key \ {k} : Has(table, l)' <=> Has(table, l),
         \A l \in Key \ {k} : Has(table, l) => At(table, l)' = At(table, l)
  PROVE  Contents' = [l \in DOMAIN Contents \cup {k} |->
                        IF l = k THEN At(table, k)' ELSE Contents[l]]
BY DEF Contents

LEMMA InitMap ==
  Init => Map!Init
<1> SUFFICES ASSUME Init PROVE Map!Init
  OBVIOUS
<1>1. ASSUME NEW l \in Key PROVE ~ Has(table, l)
  BY IndexType DEF Init, EmptyTable, Has, Position
<1>2. {l \in Key : Has(table, l)} = {}
  BY <1>1
<1>. QED BY <1>2 DEF Map!Init, Contents

LEMMA StepMap ==
  IInv /\ [Next]_vars => [Map!Next]_Contents
<1> SUFFICES ASSUME IInv, [Next]_vars PROVE [Map!Next]_Contents
  OBVIOUS
<1>1. Good(table)
  BY InvGood
<1>2. ASSUME NEW k \in Key, Add(k) PROVE [Map!Next]_Contents
  <2>1. /\ Good(table')
        /\ Has(table, k)'
        /\ \A l \in Key \ {k} : Has(table, l)' <=> Has(table, l)
        /\ \A l \in Key : Has(table, l) => At(table, l)' = At(table, l)
    BY <1>1, <1>2, SubscriptMap DEF Add
  <2>2. CASE Has(table, k)
    <3>1. Contents' = Contents
      BY <2>1, <2>2 DEF Contents
    <3>. QED BY <3>1
  <2>3. CASE ~ Has(table, k)
    <3>1. At(table, k)' \in Value
      <4> DEFINE p == Position(table', k)
                 b == table'[IndexOf(k)]
      <4>1. p \in 1 .. b.len /\ IndexOf(k) \in Index
        BY <2>1, Found, IndexType
      <4>2. b.memory \in Seq(Node) /\ b.len \in Nat /\ b.len <= Len(b.memory)
        BY <2>1, <4>1 DEF Good, Table, Bucket, InMemory
      <4>3. b.memory[p] \in Node
        BY <4>1, <4>2, ElementOfSeq, LenProperties
      <4>. QED BY <4>3 DEF At, Node
    <3>2. Contents' = Map!With(k, At(table, k)')
      BY <2>1, OneEntry DEF Map!With
    <3>3. k \notin DOMAIN Contents
      BY <2>3 DEF Contents
    <3>4. Map!Add(k)
      BY <3>1, <3>2, <3>3 DEF Map!Add
    <3>. QED BY <3>4 DEF Map!Next
  <2>. QED BY <2>2, <2>3
<1>3. ASSUME NEW k \in Key, NEW v \in Value, Assign(k, v)
      PROVE  [Map!Next]_Contents
  <2>1. /\ Has(table, k)' /\ At(table, k)' = v
        /\ \A l \in Key \ {k} : Has(table, l)' <=> Has(table, l)
        /\ \A l \in Key \ {k} : Has(table, l) => At(table, l)' = At(table, l)
    BY <1>1, <1>3, StoreMap DEF Assign
  <2>2. Contents' = Map!With(k, v)
    BY <2>1, OneEntry DEF Map!With
  <2>3. Map!Assign(k, v)
    BY <2>2 DEF Map!Assign
  <2>. QED BY <2>3 DEF Map!Next
<1>4. ASSUME NEW k \in Key, Remove(k) PROVE [Map!Next]_Contents
  <2>1. /\ ~ Has(table, k)'
        /\ \A l \in Key \ {k} : Has(table, l)' <=> Has(table, l)
        /\ \A l \in Key \ {k} : Has(table, l) => At(table, l)' = At(table, l)
    BY <1>1, <1>4, EraseMap DEF Remove
  <2>2. Has(table, k)
    BY <1>4 DEF Remove
  <2>3. Contents' = [l \in DOMAIN Contents \ {k} |-> Contents[l]]
    BY <2>1 DEF Contents
  <2>4. k \in DOMAIN Contents
    BY <2>2 DEF Contents
  <2>5. Map!Remove(k)
    BY <2>3, <2>4 DEF Map!Remove
  <2>. QED BY <2>5 DEF Map!Next
<1>5. ASSUME UNCHANGED table PROVE [Map!Next]_Contents
  BY <1>5 DEF Contents, Has, At, Position
<1>. QED BY <1>2, <1>3, <1>4, <1>5 DEF Next, StartWalk, Visit, EndWalk, vars

\* The storage of properties implements the map: for any hash function and any
\* collisions, an operation on a name leaves the others and their values alone,
\* wherever the memory moves (coll.hh 302-355).
THEOREM Refinement == Spec => ImplementsMap
BY InitMap, StepMap, Invariance, PTL DEF Spec, ImplementsMap, Map!Spec
=============================================================================
