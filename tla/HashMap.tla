------------------------------- MODULE HashMap -------------------------------
(***************************************************************************)
(* The operations of hash_map (src/nabla/coll.hh), the storage of the      *)
(* properties of an object, as operators on its two arrays.                *)
(*                                                                         *)
(* table[i] and table_len[i] are one bucket: its memory, of which the      *)
(* first len nodes are entries, and <<>> for a null table[i].  Memory is   *)
(* not cleared when an entry is erased, so the nodes past len are what     *)
(* earlier entries left; operator[] hands the next of them out again.  A   *)
(* key is compared by its hash and its text, which is equality of keys;    *)
(* positions count from 1.                                                 *)
(***************************************************************************)
EXTENDS Integers, Sequences

CONSTANTS
  Key,         \* the keys
  Value,       \* what an entry may hold
  Zero,        \* the value in memory nobody has written
  Hash,        \* hash() of each key
  HASH_SIZE,   \* the number of buckets
  Spare        \* nodes that fit in the padding gc_realloc adds to a block

ASSUME HashAssumption == Hash \in [Key -> Nat]
ASSUME SizeAssumption == HASH_SIZE \in Nat \ {0}
ASSUME SpareAssumption == Spare \in Nat
ASSUME ZeroAssumption == Zero \in Value

Index == 0 .. HASH_SIZE - 1
Node == [key : Key, value : Value]
Bucket == [memory : Seq(Node), len : Nat]
Table == [Index -> Bucket]

\* len never runs past the memory of its bucket.
InMemory(t) == \A i \in Index : t[i].len <= Len(t[i].memory)

IndexOf(k) == Hash[k] % HASH_SIZE

\* No key is stored twice, and every key is in its own bucket.
Placed(t) ==
  \A i \in Index : \A p, q \in 1 .. t[i].len :
    /\ IndexOf(t[i].memory[p].key) = i
    /\ t[i].memory[p].key = t[i].memory[q].key => p = q

EmptyTable == [i \in Index |-> [memory |-> <<>>, len |-> 0]]

\* Where find(k) stops: the first entry of the bucket with the key, 0 for end().
Position(t, k) ==
  LET b == t[IndexOf(k)]
      hits == {p \in 1 .. b.len : b.memory[p].key = k}
  IN IF hits = {} THEN 0 ELSE CHOOSE p \in hits : \A q \in hits : p <= q

Has(t, k) == Position(t, k) # 0

At(t, k) == t[IndexOf(k)].memory[Position(t, k)].value

\* What gc_realloc keeps of a block of nodes asked to hold n of them.
Reallocated(memory, n) ==
  IF Len(memory) <= n + Spare THEN memory ELSE SubSeq(memory, 1, n + Spare)

\* operator[] of a key that is not there: the value stays what it was.
AddEntry(b, k) ==
  LET n == b.len + 1
      kept == Reallocated(b.memory, n)
  IN [memory |-> IF n <= Len(kept) THEN [kept EXCEPT ![n].key = k]
                 ELSE Append(kept, [key |-> k, value |-> Zero]),
      len |-> n]

\* operator[]: the entry of k exists.
Subscript(t, k) ==
  IF Has(t, k) THEN t ELSE [t EXCEPT ![IndexOf(k)] = AddEntry(@, k)]

\* Writing through a pointer to the node at position p of bucket i.
Write(t, i, p, v) == [t EXCEPT ![i].memory[p].value = v]

\* An assignment to operator[] of k.
Store(t, k, v) ==
  LET s == Subscript(t, k) IN Write(s, IndexOf(k), Position(s, k), v)

\* Mutant of Erase: table_len is not decremented.
EraseMutantLength(t, k) ==
  LET p == Position(t, k)
      Shifted(b) == [b EXCEPT !.memory = [q \in DOMAIN b.memory |->
                       IF q \in p .. b.len - 1 THEN b.memory[q + 1]
                       ELSE b.memory[q]]]
  IN [t EXCEPT ![IndexOf(k)] = Shifted(@)]

\* Mutant of Erase: an entry too few is moved up.
EraseMutantMoves(t, k) ==
  LET p == Position(t, k)
      Shifted(b) == [memory |-> [q \in DOMAIN b.memory |->
                                   IF q \in p .. b.len - 2 THEN b.memory[q + 1]
                                   ELSE b.memory[q]],
                     len |-> b.len - 1]
  IN [t EXCEPT ![IndexOf(k)] = Shifted(@)]

\* erase(find(k)): the entries behind it move up, the last one stays in memory.
Erase(t, k) ==
  LET p == Position(t, k)
      Shifted(b) == [memory |-> [q \in DOMAIN b.memory |->
                                   IF q \in p .. b.len - 1 THEN b.memory[q + 1]
                                   ELSE b.memory[q]],
                     len |-> b.len - 1]
  IN [t EXCEPT ![IndexOf(k)] = Shifted(@)]

-----------------------------------------------------------------------------
(* Iteration.  An iterator is a bucket and a position in it.               *)

Iterator == [index : 0 .. HASH_SIZE, node : Nat]

End == [index |-> HASH_SIZE, node |-> 0]

\* Mutant of FirstFrom: one bucket is tried, not all that follow.
FirstFromMutant(t, i) ==
  IF i < HASH_SIZE /\ t[i].memory # <<>> THEN [index |-> i, node |-> 1] ELSE End

\* The start of the first bucket from i on that has memory, entries or not.
FirstFrom(t, i) ==
  LET allocated == {j \in i .. HASH_SIZE - 1 : t[j].memory # <<>>}
  IN IF allocated = {} THEN End
     ELSE [index |-> CHOOSE j \in allocated : \A l \in allocated : j <= l,
           node |-> 1]

Begin(t) == FirstFrom(t, 0)

\* Mutant of Advance: the bound of the bucket is passed by one.
AdvanceMutant(t, it) ==
  IF it.node <= t[it.index].len THEN [it EXCEPT !.node = @ + 1]
  ELSE FirstFrom(t, it.index + 1)

\* operator++
Advance(t, it) ==
  IF it.node < t[it.index].len THEN [it EXCEPT !.node = @ + 1]
  ELSE FirstFrom(t, it.index + 1)

\* operator*
Visited(t, it) == t[it.index].memory[it.node]

=============================================================================
