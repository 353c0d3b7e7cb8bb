---------------------------- MODULE HashMapStore ----------------------------
(***************************************************************************)
(* A hash_map in use: entries are made, written and erased in any order,   *)
(* and now and then somebody walks through them (for-in, evalast.cc 357,   *)
(* and Object.keys, builtin.cc 275).  A walk collects the names and runs   *)
(* no code of the program, so nothing is changed while it goes on.         *)
(***************************************************************************)
EXTENDS HashMap

VARIABLES
  table,     \* table and table_len
  walking,   \* whether a walk is going on
  it,        \* its iterator
  names      \* the keys it has collected

vars == <<table, walking, it, names>>

Init ==
  /\ table = EmptyTable
  /\ walking = FALSE
  /\ it = End
  /\ names = <<>>

\* hash_map::operator[], nothing written yet.
Add(k) ==
  /\ ~walking
  /\ table' = Subscript(table, k)
  /\ UNCHANGED <<walking, it, names>>

\* An assignment to hash_map::operator[], or through a Property* just found.
Assign(k, v) ==
  /\ ~walking
  /\ table' = Store(table, k, v)
  /\ UNCHANGED <<walking, it, names>>

\* Object::Delete: find, then erase.
Remove(k) ==
  /\ ~walking
  /\ Has(table, k)
  /\ table' = Erase(table, k)
  /\ UNCHANGED <<walking, it, names>>

StartWalk ==
  /\ ~walking
  /\ walking' = TRUE
  /\ it' = Begin(table)
  /\ names' = <<>>
  /\ UNCHANGED table

Visit ==
  /\ walking
  /\ it # End
  /\ names' = Append(names, Visited(table, it).key)
  /\ it' = Advance(table, it)
  /\ UNCHANGED <<table, walking>>

EndWalk ==
  /\ walking
  /\ it = End
  /\ walking' = FALSE
  /\ names' = <<>>
  /\ UNCHANGED <<table, it>>

Next ==
  \/ \E k \in Key : \/ Add(k)
                    \/ \E v \in Value : Assign(k, v)
                    \/ Remove(k)
  \/ StartWalk
  \/ Visit
  \/ EndWalk

Spec == Init /\ [][Next]_vars

-----------------------------------------------------------------------------
(* Properties.                                                             *)

\* The two arrays and the iterator have their types, len never runs past the
\* memory of its bucket and the iterator stays inside the memory (coll.hh 302).
TypeOK ==
  /\ table \in Table
  /\ InMemory(table)
  /\ walking \in BOOLEAN
  /\ it \in Iterator
  /\ ~walking => it = End
  /\ it # End => /\ it.index \in Index
                 /\ it.node \in 1 .. Len(table[it.index].memory)
  /\ names \in Seq(Key)

\* Whatever was added and erased, no key is stored twice and every key is in
\* its own bucket: else find() would miss an entry or erase() bring an old one
\* back (coll.hh 302-355).
KeysPlaced == Placed(table)

Contents == [k \in {l \in Key : Has(table, l)} |-> At(table, k)]

Map == INSTANCE MapStore WITH contents <- Contents

\* The storage implements a map: an operation on a key leaves the others and
\* their values alone, moves in memory included.
ImplementsMap == Map!Spec

Times(k) == {n \in DOMAIN names : names[n] = k}

Emptied(i) == table[i].memory # <<>> /\ table[i].len = 0

\* A walk that has ended has met every key that is there exactly once, and
\* besides them at most the last erased key of each emptied bucket
\* (coll.hh 248-261, 357-362).
WalkComplete ==
  (walking /\ it = End) =>
    \A k \in Key :
      IF Has(table, k) THEN \E n \in DOMAIN names : Times(k) = {n}
      ELSE Times(k) # {} => \E i \in Index :
                              Emptied(i) /\ table[i].memory[1].key = k
=============================================================================
