------------------------------ MODULE MapStore ------------------------------
(***************************************************************************)
(* What a hash_map promises to the objects that keep their properties in   *)
(* it: a finite map, in which an operation on one key is no business of    *)
(* the others.  The value of an entry that operator[] has just made is     *)
(* unspecified; everything else is what was last written.                  *)
(***************************************************************************)
CONSTANTS Key, Value

VARIABLE contents   \* the map: from the keys present to their values

TypeOK == \E keys \in SUBSET Key : contents \in [keys -> Value]

Init == contents = [k \in {} |-> CHOOSE v \in Value : TRUE]

With(k, v) == [l \in DOMAIN contents \cup {k} |->
                 IF l = k THEN v ELSE contents[l]]

Add(k) == /\ k \notin DOMAIN contents
          /\ \E v \in Value : contents' = With(k, v)

Assign(k, v) == contents' = With(k, v)

Remove(k) == /\ k \in DOMAIN contents
             /\ contents' = [l \in DOMAIN contents \ {k} |-> contents[l]]

Next == \E k \in Key : \/ Add(k)
                       \/ \E v \in Value : Assign(k, v)
                       \/ Remove(k)

Spec == Init /\ [][Next]_contents
=============================================================================
