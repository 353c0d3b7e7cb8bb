--------------------------- MODULE MCHashMapStore ---------------------------
(***************************************************************************)
(* An instance of HashMapStore for TLC: three keys share bucket 1 of 3 and *)
(* a fourth has bucket 2, so there is an allocated bucket behind one that  *)
(* may be emptied, and one in front that has no memory at all.             *)
(***************************************************************************)
EXTENDS HashMapStore

CONSTANTS j, k, l, m, zero, v

Keys == {j, k, l, m}
Values == {zero, v}
Buckets == 3
HashCodes == [key \in Keys |-> IF key = m THEN 5 ELSE 4]
=============================================================================
