------------------------------ MODULE MCArrays ------------------------------
(***************************************************************************)
(* Instances of Arrays for TLC.                                            *)
(***************************************************************************)
EXTENDS Arrays

CONSTANTS item1, item2

OneItem == {item1}
TwoItems == {item1, item2}
=============================================================================
