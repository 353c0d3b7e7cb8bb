---------------------------- MODULE MCEnvironments ----------------------------
(***************************************************************************)
(* Instances of Environments for TLC.                                      *)
(***************************************************************************)
EXTENDS Environments

CONSTANTS n1, n2, datum, globalObject, withObject

OneName == {n1}
TwoNames == {n1, n2}
OneDatum == {datum}
Objects == {globalObject, withObject}

NoUses == {}
=============================================================================
