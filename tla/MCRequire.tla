------------------------------ MODULE MCRequire ------------------------------
(***************************************************************************)
(* An instance of Require for TLC: three files, and the name of a property *)
(* every object has.                                                       *)
(***************************************************************************)
EXTENDS Require, TLC

CONSTANTS fileA, fileB, fileC, constructorName

Files == {fileA, fileB, fileC}
FilesAndName == Files \cup {constructorName}
NameOnly == {constructorName}
FileSymmetry == Permutations(Files)
=============================================================================
