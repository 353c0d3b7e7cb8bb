----------------------------- MODULE Constructs -----------------------------
(***************************************************************************)
(* The nesting of a running script: which constructs of the language are   *)
(* entered and not yet left, outermost first, and where a jump out of that *)
(* nesting has to land.  A construct is one activation (a program or a     *)
(* function body) or one statement that has sub-statements or expressions. *)
(* This is the vocabulary StructuredControl (what the language promises)   *)
(* and Evaluator (what evalast.cc does) share; there is no state here.     *)
(***************************************************************************)
EXTENDS Integers, Sequences, FiniteSetsExt

\* The label of an unlabelled break or continue (a nil u16string).
NoLabel == "none"

Loops == {"While", "DoWhile", "For", "ForIn", "ForInMember"}

\* One AstEvaluator object each: the program, a nested program run by the
\* global function evalcx, a function called, a function run by new.
Activations == {"Program", "Evalcx", "Call", "New"}

TryKinds == {"TryCatch", "TryFinally", "TryCatchFinally"}

\* The statements that hold no sub-statement, only expressions.
SimpleKinds == {"Expression", "Var", "Return", "Throw"}

StatementKinds ==
  Loops \cup TryKinds \cup SimpleKinds
    \cup {"Block", "If", "Labeled", "With", "Switch"}

AllKinds == StatementKinds \cup Activations

-----------------------------------------------------------------------------
(* A construct is a record with at least the fields kind, label (its own   *)
(* label, for a labelled statement), ll (the labels of the statement it    *)
(* is) and armed (a try whose catch clause is still ahead).  n is a        *)
(* sequence of them.                                                       *)

\* The greatest index in S, or 0.
Innermost(S) == Max(S \cup {0})

\* The activation that the innermost construct of n belongs to.
Base(n) == Innermost({i \in DOMAIN n : n[i].kind \in Activations})

TakesBreak(c, l) ==
  \/ c.kind \in Loops \cup {"Switch"} /\ (l = NoLabel \/ l \in c.ll)
  \/ c.kind = "Labeled" /\ l # NoLabel /\ l = c.label

TakesContinue(c, l) == c.kind \in Loops /\ (l = NoLabel \/ l \in c.ll)

\* Where a jump lands: an index of n, or 0 when nothing takes it.
BreakTarget(n, l) ==
  Innermost({i \in Base(n) + 1 .. Len(n) : TakesBreak(n[i], l)})

ContinueTarget(n, l) ==
  Innermost({i \in Base(n) + 1 .. Len(n) : TakesContinue(n[i], l)})

ThrowTarget(n) == Innermost({i \in DOMAIN n : n[i].armed})

-----------------------------------------------------------------------------
(* The nesting after a jump.                                               *)

\* The catch clause of the innermost armed try runs; the program ends if
\* there is none.
AfterThrow(n) ==
  LET t == ThrowTarget(n)
  IN  IF t = 0 THEN << >> ELSE [SubSeq(n, 1, t) EXCEPT ![t].armed = FALSE]

\* The innermost activation ends, returning to the construct that called it.
AfterReturn(n) == SubSeq(n, 1, Base(n) - 1)

\* A jump that nothing in its function takes is a SyntaxError in the caller.
AfterBreak(n, l) ==
  LET t == BreakTarget(n, l)
  IN  IF t = 0 THEN AfterThrow(AfterReturn(n)) ELSE SubSeq(n, 1, t - 1)

AfterContinue(n, l) ==
  LET t == ContinueTarget(n, l)
  IN  IF t = 0 THEN AfterThrow(AfterReturn(n)) ELSE SubSeq(n, 1, t)
=============================================================================
