----------------------------- MODULE MCEvaluator -----------------------------
(***************************************************************************)
(* Instances of Evaluator for TLC.                                         *)
(***************************************************************************)
EXTENDS EvaluatorControl

CONSTANTS a, b, e1

LabelsOne == {a}
LabelsTwo == {a, b}
ExceptionsOne == {e1}

EveryKind == AllKinds \ {"Program"}

Finalizers == {"TryFinally", "TryCatchFinally"}
NoFinalizer == EveryKind \ Finalizers

\* Jumps and exceptions through all that they can cross.
JumpKinds == {"Block", "Labeled", "While", "Switch", "ForIn", "With", "Expression",
              "TryCatch", "Throw", "Call", "Evalcx"}

\* A try in a finalizer.
TryInFinalizer == {"TryCatch", "TryCatchFinally", "Throw"}
=============================================================================
