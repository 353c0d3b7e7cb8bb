-------------------------- MODULE StructuredControl --------------------------
(***************************************************************************)
(* What the statements of the language promise about control, with no      *)
(* completion record in sight: the nesting of constructs grows and shrinks *)
(* one construct at a time, and a break, continue, return or throw goes,   *)
(* in ONE step, to the construct that takes it.  The evaluator does the    *)
(* same by passing a CompletionSpecification outwards one construct at a   *)
(* time; EvaluatorControl shows that it implements this module.            *)
(*                                                                         *)
(* Left out: finally blocks (a jump through one is no single step) and     *)
(* functions run by new.                                                   *)
(***************************************************************************)
EXTENDS Constructs

CONSTANT Labels

VARIABLE path     \* the constructs entered and not left, outermost first

Construct(k, l, inherited) ==
  [kind  |-> k,
   label |-> l,
   ll    |-> IF k \in Activations THEN {}
             ELSE IF k = "Labeled" THEN inherited \cup {l} ELSE inherited,
   armed |-> k = "TryCatch"]

\* The labels of the statement about to be entered: those of the labelled
\* statements it is the body of.
Inherited(n) ==
  IF n # << >> /\ n[Len(n)].kind = "Labeled" THEN n[Len(n)].ll ELSE {}

Program == Construct("Program", NoLabel, {})

-----------------------------------------------------------------------------
Init == path = <<Program>>

\* A program is started after the last one ended.
Start == path = << >> /\ path' = <<Program>>

\* A construct is entered inside the innermost one.
Enter ==
  /\ path # << >> /\ Len(path') = Len(path) + 1
  /\ LET c == path'[Len(path')]
     IN  /\ c = Construct(c.kind, c.label, Inherited(path))
         /\ c.kind \in AllKinds \ {"Program"}
         /\ IF c.kind = "Labeled" THEN c.label \in Labels ELSE c.label = NoLabel
         /\ path' = Append(path, c)

\* The innermost construct ends normally.
Complete == path # << >> /\ path' = SubSeq(path, 1, Len(path) - 1)

Break(l) == path # << >> /\ path' = AfterBreak(path, l)

Continue(l) == path # << >> /\ path' = AfterContinue(path, l)

Return == path # << >> /\ path' = AfterReturn(path)

Throw == path # << >> /\ path' = AfterThrow(path)

Next ==
  \/ Start
  \/ Enter
  \/ Complete
  \/ \E l \in Labels \cup {NoLabel} : Break(l) \/ Continue(l)
  \/ Return
  \/ Throw

Spec == Init /\ [][Next]_path
=============================================================================
