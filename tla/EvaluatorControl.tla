--------------------------- MODULE EvaluatorControl ---------------------------
(***************************************************************************)
(* The properties of module Evaluator, and the proof obligation that it    *)
(* implements StructuredControl.                                           *)
(***************************************************************************)
EXTENDS Evaluator

FrameType ==
  [kind : AllKinds, at : Phases, label : Labels \cup {NoLabel},
   ll : SUBSET Labels, saved : Environment, own : Environment,
   pending : Completion]

TypeOK ==
  /\ stack \in Seq(FrameType)
  /\ mode \in Modes
  /\ cv \in Completion
  /\ env \in Environment
  /\ exc \in Exceptions \cup {Nil}

-----------------------------------------------------------------------------
(* Scopes.                                                                 *)

\* In stack s, the frame at i made the innermost of the scopes below position n.
InnermostScope(s, i, n) ==
  /\ i \in DOMAIN s /\ i < n /\ HasScope(s[i])
  /\ \A j \in i + 1 .. n - 1 : ~HasScope(s[j])

(* Whatever way control took in and out of with statements and functions   *)
(* (normal ends, jumps, exceptions, finalizers), cur_env_ is the           *)
(* environment of the innermost of them that is still running, so an       *)
(* identifier is resolved in the scope it is written in; and each of them  *)
(* will give back the environment of the next one out.                     *)
ScopeDiscipline ==
  /\ \A i \in DOMAIN stack :
       InnermostScope(stack, i, Len(stack) + 1) => env = stack[i].own
  /\ \A i, j \in DOMAIN stack :
       HasScope(stack[j]) /\ InnermostScope(stack, i, j) => stack[j].saved = stack[i].own

-----------------------------------------------------------------------------
(* Completions.                                                            *)

(* No statement or expression is evaluated while a jump or an exception is *)
(* on its way out: every EvalStatement_ method takes the completion it     *)
(* finds in cv_ after a sub-statement for that sub-statement's own.        *)
StartsNormal ==
  mode \in {"statement", "expression", "truthy", "falsy", "null"}
    => cv = InitialCompletion

(* The null any_ref and the completion type kThrow stand for an exception  *)
(* that is there to be caught: Catch() never finds none                    *)
(* (assert(!!rval) in EvalCatchClause, assert(!!val) in context::eval).    *)
ExceptionPending ==
  mode = "null" \/ (mode = "done" /\ cv.type = "Throw") => exc # Nil

(* A try statement is left only through its finalizer, however its block   *)
(* and its handler end.                                                    *)
FinalizerAlwaysRuns ==
  [][stack # << >> /\ Top.kind \in {"TryFinally", "TryCatchFinally"}
       /\ Len(stack') < Len(stack) /\ mode' # "crashed"
     => Top.at = "finalizer"]_vars

-----------------------------------------------------------------------------
(* Jumps: the nesting of constructs that is left once the pending          *)
(* completion has got to where it is going.                                *)

Throwing == mode = "null" \/ (mode = "done" /\ cv.type = "Throw")

Destination ==
  CASE Throwing -> AfterThrow(Nesting)
    [] ~Throwing /\ mode = "done" /\ cv.type = "Break" ->
         AfterBreak(Nesting, cv.target)
    [] ~Throwing /\ mode = "done" /\ cv.type = "Continue" ->
         AfterContinue(Nesting, cv.target)
    [] ~Throwing /\ mode = "done" /\ cv.type = "Return" -> AfterReturn(Nesting)
    [] OTHER -> Nesting

(* Each step of the evaluator is a step of StructuredControl or none: the  *)
(* statement that requests a jump is the jump, and passing the completion  *)
(* outwards is no step at all.                                             *)
Control == INSTANCE StructuredControl WITH path <- Destination
ImplementsStructuredControl == Control!Spec

(* While a completion is passed outwards, no method on the way changes     *)
(* where it lands.                                                         *)
Jumping == Throwing \/ (mode = "done" /\ cv.type # "Normal")
DestinationKept == [][Jumping => Destination' = Destination]_vars

(* A jump or an exception reaches its destination: no evaluator goes on    *)
(* with it pending for ever, in a loop for instance.                       *)
Pending ==
  \/ Throwing
  \/ cv.type # "Normal"
  \/ \E i \in DOMAIN stack : stack[i].pending.type # "Normal"
JumpsLand == Pending ~> ~Pending

-----------------------------------------------------------------------------
\* EvalCatchClause: assert(!!rval), rval being what Catch() returned.
CatchFindsException ==
  mode = "done" /\ Top.kind \in {"TryCatch", "TryCatchFinally"}
    /\ Top.at = "body" /\ cv.type = "Throw"
  => exc # Nil
=============================================================================
