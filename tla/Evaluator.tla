------------------------------ MODULE Evaluator ------------------------------
(***************************************************************************)
(* The statement evaluator, AstEvaluator of src/nabla/evalast.cc.          *)
(*                                                                         *)
(* The C++ methods call each other recursively; the model keeps that call  *)
(* stack in the variable stack, one frame for each EvalStatement_ method   *)
(* (or activation) that is running, and takes one step each time a method  *)
(* calls another or returns.  A jump is what the code makes of it: a       *)
(* CompletionSpecification in cv_ that every method on the stack inspects. *)
(*                                                                         *)
(* The program text is not fixed: whichever statement the grammar allows   *)
(* is chosen when it is reached, so a behaviour of this module is a run of *)
(* some program, and the runs of all programs (of bounded nesting) are     *)
(* behaviours.  An expression is reduced to its outcome (truthy, falsy or  *)
(* an exception, the null any_ref) and to the functions it calls on the    *)
(* way.  cv_.value and the contents of environments are left out.          *)
(***************************************************************************)
EXTENDS Constructs

CONSTANTS
  Labels,       \* the labels the programs use
  Exceptions,   \* the values that may be thrown
  Kinds,        \* the statements and activations the programs use
  MaxDepth,     \* bound: the longest stack
  Jumps         \* bound: which jumps the programs make, see JumpsTaken

ASSUME LabelsAssumption == NoLabel \notin Labels
ASSUME KindsAssumption == Kinds \subseteq AllKinds \ {"Program"}
ASSUME DepthAssumption == MaxDepth \in Nat \ {0}
ASSUME JumpsAssumption == Jumps \in {"any", "taken"}

\* Thread::exception_val when no exception is pending.
Nil == "nil"

ASSUME ExceptionsAssumption == Exceptions # {} /\ Nil \notin Exceptions

VARIABLES
  stack,     \* the methods running, outermost first
  mode,      \* what happens next to the top frame, see Modes
  cv,        \* cv_ of the running AstEvaluator: [type, target]
  env,       \* cur_env_ of the running AstEvaluator: a chain of scopes
  exc        \* Thread::exception_val

vars == <<stack, mode, cv, env, exc>>

(* mode "statement": the top frame calls EvalStatement;                    *)
(* mode "expression": it has called EvalExpressionToValue;                 *)
(* mode "truthy", "falsy", "null": that call returns such a value to it;   *)
(* mode "done": the statement it called returns to it, outcome in cv;      *)
(* mode "ended": context::eval has returned;                               *)
(* mode "crashed": the process died.                                       *)
Modes == {"statement", "expression", "truthy", "falsy", "null", "done",
          "ended", "crashed"}

CompletionTypes == {"Normal", "Break", "Continue", "Return", "Throw"}
Completion == [type : CompletionTypes, target : Labels \cup {NoLabel}]

\* What the AstEvaluator constructor sets.
InitialCompletion == [type |-> "Normal", target |-> NoLabel]

(* An environment is the sequence of its scopes, outermost first, each     *)
(* named by the stack position of the frame that allocated it.             *)
Environment == Seq(Nat)

ExpressionPhases == {"head", "test", "left", "update"}
Phases == ExpressionPhases \cup {"body", "handler", "finalizer"}

\* Mutant of Frame: any statement adds its (null) label to the LabelList.
FrameMutant(k, p, l, inherited) ==
  [kind |-> k, at |-> p, label |-> l, ll |-> inherited \cup {l},
   saved |-> << >>, own |-> << >>, pending |-> InitialCompletion]

(* The locals of a running method.  at: how far it is.  label, ll: the     *)
(* label of a labelled statement and the labels on the LabelList the       *)
(* method was given or made.  saved: cur_env_ before it installed a scope  *)
(* of its own, which is own.  pending: cv_ of the caller's evaluator (an   *)
(* activation) or old_type (a finalizer).                                  *)
Frame(k, p, l, inherited) ==
  [kind |-> k, at |-> p, label |-> l,
   ll |-> IF k = "Labeled" THEN inherited \cup {l} ELSE inherited,
   saved |-> << >>, own |-> << >>, pending |-> InitialCompletion]

Top == stack[Len(stack)]

\* The label_list given to the statement the top frame evaluates.
Inherited == IF Top.kind = "Labeled" THEN Top.ll ELSE {}

\* A method that has made its own scope the current environment.
HasScope(f) == f.own # << >>

\* The nesting of constructs, in the terms of module Constructs.
AsConstruct(f) ==
  [kind |-> f.kind, label |-> f.label, ll |-> f.ll,
   armed |-> f.at = "body" /\ f.kind \in {"TryCatch", "TryCatchFinally"}]
Nesting == [i \in DOMAIN stack |-> AsConstruct(stack[i])]

-----------------------------------------------------------------------------
(* Steps of a method.                                                      *)

Resume(p) == IF p \in ExpressionPhases THEN "expression" ELSE "statement"

Invoke(f) ==
  /\ Len(stack) < MaxDepth
  /\ stack' = Append(stack, f)
  /\ mode' = Resume(f.at)

\* The top method goes on with phase p.
Proceed(p) ==
  /\ stack' = [stack EXCEPT ![Len(stack)].at = p]
  /\ mode' = Resume(p)

ForIns == {"ForIn", "ForInMember"}

\* A for-in loop compares its iterator with names.end().
NamesTested ==
  /\ stack' = [stack EXCEPT ![Len(stack)].at = "test"]
  /\ mode' \in {"truthy", "falsy"}

\* The top method returns, with c in cv_.
Finish(c) ==
  /\ stack' = SubSeq(stack, 1, Len(stack) - 1)
  /\ cv' = c
  /\ mode' = "done"

Becomes(t) == [cv EXCEPT !.type = t]

\* The evaluator and its memory are gone.
Vanish(m) ==
  /\ stack' = << >>
  /\ cv' = InitialCompletion
  /\ env' = << >>
  /\ exc' = Nil
  /\ mode' = m

Crash == Vanish("crashed")

-----------------------------------------------------------------------------
(* The jumps the programs make.                                            *)

LeavesActivation(t) == t = 0 => stack[Base(Nesting)].kind \in {"Call", "New"}

(* A jump some method takes: a return is in a function, a break or a       *)
(* continue has a target or is in a function, which then ends with a       *)
(* SyntaxError.                                                            *)
PlacedBreak(l) == LeavesActivation(BreakTarget(Nesting, l))
PlacedContinue(l) == LeavesActivation(ContinueTarget(Nesting, l))
PlacedReturn == LeavesActivation(0)

(* A break that the methods on its way pass on to what should take it.     *)
(* Not every one is: BreakOrContinueIfLabelMatch loses a labelled break in *)
(* the first loop it leaves that is not its target, and a labelled block   *)
(* ends the process at an unlabelled one.                                  *)
BreakIsTaken(l) ==
  \A i \in Innermost({BreakTarget(Nesting, l), Base(Nesting)}) + 1 .. Len(stack) :
    IF l = NoLabel THEN stack[i].kind # "Labeled" ELSE stack[i].kind \notin Loops

(* Jumps = "any": every jump.  "taken": those of the programs in which     *)
(* every jump is placed and every break is taken.                          *)
JumpsTaken == Jumps = "taken"

-----------------------------------------------------------------------------
(* Entering a statement.                                                   *)

StartPhases(k) ==
  CASE k \in {"If", "While"} -> {"test"}
    [] k \in SimpleKinds \cup {"With", "Switch", "ForIn", "ForInMember"} -> {"head"}
    [] k = "For" -> {"head", "test", "body"}
    [] OTHER -> {"body"}

Enter(k) ==
  /\ mode = "statement"
  /\ k \in Kinds \cap StatementKinds
  /\ JumpsTaken /\ k = "Return" => PlacedReturn
  /\ \E l \in IF k = "Labeled" THEN Labels ELSE {NoLabel}, p \in StartPhases(k) :
       Invoke(Frame(k, p, l, Inherited))
  /\ UNCHANGED <<cv, env, exc>>

\* Also a FunctionDeclaration, which is hoisted and does nothing here.
EmptyStatement ==
  /\ mode = "statement"
  /\ mode' = "done"
  /\ UNCHANGED <<stack, cv, env, exc>>

Target(l) == IF l = NoLabel THEN cv.target ELSE l

BreakStatement(l) ==
  /\ mode = "statement"
  /\ JumpsTaken => PlacedBreak(l) /\ BreakIsTaken(l)
  /\ cv' = [type |-> "Break", target |-> Target(l)]
  /\ mode' = "done"
  /\ UNCHANGED <<stack, env, exc>>

ContinueStatement(l) ==
  /\ mode = "statement"
  /\ JumpsTaken => PlacedContinue(l)
  /\ cv' = [type |-> "Continue", target |-> Target(l)]
  /\ mode' = "done"
  /\ UNCHANGED <<stack, env, exc>>

\* A return statement with no argument.
ReturnUndefined ==
  /\ mode = "statement"
  /\ JumpsTaken => PlacedReturn
  /\ cv' = Becomes("Return")
  /\ mode' = "done"
  /\ UNCHANGED <<stack, env, exc>>

-----------------------------------------------------------------------------
(* Evaluating an expression.                                               *)

Yield(v) ==
  /\ mode = "expression"
  /\ mode' = v
  /\ UNCHANGED <<stack, cv, env, exc>>

\* Any of the Throw functions, and the null any_ref passed up to the statement.
Raise(e) ==
  /\ mode = "expression"
  /\ exc' = e
  /\ mode' = "null"
  /\ UNCHANGED <<stack, cv, env>>

\* The environments a function that is called now can have been created in.
ClosureScopes ==
  {env} \cup {stack[i].own : i \in {j \in DOMAIN stack : HasScope(stack[j])}}

\* A new AstEvaluator runs k in a new scope inside scope.
Activate(k, scope) ==
  LET own == Append(scope, Len(stack) + 1)
  IN  /\ mode = "expression"
      /\ k \in Kinds
      /\ Invoke([Frame(k, "body", NoLabel, {}) EXCEPT
                 !.saved = env, !.own = own, !.pending = cv])
      /\ cv' = InitialCompletion
      /\ env' = own
      /\ UNCHANGED exc

CallFunction == \E s \in ClosureScopes : Activate("Call", s)

Construct == \E s \in ClosureScopes : Activate("New", s)

\* The nested program's environment has no outer environment.
Evalcx == Activate("Evalcx", << >>)

-----------------------------------------------------------------------------
(* An expression returns to the method that asked for it.                  *)

Returned(k, p) == mode \in {"truthy", "falsy"} /\ Top.kind \in k /\ Top.at = p

\* EvalExpressionAndGetCompletion, and every use of EvalExpressionToValue by
\* a statement: the exception becomes the statement's completion.
ExpressionThrows ==
  /\ mode = "null"
  /\ ~(Top.kind = "ForInMember" /\ Top.at = "left")
  /\ Finish(Becomes("Throw"))
  /\ UNCHANGED <<env, exc>>

\* In for (o.p in e), an exception in o.p or in storing to it only returns.
ForInMemberThrows ==
  /\ mode = "null"
  /\ Top.kind = "ForInMember" /\ Top.at = "left"
  /\ Finish(cv)
  /\ UNCHANGED <<env, exc>>

SimpleStatementEnds ==
  /\ Returned({"Expression", "Var"}, "head")
  /\ Finish(cv)
  /\ UNCHANGED <<env, exc>>

ReturnValue ==
  /\ Returned({"Return"}, "head")
  /\ Finish(Becomes("Return"))
  /\ UNCHANGED <<env, exc>>

ThrowStatement(e) ==
  /\ Returned({"Throw"}, "head")
  /\ exc' = e
  /\ Finish(Becomes("Throw"))
  /\ UNCHANGED env

IfTest ==
  /\ Returned({"If"}, "test")
  /\ \/ Proceed("body") /\ UNCHANGED cv
     \/ mode = "falsy" /\ Finish(cv)    \* and there is no else
  /\ UNCHANGED <<env, exc>>

LoopTest ==
  /\ Returned(Loops, "test")
  /\ \/ /\ mode = "truthy"
        /\ Proceed(IF Top.kind \in ForIns THEN "left" ELSE "body")
        /\ UNCHANGED cv
     \/ mode = "falsy" /\ Finish(cv)
  /\ UNCHANGED <<env, exc>>

\* After init and after update, for(;;) has a test or not.  When init is a
\* declaration its completion is inspected: a jump still pending ends the loop.
ForContinues ==
  /\ Returned({"For"}, "head") \/ Returned({"For"}, "update")
  /\ \/ \E p \in {"test", "body"} : Proceed(p) /\ UNCHANGED cv
     \/ Top.at = "head" /\ cv.type # "Normal" /\ Finish(cv)
  /\ UNCHANGED <<env, exc>>

\* The object is null or undefined; or names are collected and, as before
\* every name, tested for their end.
ForInStarts ==
  /\ Returned(ForIns, "head")
  /\ \/ NamesTested /\ UNCHANGED cv
     \/ Finish(cv)
  /\ UNCHANGED <<env, exc>>

ForInStored ==
  /\ Returned(ForIns, "left")
  /\ Proceed("body")
  /\ UNCHANGED <<cv, env, exc>>

\* The next case is tested; or one is selected (it matches, or it is the
\* default and none does); or there is none.
SwitchSelects ==
  /\ Returned({"Switch"}, "head") \/ Returned({"Switch"}, "test")
  /\ \/ \E p \in {"test", "body"} : Proceed(p) /\ UNCHANGED cv
     \/ Finish(cv)
  /\ UNCHANGED <<env, exc>>

\* ToObject succeeds and its result becomes the innermost scope.
WithEnters ==
  LET own == Append(env, Len(stack))
  IN  /\ Returned({"With"}, "head")
      /\ stack' = [stack EXCEPT ![Len(stack)] =
                     [@ EXCEPT !.at = "body", !.saved = env, !.own = own]]
      /\ mode' = "statement"
      /\ env' = own
      /\ UNCHANGED <<cv, exc>>

\* ToObject throws, for undefined and null.
WithThrows(e) ==
  /\ Returned({"With"}, "head") /\ mode = "falsy"
  /\ exc' = e
  /\ Finish(Becomes("Throw"))
  /\ UNCHANGED env

-----------------------------------------------------------------------------
(* A statement returns to the method that evaluated it.                    *)

Finished(k) == mode = "done" /\ Top.kind \in k

Sequences == {"Block", "Switch", "Program", "Evalcx"}

\* The next statement of a block, of the cases of a switch or of a program.
NextStatement ==
  /\ Finished(Sequences)
  /\ cv.type = "Normal"
  /\ mode' = "statement"
  /\ UNCHANGED <<stack, cv, env, exc>>

\* The last statement of a block is done, or one completed abruptly.
BlockEnds ==
  /\ Finished({"Block"})
  /\ Finish(cv)
  /\ UNCHANGED <<env, exc>>

IfEnds ==
  /\ Finished({"If"})
  /\ Finish(cv)
  /\ UNCHANGED <<env, exc>>

\* A null target is compared with the label through a null pointer.
LabeledEnds ==
  /\ Finished({"Labeled"})
  /\ IF cv.type = "Break" /\ cv.target = NoLabel
     THEN Crash
     ELSE /\ Finish(IF cv.type = "Break" /\ cv.target = Top.label
                    THEN InitialCompletion ELSE cv)
          /\ UNCHANGED <<env, exc>>

\* Mutant of WithEnds: the scope is kept when the body is left by a jump.
WithEndsMutant ==
  /\ Finished({"With"})
  /\ Finish(cv)
  /\ env' = IF cv.type = "Normal" THEN Top.saved ELSE env
  /\ UNCHANGED exc

WithEnds ==
  /\ Finished({"With"})
  /\ Finish(cv)
  /\ env' = Top.saved
  /\ UNCHANGED exc

CheckIfLabelMatch(ll) == cv.target = NoLabel \/ cv.target \in ll

\* Mutant of SwitchEnds: the switch takes a break for any label.
SwitchEndsMutant ==
  /\ Finished({"Switch"})
  /\ Finish(IF cv.type = "Break" THEN InitialCompletion ELSE cv)
  /\ UNCHANGED <<env, exc>>

SwitchEnds ==
  /\ Finished({"Switch"})
  /\ Finish(IF cv.type = "Break" /\ CheckIfLabelMatch(Top.ll)
            THEN InitialCompletion ELSE cv)
  /\ UNCHANGED <<env, exc>>

\* Mutant of BreakOrContinueIfLabelMatch: the target outlives the jump.
BreakOrContinueMutantTarget(ll) ==
  LET matched == cv.type \in {"Break", "Continue"} /\ CheckIfLabelMatch(ll)
  IN  [cv     |-> IF matched THEN Becomes("Normal") ELSE cv,
       result |-> cv.type = "Normal" \/ (cv.type = "Continue" /\ matched)]

\* Mutant of BreakOrContinueIfLabelMatch: a loop goes on after an exception.
BreakOrContinueMutantThrow(ll) ==
  LET matched == cv.type \in {"Break", "Continue"} /\ CheckIfLabelMatch(ll)
  IN  [cv     |-> IF matched THEN InitialCompletion ELSE cv,
       result |-> \/ cv.type \in {"Normal", "Throw"}
                  \/ cv.type = "Continue" /\ matched]

\* Mutant of BreakOrContinueIfLabelMatch: a loop takes every continue for its
\* own, but leaves a labelled one pending.
BreakOrContinueMutantResult(ll) ==
  LET matched == cv.type \in {"Break", "Continue"} /\ CheckIfLabelMatch(ll)
  IN  [cv     |-> IF matched THEN InitialCompletion ELSE cv,
       result |-> cv.type = "Normal" \/ cv.type = "Continue"]

(* BreakOrContinueIfLabelMatch: what cv_ becomes, and whether the loop     *)
(* goes on, which it also does when a break is for another statement.      *)
BreakOrContinueIfLabelMatch(ll) ==
  LET matched == cv.type \in {"Break", "Continue"} /\ CheckIfLabelMatch(ll)
  IN  [cv     |-> IF matched THEN InitialCompletion ELSE cv,
       result |-> \/ cv.type = "Normal"
                  \/ cv.type = "Break" /\ ~matched
                  \/ cv.type = "Continue" /\ matched]

LoopContinues ==
  \/ Top.kind \in {"While", "DoWhile"} /\ Proceed("test")
  \/ Top.kind = "For" /\ \E p \in {"update", "test", "body"} : Proceed(p)
  \/ Top.kind \in ForIns /\ NamesTested

LoopBodyEnds ==
  /\ Finished(Loops)
  /\ LET r == BreakOrContinueIfLabelMatch(Top.ll)
     IN  IF r.result THEN LoopContinues /\ cv' = r.cv ELSE Finish(r.cv)
  /\ UNCHANGED <<env, exc>>

-----------------------------------------------------------------------------
(* The try statement.                                                      *)

HasHandler == Top.kind \in {"TryCatch", "TryCatchFinally"}
HasFinalizer == Top.kind \in {"TryFinally", "TryCatchFinally"}

\* Mutant of FinalizerOrEnd: a return in the block skips the finalizer.
FinalizerOrEndMutant(type) ==
  IF HasFinalizer /\ type # "Return"
  THEN /\ stack' = [stack EXCEPT ![Len(stack)] =
                      [@ EXCEPT !.at = "finalizer", !.pending.type = type]]
       /\ mode' = "statement"
       /\ cv' = Becomes(type)
  ELSE Finish(Becomes(type))

\* The finalizer, with type kept in old_type, or the end of the statement.
FinalizerOrEnd(type) ==
  IF HasFinalizer
  THEN /\ stack' = [stack EXCEPT ![Len(stack)] =
                      [@ EXCEPT !.at = "finalizer", !.pending.type = type]]
       /\ mode' = "statement"
       /\ cv' = Becomes(type)
  ELSE Finish(Becomes(type))

\* Mutant of BlockThrows: the completion type is not reset.
BlockThrowsMutant ==
  /\ Finished({"TryCatch", "TryCatchFinally"})
  /\ Top.at = "body" /\ cv.type = "Throw"
  /\ IF exc = Nil
     THEN Crash
     ELSE /\ Proceed("handler")
          /\ exc' = Nil
          /\ UNCHANGED <<cv, env>>

\* EvalCatchClause takes the pending exception, which must be there.
BlockThrows ==
  /\ Finished({"TryCatch", "TryCatchFinally"})
  /\ Top.at = "body" /\ cv.type = "Throw"
  /\ IF exc = Nil
     THEN Crash
     ELSE /\ Proceed("handler")
          /\ cv' = Becomes("Normal")
          /\ exc' = Nil
          /\ UNCHANGED env

\* The block did not throw; or it did, and there is no handler.
BlockCompletes ==
  /\ Finished(TryKinds)
  /\ Top.at = "body" /\ ~(HasHandler /\ cv.type = "Throw")
  /\ FinalizerOrEnd(IF cv.type = "Throw" THEN "Normal" ELSE cv.type)
  /\ UNCHANGED <<env, exc>>

HandlerEnds ==
  /\ Finished(TryKinds)
  /\ Top.at = "handler"
  /\ FinalizerOrEnd(cv.type)
  /\ UNCHANGED <<env, exc>>

FinalizerEnds ==
  /\ Finished(TryKinds)
  /\ Top.at = "finalizer"
  /\ Finish(Becomes(Top.pending.type))
  /\ UNCHANGED <<env, exc>>

-----------------------------------------------------------------------------
(* The end of an activation.                                               *)

\* The caller's evaluator goes on, with its own cv_ and cur_env_; a null
\* result ends its expression.
GiveBack(isNull) ==
  /\ stack' = SubSeq(stack, 1, Len(stack) - 1)
  /\ cv' = Top.pending
  /\ env' = Top.saved
  /\ mode' = IF isNull THEN "null" ELSE "expression"

\* CallFunction_; Construct gives its object back even for a null result.
FunctionEnds ==
  /\ Finished({"Call", "New"})
  /\ GiveBack(Top.kind = "Call" /\ cv.type \notin {"Normal", "Return"})
  /\ IF cv.type \in {"Break", "Continue"}
     THEN exc' \in Exceptions      \* a SyntaxError
     ELSE UNCHANGED exc

EvalcxEnds ==
  /\ Finished({"Evalcx"})
  /\ GiveBack(cv.type # "Normal")
  /\ UNCHANGED exc

\* context::eval takes the exception when EvalProgram returned null, and
\* aborts when there is none; then its Thread is gone.
ProgramEnds ==
  /\ Finished({"Program"})
  /\ IF cv.type # "Normal" /\ exc = Nil
     THEN Crash
     ELSE Vanish("ended")

-----------------------------------------------------------------------------
ProgramFrame == [Frame("Program", "body", NoLabel, {}) EXCEPT !.own = <<1>>]

Init ==
  /\ stack = <<ProgramFrame>>
  /\ mode = "statement"
  /\ cv = InitialCompletion
  /\ env = <<1>>
  /\ exc = Nil

\* The next context::eval, in this process or, after a crash, in another.
NextProgram ==
  /\ mode \in {"ended", "crashed"}
  /\ stack' = <<ProgramFrame>>
  /\ mode' = "statement"
  /\ cv' = InitialCompletion
  /\ env' = <<1>>
  /\ exc' = Nil

EnterStatement ==
  \/ \E k \in Kinds : Enter(k)
  \/ EmptyStatement
  \/ \E l \in Labels \cup {NoLabel} : BreakStatement(l) \/ ContinueStatement(l)
  \/ ReturnUndefined

Evaluate ==
  \/ \E v \in {"truthy", "falsy"} : Yield(v)
  \/ \E e \in Exceptions : Raise(e)
  \/ CallFunction
  \/ Construct
  \/ Evalcx

ExpressionReturns ==
  \/ ExpressionThrows
  \/ ForInMemberThrows
  \/ SimpleStatementEnds
  \/ ReturnValue
  \/ \E e \in Exceptions : ThrowStatement(e) \/ WithThrows(e)
  \/ IfTest
  \/ LoopTest
  \/ ForContinues
  \/ ForInStarts
  \/ ForInStored
  \/ SwitchSelects
  \/ WithEnters

StatementReturns ==
  \/ NextStatement
  \/ BlockEnds
  \/ IfEnds
  \/ LabeledEnds
  \/ WithEnds
  \/ SwitchEnds
  \/ LoopBodyEnds
  \/ BlockThrows
  \/ BlockCompletes
  \/ HandlerEnds
  \/ FinalizerEnds

ActivationEnds == FunctionEnds \/ EvalcxEnds \/ ProgramEnds

Next ==
  \/ EnterStatement
  \/ Evaluate
  \/ ExpressionReturns
  \/ StatementReturns
  \/ ActivationEnds
  \/ NextProgram

Spec == Init /\ [][Next]_vars

\* The interpreter is one thread that nothing blocks: it keeps taking steps.
FairSpec == Spec /\ WF_vars(Next)
=============================================================================
