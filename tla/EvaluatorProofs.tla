--------------------------- MODULE EvaluatorProofs ---------------------------
(***************************************************************************)
(* Proofs about module Evaluator, for any labels, exceptions and nesting   *)
(* depth.                                                                  *)
(*                                                                         *)
(* Scopes, for any statements and any jumps.  The inductive invariant is   *)
(* IInv.  Scopes alone are not inductive: that a popped frame had none, or *)
(* that the frame under it is the one to give its environment back to,     *)
(* follows from CallNesting.  Each action is first shown to be one of nine *)
(* kinds of step on the stack and the environment (lemma NextSteps), and   *)
(* the invariant is then proved for each kind.                             *)
(*                                                                         *)
(* Jumps, for programs whose jumps the code takes where they should go     *)
(* (Jumps = "taken") and that have no finally, whose block runs with the   *)
(* jump still in cv_.  The inductive invariant is ControlInv.  That        *)
(* nothing is pending when a statement starts follows from the method that *)
(* took the jump having reset cv_, so it must be known that some method    *)
(* takes it before the program's outermost one hands it to nobody, and     *)
(* that none on the way alters it: Reaches says both of the frames that    *)
(* are there, PlacedBreak and BreakIsTaken of the nesting when the jump is *)
(* made (lemmas after NestingOf).                                          *)
(*                                                                         *)
(* The implementation of StructuredControl rests on ControlInv.  Returning *)
(* a jump from a method it passes leaves Destination alone, as choosing    *)
(* the innermost construct that takes it does not see the one returned     *)
(* from (lemmas ThrowFront, BreakFront, ContinueFront, ReturnFront), and   *)
(* the method that takes it is where Destination ends (the lemmas Top).    *)
(***************************************************************************)
EXTENDS EvaluatorControl, SequenceTheorems, WellFoundedInduction, TLAPS

\* A set of numbers that is not empty has a least element.
LEMMA Minimum ==
  ASSUME NEW S \in SUBSET Nat, S # {}
  PROVE  \E x \in S : \A y \in S : x <= y
<1> DEFINE Below == {pair \in Nat \X Nat : pair[1] < pair[2]}
<1>1. IsWellFoundedOn(Below, Nat)
  BY NatLessThanWellFounded, Zenon DEF OpToRel
<1>2. \E x \in S : \A y \in S : ~ (<<y, x>> \in Below)
  <2> HIDE DEF Below
  <2>. QED BY <1>1, WFMin
<1>3. PICK x \in S : \A y \in S : ~ (<<y, x>> \in Below)
  BY <1>2
<1>4. ASSUME NEW y \in S PROVE x <= y
  <2>1. <<y, x>> \notin Below /\ x \in Nat /\ y \in Nat
    BY <1>3
  <2>2. ~ (y < x)
    BY <2>1
  <2>. QED BY <2>1, <2>2
<1>. QED BY <1>4

\* A bounded one has a greatest.
LEMMA Maximum ==
  ASSUME NEW n \in Nat, NEW S \in SUBSET (1 .. n), S # {}
  PROVE  \E x \in S : \A y \in S : y <= x
<1> DEFINE T == {k \in Nat : \E y \in S : k + y = n}
<1>1. T # {} /\ T \in SUBSET Nat
  <2>1. PICK y \in S : TRUE
    OBVIOUS
  <2>2. n - y \in Nat /\ (n - y) + y = n
    BY <2>1
  <2> QED
    BY <2>1, <2>2
<1>2. PICK k \in T : \A m \in T : k <= m
  <2> HIDE DEF T
  <2> QED
    BY <1>1, Minimum
<1>3. PICK x \in S : k + x = n
  BY <1>2
<1>4. ASSUME NEW y \in S PROVE y <= x
  <2>1. n - y \in T
    <3>1. n - y \in Nat /\ (n - y) + y = n
      OBVIOUS
    <3> QED
      BY <3>1
  <2>2. k <= n - y
    BY <2>1, <1>2
  <2> QED
    BY <2>2, <1>3
<1> QED
  BY <1>4

-----------------------------------------------------------------------------
(* The inductive invariant.                                                *)

Running == mode \notin {"ended", "crashed"}

\* The frame of stack s at i is where its kind of method can be, and called
\* from where such a method is called.
WellNested(s, i) ==
  /\ s[i].kind = "Program" <=> i = 1
  /\ s[i].kind \in Activations => s[i].at = "body"
  /\ s[i].kind = "With" => s[i].at \in {"head", "body"}
  /\ s[i].kind \in TryKinds => s[i].at \notin ExpressionPhases
  /\ HasScope(s[i]) <=>
       (s[i].kind \in Activations \/ (s[i].kind = "With" /\ s[i].at = "body"))
  /\ i > 1 => (s[i].kind \in Activations <=> s[i - 1].at \in ExpressionPhases)

\* Activations run for methods that await an expression, statements for methods
\* that do not; a method has a scope exactly while it is an activation or runs
\* the body of a with statement.
CallNesting ==
  /\ Running <=> stack # << >>
  /\ mode \in {"expression", "truthy", "falsy", "null"} => Top.at \in ExpressionPhases
  /\ mode \in {"statement", "done"} => Top.at \notin ExpressionPhases
  /\ \A i \in DOMAIN stack : WellNested(stack, i)

IInv == TypeOK /\ CallNesting /\ ScopeDiscipline

ExpressionModes == {"expression", "truthy", "falsy", "null"}
StatementModes == {"statement", "done"}

\* The mode a frame that is at p is resumed in.
Fits(m, p) == IF p \in ExpressionPhases THEN m \in ExpressionModes
                                        ELSE m \in StatementModes

\* A try statement evaluates no expression.
AwaitsIn(f) == f.kind \in TryKinds => f.at \notin ExpressionPhases

-----------------------------------------------------------------------------
(* The kinds of step.                                                      *)

Idles ==
  /\ UNCHANGED <<stack, env>>
  /\ \/ mode \in ExpressionModes /\ mode' \in ExpressionModes
     \/ mode \in StatementModes /\ mode' \in StatementModes

Enters(f) ==
  /\ mode \in StatementModes
  /\ f \in FrameType /\ f.kind \in StatementKinds /\ f.own = << >>
  /\ f.kind = "With" => f.at = "head"
  /\ AwaitsIn(f)
  /\ stack' = Append(stack, f)
  /\ env' = env
  /\ Fits(mode', f.at)

Activates(f) ==
  /\ mode \in ExpressionModes
  /\ f \in FrameType /\ f.kind \in Activations \ {"Program"} /\ f.at = "body"
  /\ f.own # << >> /\ f.saved = env
  /\ stack' = Append(stack, f)
  /\ env' = f.own
  /\ mode' \in StatementModes

Moves(f) ==
  /\ mode \in ExpressionModes \cup StatementModes
  /\ Top.kind \in StatementKinds \ {"With"}
  /\ f \in FrameType /\ f.kind = Top.kind /\ f.own = Top.own /\ AwaitsIn(f)
  /\ stack' = [stack EXCEPT ![Len(stack)] = f]
  /\ env' = env
  /\ Fits(mode', f.at)

TakesScope(f) ==
  /\ mode \in ExpressionModes
  /\ Top.kind = "With"
  /\ f \in FrameType /\ f.kind = "With" /\ f.at = "body"
  /\ f.own # << >> /\ f.saved = env
  /\ stack' = [stack EXCEPT ![Len(stack)] = f]
  /\ env' = f.own
  /\ mode' \in StatementModes

Pops == stack' = SubSeq(stack, 1, Len(stack) - 1)

Leaves ==
  /\ mode \in ExpressionModes \cup StatementModes
  /\ Top.kind \in StatementKinds
  /\ Top.kind = "With" => mode \in ExpressionModes
  /\ Pops
  /\ env' = env
  /\ mode' \in StatementModes

LeavesScope ==
  /\ mode \in StatementModes
  /\ \/ Top.kind = "With" /\ mode' \in StatementModes
     \/ Top.kind \in Activations \ {"Program"} /\ mode' \in ExpressionModes
  /\ Pops
  /\ env' = Top.saved

Vanishes == stack' = << >> /\ env' = << >> /\ mode' \in {"ended", "crashed"}

Restarts == stack' = <<ProgramFrame>> /\ env' = <<1>> /\ mode' = "statement"

Step ==
  \/ Idles
  \/ \E f \in FrameType : Enters(f) \/ Activates(f) \/ Moves(f) \/ TakesScope(f)
  \/ Leaves
  \/ LeavesScope
  \/ Vanishes
  \/ Restarts

-----------------------------------------------------------------------------
(* Facts about kinds, frames and the top of the stack.                     *)

LEMMA KindsDisjoint ==
  /\ StatementKinds \cap Activations = {}
  /\ AllKinds = StatementKinds \cup Activations
  /\ "With" \in StatementKinds /\ "Program" \in Activations
  /\ TryKinds \subseteq StatementKinds /\ Loops \subseteq StatementKinds
  /\ SimpleKinds \subseteq StatementKinds
BY DEF StatementKinds, Activations, AllKinds, TryKinds, Loops, SimpleKinds

LEMMA FrameTypes ==
  ASSUME NEW k \in AllKinds, NEW p \in Phases, NEW l \in Labels \cup {NoLabel},
         k = "Labeled" => l \in Labels, NEW inherited \in SUBSET Labels
  PROVE  /\ Frame(k, p, l, inherited) \in FrameType
         /\ Frame(k, p, l, inherited).kind = k
         /\ Frame(k, p, l, inherited).at = p
         /\ Frame(k, p, l, inherited).own = << >>
BY DEF Frame, FrameType, InitialCompletion, Completion, CompletionTypes, Environment

LEMMA TopType ==
  ASSUME TypeOK, stack # << >>
  PROVE  Len(stack) \in DOMAIN stack /\ Top \in FrameType /\ Len(stack) \in Nat \ {0}
BY DEF TypeOK, Top

LEMMA InheritedType ==
  ASSUME TypeOK, stack # << >>
  PROVE  Inherited \in SUBSET Labels
BY TopType DEF Inherited, FrameType

LEMMA ProgramFrameType ==
  /\ ProgramFrame \in FrameType /\ ProgramFrame.kind = "Program"
  /\ ProgramFrame.at = "body" /\ ProgramFrame.own = <<1>>
<1>1. /\ Frame("Program", "body", NoLabel, {}) \in FrameType
      /\ Frame("Program", "body", NoLabel, {}).kind = "Program"
      /\ Frame("Program", "body", NoLabel, {}).at = "body"
  BY FrameTypes, KindsDisjoint DEF Phases
<1>2. <<1>> \in Environment
  BY DEF Environment
<1>. QED
  BY <1>1, <1>2 DEF ProgramFrame, FrameType

\* Every element of a sequence but the last.
LEMMA FrontOfSeq ==
  ASSUME NEW S, NEW s \in Seq(S), s # << >>
  PROVE  /\ SubSeq(s, 1, Len(s) - 1) \in Seq(S)
         /\ Len(SubSeq(s, 1, Len(s) - 1)) = Len(s) - 1
         /\ \A i \in 1 .. Len(s) - 1 : SubSeq(s, 1, Len(s) - 1)[i] = s[i]
<1>1. Len(s) - 1 \in Nat /\ \A i \in 1 .. Len(s) - 1 : s[i] \in S
  OBVIOUS
<1>2. \A n \in Nat : (\A i \in 1 .. n : s[i] \in S)
        => /\ SubSeq(s, 1, n) \in Seq(S)
           /\ Len(SubSeq(s, 1, n)) = n
           /\ \A i \in 1 .. n : SubSeq(s, 1, n)[i] = s[i]
  BY SubSeqProperties
<1>. QED
  BY <1>1, <1>2, Zenon

\* Only the frame and the one under it say whether a frame is well nested.
LEMMA WellNestedKept ==
  ASSUME NEW s, NEW t, NEW i \in Nat, t[i] = s[i], i > 1 => t[i - 1] = s[i - 1],
         WellNested(s, i)
  PROVE  WellNested(t, i)
BY DEF WellNested, HasScope

LEMMA PopProperties ==
  ASSUME TypeOK, stack # << >>, Pops
  PROVE  /\ stack' \in Seq(FrameType)
         /\ Len(stack') = Len(stack) - 1
         /\ \A i \in 1 .. Len(stack) - 1 : stack'[i] = stack[i]
BY FrontOfSeq, Zenon DEF TypeOK, Pops

LEMMA AppendFrame ==
  ASSUME TypeOK, NEW f \in FrameType, stack' = Append(stack, f)
  PROVE  /\ stack' \in Seq(FrameType)
         /\ Len(stack') = Len(stack) + 1
         /\ \A i \in 1 .. Len(stack) : stack'[i] = stack[i]
         /\ stack'[Len(stack) + 1] = f
BY AppendProperties DEF TypeOK

\* Whatever is appended, the sequence is longer.
LEMMA AppendLonger ==
  ASSUME NEW S, NEW s \in Seq(S), NEW f
  PROVE  Len(Append(s, f)) = Len(s) + 1
OBVIOUS

LEMMA ReplaceFrame ==
  ASSUME TypeOK, stack # << >>, NEW f \in FrameType,
         stack' = [stack EXCEPT ![Len(stack)] = f]
  PROVE  /\ stack' \in Seq(FrameType)
         /\ Len(stack') = Len(stack)
         /\ \A i \in 1 .. Len(stack) - 1 : stack'[i] = stack[i]
         /\ stack'[Len(stack)] = f
BY TopType, ExceptSeq DEF TypeOK
-----------------------------------------------------------------------------
(* Each kind of step preserves the nesting of calls and of scopes.         *)

StackAndEnv == stack \in Seq(FrameType) /\ env \in Environment

LEMMA EntersPreserves ==
  ASSUME IInv, NEW f \in FrameType, Enters(f)
  PROVE  (StackAndEnv /\ CallNesting /\ ScopeDiscipline)'
<1>. DEFINE n == Len(stack)
<1>1. /\ stack # << >> /\ n \in Nat \ {0} /\ DOMAIN stack = 1 .. n
      /\ Top.at \notin ExpressionPhases
  BY TopType DEF IInv, CallNesting, Running, Enters, StatementModes, TypeOK
<1>2. /\ stack' \in Seq(FrameType) /\ Len(stack') = n + 1 /\ DOMAIN stack' = 1 .. n + 1
      /\ \A i \in 1 .. n : stack'[i] = stack[i]
      /\ stack'[n + 1] = f
  BY AppendFrame DEF IInv, Enters
<1>3. /\ f.kind \in StatementKinds /\ f.kind \notin Activations /\ f.own = << >>
      /\ f.kind = "With" => f.at = "head"
      /\ f.kind \in TryKinds => f.at \notin ExpressionPhases
      /\ Fits(mode', f.at) /\ env' = env
  BY KindsDisjoint DEF Enters, AwaitsIn
<1>4. Top' = f
  BY <1>2 DEF Top
<1>5. StackAndEnv'
  BY <1>2, <1>3 DEF StackAndEnv, IInv, TypeOK
<1>6. CallNesting'
  <2>1. (Running <=> stack # << >>)'
    BY <1>2, <1>3 DEF Running, Fits, ExpressionModes, StatementModes
  <2>2. /\ (mode \in {"expression", "truthy", "falsy", "null"} => Top.at \in ExpressionPhases)'
        /\ (mode \in {"statement", "done"} => Top.at \notin ExpressionPhases)'
    BY <1>3, <1>4 DEF Fits, ExpressionModes, StatementModes
  <2>3. ASSUME NEW i \in 1 .. n + 1
        PROVE  WellNested(stack', i)
    <3>1. CASE i \in 1 .. n
      <4>1. WellNested(stack, i) /\ stack'[i] = stack[i] /\ (i > 1 => stack'[i - 1] = stack[i - 1])
        BY <3>1, <1>1, <1>2 DEF IInv, CallNesting
      <4>. QED
        BY <4>1, WellNestedKept
    <3>2. CASE i = n + 1
      BY <3>2, <1>1, <1>2, <1>3, KindsDisjoint DEF WellNested, HasScope, Top
    <3>. QED
      BY <3>1, <3>2, <1>1
  <2>. QED
    BY <2>1, <2>2, <2>3, <1>2 DEF CallNesting
<1>7. ScopeDiscipline'
  <2>1. ASSUME NEW i \in 1 .. n + 1, NEW j \in 1 .. n + 1, InnermostScope(stack', i, j)
        PROVE  i \in 1 .. n /\ InnermostScope(stack, i, j)
    BY <2>1, <1>1, <1>2 DEF InnermostScope
  <2>2. ASSUME NEW i \in 1 .. n + 1, InnermostScope(stack', i, n + 2)
        PROVE  env' = stack'[i].own
    <3>1. i \in 1 .. n /\ InnermostScope(stack, i, n + 1)
      BY <2>2, <1>1, <1>2, <1>3 DEF InnermostScope, HasScope
    <3>. QED
      BY <3>1, <1>1, <1>2, <1>3 DEF IInv, ScopeDiscipline
  <2>3. ASSUME NEW i \in 1 .. n + 1, NEW j \in 1 .. n + 1,
               HasScope(stack'[j]), InnermostScope(stack', i, j)
        PROVE  stack'[j].saved = stack'[i].own
    <3>1. j # n + 1
      BY <2>3, <1>2, <1>3 DEF HasScope
    <3>2. i \in 1 .. n /\ InnermostScope(stack, i, j)
      BY <2>1, <2>3, <1>1
    <3>. QED
      BY <2>3, <3>1, <3>2, <1>1, <1>2 DEF IInv, ScopeDiscipline
  <2>4. Len(stack') + 1 = n + 2
    BY <1>1, <1>2
  <2>. QED
    BY <2>2, <2>3, <2>4, <1>2 DEF ScopeDiscipline
<1>. QED
  BY <1>5, <1>6, <1>7

LEMMA ActivatesPreserves ==
  ASSUME IInv, NEW f \in FrameType, Activates(f)
  PROVE  (StackAndEnv /\ CallNesting /\ ScopeDiscipline)'
<1>. DEFINE n == Len(stack)
<1>1. /\ stack # << >> /\ n \in Nat \ {0} /\ DOMAIN stack = 1 .. n
      /\ Top.at \in ExpressionPhases
  BY TopType DEF IInv, CallNesting, Running, Activates, ExpressionModes, TypeOK
<1>2. /\ stack' \in Seq(FrameType) /\ Len(stack') = n + 1 /\ DOMAIN stack' = 1 .. n + 1
      /\ \A i \in 1 .. n : stack'[i] = stack[i]
      /\ stack'[n + 1] = f
  BY AppendFrame DEF IInv, Activates
<1>3. /\ f.kind \in Activations /\ f.kind # "Program" /\ f.kind # "With" /\ f.at = "body"
      /\ f.kind \notin TryKinds /\ f.own # << >> /\ f.saved = env /\ env' = f.own
      /\ mode' \in StatementModes /\ f.own \in Environment
  BY KindsDisjoint DEF Activates, FrameType
<1>4. Top' = f
  BY <1>2 DEF Top
<1>5. StackAndEnv'
  BY <1>2, <1>3 DEF StackAndEnv
<1>6. CallNesting'
  <2>1. (Running <=> stack # << >>)'
    BY <1>2, <1>3 DEF Running, StatementModes
  <2>2. /\ (mode \in {"expression", "truthy", "falsy", "null"} => Top.at \in ExpressionPhases)'
        /\ (mode \in {"statement", "done"} => Top.at \notin ExpressionPhases)'
    BY <1>3, <1>4 DEF ExpressionPhases, StatementModes
  <2>3. ASSUME NEW i \in 1 .. n + 1
        PROVE  WellNested(stack', i)
    <3>1. CASE i \in 1 .. n
      <4>1. WellNested(stack, i) /\ stack'[i] = stack[i] /\ (i > 1 => stack'[i - 1] = stack[i - 1])
        BY <3>1, <1>1, <1>2 DEF IInv, CallNesting
      <4>. QED
        BY <4>1, WellNestedKept
    <3>2. CASE i = n + 1
      BY <3>2, <1>1, <1>2, <1>3 DEF WellNested, HasScope, Top
    <3>. QED
      BY <3>1, <3>2, <1>1
  <2>. QED
    BY <2>1, <2>2, <2>3, <1>2 DEF CallNesting
<1>7. ScopeDiscipline'
  <2>1. ASSUME NEW i \in 1 .. n + 1, NEW j \in 1 .. n + 1, InnermostScope(stack', i, j)
        PROVE  i \in 1 .. n /\ InnermostScope(stack, i, j)
    BY <2>1, <1>1, <1>2 DEF InnermostScope
  <2>2. ASSUME NEW i \in 1 .. n + 1, InnermostScope(stack', i, n + 2)
        PROVE  env' = stack'[i].own
    <3>1. i = n + 1
      BY <2>2, <1>1, <1>2, <1>3 DEF InnermostScope, HasScope
    <3>. QED
      BY <3>1, <1>2, <1>3
  <2>3. ASSUME NEW i \in 1 .. n + 1, NEW j \in 1 .. n + 1,
               HasScope(stack'[j]), InnermostScope(stack', i, j)
        PROVE  stack'[j].saved = stack'[i].own
    <3>1. i \in 1 .. n /\ InnermostScope(stack, i, j)
      BY <2>1, <2>3, <1>1
    <3>2. CASE j \in 1 .. n
      BY <2>3, <3>1, <3>2, <1>1, <1>2 DEF IInv, ScopeDiscipline
    <3>3. CASE j = n + 1
      BY <3>1, <3>3, <1>1, <1>2, <1>3 DEF IInv, ScopeDiscipline
    <3>. QED
      BY <3>2, <3>3, <1>1
  <2>4. Len(stack') + 1 = n + 2
    BY <1>1, <1>2
  <2>. QED
    BY <2>2, <2>3, <2>4, <1>2 DEF ScopeDiscipline
<1>. QED
  BY <1>5, <1>6, <1>7

LEMMA MovesPreserves ==
  ASSUME IInv, NEW f \in FrameType, Moves(f)
  PROVE  (StackAndEnv /\ CallNesting /\ ScopeDiscipline)'
<1>. PICK n \in Nat \ {0} : Len(stack) = n
  BY TopType DEF IInv, CallNesting, Running, Moves, ExpressionModes, StatementModes
<1>1. /\ stack # << >> /\ Len(stack) = n /\ DOMAIN stack = 1 .. n
      /\ Top = stack[n] /\ WellNested(stack, n)
  BY TopType DEF IInv, CallNesting, Running, Moves, ExpressionModes, StatementModes,
                 TypeOK, Top
<1>2. /\ stack' \in Seq(FrameType) /\ Len(stack') = n /\ DOMAIN stack' = 1 .. n
      /\ \A i \in 1 .. n - 1 : stack'[i] = stack[i]
      /\ stack'[n] = f
  BY <1>1, ReplaceFrame DEF IInv, Moves
<1>3. /\ f.kind = stack[n].kind /\ f.own = stack[n].own
      /\ f.kind \notin Activations /\ f.kind # "With"
      /\ f.kind \in TryKinds => f.at \notin ExpressionPhases
      /\ Fits(mode', f.at) /\ env' = env
  BY <1>1, KindsDisjoint DEF Moves, AwaitsIn
<1>4. Top' = f
  BY <1>2 DEF Top
<1>5. \A i \in 1 .. n : stack'[i].own = stack[i].own
  BY <1>1, <1>2, <1>3
<1>6. StackAndEnv'
  BY <1>2, <1>3 DEF StackAndEnv, IInv, TypeOK
<1>7. CallNesting'
  <2>1. (Running <=> stack # << >>)'
    BY <1>1, <1>2, <1>3 DEF Running, Fits, ExpressionModes, StatementModes
  <2>2. /\ (mode \in {"expression", "truthy", "falsy", "null"} => Top.at \in ExpressionPhases)'
        /\ (mode \in {"statement", "done"} => Top.at \notin ExpressionPhases)'
    BY <1>3, <1>4 DEF Fits, ExpressionModes, StatementModes
  <2>3. ASSUME NEW i \in 1 .. n
        PROVE  WellNested(stack', i)
    <3>1. CASE i \in 1 .. n - 1
      <4>1. WellNested(stack, i) /\ stack'[i] = stack[i] /\ (i > 1 => stack'[i - 1] = stack[i - 1])
        BY <3>1, <1>1, <1>2 DEF IInv, CallNesting
      <4>. QED
        BY <4>1, WellNestedKept
    <3>2. CASE i = n
      BY <3>2, <1>1, <1>2, <1>3 DEF WellNested, HasScope
    <3>. QED
      BY <3>1, <3>2, <1>1
  <2>. QED
    BY <2>1, <2>2, <2>3, <1>2 DEF CallNesting
<1>8. ScopeDiscipline'
  <2>1. ASSUME NEW i \in 1 .. n, NEW j \in 1 .. n + 1, InnermostScope(stack', i, j)
        PROVE  InnermostScope(stack, i, j)
    BY <2>1, <1>1, <1>2, <1>5 DEF InnermostScope, HasScope
  <2>2. ASSUME NEW i \in 1 .. n, InnermostScope(stack', i, n + 1)
        PROVE  env' = stack'[i].own
    BY <2>1, <2>2, <1>1, <1>3, <1>5 DEF IInv, ScopeDiscipline
  <2>3. ASSUME NEW i \in 1 .. n, NEW j \in 1 .. n,
               HasScope(stack'[j]), InnermostScope(stack', i, j)
        PROVE  stack'[j].saved = stack'[i].own
    <3>1. HasScope(stack[j]) /\ InnermostScope(stack, i, j)
      BY <2>1, <2>3, <1>5 DEF HasScope
    <3>2. j # n
      BY <3>1, <1>1, <1>3 DEF WellNested
    <3>. QED
      BY <3>1, <3>2, <1>1, <1>2, <1>5 DEF IInv, ScopeDiscipline
  <2>. QED
    BY <2>2, <2>3, <1>2 DEF ScopeDiscipline
<1>. QED
  BY <1>6, <1>7, <1>8

LEMMA TakesScopePreserves ==
  ASSUME IInv, NEW f \in FrameType, TakesScope(f)
  PROVE  (StackAndEnv /\ CallNesting /\ ScopeDiscipline)'
<1>. PICK n \in Nat \ {0} : Len(stack) = n
  BY TopType DEF IInv, CallNesting, Running, TakesScope, ExpressionModes
<1>1. /\ stack # << >> /\ Len(stack) = n /\ DOMAIN stack = 1 .. n
      /\ Top = stack[n] /\ WellNested(stack, n)
      /\ stack[n].kind = "With" /\ stack[n].at \in ExpressionPhases
  BY TopType DEF IInv, CallNesting, Running, TakesScope, ExpressionModes, TypeOK, Top
<1>2. /\ stack' \in Seq(FrameType) /\ Len(stack') = n /\ DOMAIN stack' = 1 .. n
      /\ \A i \in 1 .. n - 1 : stack'[i] = stack[i]
      /\ stack'[n] = f
  BY <1>1, ReplaceFrame DEF IInv, TakesScope
<1>3. /\ f.kind = "With" /\ f.at = "body" /\ f.own # << >> /\ f.saved = env
      /\ env' = f.own /\ mode' \in StatementModes /\ f.own \in Environment
      /\ "With" \notin Activations /\ "With" \notin TryKinds
  BY KindsDisjoint DEF TakesScope, FrameType, TryKinds
<1>4. Top' = f
  BY <1>2 DEF Top
<1>5. ~HasScope(stack[n])
  BY <1>1, <1>3 DEF WellNested, ExpressionPhases
<1>6. StackAndEnv'
  BY <1>2, <1>3 DEF StackAndEnv
<1>7. CallNesting'
  <2>1. (Running <=> stack # << >>)'
    BY <1>1, <1>2, <1>3 DEF Running, StatementModes
  <2>2. /\ (mode \in {"expression", "truthy", "falsy", "null"} => Top.at \in ExpressionPhases)'
        /\ (mode \in {"statement", "done"} => Top.at \notin ExpressionPhases)'
    BY <1>3, <1>4 DEF ExpressionPhases, StatementModes
  <2>3. ASSUME NEW i \in 1 .. n
        PROVE  WellNested(stack', i)
    <3>1. CASE i \in 1 .. n - 1
      <4>1. WellNested(stack, i) /\ stack'[i] = stack[i] /\ (i > 1 => stack'[i - 1] = stack[i - 1])
        BY <3>1, <1>1, <1>2 DEF IInv, CallNesting
      <4>. QED
        BY <4>1, WellNestedKept
    <3>2. CASE i = n
      BY <3>2, <1>1, <1>2, <1>3 DEF WellNested, HasScope
    <3>. QED
      BY <3>1, <3>2, <1>1
  <2>. QED
    BY <2>1, <2>2, <2>3, <1>2 DEF CallNesting
<1>8. ScopeDiscipline'
  <2>1. ASSUME NEW i \in 1 .. n, NEW j \in 1 .. n, InnermostScope(stack', i, j)
        PROVE  i # n /\ InnermostScope(stack, i, j)
    BY <2>1, <1>1, <1>2 DEF InnermostScope
  <2>2. ASSUME NEW i \in 1 .. n, InnermostScope(stack', i, n + 1)
        PROVE  env' = stack'[i].own
    <3>1. i = n
      BY <2>2, <1>1, <1>2, <1>3 DEF InnermostScope, HasScope
    <3>. QED
      BY <3>1, <1>2, <1>3
  <2>3. ASSUME NEW i \in 1 .. n, NEW j \in 1 .. n,
               HasScope(stack'[j]), InnermostScope(stack', i, j)
        PROVE  stack'[j].saved = stack'[i].own
    <3>1. i # n /\ InnermostScope(stack, i, j)
      BY <2>1, <2>3
    <3>2. CASE j # n
      BY <2>3, <3>1, <3>2, <1>1, <1>2 DEF IInv, ScopeDiscipline
    <3>3. CASE j = n
      <4>1. InnermostScope(stack, i, n + 1)
        BY <3>1, <3>3, <1>1, <1>5 DEF InnermostScope, HasScope
      <4>. QED
        BY <3>1, <3>3, <4>1, <1>1, <1>2, <1>3 DEF IInv, ScopeDiscipline
    <3>. QED
      BY <3>2, <3>3
  <2>. QED
    BY <2>2, <2>3, <1>2 DEF ScopeDiscipline
<1>. QED
  BY <1>6, <1>7, <1>8

\* What is left of the stack when the top frame is gone.
LEMMA PopNesting ==
  ASSUME IInv, Pops, stack # << >>, Top.kind # "Program",
         NEW n \in Nat, Len(stack) = n
  PROVE  /\ stack' \in Seq(FrameType) /\ Len(stack') = n - 1 /\ n > 1
         /\ DOMAIN stack = 1 .. n /\ DOMAIN stack' = 1 .. n - 1
         /\ \A i \in 1 .. n - 1 : stack'[i] = stack[i]
         /\ \A i \in 1 .. n - 1 : WellNested(stack', i)
         /\ Top' = stack[n - 1] /\ Top = stack[n] /\ WellNested(stack, n)
         /\ \A i, j \in 1 .. n - 1 :
              HasScope(stack'[j]) /\ InnermostScope(stack', i, j)
                => stack'[j].saved = stack'[i].own
<1>1. /\ DOMAIN stack = 1 .. n /\ n # 0 /\ Top = stack[n]
      /\ stack' \in Seq(FrameType) /\ Len(stack') = n - 1
      /\ \A i \in 1 .. n - 1 : stack'[i] = stack[i]
  BY PopProperties, TopType DEF IInv, TypeOK, Top
<1>2. \A i \in 1 .. n : WellNested(stack, i)
  BY <1>1 DEF IInv, CallNesting
<1>3. n > 1
  BY <1>1, <1>2 DEF WellNested
<1>4. DOMAIN stack' = 1 .. n - 1 /\ Top' = stack[n - 1]
  BY <1>1, <1>3 DEF Top
<1>5. ASSUME NEW i \in 1 .. n - 1
      PROVE  WellNested(stack', i)
  BY <1>1, <1>2, <1>3, WellNestedKept
<1>6. ASSUME NEW i \in 1 .. n - 1, NEW j \in 1 .. n - 1,
             HasScope(stack'[j]), InnermostScope(stack', i, j)
      PROVE  stack'[j].saved = stack'[i].own
  <2>1. HasScope(stack[j]) /\ InnermostScope(stack, i, j)
    BY <1>1, <1>4, <1>6 DEF InnermostScope, HasScope
  <2>. QED
    BY <2>1, <1>1 DEF IInv, ScopeDiscipline
<1>. QED
  BY <1>1, <1>2, <1>3, <1>4, <1>5, <1>6

LEMMA LeavesPreserves ==
  ASSUME IInv, Leaves
  PROVE  (StackAndEnv /\ CallNesting /\ ScopeDiscipline)'
<1>. PICK n \in Nat : Len(stack) = n
  BY TopType DEF IInv, CallNesting, Running, Leaves, ExpressionModes, StatementModes
<1>1. stack # << >> /\ Top.kind \notin Activations /\ Top.kind # "Program"
  BY KindsDisjoint DEF IInv, CallNesting, Running, Leaves, ExpressionModes, StatementModes
<1>2. /\ stack' \in Seq(FrameType) /\ Len(stack') = n - 1 /\ n > 1
      /\ DOMAIN stack = 1 .. n /\ DOMAIN stack' = 1 .. n - 1
      /\ \A i \in 1 .. n - 1 : stack'[i] = stack[i]
      /\ \A i \in 1 .. n - 1 : WellNested(stack', i)
      /\ Top' = stack[n - 1] /\ Top = stack[n] /\ WellNested(stack, n)
  BY <1>1, PopNesting DEF Leaves
<1>3. ~HasScope(stack[n]) /\ stack[n - 1].at \notin ExpressionPhases
  BY <1>1, <1>2 DEF Leaves, WellNested, IInv, CallNesting, ExpressionModes, ExpressionPhases
<1>4. StackAndEnv'
  BY <1>2 DEF Leaves, StackAndEnv, IInv, TypeOK
<1>5. CallNesting'
  BY <1>2, <1>3 DEF Leaves, CallNesting, Running, StatementModes
<1>6. ScopeDiscipline'
  <2>1. ASSUME NEW i \in 1 .. n - 1, InnermostScope(stack', i, n)
        PROVE  env' = stack'[i].own
    <3>1. InnermostScope(stack, i, n + 1)
      BY <2>1, <1>2, <1>3 DEF InnermostScope, HasScope
    <3>. QED
      BY <3>1, <1>2 DEF Leaves, IInv, ScopeDiscipline
  <2>. QED
    BY <2>1, <1>1, <1>2, PopNesting DEF ScopeDiscipline, Leaves
<1>. QED
  BY <1>4, <1>5, <1>6

LEMMA LeavesScopePreserves ==
  ASSUME IInv, LeavesScope
  PROVE  (StackAndEnv /\ CallNesting /\ ScopeDiscipline)'
<1>. PICK n \in Nat : Len(stack) = n
  BY TopType DEF IInv, CallNesting, Running, LeavesScope, StatementModes
<1>1. stack # << >> /\ Top.kind # "Program" /\ Top \in FrameType
  BY TopType DEF IInv, CallNesting, Running, LeavesScope, StatementModes
<1>2. /\ stack' \in Seq(FrameType) /\ Len(stack') = n - 1 /\ n > 1
      /\ DOMAIN stack = 1 .. n /\ DOMAIN stack' = 1 .. n - 1
      /\ \A i \in 1 .. n - 1 : stack'[i] = stack[i]
      /\ \A i \in 1 .. n - 1 : WellNested(stack', i)
      /\ Top' = stack[n - 1] /\ Top = stack[n] /\ WellNested(stack, n)
  BY <1>1, PopNesting DEF LeavesScope
<1>3. HasScope(stack[n])
  BY <1>1, <1>2 DEF LeavesScope, WellNested, IInv, CallNesting, StatementModes, ExpressionPhases
<1>4. IF stack[n].kind = "With" THEN stack[n - 1].at \notin ExpressionPhases
                                ELSE stack[n - 1].at \in ExpressionPhases
  BY <1>2, KindsDisjoint DEF LeavesScope, WellNested
<1>5. StackAndEnv'
  BY <1>1, <1>2 DEF LeavesScope, StackAndEnv, FrameType
<1>6. CallNesting'
  <2>1. "With" \notin Activations
    BY KindsDisjoint
  <2>2. /\ (mode \in {"expression", "truthy", "falsy", "null"} => Top.at \in ExpressionPhases)'
        /\ (mode \in {"statement", "done"} => Top.at \notin ExpressionPhases)'
    BY <2>1, <1>2, <1>4 DEF LeavesScope, StatementModes, ExpressionModes
  <2>3. (Running <=> stack # << >>)'
    BY <1>2 DEF LeavesScope, Running, StatementModes, ExpressionModes
  <2>. QED
    BY <2>2, <2>3, <1>2 DEF CallNesting
<1>7. ScopeDiscipline'
  <2>1. ASSUME NEW i \in 1 .. n - 1, InnermostScope(stack', i, n)
        PROVE  env' = stack'[i].own
    <3>1. InnermostScope(stack, i, n)
      BY <2>1, <1>2 DEF InnermostScope, HasScope
    <3>. QED
      BY <3>1, <1>2, <1>3 DEF LeavesScope, IInv, ScopeDiscipline
  <2>. QED
    BY <2>1, <1>1, <1>2, PopNesting DEF ScopeDiscipline, LeavesScope
<1>. QED
  BY <1>5, <1>6, <1>7

LEMMA VanishesPreserves ==
  ASSUME Vanishes
  PROVE  (StackAndEnv /\ CallNesting /\ ScopeDiscipline)'
BY DEF Vanishes, StackAndEnv, Environment, CallNesting, Running, ScopeDiscipline

LEMMA ProgramAlone ==
  ASSUME Init
  PROVE  StackAndEnv /\ CallNesting /\ ScopeDiscipline
<1>. USE DEF Init
<1>1. DOMAIN stack = {1} /\ Len(stack) = 1 /\ stack[1] = ProgramFrame /\ Top = ProgramFrame
  BY DEF Top
<1>2. StackAndEnv
  BY ProgramFrameType DEF StackAndEnv, Environment
<1>3. WellNested(stack, 1)
  BY <1>1, ProgramFrameType, KindsDisjoint DEF WellNested, HasScope
<1>4. CallNesting
  BY <1>1, <1>3, ProgramFrameType DEF CallNesting, Running, ExpressionPhases
<1>5. ScopeDiscipline
  BY <1>1, ProgramFrameType DEF ScopeDiscipline, InnermostScope
<1>. QED
  BY <1>2, <1>4, <1>5

LEMMA RestartsPreserves ==
  ASSUME Restarts
  PROVE  (StackAndEnv /\ CallNesting /\ ScopeDiscipline)'
<1>1. DOMAIN stack' = {1} /\ Len(stack') = 1 /\ stack'[1] = ProgramFrame /\ Top' = ProgramFrame
  BY DEF Restarts, Top
<1>2. StackAndEnv'
  BY ProgramFrameType DEF Restarts, StackAndEnv, Environment
<1>3. WellNested(stack', 1)
  BY <1>1, ProgramFrameType, KindsDisjoint DEF WellNested, HasScope
<1>4. CallNesting'
  BY <1>1, <1>3, ProgramFrameType DEF CallNesting, Running, ExpressionPhases, Restarts
<1>5. ScopeDiscipline'
  BY <1>1, ProgramFrameType DEF ScopeDiscipline, InnermostScope, Restarts
<1>. QED
  BY <1>2, <1>4, <1>5

LEMMA IdlesPreserves ==
  ASSUME IInv, Idles
  PROVE  (StackAndEnv /\ CallNesting /\ ScopeDiscipline)'
<1>1. StackAndEnv'
  BY DEF Idles, IInv, TypeOK, StackAndEnv
<1>2. Top' = Top
  BY DEF Idles, Top
<1>3. CallNesting'
  BY <1>2 DEF Idles, IInv, CallNesting, Running, ExpressionModes, StatementModes
<1>4. ScopeDiscipline'
  BY DEF Idles, IInv, ScopeDiscipline
<1>. QED
  BY <1>1, <1>3, <1>4

LEMMA StepPreserves ==
  ASSUME IInv, Step
  PROVE  (StackAndEnv /\ CallNesting /\ ScopeDiscipline)'
BY EntersPreserves, ActivatesPreserves, MovesPreserves, TakesScopePreserves,
   LeavesPreserves, LeavesScopePreserves, VanishesPreserves, RestartsPreserves,
   IdlesPreserves
   DEF Step

-----------------------------------------------------------------------------
(* Every action takes one of those steps, and leaves a completion in cv_   *)
(* and an exception or none in the thread.                                 *)

Typed == cv' \in Completion /\ exc' \in Exceptions \cup {Nil}

LEMMA BecomesType ==
  ASSUME IInv, NEW t \in CompletionTypes
  PROVE  Becomes(t) \in Completion
BY DEF IInv, TypeOK, Becomes, Completion

LEMMA InitialCompletionType == InitialCompletion \in Completion
BY DEF InitialCompletion, Completion, CompletionTypes

\* A running method is on the stack.
LEMMA RunningTop ==
  ASSUME IInv, mode \in ExpressionModes \cup StatementModes
  PROVE  stack # << >> /\ Top \in FrameType /\ Len(stack) \in DOMAIN stack
BY TopType DEF IInv, CallNesting, Running, ExpressionModes, StatementModes

LEMMA InvokeStep ==
  ASSUME IInv, mode \in StatementModes, env' = env,
         NEW f \in FrameType, f.kind \in StatementKinds, f.own = << >>,
         f.kind = "With" => f.at = "head", AwaitsIn(f), Invoke(f)
  PROVE  Step
BY DEF Invoke, Resume, Step, Enters, Fits, ExpressionModes, StatementModes

LEMMA ReplaceStep ==
  ASSUME IInv, mode \in ExpressionModes \cup StatementModes, env' = env,
         NEW f \in FrameType, f.kind = Top.kind, f.own = Top.own,
         Top.kind \in StatementKinds \ {"With"}, AwaitsIn(f),
         stack' = [stack EXCEPT ![Len(stack)] = f], Fits(mode', f.at)
  PROVE  Step
BY DEF Step, Moves

LEMMA MoveTop ==
  ASSUME IInv, mode \in ExpressionModes \cup StatementModes, NEW p \in Phases
  PROVE  /\ [Top EXCEPT !.at = p] \in FrameType
         /\ [Top EXCEPT !.at = p].kind = Top.kind
         /\ [Top EXCEPT !.at = p].own = Top.own
         /\ [Top EXCEPT !.at = p].at = p
         /\ [stack EXCEPT ![Len(stack)].at = p]
              = [stack EXCEPT ![Len(stack)] = [Top EXCEPT !.at = p]]
<1>1. stack # << >> /\ Top \in FrameType
  BY RunningTop
<1>2. /\ [Top EXCEPT !.at = p] \in FrameType
      /\ [Top EXCEPT !.at = p].kind = Top.kind
      /\ [Top EXCEPT !.at = p].own = Top.own
      /\ [Top EXCEPT !.at = p].at = p
  BY <1>1 DEF FrameType
<1>. QED
  BY <1>2 DEF Top

LEMMA ProceedStep ==
  ASSUME IInv, mode \in ExpressionModes \cup StatementModes, env' = env,
         Top.kind \in StatementKinds \ {"With"}, NEW p \in Phases, Proceed(p),
         Top.kind \in TryKinds => p \notin ExpressionPhases
  PROVE  Step
<1>1. Fits(mode', [Top EXCEPT !.at = p].at)
  BY MoveTop DEF Proceed, Resume, Fits, ExpressionModes, StatementModes
<1>. QED
  BY <1>1, MoveTop, ReplaceStep DEF Proceed, AwaitsIn

LEMMA NamesTestedStep ==
  ASSUME IInv, mode \in ExpressionModes \cup StatementModes, env' = env,
         Top.kind \in StatementKinds \ ({"With"} \cup TryKinds), NamesTested
  PROVE  Step
<1>1. "test" \in Phases /\ Fits(mode', [Top EXCEPT !.at = "test"].at)
  BY MoveTop DEF NamesTested, Fits, ExpressionModes, Phases, ExpressionPhases
<1>. QED
  BY <1>1, MoveTop, ReplaceStep DEF NamesTested, AwaitsIn

LEMMA FinishStep ==
  ASSUME IInv, mode \in ExpressionModes \cup StatementModes, env' = env,
         Top.kind \in StatementKinds, Top.kind = "With" => mode \in ExpressionModes,
         NEW c, Finish(c)
  PROVE  Step
BY DEF Step, Leaves, Finish, Pops, StatementModes

LEMMA VanishStep ==
  ASSUME NEW m \in {"ended", "crashed"}, Vanish(m)
  PROVE  Step /\ Typed
BY InitialCompletionType DEF Step, Vanishes, Vanish, Typed

\* A method that awaits an expression is a statement's.
LEMMA AwaitsExpression ==
  ASSUME IInv, mode \in ExpressionModes
  PROVE  Top.kind \in StatementKinds
<1>1. Top.at \in ExpressionPhases /\ WellNested(stack, Len(stack)) /\ Top.kind \in AllKinds
  BY RunningTop DEF IInv, CallNesting, ExpressionModes, FrameType
<1>. QED
  BY <1>1, KindsDisjoint DEF WellNested, Top, ExpressionPhases

LEMMA EnterStatementSteps ==
  ASSUME IInv, EnterStatement
  PROVE  Step /\ Typed
<1>. USE DEF StatementModes
<1>1. ASSUME NEW k \in Kinds, Enter(k)
      PROVE  Step /\ Typed
  <2>1. PICK l \in IF k = "Labeled" THEN Labels ELSE {NoLabel}, p \in StartPhases(k) :
          Invoke(Frame(k, p, l, Inherited))
    BY <1>1 DEF Enter
  <2>2. k \in AllKinds /\ k \in StatementKinds /\ p \in Phases /\ Inherited \in SUBSET Labels
    <3>1. k \in StatementKinds /\ mode \in StatementModes
      BY <1>1 DEF Enter
    <3>2. p \in Phases
      BY <2>1 DEF StartPhases, Phases, ExpressionPhases
    <3>. QED
      BY <3>1, <3>2, RunningTop, InheritedType, KindsDisjoint DEF IInv
  <2>3. /\ k = "With" => p = "head"
        /\ k \in TryKinds => p \notin ExpressionPhases
    BY <2>1 DEF StartPhases, SimpleKinds, TryKinds, ExpressionPhases
  <2>4. /\ Frame(k, p, l, Inherited) \in FrameType
        /\ Frame(k, p, l, Inherited).kind = k
        /\ Frame(k, p, l, Inherited).at = p
        /\ Frame(k, p, l, Inherited).own = << >>
    BY <2>1, <2>2, FrameTypes
  <2>5. Step
    BY <1>1, <2>1, <2>2, <2>3, <2>4, InvokeStep DEF Enter, AwaitsIn
  <2>. QED
    BY <1>1, <2>5 DEF Enter, Typed, IInv, TypeOK
<1>2. CASE EmptyStatement
  BY <1>2 DEF EmptyStatement, Step, Idles, Typed, IInv, TypeOK
<1>3. ASSUME NEW l \in Labels \cup {NoLabel}, BreakStatement(l) \/ ContinueStatement(l)
      PROVE  Step /\ Typed
  BY <1>3 DEF BreakStatement, ContinueStatement, Step, Idles, Typed, IInv, TypeOK,
              Target, Completion, CompletionTypes
<1>4. CASE ReturnUndefined
  BY <1>4, BecomesType
  DEF ReturnUndefined, Step, Idles, Typed, IInv, TypeOK, CompletionTypes
<1>. QED
  BY <1>1, <1>2, <1>3, <1>4 DEF EnterStatement

LEMMA ActivationFrameType ==
  ASSUME NEW k \in {"Call", "New", "Evalcx"}
  PROVE  /\ Frame(k, "body", NoLabel, {}) \in FrameType
         /\ Frame(k, "body", NoLabel, {}).kind = k
         /\ Frame(k, "body", NoLabel, {}).at = "body"
<1>1. k \in AllKinds /\ k # "Labeled"
  BY DEF AllKinds, Activations
<1>2. "body" \in Phases /\ NoLabel \in Labels \cup {NoLabel} /\ {} \in SUBSET Labels
  BY DEF Phases
<1>. QED
  BY <1>1, <1>2 DEF Frame, FrameType, InitialCompletion, Completion, CompletionTypes,
                    Environment

LEMMA ActivateStep ==
  ASSUME IInv, NEW k \in {"Call", "New", "Evalcx"}, NEW scope \in Environment,
         Activate(k, scope)
  PROVE  Step /\ Typed
<1>. DEFINE own == Append(scope, Len(stack) + 1)
            f == [Frame(k, "body", NoLabel, {}) EXCEPT
                  !.saved = env, !.own = own, !.pending = cv]
<1>1. stack # << >> /\ Len(stack) \in Nat /\ mode \in ExpressionModes
  BY RunningTop DEF Activate, ExpressionModes, IInv, TypeOK
<1>2. own \in Environment /\ own # << >>
  BY <1>1, AppendProperties DEF Environment
<1>3. /\ Frame(k, "body", NoLabel, {}) \in FrameType
      /\ Frame(k, "body", NoLabel, {}).kind = k
      /\ Frame(k, "body", NoLabel, {}).at = "body"
  BY ActivationFrameType
<1>. HIDE DEF own
<1>4. f \in FrameType /\ f.kind = k /\ f.at = "body" /\ f.own = own /\ f.saved = env
  BY <1>2, <1>3 DEF FrameType, IInv, TypeOK
<1>5. stack' = Append(stack, f) /\ env' = own /\ mode' = Resume(f.at)
  BY DEF Activate, Invoke, own
<1>. HIDE DEF f
<1>6. Activates(f)
  BY <1>1, <1>2, <1>4, <1>5
  DEF Activates, Activations, Resume, ExpressionPhases, StatementModes
<1>. QED
  BY <1>4, <1>6, InitialCompletionType DEF Step, Typed, Activate, IInv, TypeOK

LEMMA EvaluateSteps ==
  ASSUME IInv, Evaluate
  PROVE  Step /\ Typed
<1>1. CASE \E v \in {"truthy", "falsy"} : Yield(v)
  BY <1>1 DEF Yield, Step, Idles, Typed, IInv, TypeOK, ExpressionModes
<1>2. CASE \E e \in Exceptions : Raise(e)
  BY <1>2 DEF Raise, Step, Idles, Typed, IInv, TypeOK, ExpressionModes
<1>3. ClosureScopes \subseteq Environment
  <2>1. \A i \in DOMAIN stack : stack[i] \in FrameType
    BY DEF IInv, TypeOK
  <2>2. \A i \in DOMAIN stack : stack[i].own \in Environment
    BY <2>1 DEF FrameType
  <2>. QED
    BY <2>2 DEF ClosureScopes, IInv, TypeOK
<1>4. << >> \in Environment
  BY DEF Environment
<1>. QED
  BY <1>1, <1>2, <1>3, <1>4, ActivateStep DEF Evaluate, CallFunction, Construct, Evalcx

LEMMA ExpressionReturnsSteps ==
  ASSUME IInv, ExpressionReturns
  PROVE  Step /\ Typed
<1>1. mode \in ExpressionModes
  BY DEF ExpressionReturns, ExpressionModes, ExpressionThrows, ForInMemberThrows,
         SimpleStatementEnds, ReturnValue, ThrowStatement, WithThrows, IfTest, LoopTest,
         ForContinues, ForInStarts, ForInStored, SwitchSelects, WithEnters, Returned
<1>2. /\ Top.kind \in StatementKinds /\ Top \in FrameType /\ stack # << >>
      /\ cv \in Completion /\ exc \in Exceptions \cup {Nil} /\ env \in Environment
  BY <1>1, AwaitsExpression, RunningTop DEF IInv, TypeOK
<1>3. ASSUME NEW c, Finish(c), env' = env
      PROVE  Step
  BY <1>1, <1>2, <1>3, FinishStep
<1>4. /\ Becomes("Throw") \in Completion
      /\ Becomes("Return") \in Completion
  BY BecomesType DEF CompletionTypes
<1>5. ASSUME NEW p \in Phases, Proceed(p), env' = env, Top.kind # "With",
             Top.kind \notin TryKinds
      PROVE  Step
  BY <1>1, <1>2, <1>5, ProceedStep
<1>6. ASSUME NamesTested, env' = env, Top.kind # "With", Top.kind \notin TryKinds
      PROVE  Step
  BY <1>1, <1>2, <1>6, NamesTestedStep
<1>7. {"test", "left", "body"} \subseteq Phases
  BY DEF Phases, ExpressionPhases
<1>8. /\ "With" \notin Loops /\ ForIns \subseteq Loops
      /\ (Loops \cup {"If", "For", "Switch"}) \cap TryKinds = {}
  BY DEF Loops, ForIns, TryKinds
<1>. USE <1>2 DEF Typed
<1>9. CASE ExpressionThrows
  BY <1>3, <1>4, <1>9 DEF ExpressionThrows, Finish
<1>10. CASE ForInMemberThrows
  BY <1>3, <1>10 DEF ForInMemberThrows, Finish
<1>11. CASE SimpleStatementEnds
  BY <1>3, <1>11 DEF SimpleStatementEnds, Finish
<1>12. CASE ReturnValue
  BY <1>3, <1>4, <1>12 DEF ReturnValue, Finish
<1>13. ASSUME NEW e \in Exceptions, ThrowStatement(e) \/ WithThrows(e)
       PROVE  Step /\ Typed
  BY <1>3, <1>4, <1>13 DEF ThrowStatement, WithThrows, Finish
<1>14. CASE IfTest
  BY <1>3, <1>5, <1>7, <1>8, <1>14 DEF IfTest, Returned, Finish
<1>15. CASE LoopTest
  BY <1>3, <1>5, <1>7, <1>8, <1>15 DEF LoopTest, Returned, Finish
<1>16. CASE ForContinues
  BY <1>3, <1>5, <1>7, <1>8, <1>16 DEF ForContinues, Returned, Finish
<1>17. CASE ForInStarts
  BY <1>3, <1>6, <1>8, <1>17 DEF ForInStarts, Returned, Finish
<1>18. CASE ForInStored
  BY <1>5, <1>7, <1>8, <1>18 DEF ForInStored, Returned
<1>19. CASE SwitchSelects
  BY <1>3, <1>5, <1>7, <1>8, <1>19 DEF SwitchSelects, Returned, Finish
<1>20. CASE WithEnters
  <2>. DEFINE own == Append(env, Len(stack))
              f == [Top EXCEPT !.at = "body", !.saved = env, !.own = own]
  <2>1. own \in Environment /\ own # << >>
    BY AppendProperties DEF Environment, IInv, TypeOK
  <2>2. f \in FrameType /\ f.kind = "With" /\ f.at = "body" /\ f.own = own /\ f.saved = env
    BY <1>7, <1>20, <2>1 DEF FrameType, WithEnters, Returned
  <2>3. stack' = [stack EXCEPT ![Len(stack)] = f]
    BY <1>20 DEF WithEnters, Top
  <2>4. TakesScope(f)
    BY <1>1, <1>20, <2>1, <2>2, <2>3 DEF TakesScope, WithEnters, Returned, StatementModes
  <2>. QED
    BY <1>20, <2>2, <2>4 DEF Step, WithEnters
<1>. QED
  BY <1>9, <1>10, <1>11, <1>12, <1>13, <1>14, <1>15, <1>16, <1>17, <1>18, <1>19, <1>20
  DEF ExpressionReturns

LEMMA StatementReturnsSteps ==
  ASSUME IInv, StatementReturns
  PROVE  Step /\ Typed
<1>1. mode \in StatementModes
  BY DEF StatementReturns, StatementModes, NextStatement, BlockEnds, IfEnds, LabeledEnds,
         WithEnds, SwitchEnds, LoopBodyEnds, BlockThrows, BlockCompletes, HandlerEnds,
         FinalizerEnds, Finished
<1>2. /\ Top \in FrameType /\ stack # << >>
      /\ cv \in Completion /\ exc \in Exceptions \cup {Nil}
  BY <1>1, RunningTop DEF IInv, TypeOK
<1>3. /\ {"Block", "If", "Labeled", "Switch", "With"} \subseteq StatementKinds
      /\ TryKinds \subseteq StatementKinds \ {"With"}
      /\ Loops \subseteq StatementKinds \ ({"With"} \cup TryKinds) /\ ForIns \subseteq Loops
      /\ {"handler", "finalizer", "test", "update", "body"} \subseteq Phases
  BY DEF StatementKinds, TryKinds, Loops, ForIns, Phases, ExpressionPhases
<1>4. ASSUME NEW c, Finish(c), env' = env, Top.kind \in StatementKinds \ {"With"}
      PROVE  Step
  BY <1>1, <1>4, FinishStep
<1>5. ASSUME NEW p \in Phases, Proceed(p), env' = env, Top.kind \in StatementKinds \ {"With"},
             Top.kind \in TryKinds => p \notin ExpressionPhases
      PROVE  Step
  BY <1>1, <1>5, ProceedStep
<1>6. ASSUME NEW t \in CompletionTypes, FinalizerOrEnd(t), env' = env, Top.kind \in TryKinds
      PROVE  Step /\ cv' \in Completion
  <2>1. Becomes(t) \in Completion
    BY BecomesType
  <2>2. CASE HasFinalizer
    <3>. DEFINE f == [Top EXCEPT !.at = "finalizer", !.pending.type = t]
    <3>1. f \in FrameType /\ f.kind = Top.kind /\ f.own = Top.own /\ f.at = "finalizer"
      <4>1. Top.pending \in Completion
        BY <1>2 DEF FrameType
      <4>2. [Top.pending EXCEPT !.type = t] \in Completion
        BY <4>1 DEF Completion
      <4>. QED
        BY <1>2, <1>3, <4>2 DEF FrameType
    <3>2. stack' = [stack EXCEPT ![Len(stack)] = f] /\ Fits(mode', f.at)
      BY <1>6, <2>2, <3>1
      DEF FinalizerOrEnd, Top, Fits, ExpressionPhases, StatementModes
    <3>3. Step
      BY <1>1, <1>3, <1>6, <3>1, <3>2, ReplaceStep DEF AwaitsIn, ExpressionPhases
    <3>. QED
      BY <1>6, <2>1, <2>2, <3>3 DEF FinalizerOrEnd
  <2>3. CASE ~HasFinalizer
    BY <1>3, <1>4, <1>6, <2>1, <2>3 DEF FinalizerOrEnd, Finish
  <2>. QED
    BY <2>2, <2>3
<1>7. CASE NextStatement
  BY <1>1, <1>2, <1>7 DEF NextStatement, Step, Idles, Typed, StatementModes
<1>8. CASE BlockEnds \/ IfEnds
  BY <1>2, <1>3, <1>4, <1>8 DEF BlockEnds, IfEnds, Finished, Finish, Typed
<1>9. CASE LabeledEnds
  BY <1>2, <1>3, <1>4, <1>9, VanishStep, InitialCompletionType
  DEF LabeledEnds, Finished, Finish, Typed, Crash
<1>10. CASE WithEnds
  BY <1>1, <1>2, <1>10 DEF WithEnds, Finished, Finish, Typed, Step, LeavesScope, Pops,
                           StatementModes
<1>11. CASE SwitchEnds
  BY <1>2, <1>3, <1>4, <1>11, InitialCompletionType DEF SwitchEnds, Finished, Finish, Typed
<1>12. CASE LoopBodyEnds
  <2>. DEFINE r == BreakOrContinueIfLabelMatch(Top.ll)
  <2>1. r.cv \in Completion
    BY <1>2, InitialCompletionType DEF BreakOrContinueIfLabelMatch
  <2>2. cv' = r.cv /\ env' = env /\ exc' = exc
        /\ Top.kind \in StatementKinds \ ({"With"} \cup TryKinds)
    BY <1>3, <1>12 DEF LoopBodyEnds, Finished, Finish
  <2>3. ASSUME r.result PROVE Step
    BY <1>1, <1>3, <1>5, <1>12, <2>2, <2>3, NamesTestedStep DEF LoopBodyEnds, LoopContinues
  <2>4. ASSUME ~r.result PROVE Step
    BY <1>4, <1>12, <2>2, <2>4 DEF LoopBodyEnds
  <2>. QED
    BY <1>2, <2>1, <2>2, <2>3, <2>4 DEF Typed
<1>13. CASE BlockThrows
  <2>1. Top.kind \in TryKinds
    BY <1>13 DEF BlockThrows, Finished, TryKinds
  <2>2. CASE exc = Nil
    BY <1>13, <2>2, VanishStep DEF BlockThrows, Crash
  <2>3. CASE exc # Nil
    <3>1. Becomes("Normal") \in Completion
      BY BecomesType DEF CompletionTypes
    <3>. QED
      BY <1>3, <1>5, <1>13, <2>1, <2>3, <3>1 DEF BlockThrows, Typed, ExpressionPhases
  <2>. QED
    BY <2>2, <2>3
<1>14. cv.type \in CompletionTypes /\ "Normal" \in CompletionTypes
  BY <1>2 DEF Completion, CompletionTypes
<1>15. CASE BlockCompletes
  BY <1>2, <1>6, <1>14, <1>15 DEF BlockCompletes, Finished, Typed
<1>16. CASE HandlerEnds
  BY <1>2, <1>6, <1>14, <1>16 DEF HandlerEnds, Finished, Typed
<1>17. CASE FinalizerEnds
  <2>1. Becomes(Top.pending.type) \in Completion
    BY <1>2, BecomesType DEF FrameType, Completion
  <2>. QED
    BY <1>2, <1>3, <1>4, <1>17, <2>1 DEF FinalizerEnds, Finished, Finish, Typed
<1>. QED
  BY <1>7, <1>8, <1>9, <1>10, <1>11, <1>12, <1>13, <1>15, <1>16, <1>17 DEF StatementReturns

LEMMA ActivationEndsSteps ==
  ASSUME IInv, ActivationEnds
  PROVE  Step /\ Typed
<1>1. mode \in StatementModes
  BY DEF ActivationEnds, FunctionEnds, EvalcxEnds, ProgramEnds, Finished, StatementModes
<1>2. Top \in FrameType /\ Top.pending \in Completion /\ exc \in Exceptions \cup {Nil}
  BY <1>1, RunningTop DEF IInv, TypeOK, FrameType
<1>3. ASSUME NEW b, GiveBack(b), Top.kind \in {"Call", "New", "Evalcx"}
      PROVE  Step /\ cv' \in Completion
  BY <1>1, <1>2, <1>3
  DEF GiveBack, Step, LeavesScope, Pops, ExpressionModes, Activations
<1>4. CASE FunctionEnds
  BY <1>2, <1>3, <1>4 DEF FunctionEnds, Finished, Typed
<1>5. CASE EvalcxEnds
  BY <1>2, <1>3, <1>5 DEF EvalcxEnds, Finished, Typed
<1>6. CASE ProgramEnds
  BY <1>6, VanishStep DEF ProgramEnds, Crash
<1>. QED
  BY <1>4, <1>5, <1>6 DEF ActivationEnds

LEMMA NextSteps ==
  ASSUME IInv, Next
  PROVE  Step /\ Typed
<1>1. CASE NextProgram
  BY <1>1, InitialCompletionType DEF NextProgram, Step, Restarts, Typed
<1>. QED
  BY <1>1, EnterStatementSteps, EvaluateSteps, ExpressionReturnsSteps,
     StatementReturnsSteps, ActivationEndsSteps
  DEF Next

-----------------------------------------------------------------------------
(* The theorems.                                                           *)

LEMMA InitEstablishes == Init => IInv
<1>1. Init => StackAndEnv /\ CallNesting /\ ScopeDiscipline
  BY ProgramAlone
<1>. QED
  BY <1>1, InitialCompletionType DEF Init, IInv, TypeOK, StackAndEnv, Modes

LEMMA NextPreserves == IInv /\ [Next]_vars => IInv'
<1>1. ASSUME IInv, Next
      PROVE  IInv'
  <2>1. Step /\ Typed
    BY <1>1, NextSteps
  <2>2. (StackAndEnv /\ CallNesting /\ ScopeDiscipline)'
    BY <1>1, <2>1, StepPreserves
  <2>3. mode' \in Modes
    BY <2>1 DEF Step, Idles, Enters, Activates, Moves, TakesScope, Leaves, LeavesScope,
                Vanishes, Restarts, Fits, ExpressionModes, StatementModes, Modes
  <2>. QED
    BY <2>1, <2>2, <2>3 DEF IInv, TypeOK, StackAndEnv, Typed
<1>2. ASSUME IInv, UNCHANGED vars
      PROVE  IInv'
  BY <1>2 DEF vars, IInv, TypeOK, CallNesting, ScopeDiscipline, Running, Top
<1>. QED
  BY <1>1, <1>2

THEOREM Invariance == Spec => []IInv
  BY InitEstablishes, NextPreserves, PTL DEF Spec

(* In every run of every program the variables have their types: the      *)
(* stack, cv_ and cur_env_ are what AstEvaluator's fields can hold.        *)
THEOREM TypeCorrect == Spec => []TypeOK
<1>1. IInv => TypeOK
  BY DEF IInv
<1>. QED
  BY <1>1, Invariance, PTL

(* However with statements and functions are left, cur_env_ is the         *)
(* environment of the innermost one still running.                         *)
THEOREM ScopesRestored == Spec => []ScopeDiscipline
<1>1. IInv => ScopeDiscipline
  BY DEF IInv
<1>. QED
  BY <1>1, Invariance, PTL

(* No try statement is left before its finalizer has run.                  *)
THEOREM FinalizersRun == Spec => FinalizerAlwaysRuns
<1>1. ASSUME IInv, Next, stack # << >>, Top.kind \in {"TryFinally", "TryCatchFinally"},
             Len(stack') < Len(stack), mode' # "crashed"
      PROVE  Top.at = "finalizer"
  <2>1. /\ Len(stack) \in Nat /\ HasFinalizer /\ Top.kind \in TryKinds
        /\ Top.kind \notin Activations \cup Loops
        /\ Top.kind \notin {"Block", "If", "Labeled", "Switch", "With", "Program"}
    BY <1>1 DEF TryKinds, Activations, Loops, HasFinalizer, IInv, TypeOK
  <2>2. mode \notin ExpressionModes \cup {"ended", "crashed"}
    BY <1>1, <2>1, TopType DEF IInv, CallNesting, Running, WellNested, ExpressionModes, Top
  <2>3. ASSUME NEW t, FinalizerOrEnd(t)
        PROVE  Len(stack') = Len(stack)
    BY <2>1, <2>3, <1>1 DEF FinalizerOrEnd, IInv, TypeOK
  <2>4. ~EnterStatement
    <3>1. ASSUME NEW f, Invoke(f)
          PROVE  FALSE
      BY <1>1, <2>1, <3>1, AppendLonger DEF Invoke, IInv, TypeOK
    <3>. QED
      BY <1>1, <2>1, <3>1 DEF EnterStatement, Enter, EmptyStatement, BreakStatement,
                              ContinueStatement, ReturnUndefined
  <2>5. ~Evaluate
    BY <2>2 DEF Evaluate, Yield, Raise, CallFunction, Construct, Evalcx, Activate,
                ExpressionModes
  <2>6. ~ExpressionReturns
    BY <2>2 DEF ExpressionReturns, ExpressionModes, ExpressionThrows, ForInMemberThrows,
         SimpleStatementEnds, ReturnValue, ThrowStatement, WithThrows, IfTest, LoopTest,
         ForContinues, ForInStarts, ForInStored, SwitchSelects, WithEnters, Returned
  <2>7. ~ActivationEnds
    BY <2>1 DEF ActivationEnds, FunctionEnds, EvalcxEnds, ProgramEnds, Finished, Activations
  <2>8. ~NextProgram
    BY <2>2 DEF NextProgram
  <2>9. CASE StatementReturns
    <3>1. ~(NextStatement \/ BlockEnds \/ IfEnds \/ LabeledEnds \/ WithEnds \/ SwitchEnds
              \/ LoopBodyEnds)
      BY <2>1 DEF NextStatement, BlockEnds, IfEnds, LabeledEnds, WithEnds, SwitchEnds,
                  LoopBodyEnds, Finished, Sequences, TryKinds
    <3>2. ~BlockThrows
      BY <1>1, <2>1 DEF BlockThrows, Crash, Vanish, Proceed, IInv, TypeOK
    <3>3. ~BlockCompletes /\ ~HandlerEnds
      BY <1>1, <2>1, <2>3 DEF BlockCompletes, HandlerEnds
    <3>. QED
      BY <2>9, <3>1, <3>2, <3>3 DEF StatementReturns, FinalizerEnds
  <2>. QED
    BY <1>1, <2>4, <2>5, <2>6, <2>7, <2>8, <2>9 DEF Next
<1>2. IInv /\ [Next]_vars =>
        [stack # << >> /\ Top.kind \in {"TryFinally", "TryCatchFinally"}
           /\ Len(stack') < Len(stack) /\ mode' # "crashed"
         => Top.at = "finalizer"]_vars
  BY <1>1
<1>. QED
  BY <1>2, Invariance, PTL DEF Spec, FinalizerAlwaysRuns

-----------------------------------------------------------------------------
(* Where a jump lands, when the innermost construct lets it pass and when  *)
(* it takes it.                                                            *)

\* What Nesting is a sequence of.
ConstructType ==
  [kind : AllKinds, label : Labels \cup {NoLabel}, ll : SUBSET Labels, armed : BOOLEAN]

\* What is left of nesting n when its innermost construct is.
Front(n) == SubSeq(n, 1, Len(n) - 1)

LEMMA InnermostIs ==
  ASSUME NEW S \in SUBSET Nat, NEW m \in S \cup {0}, \A i \in S : i <= m
  PROVE  Innermost(S) = m
<1>. DEFINE T == S \cup {0}
<1>1. m \in T /\ T \subseteq Nat /\ \A y \in T : m >= y
  OBVIOUS
<1>2. \A x \in T : (\A y \in T : x >= y) => x = m
  BY <1>1
<1>. HIDE DEF T
<1>3. Max(T) = m
  BY <1>1, <1>2 DEF Max
<1>. QED
  BY <1>3 DEF Innermost, T

LEMMA InnermostIn ==
  ASSUME NEW n \in Nat, NEW S \in SUBSET (1 .. n)
  PROVE  /\ Innermost(S) \in 0 .. n
         /\ \A i \in S : i <= Innermost(S)
         /\ Innermost(S) # 0 => Innermost(S) \in S
         /\ Innermost(S) = 0 <=> S = {}
<1>1. CASE S = {}
  BY <1>1, InnermostIs
<1>2. CASE S # {}
  <2>1. PICK m \in S : \A i \in S : i <= m
    BY <1>2, Maximum
  <2>2. Innermost(S) = m
    BY <2>1, InnermostIs
  <2>. QED
    BY <1>2, <2>1, <2>2
<1>. QED
  BY <1>1, <1>2

LEMMA FrontOfNesting ==
  ASSUME NEW n \in Seq(ConstructType), n # << >>
  PROVE  /\ Front(n) \in Seq(ConstructType)
         /\ Len(n) \in Nat \ {0}
         /\ n[Len(n)] \in ConstructType
         /\ Len(Front(n)) = Len(n) - 1
         /\ \A i \in 1 .. Len(n) - 1 : Front(n)[i] = n[i]
         /\ DOMAIN n = 1 .. Len(n) /\ DOMAIN Front(n) = 1 .. Len(n) - 1
<1>1. Len(n) \in Nat \ {0} /\ n[Len(n)] \in ConstructType /\ DOMAIN n = 1 .. Len(n)
  OBVIOUS
<1>2. /\ Front(n) \in Seq(ConstructType)
      /\ Len(Front(n)) = Len(n) - 1
      /\ \A i \in 1 .. Len(n) - 1 : Front(n)[i] = n[i]
  BY FrontOfSeq, Zenon DEF Front
<1>. HIDE DEF Front
<1>3. DOMAIN Front(n) = 1 .. Len(n) - 1
  BY <1>2, LenProperties
<1>. QED
  BY <1>1, <1>2, <1>3

LEMMA PrefixOfFront ==
  ASSUME NEW n \in Seq(ConstructType), n # << >>, NEW k \in 0 .. Len(n) - 1
  PROVE  SubSeq(Front(n), 1, k) = SubSeq(n, 1, k)
<1>. DEFINE f == Front(n)  m == Len(n)
<1>1. /\ f \in Seq(ConstructType) /\ m \in Nat \ {0} /\ Len(f) = m - 1
      /\ \A i \in 1 .. m - 1 : f[i] = n[i]
      /\ \A i \in 1 .. k : n[i] \in ConstructType /\ f[i] \in ConstructType
  <2>1. f \in Seq(ConstructType) /\ m \in Nat \ {0} /\ Len(f) = m - 1
        /\ \A i \in 1 .. m - 1 : f[i] = n[i]
    BY FrontOfNesting, Zenon
  <2>. HIDE DEF f
  <2>2. \A i \in 1 .. m : n[i] \in ConstructType
    OBVIOUS
  <2>. QED
    BY <2>1, <2>2
<1>. HIDE DEF f, m
<1>2. k \in Int /\ 1 \in Int /\ k <= m - 1
  BY <1>1 DEF m
<1>3. \A s : (\A i \in 1 .. k : s[i] \in ConstructType) =>
        /\ SubSeq(s, 1, k) \in Seq(ConstructType)
        /\ Len(SubSeq(s, 1, k)) = k
        /\ \A i \in 1 .. k : SubSeq(s, 1, k)[i] = s[i]
  BY SubSeqProperties
<1>4. /\ SubSeq(f, 1, k) \in Seq(ConstructType) /\ SubSeq(n, 1, k) \in Seq(ConstructType)
      /\ Len(SubSeq(f, 1, k)) = k /\ Len(SubSeq(n, 1, k)) = k
      /\ \A i \in 1 .. k : SubSeq(f, 1, k)[i] = f[i] /\ SubSeq(n, 1, k)[i] = n[i]
  BY <1>1, <1>3
<1>5. SubSeq(f, 1, k) = SubSeq(n, 1, k)
  <2>1. \A i \in 1 .. k : SubSeq(f, 1, k)[i] = SubSeq(n, 1, k)[i]
    BY <1>1, <1>2, <1>4
  <2>. QED
    BY <1>4, <2>1, SeqEqual
<1>. QED
  BY <1>5 DEF f

\* What is chosen of a nesting, its last construct not among it, is chosen of
\* the front.
LEMMA ChosenOfFront ==
  ASSUME NEW n \in Seq(ConstructType), n # << >>, NEW P, NEW b \in Nat,
         n[Len(n)] \notin P
  PROVE  {i \in b + 1 .. Len(n) - 1 : Front(n)[i] \in P}
           = {i \in b + 1 .. Len(n) : n[i] \in P}
<1>1. Len(n) \in Nat \ {0} /\ \A i \in 1 .. Len(n) - 1 : Front(n)[i] = n[i]
  BY FrontOfNesting, Zenon
<1>2. PICK m \in Nat : Len(n) = m + 1
  <2>1. Len(n) - 1 \in Nat /\ Len(n) = (Len(n) - 1) + 1
    BY <1>1
  <2>. QED
    BY <2>1
<1>3. \A i \in 1 .. m : Front(n)[i] = n[i]
  <2>1. Len(n) - 1 = m
    BY <1>2
  <2>. QED
    BY <1>1, <2>1
<1>4. ASSUME NEW i \in b + 1 .. m PROVE Front(n)[i] = n[i]
  BY <1>3
<1>5. b + 1 .. m + 1 \subseteq (b + 1 .. m) \cup {m + 1}
  OBVIOUS
<1>. HIDE DEF Front
<1>. QED
  BY <1>2, <1>4, <1>5

LEMMA FrontMembers ==
  ASSUME NEW n \in Seq(ConstructType), n # << >>
  PROVE  /\ DOMAIN n = 1 .. Len(n) /\ DOMAIN Front(n) = 1 .. Len(n) - 1
         /\ \A i \in 1 .. Len(n) : n[i] \in ConstructType
         /\ \A i \in 1 .. Len(n) - 1 : Front(n)[i] \in ConstructType
<1>1. \A i \in 1 .. Len(n) : n[i] \in ConstructType
  BY ElementOfSeq
<1>2. Front(n) \in Seq(ConstructType) /\ Len(Front(n)) = Len(n) - 1
      /\ DOMAIN n = 1 .. Len(n) /\ DOMAIN Front(n) = 1 .. Len(n) - 1
  BY FrontOfNesting, Zenon
<1>3. \A i \in 1 .. Len(Front(n)) : Front(n)[i] \in ConstructType
  BY <1>2, ElementOfSeq
<1>. QED
  BY <1>1, <1>2, <1>3

LEMMA BaseOf ==
  ASSUME NEW n \in Seq(ConstructType)
  PROVE  /\ Base(n) \in 0 .. Len(n)
         /\ Base(n) # 0 => n[Base(n)].kind \in Activations
         /\ \A i \in Base(n) + 1 .. Len(n) : n[i].kind \notin Activations
<1>. DEFINE S == {i \in DOMAIN n : n[i].kind \in Activations}
<1>1. Len(n) \in Nat /\ S \in SUBSET (1 .. Len(n)) /\ S \in SUBSET Nat
  BY LenProperties
<1>2. /\ Innermost(S) \in 0 .. Len(n)
      /\ \A i \in S : i <= Innermost(S)
      /\ Innermost(S) # 0 => Innermost(S) \in S
  <2>. HIDE DEF S
  <2>. QED
    BY <1>1, InnermostIn
<1>3. \A i \in 1 .. Len(n) : n[i].kind \in Activations => i \in S
  BY LenProperties
<1>4. Base(n) = Innermost(S)
  BY DEF Base
<1>5. Innermost(S) # 0 => n[Innermost(S)].kind \in Activations
  BY <1>2
<1>. HIDE DEF S
<1>. QED
  BY <1>1, <1>2, <1>3, <1>4, <1>5

LEMMA BaseFront ==
  ASSUME NEW n \in Seq(ConstructType), n # << >>, n[Len(n)].kind \notin Activations
  PROVE  Base(Front(n)) = Base(n)
<1>. DEFINE P == {c \in ConstructType : c.kind \in Activations}
<1>1. {i \in 1 .. Len(n) - 1 : Front(n)[i] \in P} = {i \in 1 .. Len(n) : n[i] \in P}
  <2>. HIDE DEF P
  <2>1. n[Len(n)] \notin P
    BY DEF P
  <2>. QED
    BY <2>1, ChosenOfFront
<1>2. {i \in DOMAIN Front(n) : Front(n)[i].kind \in Activations}
        = {i \in DOMAIN n : n[i].kind \in Activations}
  BY <1>1, FrontMembers
<1>. QED
  BY <1>2 DEF Base

LEMMA BaseTop ==
  ASSUME NEW n \in Seq(ConstructType), n # << >>, n[Len(n)].kind \in Activations
  PROVE  Base(n) = Len(n)
<1>1. Len(n) \in {i \in DOMAIN n : n[i].kind \in Activations}
  BY FrontOfNesting
<1>2. \A i \in {i \in DOMAIN n : n[i].kind \in Activations} : i <= Len(n) /\ i \in Nat
  BY FrontOfNesting
<1>. QED
  BY <1>1, <1>2, InnermostIs DEF Base

\* A return, a break or a continue that the innermost construct does not take
\* goes where it would go without it.
LEMMA ReturnFront ==
  ASSUME NEW n \in Seq(ConstructType), n # << >>, n[Len(n)].kind \notin Activations
  PROVE  AfterReturn(Front(n)) = AfterReturn(n)
<1>1. Base(Front(n)) = Base(n) /\ Base(n) \in 0 .. Len(n) - 1 /\ Len(n) \in Nat
  <2>1. Front(n) \in Seq(ConstructType) /\ Len(Front(n)) = Len(n) - 1 /\ Len(n) \in Nat
    BY FrontOfNesting
  <2>. HIDE DEF Front
  <2>. QED
    BY <2>1, BaseFront, BaseOf
<1>2. CASE Base(n) = 0
  BY <1>1, <1>2, SubSeqEmpty DEF AfterReturn
<1>3. CASE Base(n) # 0
  <2>1. Base(n) - 1 \in 0 .. Len(n) - 1
    BY <1>1, <1>3
  <2>. QED
    BY <1>1, <2>1, PrefixOfFront DEF AfterReturn
<1>. QED
  BY <1>2, <1>3

LEMMA ReturnTop ==
  ASSUME NEW n \in Seq(ConstructType), n # << >>, n[Len(n)].kind \in Activations
  PROVE  AfterReturn(n) = Front(n)
BY BaseTop DEF AfterReturn, Front

LEMMA ThrowFront ==
  ASSUME NEW n \in Seq(ConstructType), n # << >>, ~n[Len(n)].armed
  PROVE  AfterThrow(Front(n)) = AfterThrow(n)
<1>. DEFINE S == {i \in DOMAIN n : n[i].armed}
<1>1. {i \in DOMAIN Front(n) : Front(n)[i].armed} = S
  <2>. DEFINE P == {c \in ConstructType : c.armed}
  <2>1. {i \in 1 .. Len(n) - 1 : Front(n)[i] \in P} = {i \in 1 .. Len(n) : n[i] \in P}
    <3>1. n[Len(n)] \notin P
      OBVIOUS
    <3>. HIDE DEF P
    <3>2. {i \in 0 + 1 .. Len(n) - 1 : Front(n)[i] \in P}
            = {i \in 0 + 1 .. Len(n) : n[i] \in P}
      BY <3>1, ChosenOfFront
    <3>. QED
      BY <3>2
  <2>. QED
    BY <2>1, FrontMembers
<1>2. S \in SUBSET (1 .. Len(n) - 1) /\ Len(n) - 1 \in Nat
  BY FrontOfNesting
<1>3. ThrowTarget(Front(n)) = ThrowTarget(n) /\ ThrowTarget(n) \in 0 .. Len(n) - 1
  <2>1. ThrowTarget(Front(n)) = Innermost(S) /\ ThrowTarget(n) = Innermost(S)
    BY <1>1 DEF ThrowTarget
  <2>. HIDE DEF S
  <2>. QED
    BY <1>2, <2>1, InnermostIn
<1>4. SubSeq(Front(n), 1, ThrowTarget(n)) = SubSeq(n, 1, ThrowTarget(n))
  BY <1>3, PrefixOfFront
<1>. HIDE DEF S, Front
<1>. QED
  BY <1>3, <1>4 DEF AfterThrow

LEMMA ThrowTop ==
  ASSUME NEW n \in Seq(ConstructType), n # << >>, n[Len(n)].armed
  PROVE  AfterThrow(n) = [n EXCEPT ![Len(n)].armed = FALSE]
<1>1. Len(n) \in {i \in DOMAIN n : n[i].armed}
  BY FrontOfNesting
<1>2. \A i \in {i \in DOMAIN n : n[i].armed} : i <= Len(n) /\ i \in Nat
  BY FrontOfNesting
<1>3. ThrowTarget(n) = Len(n) /\ Len(n) # 0
  BY <1>1, <1>2, InnermostIs, FrontOfNesting DEF ThrowTarget
<1>4. SubSeq(n, 1, Len(n)) = n
  BY SubSeqFull
<1>. QED
  BY <1>3, <1>4 DEF AfterThrow

LEMMA ThrowEmpty ==
  ASSUME NEW n, DOMAIN n = {}
  PROVE  AfterThrow(n) = << >>
<1>1. {i \in DOMAIN n : n[i].armed} = {}
  OBVIOUS
<1>2. ThrowTarget(n) = 0
  BY <1>1, InnermostIs DEF ThrowTarget
<1>. QED
  BY <1>2 DEF AfterThrow

LEMMA BreakFront ==
  ASSUME NEW n \in Seq(ConstructType), n # << >>, NEW l,
         n[Len(n)].kind \notin Activations, ~TakesBreak(n[Len(n)], l)
  PROVE  AfterBreak(Front(n), l) = AfterBreak(n, l)
<1>. DEFINE S == {i \in Base(n) + 1 .. Len(n) : TakesBreak(n[i], l)}
<1>1. Base(Front(n)) = Base(n) /\ Base(n) \in 0 .. Len(n) /\ Len(n) \in Nat \ {0}
  BY BaseFront, BaseOf, FrontOfNesting
<1>2. {i \in Base(n) + 1 .. Len(n) - 1 : TakesBreak(Front(n)[i], l)} = S
  <2>. DEFINE P == {c \in ConstructType : TakesBreak(c, l)}
  <2>1. {i \in Base(n) + 1 .. Len(n) - 1 : Front(n)[i] \in P}
          = {i \in Base(n) + 1 .. Len(n) : n[i] \in P}
    <3>1. n[Len(n)] \notin P
      OBVIOUS
    <3>. HIDE DEF P
    <3>. QED
      BY <1>1, <3>1, ChosenOfFront
  <2>2. Base(n) + 1 .. Len(n) \subseteq 1 .. Len(n)
        /\ Base(n) + 1 .. Len(n) - 1 \subseteq 1 .. Len(n) - 1
    BY <1>1
  <2>. QED
    BY <2>1, <2>2, FrontMembers
<1>3. S \in SUBSET (1 .. Len(n) - 1) /\ Len(n) - 1 \in Nat
  BY <1>1
<1>4. BreakTarget(Front(n), l) = BreakTarget(n, l) /\ BreakTarget(n, l) \in 0 .. Len(n) - 1
  <2>1. BreakTarget(Front(n), l) = Innermost(S) /\ BreakTarget(n, l) = Innermost(S)
    BY <1>1, <1>2, FrontOfNesting DEF BreakTarget
  <2>. HIDE DEF S
  <2>. QED
    BY <1>3, <2>1, InnermostIn
<1>5. BreakTarget(n, l) # 0 =>
        SubSeq(Front(n), 1, BreakTarget(n, l) - 1) = SubSeq(n, 1, BreakTarget(n, l) - 1)
  <2>. HIDE DEF S
  <2>1. BreakTarget(n, l) # 0 => BreakTarget(n, l) - 1 \in 0 .. Len(n) - 1
    BY <1>1, <1>4
  <2>. QED
    BY <2>1, PrefixOfFront
<1>6. AfterReturn(Front(n)) = AfterReturn(n)
  BY ReturnFront
<1>. HIDE DEF S, Front
<1>. QED
  BY <1>4, <1>5, <1>6 DEF AfterBreak

LEMMA BreakTop ==
  ASSUME NEW n \in Seq(ConstructType), n # << >>, NEW l, TakesBreak(n[Len(n)], l)
  PROVE  AfterBreak(n, l) = Front(n)
<1>1. n[Len(n)].kind \notin Activations
  BY DEF TakesBreak, Activations, Loops
<1>2. Base(n) \in 0 .. Len(n) - 1 /\ Len(n) \in Nat \ {0}
  <2>1. Base(n) \in 0 .. Len(n) /\ (Base(n) # 0 => n[Base(n)].kind \in Activations)
        /\ Len(n) \in Nat \ {0}
    BY BaseOf, FrontOfNesting
  <2>. QED
    BY <1>1, <2>1
<1>3. Len(n) \in {i \in Base(n) + 1 .. Len(n) : TakesBreak(n[i], l)}
  BY <1>2
<1>4. \A i \in {i \in Base(n) + 1 .. Len(n) : TakesBreak(n[i], l)} : i <= Len(n) /\ i \in Nat
  BY <1>2
<1>5. BreakTarget(n, l) = Len(n)
  BY <1>3, <1>4, InnermostIs DEF BreakTarget
<1>. QED
  BY <1>2, <1>5 DEF AfterBreak, Front

LEMMA BreakBase ==
  ASSUME NEW n \in Seq(ConstructType), n # << >>, NEW l, n[Len(n)].kind \in Activations
  PROVE  AfterBreak(n, l) = AfterThrow(Front(n))
<1>1. Base(n) = Len(n) /\ Len(n) \in Nat
  BY BaseTop, FrontOfNesting
<1>2. {i \in Base(n) + 1 .. Len(n) : TakesBreak(n[i], l)} = {}
  BY <1>1
<1>3. BreakTarget(n, l) = 0
  BY <1>2, InnermostIs DEF BreakTarget
<1>. QED
  BY <1>3, ReturnTop DEF AfterBreak

LEMMA ContinueFront ==
  ASSUME NEW n \in Seq(ConstructType), n # << >>, NEW l,
         n[Len(n)].kind \notin Activations, ~TakesContinue(n[Len(n)], l)
  PROVE  AfterContinue(Front(n), l) = AfterContinue(n, l)
<1>. DEFINE S == {i \in Base(n) + 1 .. Len(n) : TakesContinue(n[i], l)}
<1>1. Base(Front(n)) = Base(n) /\ Base(n) \in 0 .. Len(n) /\ Len(n) \in Nat \ {0}
  BY BaseFront, BaseOf, FrontOfNesting
<1>2. {i \in Base(n) + 1 .. Len(n) - 1 : TakesContinue(Front(n)[i], l)} = S
  <2>. DEFINE P == {c \in ConstructType : TakesContinue(c, l)}
  <2>1. {i \in Base(n) + 1 .. Len(n) - 1 : Front(n)[i] \in P}
          = {i \in Base(n) + 1 .. Len(n) : n[i] \in P}
    <3>1. n[Len(n)] \notin P
      OBVIOUS
    <3>. HIDE DEF P
    <3>. QED
      BY <1>1, <3>1, ChosenOfFront
  <2>2. Base(n) + 1 .. Len(n) \subseteq 1 .. Len(n)
        /\ Base(n) + 1 .. Len(n) - 1 \subseteq 1 .. Len(n) - 1
    BY <1>1
  <2>. QED
    BY <2>1, <2>2, FrontMembers
<1>3. S \in SUBSET (1 .. Len(n) - 1) /\ Len(n) - 1 \in Nat
  BY <1>1
<1>4. ContinueTarget(Front(n), l) = ContinueTarget(n, l)
      /\ ContinueTarget(n, l) \in 0 .. Len(n) - 1
  <2>1. ContinueTarget(Front(n), l) = Innermost(S) /\ ContinueTarget(n, l) = Innermost(S)
    BY <1>1, <1>2, FrontOfNesting DEF ContinueTarget
  <2>. HIDE DEF S
  <2>. QED
    BY <1>3, <2>1, InnermostIn
<1>5. SubSeq(Front(n), 1, ContinueTarget(n, l)) = SubSeq(n, 1, ContinueTarget(n, l))
  BY <1>4, PrefixOfFront
<1>6. AfterReturn(Front(n)) = AfterReturn(n)
  BY ReturnFront
<1>. HIDE DEF S, Front
<1>. QED
  BY <1>4, <1>5, <1>6 DEF AfterContinue

LEMMA ContinueTop ==
  ASSUME NEW n \in Seq(ConstructType), n # << >>, NEW l, TakesContinue(n[Len(n)], l)
  PROVE  AfterContinue(n, l) = n
<1>1. n[Len(n)].kind \notin Activations
  BY DEF TakesContinue, Activations, Loops
<1>2. Base(n) \in 0 .. Len(n) - 1 /\ Len(n) \in Nat \ {0}
  <2>1. Base(n) \in 0 .. Len(n) /\ (Base(n) # 0 => n[Base(n)].kind \in Activations)
        /\ Len(n) \in Nat \ {0}
    BY BaseOf, FrontOfNesting
  <2>. QED
    BY <1>1, <2>1
<1>3. Len(n) \in {i \in Base(n) + 1 .. Len(n) : TakesContinue(n[i], l)}
  BY <1>2
<1>4. \A i \in {i \in Base(n) + 1 .. Len(n) : TakesContinue(n[i], l)} : i <= Len(n) /\ i \in Nat
  BY <1>2
<1>5. ContinueTarget(n, l) = Len(n)
  BY <1>3, <1>4, InnermostIs DEF ContinueTarget
<1>. QED
  BY <1>2, <1>5, SubSeqFull DEF AfterContinue

LEMMA ContinueBase ==
  ASSUME NEW n \in Seq(ConstructType), n # << >>, NEW l, n[Len(n)].kind \in Activations
  PROVE  AfterContinue(n, l) = AfterThrow(Front(n))
<1>1. Base(n) = Len(n) /\ Len(n) \in Nat
  BY BaseTop, FrontOfNesting
<1>2. {i \in Base(n) + 1 .. Len(n) : TakesContinue(n[i], l)} = {}
  BY <1>1
<1>3. ContinueTarget(n, l) = 0
  BY <1>2, InnermostIs DEF ContinueTarget
<1>. QED
  BY <1>3, ReturnTop DEF AfterContinue

-----------------------------------------------------------------------------
(* The inductive invariant of jumps.                                       *)

\* Whether frame f takes the jump c, for itself or as its function's caller.
Takes(f, c) ==
  \/ f.kind \in {"Call", "New"}
  \/ c.type = "Break" /\ TakesBreak(f, c.target)
  \/ c.type = "Continue" /\ TakesContinue(f, c.target)

\* Whether f hands c on unharmed when it does not take it.
Crosses(f, c) ==
  /\ f.kind \notin Activations
  /\ c.type = "Break" => IF c.target = NoLabel THEN f.kind # "Labeled"
                                               ELSE f.kind \notin Loops

\* The jump c, coming from above frame n of s, is taken.
Reaches(s, n, c) ==
  \E t \in 1 .. n : Takes(s[t], c) /\ \A i \in t + 1 .. n : Crosses(s[i], c)

Returning == [type |-> "Return", target |-> NoLabel]

(* A method is in no finalizer and has nothing to resume (pending), and a  *)
(* return statement is in a function.                                      *)
FrameInv(s, i) ==
  /\ s[i].kind \in Kinds \cup {"Program"}
  /\ s[i].pending = InitialCompletion
  /\ s[i].at # "finalizer"
  /\ s[i].kind = "Return" => Reaches(s, i - 1, Returning)

FramesInv == \A i \in DOMAIN stack : FrameInv(stack, i)

\* A jump in cv_ is taken by one of the methods that are running.
DoneInv ==
  mode = "done" =>
    IF cv.type \in {"Normal", "Throw"} THEN cv.target = NoLabel
    ELSE Reaches(stack, Len(stack), cv)

(* StartsNormal and ExceptionPending, strengthened: no jump is lost or     *)
(* altered on its way to the method that resets cv_.                       *)
ControlInv == StartsNormal /\ ExceptionPending /\ DoneInv /\ FramesInv

\* The programs have no finally block.
NoFinalizers == Kinds \cap {"TryFinally", "TryCatchFinally"} = {}

-----------------------------------------------------------------------------
(* FramesInv as the stack changes.                                         *)

\* g is f, as far or further, but in no finalizer.
Alike(f, g) ==
  /\ f.kind = g.kind /\ f.label = g.label /\ f.ll = g.ll /\ f.pending = g.pending
  /\ f.at # "finalizer" => g.at # "finalizer"

LEMMA ReachesKept ==
  ASSUME NEW s, NEW t, NEW n \in Int, NEW c, \A i \in 1 .. n : Alike(s[i], t[i]),
         Reaches(s, n, c)
  PROVE  Reaches(t, n, c)
<1>1. ASSUME NEW i \in 1 .. n
      PROVE  (Takes(s[i], c) <=> Takes(t[i], c)) /\ (Crosses(s[i], c) <=> Crosses(t[i], c))
  <2>1. Alike(s[i], t[i])
    OBVIOUS
  <2>. QED
    BY <2>1 DEF Alike, Takes, Crosses, TakesBreak, TakesContinue
<1>2. PICK j \in 1 .. n : Takes(s[j], c) /\ \A i \in j + 1 .. n : Crosses(s[i], c)
  BY DEF Reaches
<1>3. Takes(t[j], c) /\ \A i \in j + 1 .. n : Crosses(t[i], c)
  BY <1>1, <1>2
<1>. QED
  BY <1>3 DEF Reaches

\* The jump goes on when the frame above where it lands has returned.
LEMMA ReachesOn ==
  ASSUME NEW s, NEW n \in Nat \ {0}, NEW c, Reaches(s, n, c), ~Takes(s[n], c)
  PROVE  Reaches(s, n - 1, c) /\ Crosses(s[n], c)
<1>1. PICK j \in 1 .. n : Takes(s[j], c) /\ \A i \in j + 1 .. n : Crosses(s[i], c)
  BY DEF Reaches
<1>2. j # n
  BY <1>1
<1>3. j \in 1 .. n - 1 /\ n \in j + 1 .. n /\ \A i \in j + 1 .. n - 1 : i \in j + 1 .. n
  BY <1>2
<1>. QED
  BY <1>1, <1>3 DEF Reaches

LEMMA FrameKept ==
  ASSUME NEW s, NEW t, NEW i \in Nat \ {0}, \A j \in 1 .. i : Alike(s[j], t[j]), FrameInv(s, i)
  PROVE  FrameInv(t, i)
<1>1. Alike(s[i], t[i]) /\ \A j \in 1 .. i - 1 : Alike(s[j], t[j])
  OBVIOUS
<1>2. ASSUME Reaches(s, i - 1, Returning) PROVE Reaches(t, i - 1, Returning)
  <2>1. i - 1 \in Int
    OBVIOUS
  <2>. QED
    BY <1>1, <1>2, <2>1, ReachesKept
<1>. QED
  BY <1>1, <1>2 DEF Alike, FrameInv

LEMMA FramesAlike ==
  ASSUME NEW s, NEW t, NEW n \in Nat, \A i \in 1 .. n : Alike(s[i], t[i]),
         \A i \in 1 .. n : FrameInv(s, i)
  PROVE  \A i \in 1 .. n : FrameInv(t, i)
<1>1. ASSUME NEW i \in 1 .. n PROVE FrameInv(t, i)
  <2>1. i \in Nat \ {0} /\ FrameInv(s, i) /\ \A j \in 1 .. i : j \in 1 .. n
    OBVIOUS
  <2>2. \A j \in 1 .. i : Alike(s[j], t[j])
    BY <2>1
  <2>. QED
    BY <2>1, <2>2, FrameKept
<1>. QED
  BY <1>1

LEMMA FramesPopped ==
  ASSUME TypeOK, stack # << >>, FramesInv, Pops
  PROVE  FramesInv'
<1>. PICK n \in Nat : n = Len(stack) - 1
  BY TopType
<1>1. /\ DOMAIN stack = 1 .. n + 1 /\ DOMAIN stack' = 1 .. n
      /\ \A i \in 1 .. n : stack'[i] = stack[i]
  BY PopProperties, TopType, LenProperties DEF TypeOK
<1>2. \A i \in 1 .. n : FrameInv(stack, i) /\ Alike(stack[i], stack'[i])
  BY <1>1 DEF FramesInv, Alike
<1>. QED
  BY <1>1, <1>2, FramesAlike DEF FramesInv

LEMMA FramesMoved ==
  ASSUME TypeOK, stack # << >>, FramesInv, NEW f \in FrameType, Alike(Top, f),
         stack' = [stack EXCEPT ![Len(stack)] = f]
  PROVE  FramesInv'
<1>. PICK n \in Nat : n = Len(stack)
  BY TopType
<1>1. /\ DOMAIN stack = 1 .. n /\ DOMAIN stack' = 1 .. n
      /\ \A i \in 1 .. n - 1 : stack'[i] = stack[i]
      /\ stack'[n] = f
  BY ReplaceFrame, TopType, LenProperties DEF TypeOK
<1>2. \A i \in 1 .. n : FrameInv(stack, i) /\ Alike(stack[i], stack'[i])
  BY <1>1 DEF FramesInv, Alike, Top
<1>. QED
  BY <1>1, <1>2, FramesAlike DEF FramesInv

LEMMA FramesPushed ==
  ASSUME TypeOK, FramesInv, NEW f \in FrameType, stack' = Append(stack, f),
         f.kind \in Kinds, f.pending = InitialCompletion, f.at # "finalizer",
         f.kind = "Return" => Reaches(stack, Len(stack), Returning)
  PROVE  FramesInv'
<1>. PICK n \in Nat : n = Len(stack)
  BY LenProperties DEF TypeOK
<1>1. /\ DOMAIN stack = 1 .. n /\ DOMAIN stack' = 1 .. n + 1
      /\ \A i \in 1 .. n : stack'[i] = stack[i]
      /\ stack'[n + 1] = f
  BY AppendFrame, LenProperties DEF TypeOK
<1>2. \A i \in 1 .. n : FrameInv(stack, i) /\ Alike(stack[i], stack'[i])
  BY <1>1 DEF FramesInv, Alike
<1>3. \A i \in 1 .. n : FrameInv(stack', i)
  BY <1>2, FramesAlike
<1>4. FrameInv(stack', n + 1)
  <2>1. ASSUME Reaches(stack, n, Returning)
        PROVE  Reaches(stack', n, Returning)
    <3>1. n \in Int
      OBVIOUS
    <3>. QED
      BY <1>2, <2>1, <3>1, ReachesKept
  <2>2. (n + 1) - 1 = n
    OBVIOUS
  <2>. QED
    BY <1>1, <2>1, <2>2 DEF FrameInv
<1>. QED
  BY <1>1, <1>3, <1>4 DEF FramesInv

-----------------------------------------------------------------------------
(* What a jump that is placed and taken says of the frames.                *)

\* Nesting, of any stack.
NestingOf(s) == [i \in DOMAIN s |-> AsConstruct(s[i])]

LEMMA NestingIs == Nesting = NestingOf(stack)
BY DEF Nesting, NestingOf

LEMMA NestingOfType ==
  ASSUME NEW s \in Seq(FrameType)
  PROVE  /\ NestingOf(s) \in Seq(ConstructType)
         /\ Len(NestingOf(s)) = Len(s)
         /\ \A i \in 1 .. Len(s) : NestingOf(s)[i] = AsConstruct(s[i])
<1>. PICK n \in Nat : n = Len(s)
  BY LenProperties
<1>1. DOMAIN s = 1 .. n /\ \A i \in 1 .. n : s[i] \in FrameType
  BY LenProperties, ElementOfSeq
<1>2. \A i \in 1 .. n : AsConstruct(s[i]) \in ConstructType
  BY <1>1 DEF AsConstruct, ConstructType, FrameType
<1>3. NestingOf(s) = [i \in 1 .. n |-> AsConstruct(s[i])]
  BY <1>1 DEF NestingOf
<1>4. NestingOf(s) \in [1 .. n -> ConstructType]
  BY <1>2, <1>3
<1>5. NestingOf(s) \in Seq(ConstructType) /\ Len(NestingOf(s)) = n
  BY <1>4, SeqDef
<1>. QED
  BY <1>1, <1>3, <1>5

LEMMA NestingType ==
  ASSUME TypeOK
  PROVE  /\ Nesting \in Seq(ConstructType)
         /\ Len(Nesting) = Len(stack)
         /\ DOMAIN stack = 1 .. Len(stack)
         /\ \A i \in 1 .. Len(stack) : Nesting[i] = AsConstruct(stack[i])
         /\ \A i \in 1 .. Len(stack) : stack[i] \in FrameType
<1>1. stack \in Seq(FrameType)
  BY DEF TypeOK
<1>2. DOMAIN stack = 1 .. Len(stack) /\ \A i \in 1 .. Len(stack) : stack[i] \in FrameType
  BY <1>1, LenProperties, ElementOfSeq
<1>. QED
  BY <1>1, <1>2, NestingOfType, NestingIs

LEMMA SameTakes ==
  ASSUME NEW f, NEW l
  PROVE  /\ TakesBreak(AsConstruct(f), l) <=> TakesBreak(f, l)
         /\ TakesContinue(AsConstruct(f), l) <=> TakesContinue(f, l)
         /\ AsConstruct(f).kind = f.kind
BY DEF AsConstruct, TakesBreak, TakesContinue

LEMMA BaseOfStack ==
  ASSUME TypeOK, CallNesting, stack # << >>
  PROVE  /\ Base(Nesting) \in 1 .. Len(stack)
         /\ stack[Base(Nesting)].kind \in Activations
         /\ \A i \in Base(Nesting) + 1 .. Len(stack) : stack[i].kind \notin Activations
<1>1. \A i \in 1 .. Len(stack) : Nesting[i].kind = stack[i].kind
  BY NestingType, SameTakes
<1>2. /\ Base(Nesting) \in 0 .. Len(stack)
      /\ Base(Nesting) # 0 => Nesting[Base(Nesting)].kind \in Activations
      /\ \A i \in Base(Nesting) + 1 .. Len(stack) : Nesting[i].kind \notin Activations
  <2>1. Nesting \in Seq(ConstructType) /\ Len(Nesting) = Len(stack)
    BY NestingType
  <2>. QED
    BY <2>1, BaseOf
<1>3. Len(stack) \in Nat \ {0} /\ stack[1].kind = "Program"
  <2>1. Len(stack) \in Nat \ {0} /\ 1 \in DOMAIN stack
    BY TopType, LenProperties DEF TypeOK
  <2>2. WellNested(stack, 1)
    BY <2>1 DEF CallNesting
  <2>. QED
    BY <2>1, <2>2 DEF WellNested
<1>4. Base(Nesting) # 0
  BY <1>1, <1>2, <1>3 DEF Activations
<1>. QED
  BY <1>1, <1>2, <1>3, <1>4

LEMMA InnermostOfTwo ==
  ASSUME NEW t \in Nat, NEW b \in Nat
  PROVE  Innermost({t, b}) = IF t < b THEN b ELSE t
<1>1. CASE t < b
  <2>1. b \in {t, b} \cup {0} /\ \A i \in {t, b} : i <= b
    BY <1>1
  <2>2. Innermost({t, b}) = b
    BY <2>1, InnermostIs
  <2>. QED
    BY <1>1, <2>2
<1>2. CASE ~ (t < b)
  <2>1. t \in {t, b} \cup {0} /\ \A i \in {t, b} : i <= t
    BY <1>2
  <2>2. Innermost({t, b}) = t
    BY <2>1, InnermostIs
  <2>. QED
    BY <1>2, <2>2
<1>. QED
  BY <1>1, <1>2

LEMMA BreakReaches ==
  ASSUME TypeOK, CallNesting, stack # << >>, NEW l, PlacedBreak(l), BreakIsTaken(l)
  PROVE  Reaches(stack, Len(stack), [type |-> "Break", target |-> l])
<1>. DEFINE c == [type |-> "Break", target |-> l]
            t == BreakTarget(Nesting, l)
            b == Base(Nesting)
            n == Len(stack)
<1>1. /\ b \in 1 .. n /\ n \in Nat
      /\ \A i \in b + 1 .. n : stack[i].kind \notin Activations
  BY BaseOfStack, LenProperties DEF TypeOK
<1>2. /\ t \in 0 .. n
      /\ t # 0 => t \in b + 1 .. n /\ TakesBreak(stack[t], l)
  <2>. DEFINE S == {i \in b + 1 .. n : TakesBreak(Nesting[i], l)}
  <2>1. S \in SUBSET (1 .. n) /\ t = Innermost(S)
    <3>1. Len(Nesting) = n
      BY NestingType
    <3>2. t = Innermost(S)
      BY <3>1 DEF BreakTarget
    <3>. QED
      BY <1>1, <3>2
  <2>2. t \in 0 .. n /\ (t # 0 => t \in S)
    <3>. HIDE DEF S, t
    <3>. QED
      BY <1>1, <2>1, InnermostIn
  <2>3. \A i \in S : i \in b + 1 .. n /\ TakesBreak(stack[i], l)
    BY <1>1, NestingType, SameTakes
  <2>. HIDE DEF S, t
  <2>. QED
    BY <2>2, <2>3
<1>3. /\ t = 0 => stack[b].kind \in {"Call", "New"}
      /\ \A i \in Innermost({t, b}) + 1 .. n :
           IF l = NoLabel THEN stack[i].kind # "Labeled" ELSE stack[i].kind \notin Loops
  BY DEF PlacedBreak, BreakIsTaken, LeavesActivation
<1>4. c.type = "Break" /\ c.target = l
  OBVIOUS
<1>. HIDE DEF t, b, n, c
<1>5. Innermost({t, b}) = IF t < b THEN b ELSE t
  BY <1>1, <1>2, InnermostOfTwo
<1>6. CASE t = 0
  <2>1. Innermost({t, b}) = b
    BY <1>1, <1>5, <1>6
  <2>2. Takes(stack[b], c) /\ \A i \in b + 1 .. n : Crosses(stack[i], c)
    BY <1>1, <1>3, <1>4, <1>6, <2>1 DEF Takes, Crosses
  <2>. QED
    BY <1>1, <2>2 DEF Reaches, c, n
<1>7. CASE t # 0
  <2>1. Innermost({t, b}) = t /\ t \in b + 1 .. n /\ t \in 1 .. n
    BY <1>1, <1>2, <1>5, <1>7
  <2>2. \A i \in t + 1 .. n : stack[i].kind \notin Activations
    BY <1>1, <2>1
  <2>3. Takes(stack[t], c) /\ \A i \in t + 1 .. n : Crosses(stack[i], c)
    BY <1>2, <1>3, <1>4, <1>7, <2>1, <2>2 DEF Takes, Crosses
  <2>. QED
    BY <2>1, <2>3 DEF Reaches, c, n
<1>. QED
  BY <1>6, <1>7

LEMMA ContinueReaches ==
  ASSUME TypeOK, CallNesting, stack # << >>, NEW l, PlacedContinue(l)
  PROVE  Reaches(stack, Len(stack), [type |-> "Continue", target |-> l])
<1>. DEFINE c == [type |-> "Continue", target |-> l]
            t == ContinueTarget(Nesting, l)
            b == Base(Nesting)
            n == Len(stack)
<1>1. /\ b \in 1 .. n /\ n \in Nat
      /\ \A i \in b + 1 .. n : stack[i].kind \notin Activations
  BY BaseOfStack, LenProperties DEF TypeOK
<1>2. /\ t \in 0 .. n
      /\ t # 0 => t \in b + 1 .. n /\ TakesContinue(stack[t], l)
  <2>. DEFINE S == {i \in b + 1 .. n : TakesContinue(Nesting[i], l)}
  <2>1. S \in SUBSET (1 .. n) /\ t = Innermost(S)
    <3>1. Len(Nesting) = n
      BY NestingType
    <3>2. t = Innermost(S)
      BY <3>1 DEF ContinueTarget
    <3>. QED
      BY <1>1, <3>2
  <2>2. t \in 0 .. n /\ (t # 0 => t \in S)
    <3>. HIDE DEF S, t
    <3>. QED
      BY <1>1, <2>1, InnermostIn
  <2>3. \A i \in S : i \in b + 1 .. n /\ TakesContinue(stack[i], l)
    BY <1>1, NestingType, SameTakes
  <2>. HIDE DEF S, t
  <2>. QED
    BY <2>2, <2>3
<1>3. t = 0 => stack[b].kind \in {"Call", "New"}
  BY DEF PlacedContinue, LeavesActivation
<1>4. c.type = "Continue" /\ c.target = l
  OBVIOUS
<1>. HIDE DEF t, b, n, c
<1>5. CASE t = 0
  <2>1. Takes(stack[b], c) /\ \A i \in b + 1 .. n : Crosses(stack[i], c)
    BY <1>1, <1>3, <1>4, <1>5 DEF Takes, Crosses
  <2>. QED
    BY <1>1, <2>1 DEF Reaches, c, n
<1>6. CASE t # 0
  <2>1. t \in b + 1 .. n /\ t \in 1 .. n
    BY <1>1, <1>2, <1>6
  <2>2. Takes(stack[t], c) /\ \A i \in t + 1 .. n : Crosses(stack[i], c)
    BY <1>1, <1>2, <1>4, <1>6, <2>1 DEF Takes, Crosses
  <2>. QED
    BY <2>1, <2>2 DEF Reaches, c, n
<1>. QED
  BY <1>5, <1>6

LEMMA ReturnReaches ==
  ASSUME TypeOK, CallNesting, stack # << >>, PlacedReturn
  PROVE  Reaches(stack, Len(stack), Returning)
<1>. DEFINE b == Base(Nesting)  n == Len(stack)
<1>1. /\ b \in 1 .. n /\ n \in Nat
      /\ \A i \in b + 1 .. n : stack[i].kind \notin Activations
  BY BaseOfStack, LenProperties DEF TypeOK
<1>2. stack[b].kind \in {"Call", "New"} /\ Returning.type = "Return"
  BY DEF PlacedReturn, LeavesActivation, Returning
<1>. HIDE DEF b, n
<1>3. Takes(stack[b], Returning) /\ \A i \in b + 1 .. n : Crosses(stack[i], Returning)
  BY <1>1, <1>2 DEF Takes, Crosses
<1>. QED
  BY <1>1, <1>3 DEF Reaches, n

-----------------------------------------------------------------------------
(* Each step preserves ControlInv.                                         *)

LEMMA InitialIs ==
  /\ InitialCompletion.type = "Normal" /\ InitialCompletion.target = NoLabel
  /\ \A c \in Completion : c.type = "Normal" /\ c.target = NoLabel => c = InitialCompletion
BY DEF InitialCompletion, Completion

\* The evaluator goes on with nothing pending.
LEMMA GoesOn ==
  ASSUME FramesInv', cv' = InitialCompletion, mode' = "null" => exc' # Nil
  PROVE  ControlInv'
BY InitialIs DEF ControlInv, StartsNormal, ExceptionPending, DoneInv

\* A method returns with something pending.
LEMMA Returns ==
  ASSUME FramesInv', mode' = "done",
         cv'.type = "Throw" => cv'.target = NoLabel /\ exc' # Nil,
         cv'.type = "Normal" => cv'.target = NoLabel,
         cv'.type \notin {"Normal", "Throw"} => Reaches(stack', Len(stack'), cv')
  PROVE  ControlInv'
BY DEF ControlInv, StartsNormal, ExceptionPending, DoneInv

LEMMA Vanished ==
  ASSUME NEW m \in {"ended", "crashed"}, Vanish(m)
  PROVE  ControlInv'
<1>1. stack' = << >> /\ mode' = m /\ cv' = InitialCompletion
  BY DEF Vanish
<1>2. FramesInv'
  BY <1>1 DEF FramesInv
<1>. QED
  BY <1>1, <1>2, GoesOn

\* What the top frame is known to be.
LEMMA TopControl ==
  ASSUME IInv, ControlInv, stack # << >>
  PROVE  /\ Top.kind \in Kinds \cup {"Program"} /\ Top.pending = InitialCompletion
         /\ Top.at # "finalizer"
         /\ Top.kind = "Return" => Reaches(stack, Len(stack) - 1, Returning)
BY TopType DEF IInv, ControlInv, FramesInv, FrameInv, Top

LEMMA ReachesPopped ==
  ASSUME IInv, stack # << >>, Pops, NEW c, Reaches(stack, Len(stack) - 1, c)
  PROVE  Reaches(stack', Len(stack'), c)
<1>. PICK n \in Nat : n = Len(stack) - 1
  BY TopType DEF IInv
<1>1. Len(stack') = n /\ \A i \in 1 .. n : stack'[i] = stack[i]
  BY PopProperties DEF IInv
<1>2. \A i \in 1 .. n : Alike(stack[i], stack'[i])
  BY <1>1 DEF Alike
<1>. QED
  BY <1>1, <1>2, ReachesKept

\* A method that does not take the jump hands it on.
LEMMA HandsOn ==
  ASSUME IInv, ControlInv, mode = "done", Finish(cv), exc' = exc,
         cv.type \in {"Normal", "Throw"} \/ ~Takes(Top, cv)
  PROVE  ControlInv'
<1>1. stack # << >> /\ Pops /\ cv' = cv /\ mode' = "done" /\ Len(stack) \in Nat \ {0}
  BY RunningTop, TopType DEF StatementModes, Finish, Pops, IInv
<1>2. FramesInv'
  BY <1>1, FramesPopped DEF IInv, ControlInv
<1>3. ASSUME cv.type \notin {"Normal", "Throw"}
      PROVE  Reaches(stack', Len(stack'), cv)
  <2>1. Reaches(stack, Len(stack), cv)
    BY <1>3 DEF ControlInv, DoneInv
  <2>2. Reaches(stack, Len(stack) - 1, cv)
    BY <1>1, <1>3, <2>1, ReachesOn DEF Top
  <2>. QED
    BY <1>1, <2>2, ReachesPopped
<1>. QED
  BY <1>1, <1>2, <1>3, Returns DEF ControlInv, DoneInv, ExceptionPending

\* It takes what was pending, or nothing was.
LEMMA Settles ==
  ASSUME IInv, ControlInv, stack # << >>, Finish(InitialCompletion)
  PROVE  ControlInv'
<1>1. FramesInv'
  BY FramesPopped DEF IInv, ControlInv, Finish, Pops
<1>. QED
  BY <1>1, GoesOn DEF Finish

\* A method goes on.
LEMMA Proceeds ==
  ASSUME IInv, ControlInv, stack # << >>, cv' = InitialCompletion,
         (\E p \in Phases \ {"finalizer"} : Proceed(p)) \/ NamesTested
  PROVE  ControlInv'
<1>1. Top \in FrameType
  BY TopType DEF IInv
<1>2. ASSUME NEW p \in Phases \ {"finalizer"}, stack' = [stack EXCEPT ![Len(stack)].at = p]
      PROVE  FramesInv'
  <2>. DEFINE f == [Top EXCEPT !.at = p]
  <2>1. f \in FrameType /\ Alike(Top, f)
    BY <1>1 DEF FrameType, Alike
  <2>2. stack' = [stack EXCEPT ![Len(stack)] = f]
    BY <1>2 DEF Top
  <2>. HIDE DEF f
  <2>. QED
    BY <2>1, <2>2, FramesMoved DEF IInv, ControlInv
<1>3. "test" \in Phases \ {"finalizer"}
  BY DEF Phases, ExpressionPhases
<1>4. FramesInv' /\ mode' # "null"
  BY <1>2, <1>3 DEF Proceed, NamesTested, Resume
<1>. QED
  BY <1>4, GoesOn

LEMMA EnterStatementControl ==
  ASSUME IInv, ControlInv, JumpsTaken, EnterStatement
  PROVE  ControlInv'
<1>1. /\ mode = "statement" /\ cv = InitialCompletion /\ stack # << >>
      /\ TypeOK /\ CallNesting /\ FramesInv
  <2>1. mode = "statement"
    BY DEF EnterStatement, Enter, EmptyStatement, BreakStatement, ContinueStatement,
           ReturnUndefined
  <2>. QED
    BY <2>1, RunningTop DEF StatementModes, IInv, ControlInv, StartsNormal
<1>2. ASSUME NEW k \in Kinds, Enter(k)
      PROVE  ControlInv'
  <2>1. PICK l \in IF k = "Labeled" THEN Labels ELSE {NoLabel}, p \in StartPhases(k) :
          Invoke(Frame(k, p, l, Inherited))
    BY <1>2 DEF Enter
  <2>. DEFINE f == Frame(k, p, l, Inherited)
  <2>2. k \in AllKinds /\ p \in Phases \ {"finalizer"} /\ Inherited \in SUBSET Labels
    <3>1. k \in StatementKinds
      BY <1>2 DEF Enter
    <3>2. p \in Phases \ {"finalizer"}
      BY <2>1 DEF StartPhases, Phases, ExpressionPhases
    <3>. QED
      BY <1>1, <3>1, <3>2, InheritedType, KindsDisjoint
  <2>3. f \in FrameType /\ f.kind = k /\ f.at = p /\ f.pending = InitialCompletion
    BY <2>1, <2>2, FrameTypes DEF Frame
  <2>4. k = "Return" => Reaches(stack, Len(stack), Returning)
    BY <1>1, <1>2, ReturnReaches DEF Enter
  <2>5. stack' = Append(stack, f) /\ mode' = Resume(f.at) /\ cv' = cv
    BY <1>2, <2>1 DEF Invoke, Enter
  <2>. HIDE DEF f
  <2>6. FramesInv'
    BY <1>1, <2>2, <2>3, <2>4, <2>5, FramesPushed
  <2>. QED
    BY <1>1, <2>5, <2>6, GoesOn DEF Resume
<1>3. UNCHANGED stack => FramesInv'
  BY <1>1 DEF FramesInv
<1>4. CASE EmptyStatement
  BY <1>1, <1>3, <1>4, GoesOn DEF EmptyStatement
<1>5. ASSUME NEW l \in Labels \cup {NoLabel}, BreakStatement(l)
      PROVE  ControlInv'
  <2>1. Target(l) = l
    BY <1>1, InitialIs DEF Target
  <2>2. cv' = [type |-> "Break", target |-> l] /\ mode' = "done" /\ UNCHANGED stack
    BY <1>5, <2>1 DEF BreakStatement
  <2>3. Reaches(stack, Len(stack), cv')
    BY <1>1, <1>5, <2>2, BreakReaches DEF BreakStatement
  <2>. QED
    BY <1>3, <2>2, <2>3, Returns
<1>6. ASSUME NEW l \in Labels \cup {NoLabel}, ContinueStatement(l)
      PROVE  ControlInv'
  <2>1. Target(l) = l
    BY <1>1, InitialIs DEF Target
  <2>2. cv' = [type |-> "Continue", target |-> l] /\ mode' = "done" /\ UNCHANGED stack
    BY <1>6, <2>1 DEF ContinueStatement
  <2>3. Reaches(stack, Len(stack), cv')
    BY <1>1, <1>6, <2>2, ContinueReaches DEF ContinueStatement
  <2>. QED
    BY <1>3, <2>2, <2>3, Returns
<1>7. CASE ReturnUndefined
  <2>1. cv' = Returning /\ mode' = "done" /\ UNCHANGED stack
    BY <1>1, <1>7 DEF ReturnUndefined, Becomes, InitialCompletion, Returning
  <2>2. Reaches(stack, Len(stack), Returning) /\ Returning.type = "Return"
    BY <1>1, <1>7, ReturnReaches DEF ReturnUndefined, Returning
  <2>. QED
    BY <1>3, <2>1, <2>2, Returns
<1>. QED
  BY <1>2, <1>4, <1>5, <1>6, <1>7 DEF EnterStatement

LEMMA ActivateControl ==
  ASSUME IInv, ControlInv, NEW k \in {"Call", "New", "Evalcx"}, NEW scope \in Environment,
         Activate(k, scope)
  PROVE  ControlInv'
<1>. DEFINE own == Append(scope, Len(stack) + 1)
            f == [Frame(k, "body", NoLabel, {}) EXCEPT
                  !.saved = env, !.own = own, !.pending = cv]
<1>1. mode = "expression" /\ cv = InitialCompletion /\ stack # << >> /\ Len(stack) \in Nat
  BY RunningTop, TopType DEF Activate, ExpressionModes, IInv, ControlInv, StartsNormal
<1>2. own \in Environment
  BY <1>1, AppendProperties DEF Environment
<1>. HIDE DEF own
<1>3. f \in FrameType /\ f.kind = k /\ f.at = "body" /\ f.pending = InitialCompletion
  <2>1. Frame(k, "body", NoLabel, {}) \in FrameType
        /\ Frame(k, "body", NoLabel, {}).kind = k /\ Frame(k, "body", NoLabel, {}).at = "body"
    BY ActivationFrameType
  <2>. QED
    BY <1>1, <1>2, <2>1 DEF FrameType, IInv, TypeOK
<1>4. stack' = Append(stack, f) /\ mode' = Resume(f.at) /\ cv' = InitialCompletion
      /\ k \in Kinds
  BY DEF Activate, Invoke, own
<1>. HIDE DEF f
<1>5. FramesInv'
  BY <1>3, <1>4, FramesPushed DEF IInv, ControlInv
<1>. QED
  BY <1>4, <1>5, GoesOn DEF Resume

LEMMA EvaluateControl ==
  ASSUME IInv, ControlInv, Evaluate
  PROVE  ControlInv'
<1>1. mode = "expression" /\ cv = InitialCompletion /\ FramesInv
  BY DEF Evaluate, Yield, Raise, CallFunction, Construct, Evalcx, Activate,
         ControlInv, StartsNormal
<1>2. UNCHANGED stack => FramesInv'
  BY <1>1 DEF FramesInv
<1>3. ASSUME NEW v \in {"truthy", "falsy"}, Yield(v)
      PROVE  ControlInv'
  BY <1>1, <1>2, <1>3, GoesOn DEF Yield
<1>4. ASSUME NEW e \in Exceptions, Raise(e)
      PROVE  ControlInv'
  BY <1>1, <1>2, <1>4, GoesOn, ExceptionsAssumption DEF Raise
<1>5. ClosureScopes \subseteq Environment /\ << >> \in Environment
  <2>1. \A i \in DOMAIN stack : stack[i] \in FrameType
    BY DEF IInv, TypeOK
  <2>2. \A i \in DOMAIN stack : stack[i].own \in Environment
    BY <2>1 DEF FrameType
  <2>. QED
    BY <2>2 DEF ClosureScopes, IInv, TypeOK, Environment
<1>. QED
  BY <1>3, <1>4, <1>5, ActivateControl DEF Evaluate, CallFunction, Construct, Evalcx

LEMMA ExpressionReturnsControl ==
  ASSUME IInv, ControlInv, ExpressionReturns
  PROVE  ControlInv'
<1>1. mode \in {"truthy", "falsy", "null"} /\ cv = InitialCompletion /\ stack # << >>
  <2>1. mode \in {"truthy", "falsy", "null"}
    BY DEF ExpressionReturns, ExpressionThrows, ForInMemberThrows,
         SimpleStatementEnds, ReturnValue, ThrowStatement, WithThrows, IfTest, LoopTest,
         ForContinues, ForInStarts, ForInStored, SwitchSelects, WithEnters, Returned
  <2>. QED
    BY <2>1, RunningTop DEF ExpressionModes, ControlInv, StartsNormal
<1>2. ASSUME NEW c, Finish(c) PROVE Pops /\ FramesInv' /\ cv' = c /\ mode' = "done"
  BY <1>1, <1>2, FramesPopped DEF IInv, ControlInv, Finish, Pops
<1>3. ASSUME Finish(cv) PROVE ControlInv'
  BY <1>1, <1>3, Settles
<1>4. ASSUME Finish(Becomes("Throw")), exc' # Nil PROVE ControlInv'
  <2>1. cv'.type = "Throw" /\ cv'.target = NoLabel
    BY <1>1, <1>2, <1>4 DEF Becomes, InitialCompletion
  <2>. QED
    BY <1>2, <1>4, <2>1, Returns
<1>5. ASSUME NEW p \in {"test", "left", "body"}, Proceed(p), UNCHANGED cv PROVE ControlInv'
  <2>1. p \in Phases \ {"finalizer"}
    BY DEF Phases, ExpressionPhases
  <2>. QED
    BY <1>1, <1>5, <2>1, Proceeds
<1>6. ASSUME NamesTested, UNCHANGED cv PROVE ControlInv'
  BY <1>1, <1>6, Proceeds
<1>7. CASE ExpressionThrows
  BY <1>4, <1>7 DEF ExpressionThrows, ControlInv, ExceptionPending
<1>8. CASE ForInMemberThrows \/ SimpleStatementEnds
  BY <1>3, <1>8 DEF ForInMemberThrows, SimpleStatementEnds
<1>9. CASE ReturnValue
  <2>1. Becomes("Return") = Returning
    BY <1>1 DEF Becomes, InitialCompletion, Returning
  <2>2. Reaches(stack', Len(stack'), Returning)
    BY <1>1, <1>2, <1>9, TopControl, ReachesPopped DEF ReturnValue, Returned
  <2>. QED
    BY <1>2, <1>9, <2>1, <2>2, Returns DEF ReturnValue, Returning
<1>10. ASSUME NEW e \in Exceptions, ThrowStatement(e) \/ WithThrows(e)
       PROVE  ControlInv'
  BY <1>4, <1>10, ExceptionsAssumption DEF ThrowStatement, WithThrows
<1>11. CASE IfTest
  BY <1>3, <1>5, <1>11 DEF IfTest
<1>12. CASE LoopTest
  BY <1>3, <1>5, <1>12 DEF LoopTest
<1>13. CASE ForContinues
  BY <1>3, <1>5, <1>13 DEF ForContinues
<1>14. CASE ForInStarts
  BY <1>3, <1>6, <1>14 DEF ForInStarts
<1>15. CASE ForInStored
  BY <1>5, <1>15 DEF ForInStored
<1>16. CASE SwitchSelects
  BY <1>3, <1>5, <1>16 DEF SwitchSelects
<1>17. CASE WithEnters
  <2>. DEFINE own == Append(env, Len(stack))
              f == [Top EXCEPT !.at = "body", !.saved = env, !.own = own]
  <2>1. own \in Environment /\ Top \in FrameType
    BY <1>1, TopType, AppendProperties DEF Environment, IInv, TypeOK
  <2>2. f \in FrameType /\ Alike(Top, f)
    BY <2>1 DEF FrameType, Alike, IInv, TypeOK, Phases
  <2>3. stack' = [stack EXCEPT ![Len(stack)] = f] /\ mode' = "statement" /\ cv' = cv
    BY <1>17 DEF WithEnters, Top
  <2>. HIDE DEF f
  <2>4. FramesInv'
    BY <1>1, <2>2, <2>3, FramesMoved DEF IInv, ControlInv
  <2>. QED
    BY <1>1, <2>3, <2>4, GoesOn
<1>. QED
  BY <1>7, <1>8, <1>9, <1>10, <1>11, <1>12, <1>13, <1>14, <1>15, <1>16, <1>17
  DEF ExpressionReturns

LEMMA StatementReturnsControl ==
  ASSUME IInv, ControlInv, NoFinalizers, StatementReturns
  PROVE  ControlInv'
<1>1. /\ mode = "done" /\ stack # << >> /\ cv \in Completion
      /\ cv.type \in {"Normal", "Throw"} => cv.target = NoLabel
      /\ cv.type = "Throw" => exc # Nil
  <2>1. mode = "done"
    BY DEF StatementReturns, NextStatement, BlockEnds, IfEnds, LabeledEnds,
         WithEnds, SwitchEnds, LoopBodyEnds, BlockThrows, BlockCompletes, HandlerEnds,
         FinalizerEnds, Finished
  <2>. QED
    BY <2>1, RunningTop
    DEF StatementModes, IInv, TypeOK, ControlInv, DoneInv, ExceptionPending
<1>2. CASE NextStatement
  <2>1. cv = InitialCompletion /\ UNCHANGED <<stack, cv, exc>> /\ mode' = "statement"
    BY <1>1, <1>2, InitialIs DEF NextStatement
  <2>2. FramesInv'
    BY <2>1 DEF FramesInv, ControlInv
  <2>. QED
    BY <2>1, <2>2, GoesOn
<1>3. CASE BlockEnds \/ IfEnds \/ WithEnds
  <2>1. ~Takes(Top, cv) /\ Finish(cv) /\ exc' = exc
    BY <1>3 DEF BlockEnds, IfEnds, WithEnds, Finished, Takes, TakesBreak, TakesContinue, Loops
  <2>. QED
    BY <1>1, <2>1, HandsOn
<1>4. CASE LabeledEnds
  <2>1. CASE Crash
    BY <2>1, Vanished DEF Crash
  <2>2. CASE Finish(InitialCompletion)
    BY <1>1, <2>2, Settles
  <2>3. CASE Finish(cv) /\ exc' = exc /\ ~(cv.type = "Break" /\ cv.target = Top.label)
    <3>1. ~Takes(Top, cv)
      BY <1>4, <2>3
      DEF LabeledEnds, Finished, Takes, TakesBreak, TakesContinue, Loops
    <3>. QED
      BY <1>1, <2>3, <3>1, HandsOn
  <2>. QED
    BY <1>4, <2>1, <2>2, <2>3 DEF LabeledEnds
<1>5. CASE SwitchEnds
  <2>1. CASE cv.type = "Break" /\ CheckIfLabelMatch(Top.ll)
    BY <1>1, <1>5, <2>1, Settles DEF SwitchEnds
  <2>2. CASE ~(cv.type = "Break" /\ CheckIfLabelMatch(Top.ll))
    <3>1. ~Takes(Top, cv) /\ Finish(cv) /\ exc' = exc
      BY <1>5, <2>2 DEF SwitchEnds, Finished, Takes, TakesBreak, TakesContinue, Loops,
                        CheckIfLabelMatch
    <3>. QED
      BY <1>1, <3>1, HandsOn
  <2>. QED
    BY <2>1, <2>2
<1>6. CASE LoopBodyEnds
  <2>. DEFINE r == BreakOrContinueIfLabelMatch(Top.ll)
              matched == cv.type \in {"Break", "Continue"} /\ CheckIfLabelMatch(Top.ll)
  <2>1. /\ Top.kind \in Loops
        /\ r.cv = (IF matched THEN InitialCompletion ELSE cv)
        /\ r.result <=> \/ cv.type = "Normal"
                        \/ cv.type = "Break" /\ ~matched
                        \/ cv.type = "Continue" /\ matched
        /\ IF r.result THEN LoopContinues /\ cv' = r.cv ELSE Finish(r.cv)
        /\ exc' = exc
    BY <1>6 DEF LoopBodyEnds, Finished, BreakOrContinueIfLabelMatch
  <2>. HIDE DEF r
  <2>2. ~(cv.type = "Break" /\ ~matched)
    <3>. SUFFICES ASSUME cv.type = "Break", ~matched
                  PROVE  FALSE
      OBVIOUS
    <3>1. Reaches(stack, Len(stack), cv) /\ Len(stack) \in Nat \ {0}
      BY <1>1, TopType DEF ControlInv, DoneInv, IInv
    <3>2. ~Takes(Top, cv)
      BY <2>1 DEF Takes, TakesBreak, CheckIfLabelMatch, Loops
    <3>3. Crosses(Top, cv)
      BY <3>1, <3>2, ReachesOn DEF Top
    <3>. QED
      BY <2>1, <3>3 DEF Crosses, CheckIfLabelMatch
  <2>3. CASE r.result
    <3>1. cv' = InitialCompletion
      BY <1>1, <2>1, <2>2, <2>3, InitialIs
    <3>2. {"test", "update", "body"} \subseteq Phases \ {"finalizer"}
      BY DEF Phases, ExpressionPhases
    <3>3. (\E p \in Phases \ {"finalizer"} : Proceed(p)) \/ NamesTested
      BY <2>1, <2>3, <3>2 DEF LoopContinues
    <3>. QED
      BY <1>1, <3>1, <3>3, Proceeds
  <2>4. CASE ~r.result /\ matched
    BY <1>1, <2>1, <2>4, Settles
  <2>5. CASE ~r.result /\ ~matched
    <3>1. ~Takes(Top, cv)
      BY <2>1, <2>5 DEF Takes, TakesBreak, TakesContinue, CheckIfLabelMatch, Loops
    <3>. QED
      BY <1>1, <2>1, <2>5, <3>1, HandsOn
  <2>. QED
    BY <2>3, <2>4, <2>5
<1>7. CASE BlockThrows
  <2>1. CASE Crash
    BY <2>1, Vanished DEF Crash
  <2>2. CASE ~Crash
    <3>1. Proceed("handler") /\ cv' = Becomes("Normal") /\ cv.type = "Throw"
      BY <1>7, <2>2 DEF BlockThrows
    <3>2. cv' = InitialCompletion
      BY <1>1, <3>1 DEF Becomes, InitialCompletion, Completion
    <3>3. "handler" \in Phases \ {"finalizer"}
      BY DEF Phases, ExpressionPhases
    <3>. QED
      BY <1>1, <3>1, <3>2, <3>3, Proceeds
  <2>. QED
    BY <2>1, <2>2
<1>8. Becomes(cv.type) = cv
  BY <1>1 DEF Becomes, Completion
<1>9. ASSUME Top.kind \in TryKinds, FinalizerOrEnd(cv.type), exc' = exc
      PROVE  ControlInv'
  <2>1. ~HasFinalizer
    BY <1>1, TopControl DEF HasFinalizer, NoFinalizers
  <2>2. Finish(cv) /\ ~Takes(Top, cv)
    BY <1>8, <1>9, <2>1 DEF FinalizerOrEnd, TryKinds, Takes, TakesBreak, TakesContinue, Loops
  <2>. QED
    BY <1>1, <1>9, <2>2, HandsOn
<1>10. CASE BlockCompletes
  <2>1. Top.kind \in TryKinds /\ HasHandler
    BY <1>1, <1>10, TopControl
    DEF BlockCompletes, Finished, TryKinds, HasHandler, NoFinalizers
  <2>. QED
    BY <1>9, <1>10, <2>1 DEF BlockCompletes
<1>11. CASE HandlerEnds
  BY <1>9, <1>11 DEF HandlerEnds, Finished
<1>12. ~FinalizerEnds
  BY <1>1, TopControl DEF FinalizerEnds
<1>. QED
  BY <1>2, <1>3, <1>4, <1>5, <1>6, <1>7, <1>10, <1>11, <1>12 DEF StatementReturns

LEMMA ActivationEndsControl ==
  ASSUME IInv, ControlInv, ActivationEnds
  PROVE  ControlInv'
<1>1. /\ mode = "done" /\ stack # << >> /\ cv \in Completion /\ Len(stack) \in Nat \ {0}
      /\ cv.type = "Throw" => exc # Nil
  <2>1. mode = "done"
    BY DEF ActivationEnds, FunctionEnds, EvalcxEnds, ProgramEnds, Finished
  <2>. QED
    BY <2>1, RunningTop, TopType
    DEF StatementModes, IInv, TypeOK, ControlInv, ExceptionPending
<1>2. ASSUME NEW b, GiveBack(b)
      PROVE  FramesInv' /\ cv' = InitialCompletion /\ mode' = (IF b THEN "null" ELSE "expression")
  BY <1>1, <1>2, TopControl, FramesPopped DEF GiveBack, IInv, ControlInv, Pops
<1>3. CASE FunctionEnds
  <2>1. Top.kind = "Call" /\ cv.type \notin {"Normal", "Return"} => exc' # Nil
    BY <1>1, <1>3, ExceptionsAssumption DEF FunctionEnds, Completion, CompletionTypes
  <2>. QED
    BY <1>2, <1>3, <2>1, GoesOn DEF FunctionEnds
<1>4. CASE EvalcxEnds
  <2>1. cv.type \in {"Normal", "Throw"}
    <3>. SUFFICES ASSUME cv.type \notin {"Normal", "Throw"}
                  PROVE  FALSE
      OBVIOUS
    <3>1. Reaches(stack, Len(stack), cv)
      BY <1>1 DEF ControlInv, DoneInv
    <3>2. ~Takes(Top, cv) /\ Top.kind \in Activations
      BY <1>4 DEF EvalcxEnds, Finished, Takes, TakesBreak, TakesContinue, Loops, Activations
    <3>3. Crosses(Top, cv)
      BY <1>1, <3>1, <3>2, ReachesOn DEF Top
    <3>. QED
      BY <3>2, <3>3 DEF Crosses
  <2>. QED
    BY <1>1, <1>2, <1>4, <2>1, GoesOn DEF EvalcxEnds
<1>5. CASE ProgramEnds
  BY <1>5, Vanished DEF ProgramEnds, Crash
<1>. QED
  BY <1>3, <1>4, <1>5 DEF ActivationEnds

LEMMA ProgramControl ==
  ASSUME stack = <<ProgramFrame>>, mode = "statement", cv = InitialCompletion
  PROVE  ControlInv
<1>1. ProgramFrame.kind = "Program" /\ ProgramFrame.pending = InitialCompletion
      /\ ProgramFrame.at = "body"
  BY DEF ProgramFrame, Frame
<1>2. FramesInv
  BY <1>1 DEF FramesInv, FrameInv
<1>. QED
  BY <1>2 DEF ControlInv, StartsNormal, ExceptionPending, DoneInv

LEMMA NextControl ==
  ASSUME IInv, ControlInv, JumpsTaken, NoFinalizers, [Next]_vars
  PROVE  ControlInv'
<1>1. CASE NextProgram
  <2>1. stack' = <<ProgramFrame>> /\ mode' = "statement" /\ cv' = InitialCompletion
    BY <1>1 DEF NextProgram
  <2>2. ProgramFrame.kind = "Program" /\ ProgramFrame.pending = InitialCompletion
        /\ ProgramFrame.at = "body"
    BY DEF ProgramFrame, Frame
  <2>3. FramesInv'
    BY <2>1, <2>2 DEF FramesInv, FrameInv
  <2>. QED
    BY <2>1, <2>3, GoesOn
<1>2. CASE UNCHANGED vars
  BY <1>2 DEF vars, ControlInv, StartsNormal, ExceptionPending, DoneInv, FramesInv
<1>. QED
  BY <1>1, <1>2, EnterStatementControl, EvaluateControl, ExpressionReturnsControl,
     StatementReturnsControl, ActivationEndsControl
  DEF Next

LEMMA ControlInvariance ==
  JumpsTaken /\ NoFinalizers => (Spec => [](IInv /\ ControlInv))
<1>. SUFFICES ASSUME JumpsTaken, NoFinalizers
              PROVE  Spec => [](IInv /\ ControlInv)
  OBVIOUS
<1>1. Init => ControlInv
  BY ProgramControl DEF Init
<1>2. IInv /\ ControlInv /\ [Next]_vars => ControlInv'
  BY NextControl
<1>. QED
  BY <1>1, <1>2, Invariance, NextPreserves, InitEstablishes, PTL DEF Spec

(* No statement and no expression is evaluated while a jump or an          *)
(* exception is pending, in any program without finally blocks in which    *)
(* every return is in a function and every break and continue has a target *)
(* or is in a function, no labelled break leaves a loop that is not its    *)
(* target, and no unlabelled break a labelled block.  Without the third    *)
(* condition it does not hold: tests/break_test.js has such breaks.        *)
THEOREM NothingPending ==
  JumpsTaken /\ NoFinalizers => (Spec => []StartsNormal)
<1>1. ControlInv => StartsNormal
  BY DEF ControlInv
<1>. QED
  BY <1>1, ControlInvariance, PTL

(* In the same programs Catch() never finds no exception: neither assert   *)
(* of EvalCatchClause and context::eval fails.                             *)
THEOREM ExceptionsThere ==
  JumpsTaken /\ NoFinalizers => (Spec => []ExceptionPending)
<1>1. ControlInv => ExceptionPending
  BY DEF ControlInv
<1>. QED
  BY <1>1, ControlInvariance, PTL

-----------------------------------------------------------------------------
(* The nesting of constructs as the stack changes.                         *)

LEMMA ArmedAs ==
  ASSUME NEW K, NEW L, NEW S, NEW B,
         NEW c \in [kind : K, label : L, ll : S, armed : B], NEW b
  PROVE  [c EXCEPT !.armed = b]
           = [kind |-> c.kind, label |-> c.label, ll |-> c.ll, armed |-> b]
OBVIOUS

LEMMA DisarmedConstruct ==
  ASSUME NEW c \in ConstructType
  PROVE  [c EXCEPT !.armed = FALSE]
           = [kind |-> c.kind, label |-> c.label, ll |-> c.ll, armed |-> FALSE]
<1>. DEFINE B == BOOLEAN
            L == Labels \cup {NoLabel}
            S == SUBSET Labels
<1>1. c \in [kind : AllKinds, label : L, ll : S, armed : B]
  BY DEF ConstructType
<1>. HIDE DEF B, L, S
<1>2. \A b : [c EXCEPT !.armed = b]
               = [kind |-> c.kind, label |-> c.label, ll |-> c.ll, armed |-> b]
  BY <1>1, ArmedAs
<1>. QED
  BY ONLY <1>2, Zenon

LEMMA NestingOfEmpty == NestingOf(<< >>) = << >>
<1>1. << >> \in Seq(FrameType) /\ Len(<< >>) = 0
  BY EmptySeq
<1>2. NestingOf(<< >>) \in Seq(ConstructType) /\ Len(NestingOf(<< >>)) = 0
  BY <1>1, NestingOfType
<1>. QED
  BY <1>2, EmptySeq

LEMMA NestingPopped ==
  ASSUME TypeOK, stack # << >>, Pops
  PROVE  NestingOf(stack') = Front(NestingOf(stack))
<1>. DEFINE n == NestingOf(stack)  k == Len(stack) - 1
<1>1. k \in Nat /\ Len(stack) = k + 1
  BY TopType
<1>2. /\ n \in Seq(ConstructType) /\ Len(n) = k + 1
      /\ \A i \in 1 .. k + 1 : n[i] = AsConstruct(stack[i])
  BY <1>1, NestingOfType DEF TypeOK
<1>3. stack' \in Seq(FrameType) /\ Len(stack') = k /\ \A i \in 1 .. k : stack'[i] = stack[i]
  BY PopProperties
<1>4. /\ NestingOf(stack') \in Seq(ConstructType) /\ Len(NestingOf(stack')) = k
      /\ \A i \in 1 .. k : NestingOf(stack')[i] = AsConstruct(stack'[i])
  BY <1>3, NestingOfType
<1>. HIDE DEF n, k
<1>5. n # << >>
  BY <1>1, <1>2, EmptySeq
<1>6. (k + 1) - 1 = k
  BY <1>1
<1>7. Front(n) \in Seq(ConstructType) /\ Len(Front(n)) = k /\ \A i \in 1 .. k : Front(n)[i] = n[i]
  BY <1>2, <1>5, <1>6, FrontOfNesting
<1>8. \A i \in 1 .. k : NestingOf(stack')[i] = Front(n)[i]
  BY <1>1, <1>2, <1>3, <1>4, <1>7
<1>9. NestingOf(stack') = Front(n)
  BY <1>4, <1>7, <1>8, SeqEqual
<1>. QED
  BY <1>9 DEF n

LEMMA NestingPushed ==
  ASSUME TypeOK, NEW f \in FrameType, stack' = Append(stack, f)
  PROVE  NestingOf(stack') = Append(NestingOf(stack), AsConstruct(f))
<1>. DEFINE n == NestingOf(stack)  k == Len(stack)  c == AsConstruct(f)
<1>1. k \in Nat
  BY LenProperties DEF TypeOK
<1>2. n \in Seq(ConstructType) /\ Len(n) = k /\ \A i \in 1 .. k : n[i] = AsConstruct(stack[i])
  BY NestingOfType DEF TypeOK
<1>3. /\ stack' \in Seq(FrameType) /\ Len(stack') = k + 1
      /\ \A i \in 1 .. k : stack'[i] = stack[i]
      /\ stack'[k + 1] = f
  BY AppendFrame
<1>4. /\ NestingOf(stack') \in Seq(ConstructType) /\ Len(NestingOf(stack')) = k + 1
      /\ \A i \in 1 .. k + 1 : NestingOf(stack')[i] = AsConstruct(stack'[i])
  BY <1>3, NestingOfType
<1>5. c \in ConstructType
  BY DEF AsConstruct, ConstructType, FrameType
<1>. HIDE DEF n, k, c
<1>6. /\ Append(n, c) \in Seq(ConstructType) /\ Len(Append(n, c)) = k + 1
      /\ \A i \in 1 .. k : Append(n, c)[i] = n[i]
      /\ Append(n, c)[k + 1] = c
  BY <1>2, <1>5, AppendProperties
<1>7. ASSUME NEW i \in 1 .. k + 1 PROVE NestingOf(stack')[i] = Append(n, c)[i]
  <2>1. CASE i = k + 1
    BY <1>1, <1>3, <1>4, <1>6, <2>1 DEF c
  <2>2. CASE i \in 1 .. k
    BY <1>2, <1>3, <1>4, <1>6, <2>2
  <2>3. i = k + 1 \/ i \in 1 .. k
    BY <1>1
  <2>. QED
    BY <2>1, <2>2, <2>3, Zenon
<1>8. NestingOf(stack') = Append(n, c)
  BY <1>4, <1>6, <1>7, SeqEqual
<1>. QED
  BY <1>8 DEF n, c

LEMMA NestingMoved ==
  ASSUME TypeOK, stack # << >>, NEW f \in FrameType,
         stack' = [stack EXCEPT ![Len(stack)] = f]
  PROVE  /\ AsConstruct(f) = AsConstruct(Top) => NestingOf(stack') = NestingOf(stack)
         /\ AsConstruct(f) = [AsConstruct(Top) EXCEPT !.armed = FALSE] =>
              NestingOf(stack') = [NestingOf(stack) EXCEPT ![Len(NestingOf(stack))].armed = FALSE]
<1>. DEFINE n == NestingOf(stack)  k == Len(stack)  m == NestingOf(stack')
            d == [n[k] EXCEPT !.armed = FALSE]
<1>1. k \in Nat \ {0} /\ Top = stack[k]
  BY TopType DEF Top
<1>2. n \in Seq(ConstructType) /\ Len(n) = k /\ \A i \in 1 .. k : n[i] = AsConstruct(stack[i])
  BY NestingOfType DEF TypeOK
<1>3. /\ stack' \in Seq(FrameType) /\ Len(stack') = k
      /\ \A i \in 1 .. k - 1 : stack'[i] = stack[i]
      /\ stack'[k] = f
  BY ReplaceFrame
<1>4. /\ m \in Seq(ConstructType) /\ Len(m) = k
      /\ \A i \in 1 .. k : m[i] = AsConstruct(stack'[i])
  BY <1>3, NestingOfType
<1>. HIDE DEF n, k, m
<1>5. /\ \A i \in 1 .. k - 1 : m[i] = n[i]
      /\ m[k] = AsConstruct(f) /\ n[k] = AsConstruct(Top)
  BY <1>1, <1>2, <1>3, <1>4
<1>6. ASSUME AsConstruct(f) = AsConstruct(Top)
      PROVE  m = n
  <2>1. \A i \in 1 .. k : m[i] = n[i]
    BY <1>1, <1>5, <1>6
  <2>. QED
    BY <1>2, <1>4, <2>1, SeqEqual
<1>7. ASSUME AsConstruct(f) = [AsConstruct(Top) EXCEPT !.armed = FALSE]
      PROVE  m = [n EXCEPT ![k].armed = FALSE]
  <2>1. m[k] = d /\ k \in 1 .. Len(n) /\ d \in ConstructType
    <3>1. k \in 1 .. Len(n) /\ n[k] \in ConstructType
      BY <1>1, <1>2, ElementOfSeq
    <3>2. m[k] = d
      BY <1>5, <1>7
    <3>3. d \in ConstructType
      BY <3>1 DEF ConstructType
    <3>. QED
      BY <3>1, <3>2, <3>3
  <2>2. [n EXCEPT ![k].armed = FALSE] = [n EXCEPT ![k] = d]
    OBVIOUS
  <2>. HIDE DEF d
  <2>3. /\ [n EXCEPT ![k] = d] \in Seq(ConstructType) /\ Len([n EXCEPT ![k] = d]) = k
        /\ \A i \in 1 .. k : [n EXCEPT ![k] = d][i] = IF i = k THEN d ELSE n[i]
    BY <1>2, <2>1, ExceptSeq
  <2>4. \A i \in 1 .. k : m[i] = [n EXCEPT ![k] = d][i]
    BY <1>1, <1>5, <2>1, <2>3
  <2>5. m = [n EXCEPT ![k] = d]
    BY <1>4, <2>3, <2>4, SeqEqual
  <2>. QED
    BY <2>2, <2>5
<1>8. Len(n) = k
  BY <1>2
<1>. QED
  BY <1>6, <1>7, <1>8 DEF n, m

LEMMA TopOfNesting ==
  ASSUME TypeOK, stack # << >>
  PROVE  LET n == NestingOf(stack)
         IN  /\ n \in Seq(ConstructType) /\ n # << >> /\ Len(n) = Len(stack)
             /\ n[Len(n)] = AsConstruct(Top)
<1>. DEFINE n == NestingOf(stack)
<1>1. Len(stack) \in Nat \ {0}
  BY TopType
<1>2. n \in Seq(ConstructType) /\ Len(n) = Len(stack)
      /\ \A i \in 1 .. Len(stack) : n[i] = AsConstruct(stack[i])
  BY NestingOfType DEF TypeOK
<1>. HIDE DEF n
<1>3. n # << >>
  BY <1>1, <1>2, EmptySeq
<1>4. n[Len(n)] = AsConstruct(Top)
  BY <1>1, <1>2 DEF Top
<1>. QED
  BY <1>2, <1>3, <1>4 DEF n

-----------------------------------------------------------------------------
(* Each step of the evaluator is a step of StructuredControl or none.      *)

\* What StructuredControl leaves out, and for (o.p in e), which loses exceptions.
OneStepJumps == NoFinalizers /\ Kinds \cap {"New", "ForInMember"} = {}

\* What is to be shown of each step: it is a step of StructuredControl or leaves
\* Destination alone, and leaves it alone when a jump is on its way.
Implements ==
  /\ [Control!Next]_Destination
  /\ Jumping => Destination' = Destination

LEMMA DestinationIs ==
  /\ mode = "null" \/ (mode = "done" /\ cv.type = "Throw") =>
       Destination = AfterThrow(NestingOf(stack))
  /\ mode = "done" /\ cv.type = "Break" =>
       Destination = AfterBreak(NestingOf(stack), cv.target)
  /\ mode = "done" /\ cv.type = "Continue" =>
       Destination = AfterContinue(NestingOf(stack), cv.target)
  /\ mode = "done" /\ cv.type = "Return" =>
       Destination = AfterReturn(NestingOf(stack))
  /\ mode # "null" /\ (mode = "done" => cv.type = "Normal") =>
       Destination = NestingOf(stack) /\ ~Jumping
BY NestingIs DEF Destination, Throwing, Jumping

LEMMA DestinationNext ==
  /\ mode' = "null" \/ (mode' = "done" /\ cv'.type = "Throw") =>
       Destination' = AfterThrow(NestingOf(stack'))
  /\ mode' = "done" /\ cv'.type = "Break" =>
       Destination' = AfterBreak(NestingOf(stack'), cv'.target)
  /\ mode' = "done" /\ cv'.type = "Continue" =>
       Destination' = AfterContinue(NestingOf(stack'), cv'.target)
  /\ mode' = "done" /\ cv'.type = "Return" =>
       Destination' = AfterReturn(NestingOf(stack'))
  /\ mode' # "null" /\ (mode' = "done" => cv'.type = "Normal") =>
       Destination' = NestingOf(stack')
<1>1. Nesting' = NestingOf(stack')
  BY DEF Nesting, NestingOf
<1>. QED
  BY <1>1 DEF Destination, Throwing

LEMMA Stutters ==
  ASSUME Destination' = Destination
  PROVE  Implements
BY DEF Implements

LEMMA SameVocabulary ==
  /\ Control!AllKinds = AllKinds /\ Control!Activations = Activations
  /\ Control!NoLabel = NoLabel
  /\ \A n : Control!AfterThrow(n) = AfterThrow(n) /\ Control!AfterReturn(n) = AfterReturn(n)
  /\ \A n, l : Control!AfterBreak(n, l) = AfterBreak(n, l)
               /\ Control!AfterContinue(n, l) = AfterContinue(n, l)
<1>1. /\ Control!AllKinds = AllKinds /\ Control!Activations = Activations
      /\ Control!NoLabel = NoLabel /\ Control!Loops = Loops
  BY DEF Control!AllKinds, AllKinds, Control!Activations, Activations, Control!NoLabel, NoLabel,
         Control!StatementKinds, StatementKinds, Control!Loops, Loops, Control!TryKinds, TryKinds,
         Control!SimpleKinds, SimpleKinds
<1>2. \A S : Control!Innermost(S) = Innermost(S)
  BY DEF Control!Innermost, Innermost, Control!Max, Max
<1>3. \A n : Control!Base(n) = Base(n) /\ Control!ThrowTarget(n) = ThrowTarget(n)
  BY <1>1, <1>2 DEF Control!Base, Base, Control!ThrowTarget, ThrowTarget
<1>4. \A c, l : Control!TakesBreak(c, l) = TakesBreak(c, l)
               /\ Control!TakesContinue(c, l) = TakesContinue(c, l)
  BY <1>1 DEF Control!TakesBreak, TakesBreak, Control!TakesContinue, TakesContinue
<1>5. \A n : Control!AfterThrow(n) = AfterThrow(n) /\ Control!AfterReturn(n) = AfterReturn(n)
  BY <1>3 DEF Control!AfterThrow, AfterThrow, Control!AfterReturn, AfterReturn
<1>6. \A n, l : Control!BreakTarget(n, l) = BreakTarget(n, l)
               /\ Control!ContinueTarget(n, l) = ContinueTarget(n, l)
  BY <1>2, <1>3, <1>4
  DEF Control!BreakTarget, BreakTarget, Control!ContinueTarget, ContinueTarget
<1>7. \A n, l : Control!AfterBreak(n, l) = AfterBreak(n, l)
               /\ Control!AfterContinue(n, l) = AfterContinue(n, l)
  BY <1>5, <1>6 DEF Control!AfterBreak, AfterBreak, Control!AfterContinue, AfterContinue
<1>. QED
  BY <1>1, <1>5, <1>7

\* Nothing is pending before and after, and a method returned.
LEMMA Completes ==
  ASSUME IInv, stack # << >>, Pops, mode # "null", mode = "done" => cv.type = "Normal",
         mode' # "null", mode' = "done" => cv'.type = "Normal"
  PROVE  Implements
<1>1. Destination = NestingOf(stack) /\ ~Jumping /\ Destination' = Front(NestingOf(stack))
      /\ NestingOf(stack) # << >>
  BY DestinationIs, DestinationNext, NestingPopped, TopOfNesting DEF IInv
<1>2. Control!Complete
  BY <1>1 DEF Control!Complete, Front
<1>. QED
  BY <1>1, <1>2 DEF Implements, Control!Next

\* Nothing is pending before and after, and a method went on.
LEMMA Moved ==
  ASSUME IInv, stack # << >>, mode # "null", mode = "done" => cv.type = "Normal",
         mode' # "null", mode' = "done" => cv'.type = "Normal",
         NEW f \in FrameType, AsConstruct(f) = AsConstruct(Top),
         stack' = [stack EXCEPT ![Len(stack)] = f]
  PROVE  Implements
BY DestinationIs, DestinationNext, NestingMoved, Stutters DEF IInv

\* A statement or a function is entered.
LEMMA Entered ==
  ASSUME IInv, stack # << >>, mode # "null", mode # "done", mode' # "null", mode' # "done",
         NEW f \in FrameType, stack' = Append(stack, f),
         f.kind # "Program", f.kind \notin {"New", "TryCatchFinally"},
         f.kind \in Activations => f.ll = {},
         f.kind \notin Activations =>
           f.ll = IF f.kind = "Labeled" THEN Inherited \cup {f.label} ELSE Inherited,
         IF f.kind = "Labeled" THEN f.label \in Labels ELSE f.label = NoLabel,
         f.kind = "TryCatch" => f.at = "body"
  PROVE  Implements
<1>. DEFINE n == NestingOf(stack)  c == AsConstruct(f)
<1>1. Destination = n /\ ~Jumping /\ Destination' = Append(n, c)
  BY DestinationIs, DestinationNext, NestingPushed DEF IInv
<1>2. n \in Seq(ConstructType) /\ n # << >> /\ n[Len(n)] = AsConstruct(Top)
  BY TopOfNesting DEF IInv
<1>3. c \in ConstructType /\ f.kind \in AllKinds
  BY DEF AsConstruct, ConstructType, FrameType
<1>4. Control!Inherited(n) = Inherited
  BY <1>2 DEF Control!Inherited, Inherited, AsConstruct
<1>5. c = Control!Construct(c.kind, c.label, Inherited)
  <2>1. (f.at = "body" /\ f.kind \in {"TryCatch", "TryCatchFinally"}) = (f.kind = "TryCatch")
    OBVIOUS
  <2>2. f.ll = IF f.kind \in Activations THEN {}
               ELSE IF f.kind = "Labeled" THEN Inherited \cup {f.label} ELSE Inherited
    OBVIOUS
  <2>3. c.kind = f.kind /\ c.label = f.label
    BY DEF AsConstruct
  <2>. QED
    BY <2>1, <2>2, <2>3, SameVocabulary DEF AsConstruct, Control!Construct
<1>6. c.kind \in AllKinds \ {"Program"}
      /\ IF c.kind = "Labeled" THEN c.label \in Labels ELSE c.label = NoLabel
  BY <1>3 DEF AsConstruct
<1>. HIDE DEF n, c
<1>7. Len(Append(n, c)) = Len(n) + 1 /\ Append(n, c)[Len(n) + 1] = c
  BY <1>2, <1>3, AppendProperties
<1>8. Control!Enter
  BY <1>1, <1>2, <1>4, <1>5, <1>6, <1>7, SameVocabulary DEF Control!Enter
<1>. QED
  BY <1>1, <1>8 DEF Implements, Control!Next

\* A method that does not take the jump hands it on: it goes where it went.
LEMMA HandedOn ==
  ASSUME IInv, mode = "done", Finish(cv), Top.kind \notin Activations,
         ~Takes(Top, cv), cv.type = "Throw" => ~AsConstruct(Top).armed
  PROVE  Implements
<1>1. stack # << >> /\ Pops /\ cv' = cv /\ mode' = "done" /\ cv.type \in CompletionTypes
  BY RunningTop DEF StatementModes, Finish, Pops, IInv, TypeOK, Completion
<1>. DEFINE n == NestingOf(stack)
<1>2. /\ n \in Seq(ConstructType) /\ n # << >>
      /\ n[Len(n)] = AsConstruct(Top) /\ NestingOf(stack') = Front(n)
  BY <1>1, TopOfNesting, NestingPopped DEF IInv
<1>3. n[Len(n)].kind \notin Activations
  BY <1>2, SameTakes
<1>. HIDE DEF n
<1>4. CASE cv.type = "Normal"
  BY <1>1, <1>4, Completes
<1>5. CASE cv.type = "Throw"
  BY <1>1, <1>2, <1>5, ThrowFront, DestinationIs, DestinationNext, Stutters DEF n
<1>6. CASE cv.type = "Break"
  <2>1. ~TakesBreak(n[Len(n)], cv.target)
    BY <1>2, <1>6, SameTakes DEF Takes
  <2>. QED
    BY <1>1, <1>2, <1>3, <1>6, <2>1, BreakFront, DestinationIs, DestinationNext, Stutters DEF n
<1>7. CASE cv.type = "Continue"
  <2>1. ~TakesContinue(n[Len(n)], cv.target)
    BY <1>2, <1>7, SameTakes DEF Takes
  <2>. QED
    BY <1>1, <1>2, <1>3, <1>7, <2>1, ContinueFront, DestinationIs, DestinationNext, Stutters
    DEF n
<1>8. CASE cv.type = "Return"
  BY <1>1, <1>2, <1>3, <1>8, ReturnFront, DestinationIs, DestinationNext, Stutters DEF n
<1>. QED
  BY <1>1, <1>4, <1>5, <1>6, <1>7, <1>8 DEF CompletionTypes

\* It takes the break, and is left.
LEMMA BreakTaken ==
  ASSUME IInv, mode = "done", Finish(InitialCompletion),
         cv.type = "Break", TakesBreak(Top, cv.target)
  PROVE  Implements
<1>1. stack # << >> /\ Pops /\ cv'.type = "Normal" /\ mode' = "done"
  BY RunningTop, InitialIs DEF StatementModes, Finish, Pops
<1>. DEFINE n == NestingOf(stack)
<1>2. /\ n \in Seq(ConstructType) /\ n # << >>
      /\ n[Len(n)] = AsConstruct(Top) /\ NestingOf(stack') = Front(n)
  BY <1>1, TopOfNesting, NestingPopped DEF IInv
<1>3. TakesBreak(n[Len(n)], cv.target)
  BY <1>2, SameTakes
<1>. HIDE DEF n
<1>. QED
  BY <1>1, <1>2, <1>3, BreakTop, DestinationIs, DestinationNext, Stutters DEF n

\* It takes the continue, and goes on.
LEMMA ContinueTaken ==
  ASSUME IInv, mode = "done", cv.type = "Continue", TakesContinue(Top, cv.target),
         mode' # "null", mode' # "done",
         NEW f \in FrameType, AsConstruct(f) = AsConstruct(Top),
         stack' = [stack EXCEPT ![Len(stack)] = f]
  PROVE  Implements
<1>1. stack # << >>
  BY RunningTop DEF StatementModes
<1>. DEFINE n == NestingOf(stack)
<1>2. /\ n \in Seq(ConstructType) /\ n # << >>
      /\ n[Len(n)] = AsConstruct(Top) /\ NestingOf(stack') = n
  BY <1>1, TopOfNesting, NestingMoved DEF IInv
<1>3. TakesContinue(n[Len(n)], cv.target)
  BY <1>2, SameTakes
<1>. HIDE DEF n
<1>. QED
  BY <1>2, <1>3, ContinueTop, DestinationIs, DestinationNext, Stutters DEF n

\* A jump requested by a step that leaves the stack alone, or returns from a
\* method the jump leaves: StructuredControl's jump.
LEMMA JumpRequested ==
  ASSUME IInv, stack # << >>, mode # "null", mode # "done",
         LET n == NestingOf(stack)
         IN  \/ \E l \in Labels \cup {NoLabel} :
                  Destination' = AfterBreak(n, l) \/ Destination' = AfterContinue(n, l)
             \/ Destination' = AfterReturn(n)
             \/ Destination' = AfterThrow(n)
  PROVE  Implements
<1>. DEFINE n == NestingOf(stack)
<1>1. Destination = n /\ ~Jumping /\ n # << >>
  BY DestinationIs, TopOfNesting DEF IInv
<1>2. \/ \E l \in Labels \cup {NoLabel} :
           Destination' = AfterBreak(n, l) \/ Destination' = AfterContinue(n, l)
      \/ Destination' = AfterReturn(n)
      \/ Destination' = AfterThrow(n)
  OBVIOUS
<1>. HIDE DEF n
<1>3. Control!Next
  BY <1>1, <1>2, SameVocabulary
  DEF Control!Next, Control!Break, Control!Continue, Control!Return, Control!Throw
<1>. QED
  BY <1>1, <1>3 DEF Implements

LEMMA EnterStatementImplements ==
  ASSUME IInv, ControlInv, OneStepJumps, EnterStatement
  PROVE  Implements
<1>1. /\ mode = "statement" /\ cv = InitialCompletion /\ stack # << >>
      /\ cv.type = "Normal" /\ cv.target = NoLabel
  <2>1. mode = "statement"
    BY DEF EnterStatement, Enter, EmptyStatement, BreakStatement, ContinueStatement,
           ReturnUndefined
  <2>. QED
    BY <2>1, RunningTop, InitialIs DEF StatementModes, ControlInv, StartsNormal
<1>2. ASSUME NEW k \in Kinds, Enter(k)
      PROVE  Implements
  <2>1. PICK l \in IF k = "Labeled" THEN Labels ELSE {NoLabel}, p \in StartPhases(k) :
          Invoke(Frame(k, p, l, Inherited))
    BY <1>2 DEF Enter
  <2>. DEFINE f == Frame(k, p, l, Inherited)
  <2>2. k \in StatementKinds /\ k \in AllKinds /\ p \in Phases /\ Inherited \in SUBSET Labels
    <3>1. k \in StatementKinds
      BY <1>2 DEF Enter
    <3>2. p \in Phases
      BY <2>1 DEF StartPhases, Phases, ExpressionPhases
    <3>. QED
      BY <1>1, <3>1, <3>2, InheritedType, KindsDisjoint DEF IInv
  <2>3. f \in FrameType /\ f.kind = k /\ f.at = p /\ f.label = l
        /\ f.ll = IF k = "Labeled" THEN Inherited \cup {l} ELSE Inherited
    BY <2>1, <2>2, FrameTypes DEF Frame
  <2>4. stack' = Append(stack, f) /\ mode' = Resume(p)
    BY <1>2, <2>1 DEF Invoke, Frame
  <2>5. k = "TryCatch" => p = "body"
    BY <2>1 DEF StartPhases, SimpleKinds
  <2>6. k \notin Activations /\ k # "Program" /\ k \notin {"New", "TryCatchFinally"}
    BY <2>2, KindsDisjoint DEF OneStepJumps, NoFinalizers, Activations
  <2>. HIDE DEF f
  <2>. QED
    BY <1>1, <2>1, <2>3, <2>4, <2>5, <2>6, Entered DEF Resume
<1>3. UNCHANGED stack => NestingOf(stack') = NestingOf(stack)
  OBVIOUS
<1>4. CASE EmptyStatement
  BY <1>1, <1>4, DestinationIs, DestinationNext, Stutters DEF EmptyStatement
<1>5. ASSUME NEW l \in Labels \cup {NoLabel}, BreakStatement(l)
      PROVE  Implements
  <2>1. cv'.type = "Break" /\ cv'.target = l /\ mode' = "done" /\ UNCHANGED stack
    BY <1>1, <1>5 DEF BreakStatement, Target
  <2>2. Destination' = AfterBreak(NestingOf(stack), l)
    BY <1>3, <2>1, DestinationNext
  <2>. QED
    BY <1>1, <2>2, JumpRequested
<1>6. ASSUME NEW l \in Labels \cup {NoLabel}, ContinueStatement(l)
      PROVE  Implements
  <2>1. cv'.type = "Continue" /\ cv'.target = l /\ mode' = "done" /\ UNCHANGED stack
    BY <1>1, <1>6 DEF ContinueStatement, Target
  <2>2. Destination' = AfterContinue(NestingOf(stack), l)
    BY <1>3, <2>1, DestinationNext
  <2>. QED
    BY <1>1, <2>2, JumpRequested
<1>7. CASE ReturnUndefined
  <2>1. cv'.type = "Return" /\ mode' = "done" /\ UNCHANGED stack
    BY <1>1, <1>7 DEF ReturnUndefined, Becomes, InitialCompletion
  <2>2. Destination' = AfterReturn(NestingOf(stack))
    BY <1>3, <2>1, DestinationNext
  <2>. QED
    BY <1>1, <2>2, JumpRequested
<1>. QED
  BY <1>2, <1>4, <1>5, <1>6, <1>7 DEF EnterStatement

LEMMA ActivateImplements ==
  ASSUME IInv, ControlInv, NEW k \in {"Call", "Evalcx"}, NEW scope \in Environment,
         Activate(k, scope)
  PROVE  Implements
<1>. DEFINE own == Append(scope, Len(stack) + 1)
            f == [Frame(k, "body", NoLabel, {}) EXCEPT
                  !.saved = env, !.own = own, !.pending = cv]
<1>1. mode = "expression" /\ stack # << >> /\ Len(stack) \in Nat
  BY RunningTop, TopType DEF Activate, ExpressionModes, IInv
<1>2. own \in Environment
  BY <1>1, AppendProperties DEF Environment
<1>. HIDE DEF own
<1>3. f \in FrameType /\ f.kind = k /\ f.at = "body" /\ f.label = NoLabel /\ f.ll = {}
  <2>1. Frame(k, "body", NoLabel, {}) \in FrameType
        /\ Frame(k, "body", NoLabel, {}).kind = k /\ Frame(k, "body", NoLabel, {}).at = "body"
    BY ActivationFrameType
  <2>2. Frame(k, "body", NoLabel, {}).label = NoLabel /\ Frame(k, "body", NoLabel, {}).ll = {}
    BY DEF Frame
  <2>. QED
    BY <1>2, <2>1, <2>2 DEF FrameType, IInv, TypeOK
<1>4. stack' = Append(stack, f) /\ mode' = Resume(f.at)
  BY DEF Activate, Invoke, own
<1>. HIDE DEF f
<1>5. k \in Activations /\ k # "Program" /\ k \notin {"New", "TryCatchFinally"}
  BY DEF Activations
<1>. QED
  BY <1>1, <1>3, <1>4, <1>5, Entered DEF Resume

LEMMA EvaluateImplements ==
  ASSUME IInv, ControlInv, OneStepJumps, Evaluate
  PROVE  Implements
<1>1. mode = "expression" /\ stack # << >>
  <2>1. mode = "expression"
    BY DEF Evaluate, Yield, Raise, CallFunction, Construct, Evalcx, Activate
  <2>. QED
    BY <2>1, RunningTop DEF ExpressionModes
<1>2. ASSUME NEW v \in {"truthy", "falsy"}, Yield(v)
      PROVE  Implements
  BY <1>1, <1>2, DestinationIs, DestinationNext, Stutters DEF Yield
<1>3. ASSUME NEW e \in Exceptions, Raise(e)
      PROVE  Implements
  BY <1>1, <1>3, DestinationNext, JumpRequested DEF Raise
<1>4. ClosureScopes \subseteq Environment /\ << >> \in Environment
  <2>1. \A i \in DOMAIN stack : stack[i] \in FrameType
    BY DEF IInv, TypeOK
  <2>2. \A i \in DOMAIN stack : stack[i].own \in Environment
    BY <2>1 DEF FrameType
  <2>. QED
    BY <2>2 DEF ClosureScopes, IInv, TypeOK, Environment
<1>5. ~Construct
  BY DEF Construct, Activate, OneStepJumps
<1>. QED
  BY <1>2, <1>3, <1>4, <1>5, ActivateImplements DEF Evaluate, CallFunction, Evalcx

LEMMA ExpressionReturnsImplements ==
  ASSUME IInv, ControlInv, OneStepJumps, ExpressionReturns
  PROVE  Implements
<1>1. /\ mode \in {"truthy", "falsy", "null"} /\ cv.type = "Normal" /\ stack # << >>
      /\ Top \in FrameType
  <2>1. mode \in {"truthy", "falsy", "null"}
    BY DEF ExpressionReturns, ExpressionThrows, ForInMemberThrows,
         SimpleStatementEnds, ReturnValue, ThrowStatement, WithThrows, IfTest, LoopTest,
         ForContinues, ForInStarts, ForInStored, SwitchSelects, WithEnters, Returned
  <2>. QED
    BY <2>1, RunningTop, InitialIs DEF ExpressionModes, ControlInv, StartsNormal
<1>. DEFINE n == NestingOf(stack)
<1>2. /\ n \in Seq(ConstructType) /\ n # << >> /\ n[Len(n)] = AsConstruct(Top)
      /\ Pops => NestingOf(stack') = Front(n)
  BY <1>1, TopOfNesting, NestingPopped DEF IInv
<1>. HIDE DEF n
<1>3. Top.kind \in StatementKinds /\ Top.kind \notin Activations /\ ~n[Len(n)].armed
      /\ n[Len(n)].kind = Top.kind
  <2>1. Top.kind \in StatementKinds /\ Top.at \in ExpressionPhases
    BY <1>1, AwaitsExpression DEF ExpressionModes, IInv, CallNesting
  <2>2. Top.at # "body"
    BY <2>1 DEF ExpressionPhases
  <2>3. ~AsConstruct(Top).armed /\ AsConstruct(Top).kind = Top.kind
    BY <2>2 DEF AsConstruct
  <2>4. Top.kind \notin Activations
    BY <2>1, KindsDisjoint
  <2>. QED
    BY <1>2, <2>1, <2>3, <2>4
<1>4. ASSUME Finish(cv), mode # "null" PROVE Implements
  BY <1>1, <1>4, Completes DEF Finish, Pops
<1>5. ASSUME Finish(Becomes("Throw")) PROVE Destination' = AfterThrow(n)
  <2>1. cv'.type = "Throw" /\ mode' = "done" /\ Pops
    BY <1>5 DEF Finish, Becomes, IInv, TypeOK, Completion, Pops
  <2>. QED
    BY <1>2, <1>3, <2>1, ThrowFront, DestinationNext
<1>6. ASSUME NEW p \in {"test", "left", "body"}, mode # "null", cv' = cv,
             stack' = [stack EXCEPT ![Len(stack)].at = p], mode' # "null", mode' # "done",
             Top.kind \notin TryKinds
      PROVE  Implements
  <2>. DEFINE f == [Top EXCEPT !.at = p]
  <2>1. f \in FrameType /\ AsConstruct(f) = AsConstruct(Top)
    <3>1. p \in Phases
      BY DEF Phases, ExpressionPhases
    <3>. QED
      BY <1>1, <1>6, <3>1 DEF FrameType, AsConstruct, TryKinds
  <2>2. stack' = [stack EXCEPT ![Len(stack)] = f]
    BY <1>6 DEF Top
  <2>. HIDE DEF f
  <2>. QED
    BY <1>1, <1>6, <2>1, <2>2, Moved
<1>7. ASSUME NEW p \in {"test", "left", "body"}, Proceed(p), cv' = cv, mode # "null",
             Top.kind \notin TryKinds
      PROVE  Implements
  BY <1>6, <1>7 DEF Proceed, Resume
<1>8. ASSUME NamesTested, cv' = cv, mode # "null", Top.kind \notin TryKinds
      PROVE  Implements
  BY <1>6, <1>8 DEF NamesTested
<1>9. CASE ExpressionThrows
  <2>1. mode = "null" /\ Destination = AfterThrow(n)
    BY <1>9, DestinationIs DEF ExpressionThrows, n
  <2>. QED
    BY <1>5, <1>9, <2>1, Stutters DEF ExpressionThrows
<1>10. ~ForInMemberThrows
  BY <1>1, TopControl DEF ForInMemberThrows, OneStepJumps
<1>11. ASSUME Returned({"Expression", "Var", "Return", "Throw", "If", "Switch", "With"} \cup Loops, Top.at)
       PROVE  mode # "null" /\ mode # "done" /\ Top.kind \notin TryKinds
  BY <1>11 DEF Returned, TryKinds, Loops
<1>12. CASE SimpleStatementEnds
  BY <1>4, <1>11, <1>12 DEF SimpleStatementEnds, Returned
<1>13. CASE ReturnValue
  <2>1. cv'.type = "Return" /\ mode' = "done" /\ Pops
    BY <1>13 DEF ReturnValue, Finish, Becomes, IInv, TypeOK, Completion, Pops
  <2>2. Destination' = AfterReturn(n)
    BY <1>2, <1>3, <2>1, ReturnFront, DestinationNext
  <2>. QED
    BY <1>1, <1>11, <1>13, <2>2, JumpRequested DEF ReturnValue, Returned, n
<1>14. ASSUME NEW e \in Exceptions, ThrowStatement(e) \/ WithThrows(e)
       PROVE  Implements
  <2>1. Destination' = AfterThrow(n)
    BY <1>5, <1>14 DEF ThrowStatement, WithThrows
  <2>2. mode # "null" /\ mode # "done"
    BY <1>14 DEF ThrowStatement, WithThrows, Returned
  <2>. QED
    BY <1>1, <2>1, <2>2, JumpRequested DEF n
<1>15. CASE IfTest
  BY <1>4, <1>7, <1>11, <1>15 DEF IfTest, Returned
<1>16. CASE LoopTest
  BY <1>4, <1>7, <1>11, <1>16 DEF LoopTest, Returned
<1>17. "For" \in Loops /\ ForIns \subseteq Loops
  BY DEF Loops, ForIns
<1>18. CASE ForContinues
  BY <1>4, <1>7, <1>11, <1>17, <1>18 DEF ForContinues, Returned
<1>19. CASE ForInStarts
  BY <1>4, <1>8, <1>11, <1>17, <1>19 DEF ForInStarts, Returned
<1>20. CASE ForInStored
  BY <1>7, <1>11, <1>17, <1>20 DEF ForInStored, Returned
<1>21. CASE SwitchSelects
  BY <1>4, <1>7, <1>11, <1>21 DEF SwitchSelects, Returned
<1>22. CASE WithEnters
  <2>. DEFINE own == Append(env, Len(stack))
              f == [Top EXCEPT !.at = "body", !.saved = env, !.own = own]
  <2>1. own \in Environment
    BY <1>1, TopType, AppendProperties DEF Environment, IInv, TypeOK
  <2>2. f \in FrameType /\ AsConstruct(f) = AsConstruct(Top)
    BY <1>1, <1>22, <2>1
    DEF FrameType, AsConstruct, IInv, TypeOK, Phases, WithEnters, Returned
  <2>3. stack' = [stack EXCEPT ![Len(stack)] = f] /\ mode' = "statement" /\ cv' = cv
        /\ mode # "null"
    BY <1>22 DEF WithEnters, Top, Returned
  <2>. HIDE DEF f
  <2>. QED
    BY <1>1, <2>2, <2>3, Moved
<1>. QED
  BY <1>9, <1>10, <1>12, <1>13, <1>14, <1>15, <1>16, <1>18, <1>19, <1>20, <1>21, <1>22
  DEF ExpressionReturns

LEMMA StatementReturnsImplements ==
  ASSUME IInv, ControlInv, OneStepJumps, StatementReturns
  PROVE  Implements
<1>1. /\ mode = "done" /\ stack # << >> /\ cv \in Completion /\ Top \in FrameType
      /\ Len(stack) \in Nat \ {0}
      /\ cv.type = "Throw" => exc # Nil
      /\ cv.type \notin {"Normal", "Throw"} => Reaches(stack, Len(stack), cv)
  <2>1. mode = "done"
    BY DEF StatementReturns, NextStatement, BlockEnds, IfEnds, LabeledEnds,
         WithEnds, SwitchEnds, LoopBodyEnds, BlockThrows, BlockCompletes, HandlerEnds,
         FinalizerEnds, Finished
  <2>. QED
    BY <2>1, RunningTop, TopType
    DEF StatementModes, IInv, TypeOK, ControlInv, DoneInv, ExceptionPending
<1>2. ASSUME cv.type \notin {"Normal", "Throw"}, ~Takes(Top, cv)
      PROVE  Crosses(Top, cv)
  BY <1>1, <1>2, ReachesOn DEF Top
<1>3. CASE NextStatement
  <2>1. cv.type = "Normal" /\ UNCHANGED <<stack, cv>> /\ mode' = "statement"
    BY <1>3 DEF NextStatement
  <2>. QED
    BY <1>1, <2>1, DestinationIs, DestinationNext, Stutters
<1>4. CASE BlockEnds \/ IfEnds \/ WithEnds
  <2>1. ~Takes(Top, cv) /\ Finish(cv) /\ Top.kind \in {"Block", "If", "With"}
    BY <1>4 DEF BlockEnds, IfEnds, WithEnds, Finished, Takes, TakesBreak, TakesContinue, Loops
  <2>2. ~AsConstruct(Top).armed /\ Top.kind \notin Activations
    BY <2>1 DEF AsConstruct, Activations
  <2>. QED
    BY <1>1, <2>1, <2>2, HandedOn
<1>5. CASE LabeledEnds
  <2>1. Top.kind = "Labeled" /\ ~AsConstruct(Top).armed /\ Top.kind \notin Activations
    BY <1>5 DEF LabeledEnds, Finished, AsConstruct, Activations
  <2>2. ~(cv.type = "Break" /\ cv.target = NoLabel)
    BY <1>2, <2>1 DEF Crosses, Takes, TakesBreak, Loops
  <2>3. CASE cv.type = "Break" /\ cv.target = Top.label
    <3>1. Finish(InitialCompletion) /\ TakesBreak(Top, cv.target)
      BY <1>5, <2>1, <2>2, <2>3 DEF LabeledEnds, TakesBreak
    <3>. QED
      BY <1>1, <2>3, <3>1, BreakTaken
  <2>4. CASE ~(cv.type = "Break" /\ cv.target = Top.label)
    <3>1. Finish(cv) /\ ~Takes(Top, cv)
      BY <1>5, <2>1, <2>2, <2>4 DEF LabeledEnds, Takes, TakesBreak, TakesContinue, Loops
    <3>. QED
      BY <1>1, <2>1, <3>1, HandedOn
  <2>. QED
    BY <2>3, <2>4
<1>6. CASE SwitchEnds
  <2>1. Top.kind = "Switch" /\ ~AsConstruct(Top).armed /\ Top.kind \notin Activations
    BY <1>6 DEF SwitchEnds, Finished, AsConstruct, Activations
  <2>2. CASE cv.type = "Break" /\ CheckIfLabelMatch(Top.ll)
    <3>1. Finish(InitialCompletion) /\ TakesBreak(Top, cv.target)
      BY <1>6, <2>1, <2>2 DEF SwitchEnds, TakesBreak, CheckIfLabelMatch
    <3>. QED
      BY <1>1, <2>2, <3>1, BreakTaken
  <2>3. CASE ~(cv.type = "Break" /\ CheckIfLabelMatch(Top.ll))
    <3>1. Finish(cv) /\ ~Takes(Top, cv)
      BY <1>6, <2>1, <2>3
      DEF SwitchEnds, Takes, TakesBreak, TakesContinue, Loops, CheckIfLabelMatch
    <3>. QED
      BY <1>1, <2>1, <3>1, HandedOn
  <2>. QED
    BY <2>2, <2>3
<1>7. CASE LoopBodyEnds
  <2>. DEFINE r == BreakOrContinueIfLabelMatch(Top.ll)
              matched == cv.type \in {"Break", "Continue"} /\ CheckIfLabelMatch(Top.ll)
  <2>1. /\ Top.kind \in Loops /\ ~AsConstruct(Top).armed /\ Top.kind \notin Activations
        /\ r.cv = (IF matched THEN InitialCompletion ELSE cv)
        /\ r.result <=> \/ cv.type = "Normal"
                        \/ cv.type = "Break" /\ ~matched
                        \/ cv.type = "Continue" /\ matched
        /\ IF r.result THEN LoopContinues /\ cv' = r.cv ELSE Finish(r.cv)
    BY <1>7 DEF LoopBodyEnds, Finished, BreakOrContinueIfLabelMatch, AsConstruct, Loops,
                Activations
  <2>. HIDE DEF r
  <2>2. ~(cv.type = "Break" /\ ~matched)
    BY <1>2, <2>1 DEF Crosses, Takes, TakesBreak, CheckIfLabelMatch, Loops
  <2>3. ASSUME r.result
        PROVE  \E f \in FrameType : /\ AsConstruct(f) = AsConstruct(Top)
                                    /\ stack' = [stack EXCEPT ![Len(stack)] = f]
                                    /\ mode' # "null" /\ mode' # "done"
    <3>1. PICK p \in {"test", "update", "body"} :
                 stack' = [stack EXCEPT ![Len(stack)].at = p] /\ mode' # "null" /\ mode' # "done"
      BY <2>1, <2>3 DEF LoopContinues, Proceed, NamesTested, Resume
    <3>. DEFINE f == [Top EXCEPT !.at = p]
    <3>2. p \in Phases
      BY DEF Phases, ExpressionPhases
    <3>3. f \in FrameType /\ AsConstruct(f) = AsConstruct(Top)
      BY <1>1, <2>1, <3>2 DEF FrameType, AsConstruct, Loops
    <3>4. stack' = [stack EXCEPT ![Len(stack)] = f]
      BY <3>1 DEF Top
    <3>. HIDE DEF f
    <3>. QED
      BY <3>1, <3>3, <3>4
  <2>4. CASE r.result /\ cv.type = "Normal"
    <3>1. cv' = cv
      BY <2>1, <2>4
    <3>. QED
      BY <1>1, <2>3, <2>4, <3>1, Moved
  <2>5. CASE r.result /\ cv.type = "Continue" /\ matched
    <3>1. TakesContinue(Top, cv.target)
      BY <2>1, <2>5 DEF TakesContinue, CheckIfLabelMatch
    <3>. QED
      BY <1>1, <2>3, <2>5, <3>1, ContinueTaken
  <2>6. CASE ~r.result /\ matched
    <3>1. cv.type = "Break" /\ Finish(InitialCompletion) /\ TakesBreak(Top, cv.target)
      BY <2>1, <2>6 DEF TakesBreak, CheckIfLabelMatch
    <3>. QED
      BY <1>1, <3>1, BreakTaken
  <2>7. CASE ~r.result /\ ~matched
    <3>1. Finish(cv) /\ ~Takes(Top, cv)
      BY <2>1, <2>7 DEF Takes, TakesBreak, TakesContinue, CheckIfLabelMatch, Loops
    <3>. QED
      BY <1>1, <2>1, <3>1, HandedOn
  <2>. QED
    BY <2>1, <2>2, <2>4, <2>5, <2>6, <2>7
<1>8. CASE BlockThrows
  <2>. DEFINE n == NestingOf(stack)
              f == [Top EXCEPT !.at = "handler"]
  <2>1. cv.type = "Throw" /\ AsConstruct(Top).armed /\ Proceed("handler")
    BY <1>1, <1>8 DEF BlockThrows, Finished, AsConstruct
  <2>2. f \in FrameType /\ AsConstruct(f) = [AsConstruct(Top) EXCEPT !.armed = FALSE]
    <3>1. f \in FrameType /\ f.at = "handler"
          /\ f.kind = Top.kind /\ f.label = Top.label /\ f.ll = Top.ll
      BY <1>1 DEF FrameType, Phases
    <3>. HIDE DEF f
    <3>2. AsConstruct(f) = [kind |-> Top.kind, label |-> Top.label, ll |-> Top.ll, armed |-> FALSE]
      BY <3>1 DEF AsConstruct
    <3>3. AsConstruct(Top) \in ConstructType
      BY <1>1 DEF AsConstruct, ConstructType, FrameType
    <3>4. /\ AsConstruct(Top).kind = Top.kind /\ AsConstruct(Top).label = Top.label
          /\ AsConstruct(Top).ll = Top.ll
      BY DEF AsConstruct
    <3>5. [AsConstruct(Top) EXCEPT !.armed = FALSE]
            = [kind |-> Top.kind, label |-> Top.label, ll |-> Top.ll, armed |-> FALSE]
      <4>1. [AsConstruct(Top) EXCEPT !.armed = FALSE]
              = [kind |-> AsConstruct(Top).kind, label |-> AsConstruct(Top).label,
                 ll |-> AsConstruct(Top).ll, armed |-> FALSE]
        BY ONLY <3>3, DisarmedConstruct, Zenon
      <4>. QED
        BY <3>4, <4>1, Zenon
    <3>. QED
      BY <3>1, <3>2, <3>5
  <2>3. stack' = [stack EXCEPT ![Len(stack)] = f] /\ mode' = "statement"
    BY <2>1 DEF Proceed, Resume, ExpressionPhases, Top
  <2>. HIDE DEF f
  <2>4. NestingOf(stack') = [n EXCEPT ![Len(n)].armed = FALSE]
    BY <1>1, <2>2, <2>3, NestingMoved DEF IInv
  <2>5. n \in Seq(ConstructType) /\ n # << >> /\ n[Len(n)].armed
    BY <1>1, <2>1, TopOfNesting DEF IInv
  <2>. HIDE DEF n
  <2>. QED
    BY <1>1, <2>1, <2>3, <2>4, <2>5, ThrowTop, DestinationIs, DestinationNext, Stutters DEF n
<1>9. Becomes(cv.type) = cv
  BY <1>1 DEF Becomes, Completion
<1>10. ASSUME Top.kind \in TryKinds, FinalizerOrEnd(cv.type),
              cv.type = "Throw" => ~AsConstruct(Top).armed
       PROVE  Implements
  <2>1. ~HasFinalizer
    BY <1>1, TopControl DEF HasFinalizer, NoFinalizers, OneStepJumps
  <2>2. Finish(cv) /\ ~Takes(Top, cv) /\ Top.kind \notin Activations
    BY <1>9, <1>10, <2>1
    DEF FinalizerOrEnd, TryKinds, Takes, TakesBreak, TakesContinue, Loops, Activations
  <2>. QED
    BY <1>1, <1>10, <2>2, HandedOn
<1>11. CASE BlockCompletes
  <2>1. Top.kind \in TryKinds /\ HasHandler
    BY <1>1, <1>11, TopControl
    DEF BlockCompletes, Finished, TryKinds, HasHandler, NoFinalizers, OneStepJumps
  <2>. QED
    BY <1>10, <1>11, <2>1 DEF BlockCompletes
<1>12. CASE HandlerEnds
  <2>1. ~AsConstruct(Top).armed
    BY <1>12 DEF HandlerEnds, AsConstruct
  <2>. QED
    BY <1>10, <1>12, <2>1 DEF HandlerEnds, Finished
<1>13. ~FinalizerEnds
  BY <1>1, TopControl DEF FinalizerEnds
<1>. QED
  BY <1>3, <1>4, <1>5, <1>6, <1>7, <1>8, <1>11, <1>12, <1>13 DEF StatementReturns

LEMMA ActivationEndsImplements ==
  ASSUME IInv, ControlInv, OneStepJumps, ActivationEnds
  PROVE  Implements
<1>. DEFINE n == NestingOf(stack)
<1>1. /\ mode = "done" /\ stack # << >> /\ cv \in Completion /\ Len(stack) \in Nat \ {0}
      /\ cv.type = "Throw" => exc # Nil
      /\ Top.kind \in Activations
  <2>1. mode = "done" /\ Top.kind \in Activations
    BY DEF ActivationEnds, FunctionEnds, EvalcxEnds, ProgramEnds, Finished, Activations
  <2>. QED
    BY <2>1, RunningTop, TopType
    DEF StatementModes, IInv, TypeOK, ControlInv, ExceptionPending
<1>2. /\ n \in Seq(ConstructType) /\ n # << >> /\ Len(n) = Len(stack)
      /\ n[Len(n)].kind = Top.kind /\ ~n[Len(n)].armed
      /\ Pops => NestingOf(stack') = Front(n)
  <2>1. /\ n \in Seq(ConstructType) /\ n # << >> /\ Len(n) = Len(stack)
        /\ n[Len(n)] = AsConstruct(Top)
        /\ Pops => NestingOf(stack') = Front(n)
    BY <1>1, TopOfNesting, NestingPopped DEF IInv
  <2>2. AsConstruct(Top).kind = Top.kind /\ ~AsConstruct(Top).armed
    BY <1>1 DEF AsConstruct, Activations
  <2>. HIDE DEF n
  <2>. QED
    BY <2>1, <2>2
<1>. HIDE DEF n
<1>3. ASSUME Top.kind \notin {"Call", "New"}
      PROVE  cv.type \in {"Normal", "Throw"}
  <2>. SUFFICES ASSUME cv.type \notin {"Normal", "Throw"}
                PROVE  FALSE
    OBVIOUS
  <2>1. Reaches(stack, Len(stack), cv)
    BY <1>1 DEF ControlInv, DoneInv
  <2>2. ~Takes(Top, cv)
    BY <1>1, <1>3 DEF Takes, TakesBreak, TakesContinue, Loops, Activations
  <2>3. Crosses(Top, cv)
    BY <1>1, <2>1, <2>2, ReachesOn DEF Top
  <2>. QED
    BY <1>1, <2>3 DEF Crosses
<1>4. ASSUME Pops, mode' = "expression", cv.type = "Normal"
      PROVE  Implements
  BY <1>1, <1>4, Completes
<1>5. ASSUME Pops, mode' = "expression", cv.type = "Return"
      PROVE  Implements
  BY <1>1, <1>2, <1>5, ReturnTop, DestinationIs, DestinationNext, Stutters DEF n
<1>6. ASSUME Pops, mode' = "null", cv.type \in {"Throw", "Break", "Continue"}
      PROVE  Implements
  <2>1. Destination' = AfterThrow(Front(n))
    BY <1>2, <1>6, DestinationNext
  <2>2. Destination = AfterThrow(Front(n))
    <3>1. n[Len(n)].kind \in Activations
      BY <1>1, <1>2
    <3>2. CASE cv.type = "Throw"
      BY <1>1, <1>2, <3>2, ThrowFront, DestinationIs DEF n
    <3>3. CASE cv.type = "Break"
      BY <1>1, <1>2, <3>1, <3>3, BreakBase, DestinationIs DEF n
    <3>4. CASE cv.type = "Continue"
      BY <1>1, <1>2, <3>1, <3>4, ContinueBase, DestinationIs DEF n
    <3>. QED
      BY <1>6, <3>2, <3>3, <3>4
  <2>. QED
    BY <2>1, <2>2, Stutters
<1>7. ASSUME NEW b, GiveBack(b)
      PROVE  Pops /\ mode' = (IF b THEN "null" ELSE "expression")
  BY <1>7 DEF GiveBack, Pops
<1>8. CASE FunctionEnds
  <2>1. Top.kind = "Call"
    BY <1>1, <1>8, TopControl DEF FunctionEnds, Finished, OneStepJumps
  <2>2. Pops /\ mode' = (IF cv.type \notin {"Normal", "Return"} THEN "null" ELSE "expression")
    BY <1>7, <1>8, <2>1 DEF FunctionEnds
  <2>. QED
    BY <1>1, <1>4, <1>5, <1>6, <2>2 DEF Completion, CompletionTypes
<1>9. CASE EvalcxEnds
  <2>1. cv.type \in {"Normal", "Throw"}
    BY <1>3, <1>9 DEF EvalcxEnds, Finished
  <2>2. Pops /\ mode' = (IF cv.type # "Normal" THEN "null" ELSE "expression")
    BY <1>7, <1>9 DEF EvalcxEnds
  <2>. QED
    BY <1>4, <1>6, <2>1, <2>2
<1>10. CASE ProgramEnds
  <2>1. cv.type \in {"Normal", "Throw"} /\ Vanish("ended") /\ Top.kind = "Program"
    BY <1>1, <1>3, <1>10 DEF ProgramEnds, Finished
  <2>2. Len(n) = 1
    <3>1. WellNested(stack, Len(stack))
      BY <1>1, TopType DEF IInv, CallNesting
    <3>. QED
      BY <1>2, <2>1, <3>1 DEF WellNested, Top
  <2>3. Front(n) = << >>
    <3>1. Front(n) \in Seq(ConstructType) /\ Len(Front(n)) = 0
      BY <1>2, <2>2, FrontOfNesting
    <3>. QED
      BY <3>1, EmptySeq
  <2>4. Destination' = << >>
    BY <2>1, NestingOfEmpty, DestinationNext DEF Vanish
  <2>5. CASE cv.type = "Normal"
    <3>1. Destination = n /\ ~Jumping
      BY <1>1, <2>5, DestinationIs DEF n
    <3>2. Control!Complete
      BY <1>2, <2>3, <2>4, <3>1 DEF Control!Complete, Front
    <3>. QED
      BY <3>1, <3>2 DEF Implements, Control!Next
  <2>6. CASE cv.type = "Throw"
    <3>1. Destination = AfterThrow(Front(n))
      BY <1>1, <1>2, <2>6, ThrowFront, DestinationIs DEF n
    <3>2. AfterThrow(<< >>) = << >>
      BY ThrowEmpty
    <3>. QED
      BY <2>3, <2>4, <3>1, <3>2, Stutters
  <2>. QED
    BY <2>1, <2>5, <2>6
<1>. QED
  BY <1>8, <1>9, <1>10 DEF ActivationEnds

LEMMA ProgramNesting == NestingOf(<<ProgramFrame>>) = <<Control!Program>>
<1>1. AsConstruct(ProgramFrame) = Control!Program
  BY SameVocabulary
  DEF AsConstruct, ProgramFrame, Frame, Control!Program, Control!Construct, Control!Activations
<1>2. <<ProgramFrame>> = [i \in 1 .. 1 |-> ProgramFrame]
  OBVIOUS
<1>. QED
  BY <1>1, <1>2 DEF NestingOf

LEMMA NextImplements ==
  ASSUME IInv, ControlInv, OneStepJumps, [Next]_vars
  PROVE  Implements
<1>1. CASE NextProgram
  <2>1. mode \in {"ended", "crashed"} /\ stack' = <<ProgramFrame>> /\ mode' = "statement"
    BY <1>1 DEF NextProgram
  <2>2. stack = << >>
    BY <2>1 DEF IInv, CallNesting, Running
  <2>3. Destination = << >> /\ ~Jumping
    BY <2>1, <2>2, DestinationIs, NestingOfEmpty
  <2>4. Destination' = <<Control!Program>>
    BY <2>1, DestinationNext, ProgramNesting
  <2>. QED
    BY <2>3, <2>4 DEF Implements, Control!Next, Control!Start
<1>2. CASE UNCHANGED vars
  <2>1. Destination' = Destination
    BY <1>2 DEF vars, Destination, Throwing, Nesting
  <2>. QED
    BY <2>1, Stutters
<1>. QED
  BY <1>1, <1>2, EnterStatementImplements, EvaluateImplements, ExpressionReturnsImplements,
     StatementReturnsImplements, ActivationEndsImplements
  DEF Next

(* A jump or an exception passed outwards through the methods of           *)
(* AstEvaluator does what the language promises: it goes to the construct  *)
(* that takes it, as if in one step.  This is about programs without       *)
(* finally, new and for (o.p in e), in which every return is in a          *)
(* function, every break and continue has a target or is in a function, no *)
(* labelled break leaves a loop that is not its target, and no unlabelled  *)
(* break a labelled block; those breaks have a target that the code does   *)
(* not take them to.                                                       *)
THEOREM ControlRefined ==
  JumpsTaken /\ OneStepJumps => (Spec => ImplementsStructuredControl)
<1>. SUFFICES ASSUME JumpsTaken, OneStepJumps
              PROVE  Spec => ImplementsStructuredControl
  OBVIOUS
<1>1. Init => Control!Init
  <2>. SUFFICES ASSUME Init PROVE Control!Init
    OBVIOUS
  <2>1. Destination = <<Control!Program>>
    BY DestinationIs, ProgramNesting DEF Init
  <2>. QED
    BY <2>1 DEF Control!Init
<1>2. IInv /\ ControlInv /\ [Next]_vars => [Control!Next]_Destination
  BY NextImplements DEF Implements
<1>3. Spec => [](IInv /\ ControlInv)
  BY ControlInvariance DEF OneStepJumps
<1>. QED
  BY <1>1, <1>2, <1>3, PTL DEF Spec, ImplementsStructuredControl, Control!Spec

(* In the same programs, with the same breaks, no method on the way of a   *)
(* jump or an exception changes where it lands.                            *)
THEOREM JumpsKeepTheirWay ==
  JumpsTaken /\ OneStepJumps => (Spec => DestinationKept)
<1>. SUFFICES ASSUME JumpsTaken, OneStepJumps
              PROVE  Spec => DestinationKept
  OBVIOUS
<1>1. IInv /\ ControlInv /\ [Next]_vars => [Jumping => Destination' = Destination]_vars
  BY NextImplements DEF Implements
<1>2. Spec => [](IInv /\ ControlInv)
  BY ControlInvariance DEF OneStepJumps
<1>. QED
  BY <1>1, <1>2, PTL DEF Spec, DestinationKept
=============================================================================
