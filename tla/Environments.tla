----------------------------- MODULE Environments -----------------------------
(***************************************************************************)
(* Identifiers: the environments of src/nabla/context.hh, and what         *)
(* AstEvaluator (evalast.cc) does with them: hoisting, resolution,         *)
(* assignment and compound assignment, var, typeof, delete, calls, with    *)
(* and catch.                                                              *)
(*                                                                         *)
(* The code of the program is not fixed: whenever it runs it may do any of *)
(* these, and between the two halves of an operation it may call functions *)
(* that do more of them.  A closure may be called whose scope is any       *)
(* environment there is.  The functions of the code are never strict       *)
(* (EvalFunctionNode), so no binding is immutable.                         *)
(***************************************************************************)
EXTENDS Integers, Sequences

CONSTANTS
  Name,        \* the identifiers
  Arguments,   \* the identifier "arguments"
  Data,        \* the values that are not functions
  Function,    \* a function
  Undefined,   \* undefined
  Object,      \* the objects a with statement may take
  Global,      \* the global object, one of them
  Nil,         \* the null any_ref
  Crashed,     \* the process died in an assertion
  Uses,        \* what the programs do, see AllUses
  MaxEnvs,     \* bound: the most environments ever made
  MaxCalls,    \* bound: the most activations at one time
  MaxPending   \* bound: the most halves of operations waiting in one of them

(* Programs that do one of these are kept apart, because the code then does *)
(* something else than the clause of the language it names:                *)
(* "catch": catch (n), when n is no variable of the function;              *)
(* "switchVar": var n inside a switch of a function, and nowhere else;     *)
(* "withCall": in a with statement, call a variable of a function.         *)
AllUses == {"catch", "switchVar", "withCall"}

ASSUME UsesAssumption == Uses \subseteq AllUses
ASSUME BoundsAssumption == MaxEnvs \in Nat /\ MaxCalls \in Nat /\ MaxPending \in Nat
ASSUME GlobalAssumption == Global \in Object
ASSUME EnvironmentValuesAssumption ==
  /\ Undefined \notin {Nil, Crashed}
  /\ Function \notin Data \cup {Undefined, Nil, Crashed}
  /\ {Nil, Crashed} \cap Data = {}
  /\ Nil # Crashed

Identifier == Name \cup {Arguments}
Values == Data \cup {Function, Undefined}

\* Bindings and properties: values of some of the identifiers.
Bindings == UNION {[S -> Values] : S \in SUBSET Identifier}

VARIABLES
  envs,    \* the environments made so far
  props,   \* own_props_ of each object
  stack,   \* the evaluators (activations) running
  answer   \* the value of the last expression, Nil for an exception

vars == <<envs, props, stack, answer>>

(* An environment is its position in envs.  outer is the chain of the      *)
(* environments around it, outermost first, empty for a null pointer.  An  *)
(* ObjectEnvironment has no bindings of its own.                           *)
Declarative(o, b) == [kind |-> "declarative", outer |-> o, bindings |-> b]
ObjectEnv(o, x) == [kind |-> "object", outer |-> o, object |-> x]

(* An activation: cur_env_, the environments its with statements saved,    *)
(* and the operations of which the first half is done.                     *)
Activation(e) == [env |-> e, saved |-> <<>>, pending |-> <<>>]

\* The environment an activation began in.
Base(f) == IF f.saved = <<>> THEN f.env ELSE f.saved[1]

Top == stack[Len(stack)]
Popped == SubSeq(stack, 1, Len(stack) - 1)
WithTop(f) == Append(Popped, f)

NoBindings == [n \in {} |-> Undefined]

\* CreateBinding of all of S: does nothing for a name that is bound.
CreateBindings(b, S, v) ==
  [n \in DOMAIN b \cup S |-> IF n \in DOMAIN b THEN b[n] ELSE v]

Init ==
  /\ envs = <<ObjectEnv(<<>>, Global)>>
  /\ props = [o \in Object |-> NoBindings]
  /\ stack = <<Activation(1)>>
  /\ answer = Undefined

\* Code of the program runs, and has no exception to attend to.
CodeRuns == answer \notin {Nil, Crashed}

\* A statement starts: no expression is half evaluated.
AtStatement == CodeRuns /\ Top.pending = <<>>

-----------------------------------------------------------------------------
(* Resolution.                                                             *)

\* HasBinding: GetBinding, or GetProperty for the bindings_obj.
Bound(e, n) ==
  n \in DOMAIN IF envs[e].kind = "object" THEN props[envs[e].object]
               ELSE envs[e].bindings

\* From the outermost environment to e.
Chain(e) == Append(envs[e].outer, e)

\* The innermost of the positions S of a chain c, 0 if there is none.
Innermost(c, S) == IF S = {} THEN 0 ELSE c[CHOOSE i \in S : \A j \in S : j <= i]

\* The first environment from e outwards that binds n, 0 if there is none.
Resolve(e, n) ==
  LET c == Chain(e) IN Innermost(c, {i \in DOMAIN c : Bound(c[i], n)})

ValueIn(e, n) ==
  IF envs[e].kind = "object" THEN props[envs[e].object][n] ELSE envs[e].bindings[n]

\* Object::Put, of plain properties.
PutProperty(o, n, v) ==
  props' = [props EXCEPT ![o] = [m \in DOMAIN @ \cup {n} |-> IF m = n THEN v ELSE @[m]]]

\* Mutant of PutValueWithEnvironment: the name is resolved again.
PutValueMutant(e, n, v) ==
  LET r == Resolve(Top.env, n)
  IN IF r = 0 \/ envs[r].kind = "object"
     THEN /\ PutProperty(IF r = 0 THEN Global ELSE envs[r].object, n, v)
          /\ UNCHANGED envs
     ELSE /\ envs' = [envs EXCEPT ![r].bindings[n] = v]
          /\ UNCHANGED props

\* A binding that is not there any more is not made again, unless it is a
\* property.
PutValueWithEnvironment(e, n, v) ==
  IF envs[e].kind = "object"
  THEN PutProperty(envs[e].object, n, v) /\ UNCHANGED envs
  ELSE /\ envs' = IF Bound(e, n) THEN [envs EXCEPT ![e].bindings[n] = v] ELSE envs
       /\ UNCHANGED props

\* Throw, and the null any_ref.
ThrowsError == answer' = Nil /\ UNCHANGED <<envs, props, stack>>

-----------------------------------------------------------------------------
(* Expressions.                                                            *)

\* EvalExpressionToValue_(Identifier*).
Read(n) ==
  LET r == Resolve(Top.env, n)
  IN /\ CodeRuns
     /\ IF r = 0 THEN ThrowsError
        ELSE answer' = ValueIn(r, n) /\ UNCHANGED <<envs, props, stack>>

\* ApplyTypeOfOperator: an identifier that means nothing is no error.
TypeOf(n) ==
  LET r == Resolve(Top.env, n)
  IN /\ CodeRuns
     /\ answer' = IF r = 0 THEN Undefined ELSE ValueIn(r, n)
     /\ UNCHANGED <<envs, props, stack>>

\* n = v, and what for (n in o) does: ResolveIdentifierAndPutValue.
Assign(n, v) ==
  LET r == Resolve(Top.env, n)
  IN /\ CodeRuns
     /\ IF r = 0 THEN PutProperty(Global, n, v) /\ UNCHANGED envs
        ELSE PutValueWithEnvironment(r, n, v)
     /\ answer' = v
     /\ UNCHANGED stack

Waits(kind, n, e) ==
  /\ Len(Top.pending) < MaxPending
  /\ stack' = WithTop([Top EXCEPT !.pending =
                Append(@, [kind |-> kind, name |-> n, env |-> e])])
  /\ UNCHANGED <<envs, props, answer>>

\* n op= ..., up to the evaluation of its right side.
CompoundStart(n) ==
  LET r == Resolve(Top.env, n)
  IN /\ CodeRuns
     /\ IF r = 0 THEN ThrowsError ELSE Waits("compound", n, r)

\* var n = ..., in a with statement or not, up to the evaluation of the value.
\* InitVariableBindings has made the variable, but for one in a switch.
VarStart(n) ==
  /\ AtStatement
  /\ \/ "switchVar" \in Uses
     \/ envs[Base(Top)].kind = "object"
     \/ Bound(Base(Top), n)
  /\ Waits("var", n, Top.env)

LastPending == Top.pending[Len(Top.pending)]
PendingDone == [Top EXCEPT !.pending = SubSeq(@, 1, Len(@) - 1)]

\* The right side is evaluated, and the operator gives v.
PendingEnds(v) ==
  /\ CodeRuns
  /\ Top.pending # <<>>
  /\ PutValueWithEnvironment(LastPending.env, LastPending.name, v)
  /\ stack' = WithTop(PendingDone)
  /\ answer' = v

\* n++: it is read and written in one go.
UpdateName(n, v) ==
  LET r == Resolve(Top.env, n)
  IN /\ CodeRuns
     /\ IF r = 0 THEN ThrowsError
        ELSE /\ PutValueWithEnvironment(r, n, v)
             /\ answer' = v
             /\ UNCHANGED stack

\* Mutant of DeleteIdentifier: any binding can be deleted.
DeleteIdentifierMutant(n) ==
  /\ CodeRuns
  /\ IF envs[Top.env].kind = "object"
     THEN /\ props' = [props EXCEPT ![envs[Top.env].object] =
                         [m \in DOMAIN @ \ {n} |-> @[m]]]
          /\ UNCHANGED envs
     ELSE /\ envs' = [envs EXCEPT ![Top.env].bindings =
                        [m \in DOMAIN @ \ {n} |-> @[m]]]
          /\ UNCHANGED props
  /\ answer' = Undefined
  /\ UNCHANGED stack

\* delete n looks at cur_env_ alone; the bindings of a function all have
\* deletable unset, the properties of a program's variables have not.
DeleteIdentifier(n) ==
  /\ CodeRuns
  /\ props' = IF envs[Top.env].kind = "object"
              THEN [props EXCEPT ![envs[Top.env].object] =
                      [m \in DOMAIN @ \ {n} |-> @[m]]]
              ELSE props
  /\ answer' = Undefined
  /\ UNCHANGED <<envs, stack>>

\* o.n = v and delete o.n.
MemberPut(o, n, v) ==
  /\ CodeRuns
  /\ PutProperty(o, n, v)
  /\ answer' = v
  /\ UNCHANGED <<envs, stack>>

MemberDelete(o, n) ==
  /\ CodeRuns
  /\ props' = [props EXCEPT ![o] = [m \in DOMAIN @ \ {n} |-> @[m]]]
  /\ answer' = Undefined
  /\ UNCHANGED <<envs, stack>>

-----------------------------------------------------------------------------
(* Calls.                                                                  *)

(* n ( : the callee is evaluated.  When cur_env_ is an object environment, *)
(* the environment that has n is taken for one too, and asserted to be:    *)
(* the binding may be a function's.                                        *)
Callee(n) ==
  LET r == Resolve(Top.env, n)
  IN /\ CodeRuns
     /\ IF r = 0 THEN ThrowsError
        ELSE IF envs[Top.env].kind = "object" /\ envs[r].kind # "object"
        THEN /\ "withCall" \in Uses
             /\ answer' = Crashed
             /\ UNCHANGED <<envs, props, stack>>
        ELSE IF ValueIn(r, n) # Function THEN ThrowsError
        ELSE UNCHANGED vars

\* Hoisting: DefineVariable of the functions a body declares, and then of its
\* variables.
InitFunctionBindings(b, functions) == CreateBindings(b, functions, Function)
InitVariableBindings(b, variables) == CreateBindings(b, variables, Undefined)

(* CallFunction_ of a closure with the given scope: its arguments, the     *)
(* name arguments, its functions and its variables are bound in that       *)
(* order, and a name already bound keeps its value.                        *)
CallFunction(scope, args, functions, variables) ==
  /\ CodeRuns
  /\ Len(stack) < MaxCalls /\ Len(envs) < MaxEnvs
  /\ LET withArguments == CreateBindings(args, {Arguments}, Undefined)
         withFunctions == InitFunctionBindings(withArguments, functions)
         b == InitVariableBindings(withFunctions, variables)
     IN envs' = Append(envs, Declarative(Chain(scope), b))
  /\ stack' = Append(stack, Activation(Len(envs) + 1))
  /\ answer' = Undefined
  /\ UNCHANGED props

\* return v, or the end of the body; an exception that nobody catches.
FunctionEnds ==
  /\ answer # Crashed
  /\ Len(stack) > 1
  /\ answer = Nil \/ Top.pending = <<>>
  /\ stack' = Popped
  /\ IF answer = Nil THEN UNCHANGED answer ELSE answer' \in Values
  /\ UNCHANGED <<envs, props>>

Throw ==
  /\ CodeRuns
  /\ ThrowsError

-----------------------------------------------------------------------------
(* Statements.                                                             *)

WithEnters(o) ==
  /\ AtStatement
  /\ Len(envs) < MaxEnvs
  /\ envs' = Append(envs, ObjectEnv(Chain(Top.env), o))
  /\ stack' = WithTop([Top EXCEPT !.env = Len(envs) + 1,
                                  !.saved = Append(@, Top.env)])
  /\ UNCHANGED <<props, answer>>

\* Mutant of WithEnds: the outer environment is not restored on an exception.
WithEndsMutant ==
  /\ answer # Crashed
  /\ Top.saved # <<>>
  /\ answer = Nil \/ Top.pending = <<>>
  /\ stack' = WithTop([Top EXCEPT
                !.env = IF answer = Nil THEN @ ELSE Top.saved[Len(Top.saved)],
                !.saved = SubSeq(@, 1, Len(@) - 1), !.pending = <<>>])
  /\ UNCHANGED <<envs, props, answer>>

\* However its body ends, cur_env_ is the old_env.
WithEnds ==
  /\ answer # Crashed
  /\ Top.saved # <<>>
  /\ answer = Nil \/ Top.pending = <<>>
  /\ stack' = WithTop([Top EXCEPT !.env = Top.saved[Len(Top.saved)],
                !.saved = SubSeq(@, 1, Len(@) - 1), !.pending = <<>>])
  /\ UNCHANGED <<envs, props, answer>>

\* Mutant of CatchClause: the variable is made before Catch() has its value.
CatchClauseMutant(n, v) ==
  /\ answer = Nil
  /\ PutProperty(Global, n, answer)
  /\ stack' = WithTop([Top EXCEPT !.pending = <<>>])
  /\ answer' = Undefined
  /\ UNCHANGED envs

\* EvalCatchClause: DefineVariable of the exception v in cur_env_.
CatchClause(n, v) ==
  /\ answer = Nil
  /\ "catch" \in Uses \/ Bound(Top.env, n) \/ envs[Top.env].kind = "object"
  /\ IF envs[Top.env].kind = "object"
     THEN PutProperty(envs[Top.env].object, n, v) /\ UNCHANGED envs
     ELSE /\ envs' = [envs EXCEPT ![Top.env].bindings = CreateBindings(@, {n}, v)]
          /\ UNCHANGED props
  /\ stack' = WithTop([Top EXCEPT !.pending = <<>>])
  /\ answer' = Undefined

(* The program ends, by an exception or not, and context::eval runs the    *)
(* next: its declarations are put to the global object, functions and then *)
(* variables, which are set to undefined whatever they were.               *)
NextProgram(functions, variables) ==
  /\ answer # Crashed
  /\ Len(stack) = 1 /\ Top.saved = <<>>
  /\ answer = Nil \/ Top.pending = <<>>
  /\ Len(envs) < MaxEnvs
  /\ envs' = Append(envs, ObjectEnv(<<>>, Global))
  /\ props' = [props EXCEPT ![Global] =
                 [n \in DOMAIN @ \cup functions \cup variables |->
                    IF n \in variables THEN Undefined
                    ELSE IF n \in functions THEN Function ELSE @[n]]]
  /\ stack' = <<Activation(Len(envs) + 1)>>
  /\ answer' = Undefined

-----------------------------------------------------------------------------

Evaluate(n) ==
  \/ Read(n)
  \/ TypeOf(n)
  \/ \E v \in Data : Assign(n, v) \/ UpdateName(n, v)
  \/ CompoundStart(n)
  \/ DeleteIdentifier(n)
  \/ Callee(n)
  \/ \E o \in Object : \/ \E v \in Data : MemberPut(o, n, v)
                       \/ MemberDelete(o, n)

Call ==
  \E scope \in DOMAIN envs, passed, functions, variables \in SUBSET Name :
    \E args \in [passed -> Data \cup {Undefined}] :
      CallFunction(scope, args, functions, variables)

Next ==
  \/ \E n \in Name : Evaluate(n) \/ VarStart(n)
  \/ \E v \in Data : PendingEnds(v)
  \/ Call
  \/ FunctionEnds
  \/ Throw
  \/ \E o \in Object : WithEnters(o)
  \/ WithEnds
  \/ \E n \in Name, v \in Data : CatchClause(n, v)
  \/ \E functions, variables \in SUBSET Name : NextProgram(functions, variables)

Spec == Init /\ [][Next]_vars

-----------------------------------------------------------------------------
(* Properties.                                                             *)

EnvironmentType ==
  [kind : {"declarative"}, outer : Seq(Nat \ {0}), bindings : Bindings] \cup
  [kind : {"object"}, outer : Seq(Nat \ {0}), object : Object]

ActivationType ==
  [env : Nat \ {0}, saved : Seq(Nat \ {0}),
   pending : Seq([kind : {"compound", "var"}, name : Name, env : Nat \ {0}])]

TypeOK ==
  /\ envs \in Seq(EnvironmentType)
  /\ props \in [Object -> Bindings]
  /\ stack \in Seq(ActivationType)
  /\ answer \in Values \cup {Nil, Crashed}

IsDeclarative(e) == envs[e].kind = "declarative"

\* The with statements of f are each inside the one before.
WithsNest(f) ==
  LET inner == Append(f.saved, f.env)
  IN \A j \in DOMAIN f.saved : /\ ~IsDeclarative(inner[j + 1])
                               /\ envs[inner[j + 1]].outer = Chain(inner[j])

\* Activation i began in the environment of a function, or of the program.
BeginsIn(i) ==
  LET e == Base(stack[i])
  IN IF i > 1 THEN IsDeclarative(e) ELSE ~IsDeclarative(e) /\ envs[e].outer = <<>>

(* Every activation is in the environment of the innermost with statement  *)
(* it has entered and not left, each of them will give back the one around *)
(* it, and outermost is the environment of the function or the program,    *)
(* whatever exceptions have crossed (evalast.cc 226-229, 111-123, 1504).   *)
ScopesNest == \A i \in DOMAIN stack : WithsNest(stack[i]) /\ BeginsIn(i)

(* The environment a compound assignment or a var has taken still is one   *)
(* its code can see, and a variable in it is still there, whatever the     *)
(* functions called in between have done: else PutValueWithEnvironment     *)
(* would drop the value without a word (evalast.cc 848-854, 1159-1164).    *)
ReferencesHold ==
  \A i \in DOMAIN stack : \A j \in DOMAIN stack[i].pending :
    LET r == stack[i].pending[j]
    IN /\ \E k \in DOMAIN Chain(stack[i].env) : Chain(stack[i].env)[k] = r.env
       /\ IsDeclarative(r.env) => r.name \in DOMAIN envs[r.env].bindings

(* A compound assignment writes to the variable it has read, and to no     *)
(* other, even if by now the name means something else (evalast.cc 854).   *)
CompoundLands ==
  [][\A v \in Data :
       /\ PendingEnds(v) /\ LastPending.kind = "compound"
       /\ IsDeclarative(LastPending.env)
       => /\ envs'[LastPending.env].bindings[LastPending.name] = v
          /\ UNCHANGED props
          /\ \A e \in DOMAIN envs \ {LastPending.env} : envs'[e] = envs[e]]_vars

\* The innermost function from e outwards that has a variable n.
Variable(e, n) ==
  LET c == Chain(e)
  IN Innermost(c, {i \in DOMAIN c : /\ IsDeclarative(c[i])
                                    /\ n \in DOMAIN envs[c[i]].bindings})

(* Scoping is static: the variable a name means in some code, if it is not *)
(* a property of an object, is settled when the function is entered, and   *)
(* nothing the program does later changes it (context.hh 166-180).         *)
StaticScoping ==
  [][envs' # envs =>
       \A e \in DOMAIN envs, n \in Name : Variable(e, n)' = Variable(e, n)]_vars
=============================================================================
