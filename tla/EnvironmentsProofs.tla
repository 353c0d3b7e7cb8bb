-------------------------- MODULE EnvironmentsProofs --------------------------
(***************************************************************************)
(* Theorems about Environments: its types, the nesting of scopes, the      *)
(* references of compound assignments, and static scoping.                 *)
(***************************************************************************)
EXTENDS Environments, SequenceTheorems, WellFoundedInduction, TLAPS

\* A set of numbers that is not empty has a least element.
LEMMA Minimum ==
  ASSUME NEW S \in SUBSET Nat, S # {}
  PROVE  \E x \in S : \A y \in S : x <= y
<1> DEFINE Below == {pair \in Nat \X Nat : pair[1] < pair[2]}
<1>1. IsWellFoundedOn(Below, Nat)
  BY NatLessThanWellFounded, Zenon DEF OpToRel
<1>2. \E x \in S : \A y \in S : ~ (<<y, x>> \in Below)
  <2> HIDE DEF Below
  <2>. QED BY <1>1, WFMin
<1>3. PICK x \in S : \A y \in S : ~ (<<y, x>> \in Below)
  BY <1>2
<1>4. ASSUME NEW y \in S PROVE x <= y
  <2>1. <<y, x>> \notin Below /\ x \in Nat /\ y \in Nat
    BY <1>3
  <2>2. ~ (y < x)
    BY <2>1
  <2>. QED BY <2>1, <2>2
<1>. QED BY <1>4

\* A bounded one has a greatest.
LEMMA Maximum ==
  ASSUME NEW n \in Nat, NEW S \in SUBSET (1 .. n), S # {}
  PROVE  \E x \in S : \A y \in S : y <= x
<1> DEFINE T == {k \in Nat : \E y \in S : k + y = n}
<1>1. T # {} /\ T \in SUBSET Nat
  <2>1. PICK y \in S : TRUE
    OBVIOUS
  <2>2. n - y \in Nat /\ (n - y) + y = n
    BY <2>1
  <2> QED
    BY <2>1, <2>2
<1>2. PICK k \in T : \A m \in T : k <= m
  <2> HIDE DEF T
  <2> QED
    BY <1>1, Minimum
<1>3. PICK x \in S : k + x = n
  BY <1>2
<1>4. ASSUME NEW y \in S PROVE y <= x
  <2>1. n - y \in T
    <3>1. n - y \in Nat /\ (n - y) + y = n
      OBVIOUS
    <3> QED
      BY <3>1
  <2>2. k <= n - y
    BY <2>1, <1>2
  <2> QED
    BY <2>2, <1>3
<1> QED
  BY <1>4

-----------------------------------------------------------------------------

DeclarativeType == [kind : {"declarative"}, outer : Seq(Nat \ {0}), bindings : Bindings]
ObjectType == [kind : {"object"}, outer : Seq(Nat \ {0}), object : Object]
PendingType == [kind : {"compound", "var"}, name : Name, env : Nat \ {0}]

-----------------------------------------------------------------------------
(* Bindings.                                                               *)

\* A partial function from identifiers to values.
LEMMA Partial ==
  ASSUME NEW b
  PROVE  b \in Bindings <=> /\ DOMAIN b \subseteq Identifier
                            /\ b \in [DOMAIN b -> Values]
BY DEF Bindings

\* CreateBinding adds names and takes none away (context.hh 165).
LEMMA Created ==
  ASSUME NEW b \in Bindings, NEW S \in SUBSET Identifier, NEW v \in Values
  PROVE  /\ CreateBindings(b, S, v) \in Bindings
         /\ DOMAIN CreateBindings(b, S, v) = DOMAIN b \cup S
BY Partial, Zenon DEF CreateBindings

\* What is left of the bindings, or of the properties, without a name.
LEMMA Removed ==
  ASSUME NEW b \in Bindings, NEW n
  PROVE  [m \in DOMAIN b \ {n} |-> b[m]] \in Bindings
BY Partial DEF Bindings

LEMMA Empty == NoBindings \in Bindings
BY DEF NoBindings, Bindings

\* Put keeps an object an object (context.cc 200).
LEMMA PropertyPut ==
  ASSUME props \in [Object -> Bindings], NEW o \in Object,
         NEW n \in Identifier, NEW v \in Values, PutProperty(o, n, v)
  PROVE  props' \in [Object -> Bindings]
<1> DEFINE b == props[o]
           c == [m \in DOMAIN b \cup {n} |-> IF m = n THEN v ELSE b[m]]
<1>1. b \in Bindings
  OBVIOUS
<1>2. c \in Bindings
  BY <1>1, Partial DEF Bindings
<1>3. props' = [props EXCEPT ![o] = c]
  BY DEF PutProperty
<1> HIDE DEF c
<1> QED
  BY <1>2, <1>3

\* delete keeps an object an object.
LEMMA PropertyRemoved ==
  ASSUME props \in [Object -> Bindings], NEW o \in Object, NEW n,
         props' = [props EXCEPT ![o] = [m \in DOMAIN @ \ {n} |-> @[m]]]
  PROVE  props' \in [Object -> Bindings]
<1> DEFINE c == [m \in DOMAIN props[o] \ {n} |-> props[o][m]]
<1>1. c \in Bindings
  BY Removed
<1>2. props' = [props EXCEPT ![o] = c]
  OBVIOUS
<1> HIDE DEF c
<1> QED
  BY <1>1, <1>2

-----------------------------------------------------------------------------
(* Environments and activations.                                           *)

\* An environment is younger than those around it.
OlderOutside ==
  \A e \in DOMAIN envs : \A i \in DOMAIN envs[e].outer :
    envs[e].outer[i] \in DOMAIN envs /\ envs[e].outer[i] < e

\* What an activation refers to exists.
Refers(f) ==
  /\ f.env \in DOMAIN envs
  /\ \A j \in DOMAIN f.saved : f.saved[j] \in DOMAIN envs
  /\ \A j \in DOMAIN f.pending : f.pending[j].env \in DOMAIN envs

Linked ==
  /\ OlderOutside
  /\ stack # <<>>
  /\ \A i \in DOMAIN stack : Refers(stack[i])

(* That a with statement gives back the right environment takes that the   *)
(* environments saved are environments at all: Linked.                     *)
IInv == TypeOK /\ Linked /\ ScopesNest

\* The two kinds of environments.
LEMMA Kinds ==
  ASSUME TypeOK, NEW e \in DOMAIN envs
  PROVE  /\ e \in Nat \ {0}
         /\ envs[e].outer \in Seq(Nat \ {0})
         /\ Chain(e) \in Seq(Nat \ {0})
         /\ \/ /\ envs[e] \in DeclarativeType
               /\ envs[e].kind = "declarative"
               /\ envs[e].bindings \in Bindings
            \/ /\ envs[e] \in ObjectType
               /\ envs[e].kind = "object"
               /\ envs[e].object \in Object
<1>1. envs[e] \in EnvironmentType /\ e \in Nat \ {0}
  BY DEF TypeOK
<1>2. envs[e] \in DeclarativeType \/ envs[e] \in ObjectType
  BY <1>1 DEF EnvironmentType, DeclarativeType, ObjectType
<1> QED
  BY <1>1, <1>2 DEF Chain, DeclarativeType, ObjectType

\* The environments around e exist too.
LEMMA ChainExists ==
  ASSUME TypeOK, OlderOutside, NEW e \in DOMAIN envs
  PROVE  \A i \in DOMAIN Chain(e) : Chain(e)[i] \in DOMAIN envs /\ Chain(e)[i] <= e
<1>1. envs[e].outer \in Seq(Nat \ {0}) /\ e \in Nat
  BY Kinds
<1>2. SUFFICES ASSUME NEW i \in DOMAIN Chain(e)
               PROVE  Chain(e)[i] \in DOMAIN envs /\ Chain(e)[i] <= e
  OBVIOUS
<1>3. CASE i = Len(envs[e].outer) + 1
  BY <1>1, <1>3 DEF Chain
<1>4. CASE i # Len(envs[e].outer) + 1
  <2>1. i \in DOMAIN envs[e].outer /\ Chain(e)[i] = envs[e].outer[i]
    BY <1>1, <1>2, <1>4 DEF Chain
  <2>2. Chain(e)[i] \in Nat
    BY <2>1, <1>1
  <2> QED
    BY <2>1, <2>2, <1>1 DEF OlderOutside
<1> QED
  BY <1>3, <1>4

(* Resolve finds an environment of the chain that binds the name.          *)
LEMMA Resolved ==
  ASSUME TypeOK, OlderOutside, NEW e \in DOMAIN envs, NEW n, Resolve(e, n) # 0
  PROVE  /\ Resolve(e, n) \in DOMAIN envs
         /\ Bound(Resolve(e, n), n)
         /\ \E k \in DOMAIN Chain(e) : Chain(e)[k] = Resolve(e, n)
<1> DEFINE c == Chain(e)
           S == {i \in DOMAIN c : Bound(c[i], n)}
<1>1. c \in Seq(Nat \ {0})
  BY Kinds
<1>2. Resolve(e, n) = Innermost(c, S)
  BY DEF Resolve
<1>3. S # {} /\ Resolve(e, n) = c[CHOOSE i \in S : \A j \in S : j <= i]
  BY <1>2 DEF Innermost
<1>4. \E i \in S : \A j \in S : j <= i
  <2>1. S \subseteq 1 .. Len(c) /\ Len(c) \in Nat
    BY <1>1
  <2> HIDE DEF S
  <2> QED
    BY <1>3, <2>1, Maximum
<1>5. PICK i \in S : Resolve(e, n) = c[i]
  BY <1>3, <1>4
<1>6. i \in DOMAIN c /\ Bound(c[i], n)
  BY <1>5
<1> QED
  BY <1>5, <1>6, ChainExists

LEMMA TopType ==
  ASSUME TypeOK, stack # <<>>
  PROVE  /\ Top \in ActivationType
         /\ Len(stack) \in Nat \ {0}
         /\ Len(stack) \in DOMAIN stack
BY DEF TypeOK, Top

LEMMA TopChanged ==
  ASSUME TypeOK, stack # <<>>, NEW f \in ActivationType
  PROVE  /\ WithTop(f) \in Seq(ActivationType)
         /\ DOMAIN WithTop(f) = DOMAIN stack
         /\ WithTop(f)[Len(stack)] = f
         /\ \A i \in DOMAIN stack : i # Len(stack) => WithTop(f)[i] = stack[i]
<1> DEFINE n == Len(stack)
           below == SubSeq(stack, 1, n - 1)
<1>1. stack \in Seq(ActivationType) /\ n \in Nat \ {0} /\ DOMAIN stack = 1 .. n
  BY DEF TypeOK
<1>2. /\ below \in Seq(ActivationType) /\ Len(below) = n - 1
      /\ \A i \in 1 .. n - 1 : below[i] = stack[i]
  BY <1>1
<1>3. WithTop(f) = Append(below, f)
  BY DEF WithTop, Popped
<1> HIDE DEF below, n
<1>4. WithTop(f) \in Seq(ActivationType) /\ Len(WithTop(f)) = n
  BY <1>1, <1>2, <1>3, AppendProperties
<1>5. WithTop(f)[n] = f /\ \A i \in 1 .. n - 1 : WithTop(f)[i] = below[i]
  BY <1>1, <1>2, <1>3, AppendProperties
<1> QED
  BY <1>1, <1>2, <1>4, <1>5 DEF n

-----------------------------------------------------------------------------
(* What steps keep.                                                        *)

\* The environments there are stay what they are, and lose no variable.
Keeps ==
  /\ DOMAIN envs \subseteq DOMAIN envs'
  /\ \A e \in DOMAIN envs :
       /\ envs'[e].kind = envs[e].kind
       /\ envs'[e].outer = envs[e].outer
       /\ IsDeclarative(e) => DOMAIN envs[e].bindings \subseteq DOMAIN envs'[e].bindings

\* Nor do they get one.
Fixed ==
  \A e \in DOMAIN envs :
    IsDeclarative(e) => DOMAIN envs'[e].bindings \subseteq DOMAIN envs[e].bindings

\* An expression, or a statement that enters and leaves nothing.
Evaluates ==
  /\ TypeOK'
  /\ Keeps
  /\ DOMAIN envs' = DOMAIN envs
  /\ DOMAIN stack' = DOMAIN stack
  /\ \A i \in DOMAIN stack :
       /\ stack'[i].env = stack[i].env
       /\ stack'[i].saved = stack[i].saved
       /\ \A j \in DOMAIN stack'[i].pending : stack'[i].pending[j].env \in DOMAIN envs

LEMMA Untouched ==
  ASSUME UNCHANGED envs
  PROVE  Keeps /\ Fixed
BY DEF Keeps, Fixed

\* An assignment in the environment e.
LEMMA BindingsWritten ==
  ASSUME TypeOK, NEW e \in DOMAIN envs, IsDeclarative(e),
         NEW b \in Bindings, DOMAIN envs[e].bindings \subseteq DOMAIN b,
         envs' = [envs EXCEPT ![e].bindings = b]
  PROVE  /\ envs' \in Seq(EnvironmentType)
         /\ DOMAIN envs' = DOMAIN envs
         /\ Keeps
         /\ DOMAIN b \subseteq DOMAIN envs[e].bindings => Fixed
<1> DEFINE x == [envs[e] EXCEPT !.bindings = b]
<1>1. envs \in Seq(EnvironmentType) /\ envs[e] \in DeclarativeType
  BY Kinds DEF TypeOK, IsDeclarative
<1>2. /\ x \in DeclarativeType
      /\ x.kind = envs[e].kind /\ x.outer = envs[e].outer /\ x.bindings = b
  BY <1>1 DEF DeclarativeType
<1>3. x \in EnvironmentType
  BY <1>2, Zenon DEF EnvironmentType, DeclarativeType
<1>4. envs' = [envs EXCEPT ![e] = x]
  OBVIOUS
<1> HIDE DEF x
<1>5. envs' \in Seq(EnvironmentType) /\ DOMAIN envs' = DOMAIN envs
  BY <1>1, <1>3, <1>4
<1>6. envs'[e] = x /\ \A d \in DOMAIN envs : d # e => envs'[d] = envs[d]
  BY <1>1, <1>4
<1> QED
  BY <1>2, <1>5, <1>6, Zenon DEF Keeps, Fixed

\* A new environment, inside others or outermost.
LEMMA Made ==
  ASSUME TypeOK, OlderOutside, NEW x \in EnvironmentType, envs' = Append(envs, x),
         \/ x.outer = <<>>
         \/ \E e \in DOMAIN envs : x.outer = Chain(e)
  PROVE  /\ envs' \in Seq(EnvironmentType)
         /\ Len(envs) + 1 \in DOMAIN envs' /\ envs'[Len(envs) + 1] = x
         /\ Keeps /\ Fixed
         /\ OlderOutside'
<1> DEFINE n == Len(envs) + 1
<1>1. envs \in Seq(EnvironmentType) /\ n \in Nat \ {0} /\ DOMAIN envs = 1 .. n - 1
  BY DEF TypeOK
<1>2. /\ envs' \in Seq(EnvironmentType) /\ DOMAIN envs' = 1 .. n /\ envs'[n] = x
      /\ \A e \in DOMAIN envs : envs'[e] = envs[e]
  BY <1>1
<1>3. Keeps /\ Fixed
  BY <1>1, <1>2 DEF Keeps, Fixed
<1>4. ASSUME NEW e \in DOMAIN envs', NEW i \in DOMAIN envs'[e].outer
      PROVE  envs'[e].outer[i] \in DOMAIN envs' /\ envs'[e].outer[i] < e
  <2>1. CASE e \in DOMAIN envs
    BY <2>1, <1>1, <1>2, <1>4 DEF OlderOutside
  <2>2. CASE e = n
    <3>1. PICK d \in DOMAIN envs : x.outer = Chain(d)
      BY <2>2, <1>2, <1>4
    <3>2. Chain(d)[i] \in DOMAIN envs /\ Chain(d)[i] <= d
      BY <3>1, <2>2, <1>2, <1>4, ChainExists
    <3> QED
      BY <3>1, <3>2, <2>2, <1>1, <1>2
  <2> QED
    BY <2>1, <2>2, <1>1, <1>2
<1> QED
  BY <1>2, <1>3, <1>4 DEF OlderOutside

\* Chains stay what they are.
LEMMA ChainKept ==
  ASSUME Keeps, NEW e \in DOMAIN envs
  PROVE  Chain(e)' = Chain(e)
BY DEF Keeps, Chain

\* An activation that stays in its environment still nests.
LEMMA FrameKept ==
  ASSUME IInv, Keeps, NEW i \in DOMAIN stack,
         stack'[i].env = stack[i].env, stack'[i].saved = stack[i].saved
  PROVE  WithsNest(stack[i])' /\ BeginsIn(i)'
<1> DEFINE f == stack[i]
           inner == Append(f.saved, f.env)
<1>0. f \in ActivationType
  BY DEF IInv, TypeOK
<1>1. /\ f.saved \in Seq(Nat \ {0}) /\ f.env \in Nat \ {0}
      /\ \A j \in DOMAIN f.saved : f.saved[j] \in DOMAIN envs
      /\ f.env \in DOMAIN envs
  BY <1>0 DEF IInv, Linked, Refers, ActivationType
<1>2. \A j \in 1 .. Len(f.saved) + 1 : inner[j] \in DOMAIN envs
  BY <1>1
<1>3. WithsNest(f) /\ BeginsIn(i)
  BY DEF IInv, ScopesNest
<1>4. WithsNest(stack[i])'
  <2> SUFFICES ASSUME NEW j \in DOMAIN f.saved
               PROVE  /\ envs'[inner[j + 1]].kind # "declarative"
                      /\ envs'[inner[j + 1]].outer = Append(envs'[inner[j]].outer, inner[j])
    BY DEF WithsNest, IsDeclarative, Chain
  <2>1. j \in 1 .. Len(f.saved) + 1 /\ j + 1 \in 1 .. Len(f.saved) + 1
    BY <1>1
  <2>2. /\ envs[inner[j + 1]].kind # "declarative"
        /\ envs[inner[j + 1]].outer = Append(envs[inner[j]].outer, inner[j])
    BY <1>3 DEF WithsNest, IsDeclarative, Chain
  <2> QED
    BY <2>1, <2>2, <1>2 DEF Keeps
<1>5. BeginsIn(i)'
  <2>1. Base(f) \in DOMAIN envs
    BY <1>1 DEF Base
  <2>2. Base(stack'[i]) = Base(f)
    BY DEF Base
  <2> QED
    BY <2>1, <2>2, <1>3 DEF BeginsIn, IsDeclarative, Keeps
<1> QED
  BY <1>4, <1>5

\* What an activation refers to goes on existing.
LEMMA RefersKept ==
  ASSUME Linked, Keeps, NEW i \in DOMAIN stack, stack'[i] = stack[i]
  PROVE  Refers(stack[i])'
BY DEF Linked, Keeps, Refers

LEMMA EvaluatesKeeps ==
  ASSUME IInv, Evaluates
  PROVE  IInv'
<1>1. TypeOK' /\ Keeps
  BY DEF Evaluates
<1>2. OlderOutside'
  BY DEF Evaluates, Keeps, IInv, Linked, OlderOutside
<1>3. stack' # <<>>
  BY DEF Evaluates, IInv, Linked, TypeOK
<1>4. \A i \in DOMAIN stack' : Refers(stack[i])'
  BY DEF Evaluates, IInv, Linked, Refers
<1>5. ScopesNest'
  BY FrameKept DEF Evaluates, ScopesNest
<1> QED
  BY <1>1, <1>2, <1>3, <1>4, <1>5 DEF IInv, Linked

-----------------------------------------------------------------------------
(* Expressions.                                                            *)

\* What an assignment to a reference leaves of envs and props.
Assigns ==
  /\ envs' \in Seq(EnvironmentType)
  /\ props' \in [Object -> Bindings]
  /\ DOMAIN envs' = DOMAIN envs
  /\ Keeps

LEMMA PropertyAssigned ==
  ASSUME TypeOK, UNCHANGED envs, props' \in [Object -> Bindings]
  PROVE  Assigns /\ Fixed
BY Untouched DEF Assigns, TypeOK

\* PutValueWithEnvironment makes and deletes no variable.
LEMMA ValuePut ==
  ASSUME TypeOK, NEW e \in DOMAIN envs, NEW n \in Identifier, NEW v \in Values,
         PutValueWithEnvironment(e, n, v)
  PROVE  Assigns /\ Fixed
<1>1. CASE envs[e].kind = "object"
  <2>1. envs[e].object \in Object
    BY <1>1, Kinds
  <2>2. PutProperty(envs[e].object, n, v) /\ UNCHANGED envs
    BY <1>1 DEF PutValueWithEnvironment
  <2>3. props' \in [Object -> Bindings]
    BY <2>1, <2>2, PropertyPut DEF TypeOK
  <2> QED
    BY <2>2, <2>3, PropertyAssigned
<1>2. CASE envs[e].kind # "object"
  <2> DEFINE b == [envs[e].bindings EXCEPT ![n] = v]
  <2>1. IsDeclarative(e) /\ envs[e].bindings \in Bindings
    BY <1>2, Kinds DEF IsDeclarative
  <2>2. /\ envs' = IF Bound(e, n) THEN [envs EXCEPT ![e].bindings[n] = v] ELSE envs
        /\ UNCHANGED props
    BY <1>2 DEF PutValueWithEnvironment
  <2>3. CASE Bound(e, n)
    <3>1. DOMAIN b = DOMAIN envs[e].bindings
      OBVIOUS
    <3>2. b \in Bindings
      BY <2>1, <3>1, Partial
    <3>3. envs' = [envs EXCEPT ![e].bindings = b]
      BY <2>2, <2>3, Zenon
    <3> HIDE DEF b
    <3> QED
      BY <2>1, <2>2, <3>1, <3>2, <3>3, BindingsWritten DEF Assigns, TypeOK
  <2>4. CASE ~ Bound(e, n)
    BY <2>2, <2>4, PropertyAssigned DEF TypeOK
  <2> QED
    BY <2>3, <2>4
<1> QED
  BY <1>1, <1>2

\* The stack is left alone.
LEMMA AssignsEvaluates ==
  ASSUME IInv, Assigns, answer' \in Values \cup {Nil, Crashed}, UNCHANGED stack
  PROVE  Evaluates
BY DEF Evaluates, Assigns, TypeOK, IInv, Linked, Refers

\* Nothing changes but the answer.
LEMMA AnswerEvaluates ==
  ASSUME IInv, answer' \in Values \cup {Nil, Crashed}, UNCHANGED <<envs, props, stack>>
  PROVE  Evaluates /\ Fixed
BY PropertyAssigned, AssignsEvaluates DEF IInv, TypeOK

\* The value of a name is one.
LEMMA ValueRead ==
  ASSUME TypeOK, NEW e \in DOMAIN envs, NEW n, Bound(e, n)
  PROVE  ValueIn(e, n) \in Values
<1>1. CASE envs[e].kind = "object"
  <2> DEFINE b == props[envs[e].object]
  <2>1. b \in Bindings
    BY <1>1, Kinds DEF TypeOK
  <2>2. n \in DOMAIN b /\ ValueIn(e, n) = b[n]
    BY <1>1 DEF Bound, ValueIn
  <2> QED
    BY <2>1, <2>2, Partial
<1>2. CASE envs[e].kind # "object"
  <2> DEFINE b == envs[e].bindings
  <2>1. b \in Bindings
    BY <1>2, Kinds
  <2>2. n \in DOMAIN b /\ ValueIn(e, n) = b[n]
    BY <1>2 DEF Bound, ValueIn
  <2> QED
    BY <2>1, <2>2, Partial
<1> QED
  BY <1>1, <1>2

LEMMA TopRefers ==
  ASSUME IInv
  PROVE  /\ Top \in ActivationType
         /\ Len(stack) \in DOMAIN stack
         /\ Refers(Top)
BY TopType DEF IInv, Linked, Top

\* What a name resolves to exists.
LEMMA NameResolved ==
  ASSUME IInv, NEW n, Resolve(Top.env, n) # 0
  PROVE  /\ Resolve(Top.env, n) \in DOMAIN envs
         /\ Bound(Resolve(Top.env, n), n)
         /\ ValueIn(Resolve(Top.env, n), n) \in Values
BY TopRefers, Resolved, ValueRead DEF IInv, Linked, Refers

LEMMA ErrorEvaluates ==
  ASSUME IInv, ThrowsError
  PROVE  Evaluates /\ Fixed
BY AnswerEvaluates DEF ThrowsError

LEMMA ReadEvaluates ==
  ASSUME IInv, NEW n \in Name, Read(n) \/ TypeOf(n)
  PROVE  Evaluates /\ Fixed
<1>1. CASE Resolve(Top.env, n) = 0 /\ Read(n)
  BY <1>1, ErrorEvaluates DEF Read
<1>2. CASE ~ (Resolve(Top.env, n) = 0 /\ Read(n))
  <2>1. answer' \in Values /\ UNCHANGED <<envs, props, stack>>
    BY <1>2, NameResolved DEF Read, TypeOf, Values
  <2> QED
    BY <2>1, AnswerEvaluates
<1> QED
  BY <1>1, <1>2

LEMMA AssignEvaluates ==
  ASSUME IInv, NEW n \in Name, NEW v \in Data, Assign(n, v)
  PROVE  Evaluates /\ Fixed
<1> DEFINE r == Resolve(Top.env, n)
<1>1. v \in Values /\ n \in Identifier
  BY DEF Values, Identifier
<1>2. Assigns /\ Fixed
  <2>1. CASE r = 0
    <3>1. PutProperty(Global, n, v) /\ UNCHANGED envs
      BY <2>1 DEF Assign
    <3>2. props' \in [Object -> Bindings]
      BY <3>1, <1>1, GlobalAssumption, PropertyPut DEF IInv, TypeOK
    <3> QED
      BY <3>1, <3>2, PropertyAssigned DEF IInv
  <2>2. CASE r # 0
    BY <2>2, <1>1, NameResolved, ValuePut DEF Assign, IInv
  <2> QED
    BY <2>1, <2>2
<1>3. answer' \in Values /\ UNCHANGED stack
  BY <1>1 DEF Assign
<1> QED
  BY <1>2, <1>3, AssignsEvaluates

LEMMA UpdateEvaluates ==
  ASSUME IInv, NEW n \in Name, NEW v \in Data, UpdateName(n, v)
  PROVE  Evaluates /\ Fixed
<1>1. CASE Resolve(Top.env, n) = 0
  BY <1>1, ErrorEvaluates DEF UpdateName
<1>2. CASE Resolve(Top.env, n) # 0
  <2>1. v \in Values /\ n \in Identifier
    BY DEF Values, Identifier
  <2>2. Assigns /\ Fixed
    BY <1>2, <2>1, NameResolved, ValuePut DEF UpdateName, IInv
  <2>3. answer' \in Values /\ UNCHANGED stack
    BY <1>2, <2>1 DEF UpdateName
  <2> QED
    BY <2>2, <2>3, AssignsEvaluates
<1> QED
  BY <1>1, <1>2

LEMMA DeleteEvaluates ==
  ASSUME IInv, NEW n \in Name, DeleteIdentifier(n)
  PROVE  Evaluates /\ Fixed
<1>1. answer' \in Values /\ UNCHANGED <<envs, stack>>
  BY DEF DeleteIdentifier, Values
<1>2. props \in [Object -> Bindings]
  BY DEF IInv, TypeOK
<1>3. props' \in [Object -> Bindings]
  <2>1. CASE envs[Top.env].kind = "object"
    <3>1. envs[Top.env].object \in Object
      BY <2>1, TopRefers, Kinds DEF Refers, IInv
    <3>2. props' = [props EXCEPT ![envs[Top.env].object] = [m \in DOMAIN @ \ {n} |-> @[m]]]
      BY <2>1 DEF DeleteIdentifier
    <3> QED
      BY <3>1, <3>2, <1>2, PropertyRemoved
  <2>2. CASE envs[Top.env].kind # "object"
    BY <2>2, <1>2 DEF DeleteIdentifier
  <2> QED
    BY <2>1, <2>2
<1> QED
  BY <1>1, <1>3, PropertyAssigned, AssignsEvaluates DEF IInv

LEMMA MemberEvaluates ==
  ASSUME IInv, NEW o \in Object, NEW n \in Name, NEW v \in Data,
         MemberPut(o, n, v) \/ MemberDelete(o, n)
  PROVE  Evaluates /\ Fixed
<1>1. answer' \in Values /\ UNCHANGED <<envs, stack>>
  BY DEF MemberPut, MemberDelete, Values
<1>2. props \in [Object -> Bindings] /\ v \in Values /\ n \in Identifier
  BY DEF IInv, TypeOK, Values, Identifier
<1>3. props' \in [Object -> Bindings]
  <2>1. CASE MemberPut(o, n, v)
    BY <2>1, <1>2, PropertyPut DEF MemberPut
  <2>2. CASE MemberDelete(o, n)
    BY <2>2, <1>2, PropertyRemoved DEF MemberDelete
  <2> QED
    BY <2>1, <2>2
<1> QED
  BY <1>1, <1>3, PropertyAssigned, AssignsEvaluates DEF IInv

LEMMA CalleeEvaluates ==
  ASSUME IInv, NEW n \in Name, Callee(n)
  PROVE  Evaluates /\ Fixed
<1>1. UNCHANGED <<envs, props, stack>> /\ (answer' = answer \/ answer' \in {Nil, Crashed})
  BY DEF Callee, ThrowsError, vars
<1>2. answer' \in Values \cup {Nil, Crashed}
  BY <1>1 DEF IInv, TypeOK
<1> QED
  BY <1>1, <1>2, AnswerEvaluates

\* The top activation does something to its pending operations.
LEMMA TopEvaluates ==
  ASSUME IInv, Assigns, answer' \in Values \cup {Nil, Crashed},
         NEW f \in ActivationType, stack' = WithTop(f),
         f.env = Top.env, f.saved = Top.saved,
         \A j \in DOMAIN f.pending : f.pending[j].env \in DOMAIN envs
  PROVE  Evaluates
<1>1. /\ stack' \in Seq(ActivationType) /\ DOMAIN stack' = DOMAIN stack
      /\ stack'[Len(stack)] = f
      /\ \A i \in DOMAIN stack : i # Len(stack) => stack'[i] = stack[i]
  BY TopChanged DEF IInv, Linked
<1>2. TypeOK'
  BY <1>1 DEF Assigns, TypeOK
<1>3. \A i \in DOMAIN stack :
        /\ stack'[i].env = stack[i].env
        /\ stack'[i].saved = stack[i].saved
        /\ \A j \in DOMAIN stack'[i].pending : stack'[i].pending[j].env \in DOMAIN envs
  BY <1>1 DEF Top, IInv, Linked, Refers
<1> QED
  BY <1>1, <1>2, <1>3 DEF Evaluates, Assigns

LEMMA WaitsEvaluates ==
  ASSUME IInv, NEW kind \in {"compound", "var"}, NEW n \in Name, NEW e \in DOMAIN envs,
         Waits(kind, n, e)
  PROVE  Evaluates /\ Fixed
<1> DEFINE r == [kind |-> kind, name |-> n, env |-> e]
           f == [Top EXCEPT !.pending = Append(@, r)]
<1>1. Top \in ActivationType /\ Refers(Top) /\ e \in Nat \ {0}
  BY TopRefers, Kinds DEF IInv
<1>2. r \in PendingType /\ r.env = e
  BY <1>1 DEF PendingType
<1>3. Top.pending \in Seq(PendingType)
  BY <1>1 DEF ActivationType, PendingType
<1>4. stack' = WithTop(f) /\ UNCHANGED <<envs, props, answer>>
  BY DEF Waits
<1> HIDE DEF r
<1>5. /\ Append(Top.pending, r) \in Seq(PendingType)
      /\ \A j \in DOMAIN Append(Top.pending, r) : Append(Top.pending, r)[j].env \in DOMAIN envs
  BY <1>1, <1>2, <1>3, AppendProperties DEF Refers
<1>6. /\ f \in ActivationType
      /\ f.env = Top.env /\ f.saved = Top.saved /\ f.pending = Append(Top.pending, r)
  BY <1>1, <1>5 DEF ActivationType, PendingType
<1> HIDE DEF f
<1>7. Assigns /\ Fixed /\ answer' \in Values \cup {Nil, Crashed}
  BY <1>4, PropertyAssigned DEF IInv, TypeOK
<1> QED
  BY <1>4, <1>5, <1>6, <1>7, TopEvaluates

LEMMA CompoundEvaluates ==
  ASSUME IInv, NEW n \in Name, CompoundStart(n)
  PROVE  Evaluates /\ Fixed
<1>1. CASE Resolve(Top.env, n) = 0
  BY <1>1, ErrorEvaluates DEF CompoundStart
<1>2. CASE Resolve(Top.env, n) # 0
  BY <1>2, NameResolved, WaitsEvaluates DEF CompoundStart
<1> QED
  BY <1>1, <1>2

LEMMA VarEvaluates ==
  ASSUME IInv, NEW n \in Name, VarStart(n)
  PROVE  Evaluates /\ Fixed
BY TopRefers, WaitsEvaluates DEF VarStart, Refers

LEMMA LastPendingType ==
  ASSUME IInv, Top.pending # <<>>
  PROVE  /\ LastPending \in PendingType
         /\ LastPending.env \in DOMAIN envs
         /\ PendingDone \in ActivationType
         /\ PendingDone.env = Top.env /\ PendingDone.saved = Top.saved
         /\ DOMAIN PendingDone.pending \subseteq DOMAIN Top.pending
         /\ \A j \in DOMAIN PendingDone.pending : PendingDone.pending[j] = Top.pending[j]
<1> DEFINE s == Top.pending
<1>1. Top \in ActivationType /\ Refers(Top) /\ s \in Seq(PendingType)
  BY TopRefers DEF ActivationType, PendingType
<1>2. Len(s) \in Nat \ {0} /\ DOMAIN s = 1 .. Len(s)
  BY <1>1
<1>3. LastPending \in PendingType /\ LastPending.env \in DOMAIN envs
  BY <1>1, <1>2 DEF LastPending, Refers
<1> DEFINE t == SubSeq(s, 1, Len(s) - 1)
<1>4. t \in Seq(PendingType) /\ DOMAIN t = 1 .. Len(s) - 1 /\ \A j \in DOMAIN t : t[j] = s[j]
  BY <1>1, <1>2
<1> HIDE DEF t
<1>5. PendingDone = [Top EXCEPT !.pending = t]
  BY DEF PendingDone, t
<1>6. /\ PendingDone \in ActivationType /\ PendingDone.pending = t
      /\ PendingDone.env = Top.env /\ PendingDone.saved = Top.saved
  BY <1>1, <1>4, <1>5 DEF ActivationType, PendingType
<1> QED
  BY <1>2, <1>3, <1>4, <1>6

LEMMA PendingEvaluates ==
  ASSUME IInv, NEW v \in Data, PendingEnds(v)
  PROVE  Evaluates /\ Fixed
<1>1. v \in Values /\ answer' = v /\ stack' = WithTop(PendingDone)
  BY DEF Values, PendingEnds
<1>2. LastPending.env \in DOMAIN envs /\ LastPending.name \in Identifier
  BY LastPendingType DEF PendingEnds, PendingType, Identifier
<1>3. Assigns /\ Fixed
  BY <1>1, <1>2, ValuePut DEF PendingEnds, IInv
<1>4. \A j \in DOMAIN PendingDone.pending : PendingDone.pending[j].env \in DOMAIN envs
  BY LastPendingType, TopRefers DEF PendingEnds, Refers
<1> QED
  BY <1>1, <1>3, <1>4, LastPendingType, TopEvaluates DEF PendingEnds

\* catch makes a variable, and only then.
LEMMA CatchEvaluates ==
  ASSUME IInv, NEW n \in Name, NEW v \in Data, CatchClause(n, v)
  PROVE  Evaluates /\ ("catch" \notin Uses => Fixed)
<1> DEFINE e == Top.env
           f == [Top EXCEPT !.pending = <<>>]
<1>1. Top \in ActivationType /\ e \in DOMAIN envs
  BY TopRefers DEF Refers
<1>2. v \in Values /\ n \in Identifier /\ answer' \in Values /\ stack' = WithTop(f)
  BY DEF Values, Identifier, CatchClause
<1>3. /\ f \in ActivationType
      /\ f.env = Top.env /\ f.saved = Top.saved /\ f.pending = <<>>
  <2>1. <<>> \in Seq(PendingType)
    OBVIOUS
  <2> QED
    BY <1>1, <2>1 DEF ActivationType, PendingType
<1> HIDE DEF f
<1>4. Assigns /\ ("catch" \notin Uses => Fixed)
  <2>1. CASE envs[e].kind = "object"
    <3>1. envs[e].object \in Object
      BY <1>1, <2>1, Kinds DEF IInv
    <3>2. PutProperty(envs[e].object, n, v) /\ UNCHANGED envs
      BY <2>1 DEF CatchClause
    <3>3. props' \in [Object -> Bindings]
      BY <3>1, <3>2, <1>2, PropertyPut DEF IInv, TypeOK
    <3> QED
      BY <3>2, <3>3, PropertyAssigned DEF IInv
  <2>2. CASE envs[e].kind # "object"
    <3> DEFINE b == envs[e].bindings
               c == CreateBindings(b, {n}, v)
    <3>1. IsDeclarative(e) /\ b \in Bindings
      BY <1>1, <2>2, Kinds DEF IInv, IsDeclarative
    <3>2. c \in Bindings /\ DOMAIN c = DOMAIN b \cup {n}
      BY <3>1, <1>2, Created
    <3>3. envs' = [envs EXCEPT ![e].bindings = c] /\ UNCHANGED props
      BY <2>2, Zenon DEF CatchClause
    <3>4. "catch" \notin Uses => n \in DOMAIN b
      BY <2>2 DEF CatchClause, Bound
    <3> HIDE DEF c
    <3> QED
      BY <1>1, <3>1, <3>2, <3>3, <3>4, BindingsWritten DEF IInv, Assigns, TypeOK
  <2> QED
    BY <2>1, <2>2
<1> QED
  BY <1>2, <1>3, <1>4, TopEvaluates

-----------------------------------------------------------------------------
(* Calls and statements.                                                   *)

LEMMA NewActivation ==
  ASSUME NEW e \in Nat \ {0}
  PROVE  /\ Activation(e) \in ActivationType
         /\ Activation(e).env = e
         /\ Activation(e).saved = <<>> /\ Activation(e).pending = <<>>
         /\ Base(Activation(e)) = e
<1>1. <<>> \in Seq(Nat \ {0}) /\ <<>> \in Seq(PendingType)
  OBVIOUS
<1> QED
  BY <1>1 DEF Activation, ActivationType, PendingType, Base

LEMMA NewDeclarative ==
  ASSUME NEW o \in Seq(Nat \ {0}), NEW b \in Bindings
  PROVE  /\ Declarative(o, b) \in EnvironmentType
         /\ Declarative(o, b).kind = "declarative" /\ Declarative(o, b).outer = o
BY Zenon DEF Declarative, EnvironmentType

LEMMA NewObject ==
  ASSUME NEW o \in Seq(Nat \ {0}), NEW x \in Object
  PROVE  /\ ObjectEnv(o, x) \in EnvironmentType
         /\ ObjectEnv(o, x).kind = "object" /\ ObjectEnv(o, x).outer = o
BY Zenon DEF ObjectEnv, EnvironmentType

\* Hoisting gives bindings.
LEMMA Hoisted ==
  ASSUME NEW passed \in SUBSET Name, NEW args \in [passed -> Data \cup {Undefined}],
         NEW functions \in SUBSET Name, NEW variables \in SUBSET Name
  PROVE  InitVariableBindings(
           InitFunctionBindings(CreateBindings(args, {Arguments}, Undefined), functions),
           variables) \in Bindings
<1>1. args \in Bindings
  <2>1. DOMAIN args = passed /\ passed \subseteq Identifier
    BY DEF Identifier
  <2>2. args \in [DOMAIN args -> Values]
    BY <2>1 DEF Values
  <2> QED
    BY <2>1, <2>2, Partial
<1>2. /\ {Arguments} \subseteq Identifier /\ functions \subseteq Identifier
      /\ variables \subseteq Identifier
      /\ Undefined \in Values /\ Function \in Values
  BY DEF Identifier, Values
<1> QED
  BY <1>1, <1>2, Created, Zenon DEF InitFunctionBindings, InitVariableBindings

\* One activation, n, begins or moves to another environment.
LEMMA MoveKeeps ==
  ASSUME IInv, TypeOK', OlderOutside', Keeps, NEW n \in DOMAIN stack',
         \A i \in DOMAIN stack' : i # n => i \in DOMAIN stack /\ stack'[i] = stack[i],
         Refers(stack[n])', WithsNest(stack[n])', BeginsIn(n)'
  PROVE  IInv'
<1>1. \A i \in DOMAIN stack' : Refers(stack[i])'
  BY RefersKept DEF IInv
<1>2. \A i \in DOMAIN stack' : WithsNest(stack[i])' /\ BeginsIn(i)'
  BY FrameKept
<1>3. stack' # <<>>
  OBVIOUS
<1> QED
  BY <1>1, <1>2, <1>3 DEF IInv, Linked, ScopesNest

LEMMA CallKeeps ==
  ASSUME IInv, NEW scope \in DOMAIN envs,
         NEW passed \in SUBSET Name, NEW functions \in SUBSET Name,
         NEW variables \in SUBSET Name, NEW args \in [passed -> Data \cup {Undefined}],
         CallFunction(scope, args, functions, variables)
  PROVE  IInv' /\ Keeps /\ Fixed
<1> DEFINE b == InitVariableBindings(
                  InitFunctionBindings(CreateBindings(args, {Arguments}, Undefined), functions),
                  variables)
           x == Declarative(Chain(scope), b)
<1>1. /\ TypeOK /\ OlderOutside /\ Len(envs) \in Nat /\ Len(stack) \in Nat \ {0}
      /\ DOMAIN stack = 1 .. Len(stack)
  BY TopType DEF IInv, Linked, TypeOK
<1>2. PICK new \in Nat \ {0} : new = Len(envs) + 1
  BY <1>1
<1>3. PICK n \in Nat \ {0} : n = Len(stack) + 1
  BY <1>1
<1>4. /\ envs' = Append(envs, x) /\ stack' = Append(stack, Activation(new))
      /\ answer' = Undefined /\ UNCHANGED props
  BY <1>2 DEF CallFunction
<1>5. x \in EnvironmentType /\ x.kind = "declarative" /\ x.outer = Chain(scope)
  <2> HIDE DEF b
  <2> QED
    BY <1>1, Hoisted, Kinds, NewDeclarative DEF b
<1> HIDE DEF x
<1>6. /\ envs' \in Seq(EnvironmentType) /\ new \in DOMAIN envs' /\ envs'[new] = x
      /\ Keeps /\ Fixed /\ OlderOutside'
  BY <1>1, <1>2, <1>4, <1>5, Made
<1>7. /\ stack' \in Seq(ActivationType) /\ DOMAIN stack' = 1 .. n
      /\ stack'[n] = Activation(new)
      /\ \A i \in 1 .. n - 1 : stack'[i] = stack[i]
  BY <1>1, <1>3, <1>4, NewActivation, AppendProperties DEF TypeOK
<1>8. TypeOK'
  BY <1>1, <1>4, <1>6, <1>7 DEF TypeOK, Values
<1>9. Refers(stack[n])' /\ WithsNest(stack[n])'
  BY <1>6, <1>7, NewActivation DEF Refers, WithsNest
<1>10. BeginsIn(n)'
  BY <1>1, <1>3, <1>5, <1>6, <1>7, NewActivation DEF BeginsIn, IsDeclarative
<1> QED
  BY <1>1, <1>3, <1>6, <1>7, <1>8, <1>9, <1>10, MoveKeeps

LEMMA ReturnKeeps ==
  ASSUME IInv, FunctionEnds
  PROVE  IInv' /\ Keeps /\ Fixed
<1>1. /\ TypeOK /\ OlderOutside /\ Len(stack) \in Nat \ {0, 1}
      /\ DOMAIN stack = 1 .. Len(stack)
  BY TopType DEF IInv, Linked, TypeOK, FunctionEnds
<1>2. PICK n \in Nat \ {0} : Len(stack) = n + 1
  <2>1. Len(stack) - 1 \in Nat \ {0} /\ Len(stack) = (Len(stack) - 1) + 1
    BY <1>1
  <2> QED
    BY <2>1
<1>3. UNCHANGED <<envs, props>> /\ stack' = SubSeq(stack, 1, n)
      /\ answer' \in Values \cup {Nil, Crashed}
  BY <1>2 DEF FunctionEnds, Popped, IInv, TypeOK
<1>4. /\ stack' \in Seq(ActivationType) /\ DOMAIN stack' = 1 .. n
      /\ \A i \in 1 .. n : i \in DOMAIN stack /\ stack'[i] = stack[i]
  BY <1>1, <1>2, <1>3 DEF TypeOK
<1>5. Keeps /\ Fixed
  BY <1>3, Untouched
<1>6. TypeOK' /\ OlderOutside'
  BY <1>1, <1>3, <1>4 DEF TypeOK, OlderOutside
<1>7. 1 \in DOMAIN stack' /\ 1 \in DOMAIN stack
  BY <1>1, <1>4
<1>8. Refers(stack[1])' /\ WithsNest(stack[1])' /\ BeginsIn(1)'
  BY <1>4, <1>5, <1>7, RefersKept, FrameKept DEF IInv
<1> QED
  BY <1>4, <1>5, <1>6, <1>7, <1>8, MoveKeeps

LEMMA ProgramKeeps ==
  ASSUME IInv, NEW functions \in SUBSET Name, NEW variables \in SUBSET Name,
         NextProgram(functions, variables)
  PROVE  IInv' /\ Keeps /\ Fixed
<1> DEFINE x == ObjectEnv(<<>>, Global)
           b == [n \in DOMAIN props[Global] \cup functions \cup variables |->
                   IF n \in variables THEN Undefined
                   ELSE IF n \in functions THEN Function ELSE props[Global][n]]
<1>1. TypeOK /\ OlderOutside /\ Len(envs) \in Nat
  BY DEF IInv, Linked, TypeOK
<1>2. PICK new \in Nat \ {0} : new = Len(envs) + 1
  BY <1>1
<1>3. /\ envs' = Append(envs, x) /\ props' = [props EXCEPT ![Global] = b]
      /\ stack' = <<Activation(new)>> /\ answer' = Undefined
  BY <1>2 DEF NextProgram
<1>4. x \in EnvironmentType /\ x.kind = "object" /\ x.outer = <<>>
  BY GlobalAssumption, NewObject, <<>> \in Seq(Nat \ {0})
<1>5. b \in Bindings
  <2>1. props[Global] \in Bindings
    BY <1>1, GlobalAssumption DEF TypeOK
  <2>2. /\ functions \subseteq Identifier /\ variables \subseteq Identifier
        /\ Undefined \in Values /\ Function \in Values
    BY DEF Identifier, Values
  <2> QED
    BY <2>1, <2>2, Partial DEF Bindings
<1> HIDE DEF x, b
<1>6. /\ envs' \in Seq(EnvironmentType) /\ new \in DOMAIN envs' /\ envs'[new] = x
      /\ Keeps /\ Fixed /\ OlderOutside'
  BY <1>1, <1>2, <1>3, <1>4, Made
<1>7. /\ stack' \in Seq(ActivationType) /\ DOMAIN stack' = {1}
      /\ stack'[1] = Activation(new)
  BY <1>3, NewActivation
<1>8. TypeOK'
  BY <1>1, <1>3, <1>5, <1>6, <1>7 DEF TypeOK, Values
<1>9. Refers(stack[1])' /\ WithsNest(stack[1])' /\ BeginsIn(1)'
  BY <1>4, <1>6, <1>7, NewActivation DEF Refers, WithsNest, BeginsIn, IsDeclarative
<1> QED
  BY <1>6, <1>7, <1>8, <1>9, MoveKeeps

LEMMA WithKeeps ==
  ASSUME IInv, NEW o \in Object, WithEnters(o)
  PROVE  IInv' /\ Keeps /\ Fixed
<1> DEFINE x == ObjectEnv(Chain(Top.env), o)
<1>1. /\ TypeOK /\ OlderOutside /\ stack # <<>> /\ Len(envs) \in Nat
      /\ Top \in ActivationType /\ Refers(Top) /\ WithsNest(Top)
  BY TopRefers DEF IInv, Linked, TypeOK, ScopesNest, Top
<1>2. PICK new \in Nat \ {0} : new = Len(envs) + 1
  BY <1>1
<1>3. PICK n \in DOMAIN stack : n = Len(stack)
  BY TopRefers
<1>4. PICK e \in DOMAIN envs : e = Top.env
  BY <1>1 DEF Refers
<1>5. PICK s \in Seq(Nat \ {0}) : s = Top.saved
  BY <1>1 DEF ActivationType
<1> DEFINE f == [Top EXCEPT !.env = new, !.saved = Append(@, Top.env)]
<1>6. /\ envs' = Append(envs, x) /\ stack' = WithTop(f)
      /\ UNCHANGED <<props, answer>>
  BY <1>2 DEF WithEnters
<1>7. x \in EnvironmentType /\ x.kind = "object" /\ x.outer = Chain(e)
  BY <1>1, <1>4, Kinds, NewObject
<1> DEFINE t == Append(s, e)
<1>8. /\ e \in Nat \ {0} /\ t \in Seq(Nat \ {0}) /\ Len(t) = Len(s) + 1 /\ t[Len(s) + 1] = e
      /\ \A j \in 1 .. Len(s) : t[j] = s[j]
  BY <1>1, <1>4, <1>5, Kinds, AppendProperties
<1>9. f \in ActivationType /\ f.env = new /\ f.saved = t /\ f.pending = Top.pending
  BY <1>1, <1>4, <1>5, <1>8 DEF ActivationType
<1> HIDE DEF x, f
<1>10. /\ envs' \in Seq(EnvironmentType) /\ new \in DOMAIN envs' /\ envs'[new] = x
       /\ Keeps /\ Fixed /\ OlderOutside'
  BY <1>1, <1>2, <1>6, <1>7, Made
<1>11. /\ stack' \in Seq(ActivationType) /\ DOMAIN stack' = DOMAIN stack /\ stack'[n] = f
       /\ \A i \in DOMAIN stack : i # n => stack'[i] = stack[i]
  BY <1>1, <1>3, <1>6, <1>9, TopChanged
<1>12. TypeOK'
  BY <1>1, <1>6, <1>10, <1>11 DEF TypeOK
<1> DEFINE inner == Append(s, e)
           more == Append(t, new)
<1>13. /\ \A j \in 1 .. Len(s) + 1 : t[j] \in DOMAIN envs
       /\ \A j \in 1 .. Len(s) + 1 : more[j] = t[j]
       /\ more[Len(s) + 2] = new
       /\ DOMAIN t = 1 .. Len(s) + 1
  BY <1>1, <1>4, <1>5, <1>8, AppendProperties DEF Refers
<1>14. Refers(stack[n])'
  <2>1. DOMAIN envs \subseteq DOMAIN envs'
    BY <1>10 DEF Keeps
  <2>2. \A j \in DOMAIN t : t[j] \in DOMAIN envs'
    BY <2>1, <1>13
  <2>3. \A j \in DOMAIN Top.pending : Top.pending[j].env \in DOMAIN envs'
    BY <2>1, <1>1 DEF Refers
  <2> HIDE DEF t
  <2> QED
    BY <2>2, <2>3, <1>9, <1>10, <1>11 DEF Refers
<1>15. WithsNest(stack[n])'
  <2> SUFFICES ASSUME NEW j \in 1 .. Len(s) + 1
               PROVE  /\ envs'[more[j + 1]].kind # "declarative"
                      /\ envs'[more[j + 1]].outer = Append(envs'[more[j]].outer, more[j])
    <3> HIDE DEF t
    <3> QED
      BY <1>9, <1>11, <1>13 DEF WithsNest, IsDeclarative, Chain
  <2>1. CASE j = Len(s) + 1
    <3>1. Chain(e)' = Chain(e) /\ more[j] = e /\ more[j + 1] = new
      BY <2>1, <1>8, <1>10, <1>13, ChainKept
    <3> QED
      BY <3>1, <1>7, <1>10 DEF Chain
  <2>2. CASE j # Len(s) + 1
    <3>1. j \in DOMAIN s /\ j + 1 \in 1 .. Len(s) + 1
      BY <2>2, <1>8
    <3>2. /\ envs[t[j + 1]].kind # "declarative"
          /\ envs[t[j + 1]].outer = Append(envs[t[j]].outer, t[j])
      BY <3>1, <1>1, <1>4, <1>5 DEF WithsNest, IsDeclarative, Chain
    <3> QED
      BY <3>1, <3>2, <1>10, <1>13 DEF Keeps
  <2> QED
    BY <2>1, <2>2
<1>16. BeginsIn(n)'
  <2>1. Base(f) = Base(Top) /\ Base(Top) \in DOMAIN envs
    BY <1>1, <1>4, <1>5, <1>8, <1>9, <1>13 DEF Base, Refers
  <2>2. BeginsIn(n) /\ Top = stack[n]
    BY <1>3 DEF IInv, ScopesNest, Top
  <2> QED
    BY <2>1, <2>2, <1>10, <1>11 DEF BeginsIn, IsDeclarative, Keeps
<1> QED
  BY <1>10, <1>11, <1>12, <1>14, <1>15, <1>16, MoveKeeps

LEMMA WithEndsKeeps ==
  ASSUME IInv, WithEnds
  PROVE  IInv' /\ Keeps /\ Fixed
<1>1. /\ TypeOK /\ OlderOutside /\ stack # <<>>
      /\ Top \in ActivationType /\ Refers(Top) /\ WithsNest(Top)
  BY TopRefers DEF IInv, Linked, TypeOK, ScopesNest, Top
<1>2. PICK n \in DOMAIN stack : n = Len(stack)
  BY TopRefers
<1>3. PICK s \in Seq(Nat \ {0}) : s = Top.saved
  BY <1>1 DEF ActivationType
<1>4. Len(s) \in Nat \ {0} /\ DOMAIN s = 1 .. Len(s)
  BY <1>3 DEF WithEnds
<1>5. PICK e \in DOMAIN envs : e = s[Len(s)]
  BY <1>1, <1>3, <1>4 DEF Refers
<1> DEFINE t == SubSeq(s, 1, Len(s) - 1)
           f == [Top EXCEPT !.env = Top.saved[Len(Top.saved)],
                   !.saved = SubSeq(@, 1, Len(@) - 1), !.pending = <<>>]
<1>6. stack' = WithTop(f) /\ UNCHANGED <<envs, props, answer>>
  BY DEF WithEnds
<1>7. /\ t \in Seq(Nat \ {0}) /\ Len(t) = Len(s) - 1 /\ e \in Nat \ {0}
      /\ \A j \in 1 .. Len(s) - 1 : t[j] = s[j]
      /\ DOMAIN t = 1 .. Len(s) - 1
      /\ \A j \in DOMAIN s : s[j] \in DOMAIN envs
  BY <1>1, <1>3, <1>4, <1>5, Kinds DEF Refers
<1>8. /\ f \in ActivationType /\ f.env = e /\ f.saved = t /\ f.pending = <<>>
  <2>1. <<>> \in Seq(PendingType)
    OBVIOUS
  <2> QED
    BY <2>1, <1>1, <1>3, <1>5, <1>7 DEF ActivationType, PendingType
<1> HIDE DEF f, t
<1>9. Keeps /\ Fixed /\ OlderOutside'
  BY <1>1, <1>6, Untouched DEF OlderOutside
<1>10. /\ stack' \in Seq(ActivationType) /\ DOMAIN stack' = DOMAIN stack /\ stack'[n] = f
       /\ \A i \in DOMAIN stack : i # n => stack'[i] = stack[i]
  BY <1>1, <1>2, <1>6, <1>8, TopChanged
<1>11. TypeOK'
  BY <1>1, <1>6, <1>10 DEF TypeOK
<1>12. Refers(stack[n])'
  <2>1. \A j \in DOMAIN t : t[j] \in DOMAIN envs
    BY <1>4, <1>7
  <2> QED
    BY <2>1, <1>6, <1>8, <1>10 DEF Refers
<1> DEFINE inner == Append(t, e)
<1>13. \A j \in 1 .. Len(s) : inner[j] = s[j] /\ Append(s, Top.env)[j] = s[j]
  <2>1. Top.env \in Nat \ {0}
    BY <1>1 DEF ActivationType
  <2>2. \A j \in 1 .. Len(s) : Append(s, Top.env)[j] = s[j]
    BY <2>1, AppendProperties
  <2>3. inner[Len(s)] = e /\ \A j \in 1 .. Len(s) - 1 : inner[j] = t[j]
    BY <1>4, <1>7, AppendProperties
  <2> HIDE DEF inner
  <2> QED
    BY <2>2, <2>3, <1>4, <1>5, <1>7
<1>14. WithsNest(stack[n])'
  <2> SUFFICES ASSUME NEW j \in 1 .. Len(s) - 1
               PROVE  /\ envs[inner[j + 1]].kind # "declarative"
                      /\ envs[inner[j + 1]].outer = Append(envs[inner[j]].outer, inner[j])
    BY <1>6, <1>7, <1>8, <1>10 DEF WithsNest, IsDeclarative, Chain, inner
  <2>1. j \in 1 .. Len(s) /\ j + 1 \in 1 .. Len(s)
    BY <1>4
  <2>2. /\ envs[Append(s, Top.env)[j + 1]].kind # "declarative"
        /\ envs[Append(s, Top.env)[j + 1]].outer =
             Append(envs[Append(s, Top.env)[j]].outer, Append(s, Top.env)[j])
    BY <2>1, <1>1, <1>3, <1>4 DEF WithsNest, IsDeclarative, Chain
  <2> QED
    BY <2>1, <2>2, <1>13
<1>15. BeginsIn(n)'
  <2>1. Base(f) = Base(Top)
    BY <1>3, <1>4, <1>5, <1>7, <1>8 DEF Base
  <2>2. BeginsIn(n) /\ Top = stack[n]
    BY <1>2 DEF IInv, ScopesNest, Top
  <2> QED
    BY <2>1, <2>2, <1>6, <1>10 DEF BeginsIn, IsDeclarative
<1> QED
  BY <1>9, <1>10, <1>11, <1>12, <1>14, <1>15, MoveKeeps

-----------------------------------------------------------------------------
(* Types and scopes.                                                       *)

LEMMA InitHolds ==
  ASSUME Init
  PROVE  IInv
<1>1. <<>> \in Seq(Nat \ {0}) /\ 1 \in Nat \ {0}
  OBVIOUS
<1>2. /\ ObjectEnv(<<>>, Global) \in EnvironmentType
      /\ ObjectEnv(<<>>, Global).kind = "object" /\ ObjectEnv(<<>>, Global).outer = <<>>
  BY <1>1, GlobalAssumption, NewObject
<1>3. /\ envs \in Seq(EnvironmentType) /\ DOMAIN envs = {1}
      /\ envs[1].kind = "object" /\ envs[1].outer = <<>>
  BY <1>2 DEF Init
<1>4. /\ stack \in Seq(ActivationType) /\ DOMAIN stack = {1} /\ stack # <<>>
      /\ stack[1] = Activation(1)
  BY <1>1, NewActivation DEF Init
<1>5. props \in [Object -> Bindings] /\ answer \in Values
  BY Empty DEF Init, Values
<1>6. TypeOK
  BY <1>3, <1>4, <1>5 DEF TypeOK
<1>7. Linked
  BY <1>1, <1>3, <1>4, NewActivation DEF Linked, OlderOutside, Refers
<1>8. ScopesNest
  BY <1>1, <1>3, <1>4, NewActivation DEF ScopesNest, WithsNest, BeginsIn, IsDeclarative
<1> QED
  BY <1>6, <1>7, <1>8 DEF IInv

\* No step loses a scope or a variable, and without catch none makes one.
LEMMA StepKeeps ==
  ASSUME IInv, [Next]_vars
  PROVE  IInv' /\ Keeps /\ ("catch" \notin Uses => Fixed)
<1>1. ASSUME Evaluates PROVE IInv' /\ Keeps
  BY <1>1, EvaluatesKeeps DEF Evaluates
<1>2. ASSUME NEW n \in Name, Evaluate(n) PROVE Evaluates /\ Fixed
  <2>1. CASE Read(n) \/ TypeOf(n)
    BY <2>1, ReadEvaluates
  <2>2. CASE \E v \in Data : Assign(n, v)
    BY <2>2, AssignEvaluates
  <2>3. CASE \E v \in Data : UpdateName(n, v)
    BY <2>3, UpdateEvaluates
  <2>4. CASE CompoundStart(n)
    BY <2>4, CompoundEvaluates
  <2>5. CASE DeleteIdentifier(n)
    BY <2>5, DeleteEvaluates
  <2>6. CASE Callee(n)
    BY <2>6, CalleeEvaluates
  <2>7. CASE \E o \in Object, v \in Data : MemberPut(o, n, v)
    BY <2>7, MemberEvaluates
  <2>8. CASE \E o \in Object : MemberDelete(o, n)
    <3>1. PICK o \in Object : MemberDelete(o, n)
      BY <2>8
    <3>2. answer' \in Values /\ UNCHANGED <<envs, stack>>
      BY <3>1 DEF MemberDelete, Values
    <3>3. props' \in [Object -> Bindings]
      BY <3>1, PropertyRemoved DEF MemberDelete, IInv, TypeOK
    <3> QED
      BY <3>2, <3>3, PropertyAssigned, AssignsEvaluates DEF IInv
  <2> QED
    BY <1>2, <2>1, <2>2, <2>3, <2>4, <2>5, <2>6, <2>7, <2>8, Zenon DEF Evaluate
<1>3. CASE \E n \in Name : Evaluate(n)
  BY <1>1, <1>2, <1>3
<1>4. CASE \E n \in Name : VarStart(n)
  BY <1>1, <1>4, VarEvaluates
<1>5. CASE \E v \in Data : PendingEnds(v)
  BY <1>1, <1>5, PendingEvaluates
<1>6. CASE Call
  BY <1>6, CallKeeps DEF Call
<1>7. CASE FunctionEnds
  BY <1>7, ReturnKeeps
<1>8. CASE Throw
  BY <1>1, <1>8, ErrorEvaluates DEF Throw
<1>9. CASE \E o \in Object : WithEnters(o)
  BY <1>9, WithKeeps
<1>10. CASE WithEnds
  BY <1>10, WithEndsKeeps
<1>11. CASE \E n \in Name, v \in Data : CatchClause(n, v)
  BY <1>1, <1>11, CatchEvaluates
<1>12. CASE \E functions, variables \in SUBSET Name : NextProgram(functions, variables)
  BY <1>12, ProgramKeeps
<1>13. CASE UNCHANGED vars
  <2>1. UNCHANGED <<envs, props, stack>> /\ answer' = answer
    BY <1>13 DEF vars
  <2>2. Evaluates /\ Fixed
    BY <2>1, AnswerEvaluates DEF IInv, TypeOK
  <2> QED
    BY <1>1, <2>2
<1> QED
  BY <1>3, <1>4, <1>5, <1>6, <1>7, <1>8, <1>9, <1>10, <1>11, <1>12, <1>13, Zenon DEF Next

THEOREM Invariant == Spec => []IInv
<1>1. IInv /\ [Next]_vars => IInv'
  BY StepKeeps
<1> QED
  BY InitHolds, <1>1, PTL DEF Spec

(* The environments, the properties and the activations of context.hh and  *)
(* evalast.cc always are of their types, for any programs whatever.        *)
THEOREM TypeCorrect == Spec => []TypeOK
<1>1. IInv => TypeOK
  BY DEF IInv
<1> QED
  BY <1>1, Invariant, PTL

(* cur_env_ is always the environment the code was written in, whatever    *)
(* was called, thrown and caught (evalast.cc 226-229).                     *)
THEOREM ScopesAlwaysNest == Spec => []ScopesNest
<1>1. IInv => ScopesNest
  BY DEF IInv
<1> QED
  BY <1>1, Invariant, PTL

-----------------------------------------------------------------------------
(* Static scoping.                                                         *)

LEMMA VariableKept ==
  ASSUME IInv, Keeps, Fixed, NEW e \in DOMAIN envs, NEW n
  PROVE  Variable(e, n)' = Variable(e, n)
<1>1. PICK c : c = Chain(e)
  OBVIOUS
<1>2. Chain(e)' = c
  BY <1>1, ChainKept
<1>3. \A i \in DOMAIN c : c[i] \in DOMAIN envs
  BY <1>1, ChainExists DEF IInv, Linked
<1>4. \A i \in DOMAIN c :
        /\ IsDeclarative(c[i])' <=> IsDeclarative(c[i])
        /\ IsDeclarative(c[i]) => DOMAIN envs'[c[i]].bindings = DOMAIN envs[c[i]].bindings
  BY <1>3 DEF Keeps, Fixed, IsDeclarative
<1>5. {i \in DOMAIN c : IsDeclarative(c[i])' /\ n \in DOMAIN envs'[c[i]].bindings}
        = {i \in DOMAIN c : IsDeclarative(c[i]) /\ n \in DOMAIN envs[c[i]].bindings}
  BY <1>4
<1>6. Variable(e, n) =
        Innermost(c, {i \in DOMAIN c : IsDeclarative(c[i]) /\ n \in DOMAIN envs[c[i]].bindings})
  BY <1>1 DEF Variable
<1>7. Variable(e, n)' =
        Innermost(c, {i \in DOMAIN c : IsDeclarative(c[i])' /\ n \in DOMAIN envs'[c[i]].bindings})
  BY <1>2 DEF Variable, Innermost
<1> QED
  BY <1>5, <1>6, <1>7

(* Which variable a name means is settled when the function is entered,    *)
(* and no step of any program changes it, unless a catch clause makes a    *)
(* variable of the function (context.hh 166-180, evalast.cc 1068).         *)
THEOREM StaticScopingAlways ==
  ASSUME "catch" \notin Uses
  PROVE  Spec => StaticScoping
<1>1. IInv /\ [Next]_vars =>
        [envs' # envs => \A e \in DOMAIN envs, n \in Name :
                           Variable(e, n)' = Variable(e, n)]_vars
  BY StepKeeps, VariableKept
<1> QED
  BY <1>1, Invariant, PTL DEF Spec, StaticScoping

-----------------------------------------------------------------------------
(* References.                                                             *)

\* The operation r waiting in f can still put its value.
Holds(f, r) ==
  /\ \E k \in DOMAIN Chain(f.env) : Chain(f.env)[k] = r.env
  /\ IsDeclarative(r.env) => r.name \in DOMAIN envs[r.env].bindings

LEMMA HoldsKept ==
  ASSUME IInv, Keeps, NEW i \in DOMAIN stack, NEW j \in DOMAIN stack[i].pending,
         Holds(stack[i], stack[i].pending[j]),
         stack'[i].env = stack[i].env, stack'[i].pending[j] = stack[i].pending[j]
  PROVE  Holds(stack[i], stack[i].pending[j])'
<1>1. stack[i].env \in DOMAIN envs /\ stack[i].pending[j].env \in DOMAIN envs
  BY DEF IInv, Linked, Refers
<1>2. PICK e \in DOMAIN envs : e = stack[i].env
  BY <1>1
<1>3. Chain(e)' = Chain(e)
  BY ChainKept
<1>4. Chain(stack[i].env)' = Chain(stack[i].env)
  BY <1>2, <1>3 DEF Chain
<1> QED
  BY <1>1, <1>4 DEF Holds, IsDeclarative, Keeps

\* What every step but the first half of an operation does: in each
\* activation nothing waits, or what waited before.
NothingNew ==
  \A i \in DOMAIN stack' :
    \/ stack'[i].pending = <<>>
    \/ /\ i \in DOMAIN stack
       /\ stack'[i].env = stack[i].env
       /\ \A j \in DOMAIN stack'[i].pending :
            /\ j \in DOMAIN stack[i].pending
            /\ stack'[i].pending[j] = stack[i].pending[j]

LEMMA NothingNewHolds ==
  ASSUME IInv, Keeps, ReferencesHold, NothingNew
  PROVE  ReferencesHold'
<1> SUFFICES ASSUME NEW i \in DOMAIN stack', NEW j \in DOMAIN stack'[i].pending
             PROVE  Holds(stack[i], stack[i].pending[j])'
  BY Zenon DEF ReferencesHold, Holds
<1>1. /\ i \in DOMAIN stack /\ j \in DOMAIN stack[i].pending
      /\ stack'[i].env = stack[i].env /\ stack'[i].pending[j] = stack[i].pending[j]
  BY DEF NothingNew
<1>2. Holds(stack[i], stack[i].pending[j])
  BY <1>1 DEF ReferencesHold, Holds
<1> QED
  BY <1>1, <1>2, HoldsKept

\* An operation waits for a reference that holds.
LEMMA WaitsHolds ==
  ASSUME IInv, ReferencesHold,
         NEW kind \in {"compound", "var"}, NEW n \in Name, NEW e \in DOMAIN envs,
         Waits(kind, n, e), Holds(Top, [kind |-> kind, name |-> n, env |-> e])
  PROVE  ReferencesHold'
<1> DEFINE r == [kind |-> kind, name |-> n, env |-> e]
           f == [Top EXCEPT !.pending = Append(@, r)]
<1>1. Top \in ActivationType /\ e \in Nat \ {0}
  BY TopRefers, Kinds DEF IInv
<1>2. r \in PendingType /\ r.env = e /\ r.name = n
  BY <1>1 DEF PendingType
<1>3. Top.pending \in Seq(PendingType)
  BY <1>1 DEF ActivationType, PendingType
<1>4. stack' = WithTop(f) /\ UNCHANGED envs
  BY DEF Waits
<1>5. Holds(Top, r)
  OBVIOUS
<1> HIDE DEF r
<1>6. /\ Append(Top.pending, r) \in Seq(PendingType)
      /\ \A j \in DOMAIN Append(Top.pending, r) :
           \/ j \in DOMAIN Top.pending /\ Append(Top.pending, r)[j] = Top.pending[j]
           \/ Append(Top.pending, r)[j] = r
  BY <1>2, <1>3, AppendProperties
<1>7. /\ f \in ActivationType
      /\ f.env = Top.env /\ f.pending = Append(Top.pending, r)
  BY <1>1, <1>6 DEF ActivationType, PendingType
<1> HIDE DEF f
<1>8. /\ DOMAIN stack' = DOMAIN stack /\ stack'[Len(stack)] = f
      /\ \A i \in DOMAIN stack : i # Len(stack) => stack'[i] = stack[i]
  BY <1>4, <1>7, TopChanged DEF IInv, Linked
<1>9. \A i \in DOMAIN stack : \A j \in DOMAIN stack[i].pending :
        Holds(stack[i], stack[i].pending[j])
  BY DEF ReferencesHold, Holds
<1>10. ASSUME NEW i \in DOMAIN stack', NEW j \in DOMAIN stack'[i].pending
       PROVE  Holds(stack'[i], stack'[i].pending[j])
  <2>1. CASE i = Len(stack)
    <3>1. \/ /\ j \in DOMAIN Top.pending
             /\ stack'[i].pending[j] = Top.pending[j]
          \/ stack'[i].pending[j] = r
      BY <2>1, <1>6, <1>7, <1>8, <1>10
    <3>2. j \in DOMAIN Top.pending => Holds(Top, Top.pending[j])
      BY <2>1, <1>8, <1>9, <1>10 DEF Top
    <3>3. stack'[i].env = Top.env
      BY <2>1, <1>7, <1>8
    <3> QED
      BY <3>1, <3>2, <3>3, <1>5 DEF Holds
  <2>2. CASE i # Len(stack)
    BY <2>2, <1>8, <1>9, <1>10
  <2> QED
    BY <2>1, <2>2
<1>11. ASSUME NEW i \in DOMAIN stack', NEW j \in DOMAIN stack'[i].pending
       PROVE  Holds(stack[i], stack[i].pending[j])'
  BY <1>4, <1>10, <1>11 DEF Holds, IsDeclarative, Chain
<1> QED
  BY <1>11, Zenon DEF ReferencesHold, Holds

LEMMA Appended ==
  ASSUME NEW S, NEW s \in Seq(S), NEW x \in S
  PROVE  /\ Len(s) + 1 \in DOMAIN Append(s, x)
         /\ Append(s, x)[Len(s) + 1] = x
         /\ s # <<>> => Len(s) \in DOMAIN s /\ Len(s) \in Nat
BY AppendProperties

LEMMA CompoundHolds ==
  ASSUME IInv, ReferencesHold, NEW n \in Name, CompoundStart(n), Resolve(Top.env, n) # 0
  PROVE  ReferencesHold'
<1> DEFINE e == Resolve(Top.env, n)
           r == [kind |-> "compound", name |-> n, env |-> e]
<1>1. Waits("compound", n, e)
  BY DEF CompoundStart
<1>2. /\ e \in DOMAIN envs /\ Bound(e, n)
      /\ \E k \in DOMAIN Chain(Top.env) : Chain(Top.env)[k] = e
  BY TopRefers, Resolved DEF IInv, Linked, Refers
<1>3. IsDeclarative(e) => n \in DOMAIN envs[e].bindings
  BY <1>2 DEF Bound, IsDeclarative
<1> HIDE DEF e
<1>4. Holds(Top, r)
  BY <1>2, <1>3 DEF Holds
<1> QED
  BY <1>1, <1>2, <1>4, WaitsHolds

LEMMA VarHolds ==
  ASSUME IInv, ReferencesHold, "switchVar" \notin Uses, NEW n \in Name, VarStart(n)
  PROVE  ReferencesHold'
<1> DEFINE e == Top.env
           r == [kind |-> "var", name |-> n, env |-> e]
<1>1. Waits("var", n, e)
  BY DEF VarStart
<1>2. /\ e \in DOMAIN envs /\ e \in Nat \ {0}
      /\ Top \in ActivationType /\ Top.saved \in Seq(Nat \ {0})
      /\ WithsNest(Top)
  BY TopRefers, Kinds DEF IInv, Refers, ActivationType, ScopesNest, Top
<1>3. \E k \in DOMAIN Chain(e) : Chain(e)[k] = e
  <2>1. PICK o \in Seq(Nat \ {0}) : o = envs[e].outer
    BY <1>2, Kinds DEF IInv
  <2>2. Chain(e) = Append(o, e)
    BY <2>1 DEF Chain
  <2> HIDE DEF e
  <2>3. Len(o) + 1 \in DOMAIN Append(o, e) /\ Append(o, e)[Len(o) + 1] = e
    BY <1>2, Appended
  <2> QED
    BY <2>2, <2>3
<1>4. IsDeclarative(e) => n \in DOMAIN envs[e].bindings
  <2>1. CASE Top.saved = <<>>
    <3>1. envs[e].kind = "object" \/ Bound(e, n)
      BY <2>1 DEF VarStart, Base
    <3> QED
      BY <3>1 DEF Bound, IsDeclarative
  <2>2. CASE Top.saved # <<>>
    <3> DEFINE m == Len(Top.saved)
    <3>1. m \in DOMAIN Top.saved /\ m \in Nat
      BY <2>2, <1>2, Appended
    <3>2. Append(Top.saved, e)[m + 1] = e
      <4> HIDE DEF e
      <4> QED
        BY <1>2, Appended
    <3>3. ~ IsDeclarative(Append(Top.saved, e)[m + 1])
      BY <3>1, <1>2 DEF WithsNest
    <3> QED
      BY <3>2, <3>3
  <2> QED
    BY <2>1, <2>2
<1>5. Holds(Top, r)
  BY <1>3, <1>4 DEF Holds
<1> HIDE DEF e
<1> QED
  BY <1>1, <1>2, <1>5, WaitsHolds

\* Every other step leaves the operations that wait alone, or ends them.
LEMMA OthersHold ==
  ASSUME IInv, [Next]_vars,
         ~ \E n \in Name : CompoundStart(n) /\ Resolve(Top.env, n) # 0,
         ~ \E n \in Name : VarStart(n)
  PROVE  NothingNew
<1>1. ASSUME UNCHANGED stack PROVE NothingNew
  BY <1>1 DEF NothingNew
<1>2. ASSUME NEW f \in ActivationType, stack' = WithTop(f),
             \/ f.pending = <<>>
             \/ /\ f.env = Top.env
                /\ \A j \in DOMAIN f.pending :
                     j \in DOMAIN Top.pending /\ f.pending[j] = Top.pending[j]
      PROVE  NothingNew
  <2>1. /\ DOMAIN stack' = DOMAIN stack /\ stack'[Len(stack)] = f
        /\ \A i \in DOMAIN stack : i # Len(stack) => stack'[i] = stack[i]
    BY <1>2, TopChanged DEF IInv, Linked
  <2> QED
    BY <1>2, <2>1 DEF NothingNew, Top
<1>3. CASE \E n \in Name : Evaluate(n)
  BY <1>1, <1>3 DEF Evaluate, Read, TypeOf, Assign, UpdateName, CompoundStart,
       DeleteIdentifier, Callee, MemberPut, MemberDelete, ThrowsError, vars
<1>4. CASE \E v \in Data : PendingEnds(v)
  BY <1>2, <1>4, LastPendingType DEF PendingEnds
<1>5. CASE Call
  <2>1. PICK e : stack' = Append(stack, Activation(e)) /\ e = Len(envs) + 1
    BY <1>5 DEF Call, CallFunction
  <2>2. e \in Nat \ {0} /\ stack \in Seq(ActivationType)
    BY <2>1 DEF IInv, TypeOK
  <2>3. \A i \in DOMAIN stack' : \/ i \in DOMAIN stack /\ stack'[i] = stack[i]
                                \/ stack'[i] = Activation(e)
    BY <2>1, <2>2, NewActivation, AppendProperties
  <2> QED
    BY <2>2, <2>3, NewActivation DEF NothingNew
<1>6. CASE FunctionEnds
  <2>1. stack \in Seq(ActivationType) /\ Len(stack) \in Nat \ {0}
    BY TopType DEF IInv, Linked, TypeOK
  <2>2. stack' = SubSeq(stack, 1, Len(stack) - 1)
    BY <1>6 DEF FunctionEnds, Popped
  <2>3. \A i \in DOMAIN stack' : i \in DOMAIN stack /\ stack'[i] = stack[i]
    BY <2>1, <2>2
  <2> QED
    BY <2>3 DEF NothingNew
<1>7. CASE Throw
  BY <1>1, <1>7 DEF Throw, ThrowsError
<1>8. CASE \E o \in Object : WithEnters(o)
  <2> DEFINE f == [Top EXCEPT !.env = Len(envs) + 1, !.saved = Append(@, Top.env)]
  <2>1. stack' = WithTop(f) /\ Top.pending = <<>>
    BY <1>8 DEF WithEnters, AtStatement
  <2>2. /\ Top \in ActivationType /\ Len(envs) + 1 \in Nat \ {0}
    BY TopRefers DEF IInv, TypeOK
  <2>3. Append(Top.saved, Top.env) \in Seq(Nat \ {0})
    BY <2>2, AppendProperties DEF ActivationType
  <2>4. f \in ActivationType /\ f.pending = <<>>
    BY <2>1, <2>2, <2>3 DEF ActivationType
  <2> HIDE DEF f
  <2> QED
    BY <2>1, <2>4, <1>2
<1>9. CASE WithEnds \/ \E n \in Name, v \in Data : CatchClause(n, v)
  <2>1. Top \in ActivationType /\ <<>> \in Seq(PendingType)
    BY TopRefers
  <2>2. CASE WithEnds
    <3> DEFINE f == [Top EXCEPT !.env = Top.saved[Len(Top.saved)],
                       !.saved = SubSeq(@, 1, Len(@) - 1), !.pending = <<>>]
    <3>1. stack' = WithTop(f) /\ Top.saved # <<>>
      BY <2>2 DEF WithEnds
    <3>2. Top.saved[Len(Top.saved)] \in Nat \ {0}
      BY <2>1, <3>1, Appended DEF ActivationType
    <3>3. SubSeq(Top.saved, 1, Len(Top.saved) - 1) \in Seq(Nat \ {0})
      BY <2>1, <3>1 DEF ActivationType
    <3>4. f \in ActivationType /\ f.pending = <<>>
      BY <2>1, <3>2, <3>3 DEF ActivationType, PendingType
    <3> HIDE DEF f
    <3> QED
      BY <3>1, <3>4, <1>2
  <2>3. CASE \E n \in Name, v \in Data : CatchClause(n, v)
    <3> DEFINE f == [Top EXCEPT !.pending = <<>>]
    <3>1. stack' = WithTop(f)
      BY <2>3 DEF CatchClause
    <3>2. f \in ActivationType /\ f.pending = <<>>
      BY <2>1 DEF ActivationType, PendingType
    <3> HIDE DEF f
    <3> QED
      BY <3>1, <3>2, <1>2
  <2> QED
    BY <1>9, <2>2, <2>3
<1>10. CASE \E functions, variables \in SUBSET Name : NextProgram(functions, variables)
  <2>1. PICK e : stack' = <<Activation(e)>> /\ e = Len(envs) + 1
    BY <1>10 DEF NextProgram
  <2>2. e \in Nat \ {0}
    BY <2>1 DEF IInv, TypeOK
  <2> QED
    BY <2>1, <2>2, NewActivation DEF NothingNew
<1>11. CASE UNCHANGED vars
  BY <1>1, <1>11 DEF vars
<1> QED
  BY <1>3, <1>4, <1>5, <1>6, <1>7, <1>8, <1>9, <1>10, <1>11, Zenon DEF Next

LEMMA ReferencesStep ==
  ASSUME "switchVar" \notin Uses, IInv, ReferencesHold, [Next]_vars
  PROVE  ReferencesHold'
<1>1. CASE \E n \in Name : CompoundStart(n) /\ Resolve(Top.env, n) # 0
  BY <1>1, CompoundHolds
<1>2. CASE \E n \in Name : VarStart(n)
  BY <1>2, VarHolds
<1>3. CASE ~ ( \/ \E n \in Name : CompoundStart(n) /\ Resolve(Top.env, n) # 0
               \/ \E n \in Name : VarStart(n))
  BY <1>3, StepKeeps, OthersHold, NothingNewHolds
<1> QED
  BY <1>1, <1>2, <1>3

(* What a compound assignment or a var is going to write to is visible and *)
(* still there, whatever ran in between (evalast.cc 850, 1159), but for a  *)
(* var in a switch, which is not hoisted.                                  *)
THEOREM ReferencesAlwaysHold ==
  ASSUME "switchVar" \notin Uses
  PROVE  Spec => []ReferencesHold
<1>1. Init => ReferencesHold
  <2> SUFFICES ASSUME Init PROVE ReferencesHold
    OBVIOUS
  <2>1. stack[1].pending = <<>> /\ DOMAIN <<>> = {}
    BY NewActivation DEF Init
  <2>2. DOMAIN stack = {1}
    BY DEF Init
  <2> QED
    BY <2>1, <2>2 DEF ReferencesHold
<1>2. IInv /\ ReferencesHold /\ [Next]_vars => ReferencesHold'
  BY ReferencesStep
<1> QED
  BY <1>1, <1>2, Invariant, PTL DEF Spec

LEMMA PendingLands ==
  ASSUME IInv, ReferencesHold, NEW v \in Data, PendingEnds(v), IsDeclarative(LastPending.env)
  PROVE  /\ envs'[LastPending.env].bindings[LastPending.name] = v
         /\ UNCHANGED props
         /\ \A e \in DOMAIN envs \ {LastPending.env} : envs'[e] = envs[e]
<1> DEFINE e == LastPending.env
           n == LastPending.name
           b == [envs[e].bindings EXCEPT ![n] = v]
           x == [envs[e] EXCEPT !.bindings = b]
<1>1. e \in DOMAIN envs /\ Top.pending # <<>> /\ TypeOK
  BY LastPendingType DEF PendingEnds, IInv
<1>2. n \in DOMAIN envs[e].bindings
  <2>1. /\ Len(stack) \in DOMAIN stack /\ Top.pending \in Seq(PendingType)
    BY TopRefers DEF ActivationType, PendingType
  <2>2. Len(Top.pending) \in DOMAIN Top.pending
    BY <1>1, <2>1
  <2> QED
    BY <2>1, <2>2 DEF ReferencesHold, Top, LastPending
<1>3. envs[e].kind # "object" /\ Bound(e, n) /\ envs[e] \in DeclarativeType
  BY <1>1, <1>2, Kinds DEF IsDeclarative, Bound
<1>4. envs' = [envs EXCEPT ![e].bindings[n] = v] /\ UNCHANGED props
  BY <1>3 DEF PendingEnds, PutValueWithEnvironment
<1>5. envs' = [envs EXCEPT ![e] = x]
  BY <1>4, Zenon
<1>6. x.bindings = b
  BY <1>3 DEF DeclarativeType
<1>7. b[n] = v
  BY <1>2
<1> HIDE DEF x, b
<1>8. envs'[e] = x /\ \A d \in DOMAIN envs : d # e => envs'[d] = envs[d]
  BY <1>1, <1>5 DEF TypeOK
<1> QED
  BY <1>4, <1>6, <1>7, <1>8

(* A compound assignment writes to the variable it has read and to nothing *)
(* else (evalast.cc 854), in every program.                                *)
THEOREM CompoundAlwaysLands ==
  ASSUME "switchVar" \notin Uses
  PROVE  Spec => CompoundLands
<1>1. IInv /\ ReferencesHold /\ [Next]_vars =>
        [\A v \in Data :
           /\ PendingEnds(v) /\ LastPending.kind = "compound"
           /\ IsDeclarative(LastPending.env)
           => /\ envs'[LastPending.env].bindings[LastPending.name] = v
              /\ UNCHANGED props
              /\ \A e \in DOMAIN envs \ {LastPending.env} : envs'[e] = envs[e]]_vars
  BY PendingLands
<1> QED
  BY <1>1, Invariant, ReferencesAlwaysHold, PTL DEF Spec, CompoundLands

=============================================================================
