# Verification of the Nabla interpreter

Nabla (`src/nabla`) is an ECMAScript 5 interpreter in C++: a lexer and parser build a syntax
tree, `AstEvaluator` walks it, objects are hash maps of properties on a garbage-collected heap,
and part of the library is written in the interpreted language (`startup.js`). It runs on one
thread. What makes it hard is not parallelism but *control*: every jump of the interpreted
program (break, continue, return, an exception) is a value in a field that a dozen recursive C++
methods must test, reset, pass on and restore in the right order, across functions, nested
programs, `with` scopes and finalizers.

## 1. Inventory

| Component | State | Operations | Hard behaviour |
|---|---|---|---|
| Statement evaluator (`evalast.cc` 31-422, 1058-1075, 1471-1546) | `cv_` (completion type, target label, value), `cur_env_`, the C++ call stack | one `EvalStatement_` method for each statement, label matching, `CallFunction_`, `EvalProgram` | a completion pending while something else runs; labels; finalizers; scopes restored on every exit |
| Expression evaluator (`evalast.cc` 424-1056, 1192-1309) | none of its own | operators, calls, member references, assignment, update | order of evaluation; a reference taken before a call and used after it; null results passed on |
| Environments (`evalast.cc` 97-108, 1082-1169, 1324-1469; `context.hh` 139-212) | chains of scopes, declarative or backed by an object | create, resolve, set, delete a binding; hoisting | shadowing; a binding made twice; a binding that disappears between resolving and storing |
| Exceptions and `Thread` (`context.hh` 251-274, `context.cc` 236-272) | `exception_val`, `current_thread_` | `Throw`, `Catch` | a null result must come with an exception, through native code too |
| Property storage (`coll.hh` 230-375) | 128 buckets of entries, memory kept after erasing | `operator[]`, `find`, `erase`, iteration | stale memory; pointers into a bucket that moves |
| Object model (`context.cc` 55-234, `context.hh` 22-89) | properties, prototype, flags, host data | `Get`, `Put`, `Delete`, `defineProperty`, literals | accessors, inherited properties, callbacks in the middle of an operation |
| Other containers (`coll.hh` 40-228) | list, vector, list-based map | insert, erase, find | erasing while iterating, capacity |
| Conversions and comparisons (`context.cc` 26-53, 300-322, 382-659; `data.hh`) | none | numbers, strings, indices, equality | overflow, boundaries, two representations of a number, calls to `toString` and `valueOf` |
| Arrays (`context.cc` 120-153, 757-776; `builtin.cc` 371-411, 441-611; `startup.js` 232-257) | `length` (twice) and elements | put, push, pop, splice, shift, concat, slice, `forEach`, `apply` | length and elements in step; callbacks in the middle; 32-bit boundaries |
| Built-in functions (`builtin.cc`) | the objects themselves | `Object`, `String`, `RegExp`, `Date`, `Math`, `evalcx` | exceptions of callbacks |
| Startup library (`startup.js`) | `cached` of `require` | `require`, functions of arrays, strings and dates | partial failure of a load; circular `require` |
| Lexer, parser, tree (`token.ll`, `parser.yy`, `ast.*`) | input position | parse | outside the model: any program the grammar allows is taken |
| API and command line (`api.cc`, `nabla.cc`) | one context, one `Thread` per call | `eval` | the exception of one program left for the next |

The components interact by calls only. `context::eval` makes a `Thread`, parses, and runs
`EvalProgram`; the evaluator calls `Object::Call`/`Construct` for functions, which make *another*
`AstEvaluator` on the C++ stack (as does `evalcx`, with its own global object); an exception is
`Thread::exception_val` plus a null `any_ref` returned by everything in between.

What makes each part correct is stated with its module below; the list of what can go wrong, with
the line where it would, is `hazards` in `PROJECT.json`.

## 2. Modules

**Constructs** has no state. It is the vocabulary of nesting: which constructs of a script are
entered and not left, and where a break, continue, return or exception out of such a nesting must
land (`BreakTarget`, `AfterThrow`, ...). It also names the kinds of statements and activations.

**StructuredControl** is the abstract specification: what the language promises of jumps. Its only
variable is the nesting (`path`). A construct is entered or completes, or a jump takes the nesting
in *one step* to its destination.

**Evaluator** is the statement evaluator. A frame of `stack` is an `EvalStatement_` method (or an
activation: a program, a function, a constructor, a nested program) that is running, with the
locals that matter: `at` (how far it is), the labels it was given, the environment it saved, the
completion it keeps for later. `mode` is what happens to the top frame next; `cv` is `cv_` (without
`value`), `env` is `cur_env_`, a sequence of scopes each named by the frame that made it; `exc` is
`Thread::exception_val`. An action is one call or return:

| Code | Actions |
|---|---|
| `EvalStatementWithLabel` and the heads of the `EvalStatement_` methods | `Enter`, `EmptyStatement`, `BreakStatement`, `ContinueStatement`, `ReturnUndefined` |
| `EvalExpressionToValue`, `Throw`, `Object::Call`, `Object::Construct`, `evalcx` | `Yield`, `Raise`, `CallFunction`, `Construct`, `Evalcx` |
| what a method does when its expression returns | `ExpressionThrows`, `ForInMemberThrows`, `SimpleStatementEnds`, `ReturnValue`, `ThrowStatement`, `WithThrows`, `IfTest`, `LoopTest`, `ForContinues`, `ForInStarts`, `ForInStored`, `SwitchSelects`, `WithEnters` |
| what a method does when its statement returns | `NextStatement`, `BlockEnds`, `IfEnds`, `LabeledEnds`, `WithEnds`, `SwitchEnds`, `LoopBodyEnds`, `BlockThrows`, `BlockCompletes`, `HandlerEnds`, `FinalizerEnds` |
| the ends of `CallFunction_`, `Global_evalcx`, `context::eval` | `FunctionEnds`, `EvalcxEnds`, `ProgramEnds`, `NextProgram` |

The program is not fixed: the statement reached next is chosen when it is reached, so the
behaviours are those of *all* programs. A closure may run in any environment that exists when it
is called (`ClosureScopes`). Where the code dereferences a null pointer or fails an assertion the
process is gone (`Crash`).

**EvaluatorControl** states the properties and the refinement: `Destination` is the nesting once
the pending completion has got where it is going, and `Control` is StructuredControl with
`path <- Destination`. Requesting a jump is then the abstract jump, and passing the completion
outwards, method by method, is no step at all: if any method on the way changed where the jump
lands, the refinement would fail.

**EvaluatorProofs** has the theorems. **MCEvaluator** gives the instances their constants.

**HashMap** is the storage of properties (`hash_map` in `coll.hh`): operators on a table, one for
each method. A bucket is its memory and a length; the nodes past the length are what erased entries
left there, and `operator[]` hands them out again, as the code does. `gc_realloc` rounds a block up
by a few nodes (`Spare`) and may cut the rest.

**MapStore** is the abstract specification, a finite map. **HashMapStore** is a `hash_map` in use
(`Add`, `Assign`, `Remove`, and a walk `StartWalk`, `Visit`, `EndWalk` with the iterator) and
`Map == INSTANCE MapStore WITH contents <- Contents` the refinement. **HashMapFacts** has
lemmas about the operators of HashMap, **HashMapProofs** the theorems of HashMapStore,
**MCHashMapStore** its instance.

**Objects** is the object model. The program is not fixed: whenever its code runs it may do any
operation on any object it can reach, and so may the function of an accessor, *in the middle of*
the operation that called it. `stack` holds the accessor functions and the `Object.defineProperty`
calls that are running, `answer` what the last operation returned (`Nil` for the null `any_ref`,
`Crashed` once an assertion has failed), `exc` whether the `Thread` has an exception.

| Code | Actions and operators of Objects |
|---|---|
| `Object::Get`, `GetProperty` | `Get`, `Holder`, `GetFrom` |
| `Object::Put` | `Put`: `PutOwn`, `PutNew`, `PutRefused`, `Reject` (strict and sloppy code) |
| `Object::Delete` | `Delete` |
| `ObjectExpression` | `LiteralProperty`, `LiteralAccessor`, `Made` |
| `RegExp_construct`, `DefineOwnDataPropertyNoCheck` | `BuiltIn`, `Made` |
| `Object_defineProperty` | `DefineProperty` (up to the first attribute), `AttributeGiven`, `AttributeCalls`, `Attribute` |
| `Object::Call` of an accessor, its `throw` and its end | `Call`, `Throw`, `Return` |
| `EvalCatchClause`, `context::eval` | `Catch` |

`defineProperty` keeps a C++ pointer to the property while it reads the attributes of the
descriptor, each of which may be an accessor that runs any code. A frame has that pointer: a
position in the memory of a bucket (erasing moves other entries under it), or `moved` once the
bucket was reallocated elsewhere; writing through it then hits nothing the model keeps.

Some uses of objects do what the language does not; `Uses` says which of them the programs of an
instance make, so that the properties can be checked without them and the runs can show what each does
(`AllUses`):

- `"deleteAccessor"`: a `delete` that leaves an accessor in the memory of a bucket, for the next new
  entry. What it leaves there is the *last* entry of the bucket (`LeftInMemory`), whichever was deleted.
- `"halfDescriptor"`: a descriptor with a getter or a setter only, or with one that is no function.
- `"descriptorGetter"`: a descriptor whose attributes are accessors.
- `"redefine"`: `defineProperty` of a property that is not configurable, which succeeds.
- `"mixedLiteral"`: `{ n: 1, set n(x) {} }`, which the language forbids.
- `"literalInherits"`: `{ n: 1 }` when the prototype has a read-only `n` or an accessor, which the literal
  heeds, since it stores its properties by `Put`.

**PropertyModel** is the abstract specification of the same operations: what ECMAScript 5 says of them
(8.12.2 to 8.12.9, 11.1.5, 15.2.3.6), on maps from names to descriptors. In it an attribute not given to
`defineProperty` is false or stays as it was, what is not configurable is not redefined, and a literal
defines its properties whatever it inherits. The instance `Model` in Objects is the refinement: the flags
of an entry, in memory that is reused, are read as a descriptor. The code ignores the attributes
`writable` and `configurable`: what it defines is read-only and configurable. `Model` therefore takes
programs that ask for just that (`Attributes`). **ObjectsProofs** has the theorems, **MCObjects** the
instances.

**Environments** is what identifiers mean. An environment is a position in `envs`, with the chain of
environments around it; a declarative one has bindings, an object one has an object, whose properties
are in `props`. `stack` holds the evaluators that are running: `cur_env_`, the environments their
`with` statements have saved, and the operations of which only the first half is done (`pending`): the
right side of `n op= ...` or of `var n = ...` may call functions before the value is put. As in
Objects the program is not fixed: any name is read, assigned, updated, declared, deleted or called
at any moment, and a closure may have any environment as its scope.

| Code | Actions and operators of Environments |
|---|---|
| `ResolveIdentifierAndGetValueAndEnvironment` | `Resolve`, `Bound`, `ValueIn` |
| an identifier, `typeof`, `delete`, `n++`, `n = v`, `for (n in ...)` | `Read`, `TypeOf`, `DeleteIdentifier`, `UpdateName`, `Assign` |
| `n op= v`, `var n = v` | `CompoundStart`, `VarStart`, then `PendingEnds` with `PutValueWithEnvironment` |
| `n(...)`: the callee; the call | `Callee`; `CallFunction` (`InitFunctionBindings`, `InitVariableBindings`), `FunctionEnds` |
| `throw`, `with`, `catch` | `Throw`, `WithEnters`, `WithEnds`, `CatchClause` |
| `context::eval`, `EvalProgram` | `NextProgram` |
| `o.n = v`, `delete o.n` of an object of a `with` | `MemberPut`, `MemberDelete` |

`Uses` again keeps apart what the code does otherwise than the language: a `catch` variable is made
in the function (and one that exists keeps its old value), a `var` inside a `switch` is not hoisted, a
function's variable called inside a `with` fails an assertion. **EnvironmentsProofs** has the
theorems, **MCEnvironments** the instances.

**Arrays** is an array: `length` (of `Array`), `lengthValue` (of its property "length") and `elements`.
An operation of `builtin.cc` works element by element, and each read may call a getter, each write a
setter; so a frame of `frames` is an operation that runs, with the sequence of instructions it has
left, which the code fixes when it starts (`SpliceWork`, `PushWork`, ...) from the length it takes
then. What it calls runs any code: any operation on the same array, to `MaxNested` inside one
another. `past` remembers what programs have done, for the properties.

| Code | Actions of Arrays |
|---|---|
| `Put` with `DefineOwnArrayProperty`; `delete`; an accessor defined | `PutElement`, `PutLength`, `DeleteElement`, `DefineAccessor` |
| `pop`, `splice`, `concat`, `forEach`, `apply` of `builtin.cc`; `push`, `shift`, `slice` of `startup.js` | `Pop`, `Splice`, `Concat`, `ForEach`, `Apply`; `Push`, `Shift`, `Slice` |
| one `Get`, `Put`, `Delete` or `Call` in them | `DoRead`, `DoTakeLast`, `DoCall`, `DoInvoke`, `DoWrite`, `DoErase`, `DoSetLength`, `DoDropLast`, `DoSpread`, `DoAdd`, `DoReturn` |
| the end of what was called | `Returns`, `Throws` |

**ArrayContract** is the abstract specification: while no accessor is defined, the array read below
its length is a sequence, and every operation is *one step* on it. In the refinement (`Contract` in
Arrays) the sequence of an operation that is half done is the one it began with. A position that
comes below the length again may read as anything, since the code keeps the elements a program cuts
off. **ArraysProofs** has the theorems, **MCArrays** the instances.

**Require** is `require` of `startup.js`. Which file requires which is not fixed: while one runs it
may require any id, itself included. `cached` is the cache; `entries` has every entry ever made, with
what became of it, and `held` who got whose exports, so that the properties can speak of them.

| Code (`startup.js` 352-374) | Actions of Require |
|---|---|
| the id is a name of `Object.prototype`; is in the cache | `RequireInherited`; `RequireCached` |
| the entry is made, and then `read` or `eval` throws; or the file runs | `CannotLoad`; `Loads` |
| the file ends; throws | `BodyEnds`; `BodyThrows` |

**RequireProofs** has its theorems, **MCRequire** its instance.

**Conversions** is the pure part of `context.cc` and `data.hh`: values with the two representations of
a number (`smi`, `double`), the conversions between them with the methods they call (`Then` runs one
after the other, and stops at an exception), equality, `array_index`. A number is a fraction in lowest
terms or one of three special values, ints wrap at `Width` bits, a text is a sequence of numerals and
other words. Where C++ leaves the outcome open (`AsInts`, a cast of a `double` too large) it is a set.
**Operators** is `ApplyBinaryOperator`, `BinaryExpression`, compound assignment, unary operators and
updates of `evalast.cc`, evaluated one at a time on operands of a set (`Evaluate`). **ES5** is the
reference: the sections of the standard the comments of the code name, written apart from the code,
where every number is a double.

**Expressions** is how an expression is made of its parts: members and assignments to them, `delete`,
updates, calls, `new`, `&&`, `||`, `?:` and commas. A part is what it comes to, a value or an exception;
an outcome has, in order, the parts that were evaluated, the properties read, written and deleted, the
functions and the methods of conversion called (`calls`), so an early return the code lacks, or an
object read again after it may have changed, shows. The second half of the module is the standard's
order for the same. **ExpressionsProofs** has the theorems of Operators and Expressions, **MCOperators**
their instance.

Which definition stands for which lines is `map` in `PROJECT.json`.

## 3. Runs

| Run | Instance | What it shows |
|---|---|---|
| `scopes` | every statement and activation, jumps of every kind; 4 frames | `cur_env_` is always that of the innermost scope still running, and no `try` is left without its finalizer |
| `structured` | all but finalizers, jumps that are taken (below); 2 labels, 5 frames | nothing is evaluated while a completion is pending; a null or a `kThrow` has an exception |
| `jumps` | loops, labels, `switch`, `with`, functions, `evalcx`, `try`/`catch`, jumps that are taken; 2 labels, 5 frames | jumps are those of StructuredControl, their destination never changes on the way, they all land |
| `hash_map` | 4 keys, 3 of them in one bucket, 3 buckets, 1 spare node | a map, no key twice, a walk meets each key once |
| `objects` | an object and its prototype, two names in one bucket, no `Uses`, one call deep | `Get`, `Put`, `Delete`, literals and `defineProperty` are those of PropertyModel, a null comes with an exception, a read-only property keeps its value through the objects that inherit it |
| `objects_reentrant` | one object, two names in one bucket, all `Uses`, 2 calls deep | whatever accessors do in the middle of a `defineProperty`, the storage stays sound, and a read-only property keeps its value |
| `environments` | one name, the global and one more object, 4 environments, 3 activations | scopes nest, a reference taken before a call holds after it, a compound assignment writes where it has read, scoping is static |
| `arrays` | arrays to length 3, 2 items, `MaxArguments = 2`, no accessors | every operation is the one step of ArrayContract, and none leaves an element past the length until a program shrinks the array or pops |
| `array_accessors` | arrays to length 2, an item, an accessor at a time | both copies of the length agree; an operation reports an exception just when there was one |
| `require` | 3 files and an inherited name, 5 entries; the files are interchangeable | no module runs twice, is forgotten or replaced; the exports of one that failed do not get out |
| `operators` | ints of 8 bits, texts of 2 digits, 41 values, names of up to 3 digits, 10 parts and 7 properties, two arguments | every operator on every pair of values, and every expression of parts that give a value or throw, is what the standard says but for the listed departures; methods, parts, reads and writes come in order |
| `finalizer_try` | the smallest instance that has the case | see the finding below |

*Jumps that are taken.* With `Jumps = "taken"` (`JumpsTaken` in Evaluator) a program makes only jumps that
some method takes: a return is in a function; a break or continue has a target, or is in a function, which
then ends with a SyntaxError; no labelled break leaves a loop that is not its target; no unlabelled break
leaves a labelled block. The last two have a target and the code does not take them there:
`BreakOrContinueIfLabelMatch` loses a labelled break in the first loop it leaves. tests/break_test.js
58-94 has such breaks; what it expects agrees with the code only because the tests of the inner loops
soon become false. `structured` and `jumps` are about the programs without them.

*Bounds.* `MaxDepth` bounds the frames of the evaluator. Programs of four frames already nest every
construct in every other inside the program's own frame, and those of five put a label on each of two
loops, or a function between a loop and its `try`; the loops make the behaviours of each program
unbounded. One exception value is enough where no property compares two. In `hash_map` three
colliding keys are the fewest where an entry in the middle is erased, with one on either side;
the fourth key has an allocated bucket behind the one that is emptied, and bucket 0 has none at all.
In `objects` a chain of two objects is the fewest with an inherited property that can be shadowed, and
two names in one bucket are the fewest where deleting one entry leaves another's flags behind. The two
are put together no further than `Collisions` says: two names meet in the bucket of one object only,
with nothing else going on; accessors, the prototype and objects being made have one name between them.
States past that bound are still checked, but not followed. The theorems of ObjectsProofs have no such
bound. In `objects_reentrant` two names in one bucket are the fewest for which an entry can
move under a pointer to another; the two are interchangeable (the hash is the same), hence
`SYMMETRY`. There `MaxCalls = 2` is a `defineProperty` with an accessor running inside it, or an accessor
called from an accessor; what a setter does that a literal calls, while the literal is evaluated, is not
followed (`LiteralAlone`). `objects` takes `MaxCalls = 1`, an accessor or a `defineProperty` that nothing
interrupts, as without `Uses` nothing can. The values are a function, `undefined` and, in `objects`, one datum.
In `environments` one name is enough for a function, the function around it, a `with` object and the
global object to compete for it; four environments are these; three activations are a function called in the middle of
another's compound assignment (`MaxPending = 1` in each) with the program below them.
In `arrays` three elements are the fewest where a splice in the middle moves one and keeps another,
two items the fewest that make one insert more than it removes, and `MaxArguments = 2` lets `apply`
refuse; callbacks are those of `forEach` and `apply`. In `array_accessors` two elements and an accessor
are an operation with something left to do when code of the program runs. `MaxNested = 1`: that code
stores, deletes and sets the length, and starts no other operation before the first has ended;
ArraysProofs has no such bound, nor one on the length.
`Width = 3` makes the length of an empty array wrap to 7, which is past every bound. In `require`
three files are a cycle and one more that joins it while it fails, and five entries let two of them
fail and be loaded again. In `operators` the ints are -128, 127 and numbers that add up to more, and
the doubles have a fraction of each sign, one past the ints, one (1/16) so small that `%g` writes an exponent with
`LeastExponent = -1`, 200 so large that it does with `Precision = 2`, NaN and the infinities; the eleven
objects are every way `valueOf` and `toString` may behave that the code tells apart. A part throws or is
undefined, false, a number, a text, or an object whose properties are numbers, functions, throw or
refuse to be written; two arguments are the fewest where one throws before the other.

*Fairness.* `jumps` checks liveness under `WF_vars(Next)`: there is one thread, nothing it does ever
blocks, so it goes on while it can. No fairness is put on a choice: a loop may repeat for ever, an
expression may have any outcome. The other runs check safety and need none.

*Deadlock.* After a program there is a next one, code that runs can always do something, and the
deadlock check is on. Only `objects_reentrant` switches it off: its programs include those that end in
a failed assertion, the process is gone there and nothing follows.

*Finding.* One run is expected to fail. In `finalizer_try` a finalizer runs with the block's `kThrow`
still set, and a `try` inside it takes the outer exception; the `catch` that should have it then fails
`assert(!!rval)`.

More effects are modelled and kept apart, and no run refutes anything with them:

- `break`, `continue` or `return` at the top of a program gives a null without an exception (and fails
  an assertion of `context::eval`); through `evalcx` the null reaches a `try` around it.
- A labelled `break` of an outer loop does not stop the inner one, which goes on as long as its test
  is true (`BreakOrContinueIfLabelMatch`); `Jumps = "taken"` leaves such jumps out of `structured` and `jumps`.
- A property assigned to where a `delete` left an accessor in the memory of the bucket is writable and an
  accessor at once. With `{ p: 1, get q() { return 2; } }` and `p` and `q` in one bucket, deleting the plain
  `p` does it: `q` moves into its place and its flags stay behind. `defineProperty` with only a getter stores `undefined` as the setter, and assigning to the
  property fails `assert(IsCallable(set_func))`. `objects` is checked without these uses,
  `objects_reentrant` with them.
- `Object.defineProperty` ignores the attributes `writable` and `configurable`: what it defines is read-only
  and configurable whatever was asked or was there, where the standard has an attribute that is not
  given be false, or what it was. It redefines what is not configurable. A literal stores data properties by `Put`, so
  `{ n: 1 }` calls an accessor `n` it inherits, or has no `n` when it inherits a read-only one.
  After `{ p: 1, set p(x) {} }` the getter of `p` is 1. `objects` is checked without these uses too.
- `function f(g) { with ({}) { g(); } }` fails `assert(env->is<ObjectEnvironment>())`, since the test
  before it looks at `cur_env_` and not at the environment `g` was found in (the use `"withCall"`).
- An array that is made shorter keeps its elements past the end; `forEach` still meets them, and they
  are back when it grows. `pop`, when its getter empties the array, makes its length 2^32 - 1.
  `splice`, `shift` and `apply` go on after an exception of a getter and store or pass its null. After
  an array was made shorter, or popped, `ElementsBelowLength` promises nothing, and ArrayContract lets positions
  that come below the length again read as anything; after an exception was lost `ReportsExceptions`
  promises nothing.
- After `read` or `eval` of a file has failed, its entry stays in the cache, and `require` returns empty
  exports from then on; of a module that threw, those it required may keep the exports nobody else
  gets; `require("constructor")` gives `undefined`. `EntryStillThere`, `AnswersLive` and
  `DeadExportsInside` say how far this goes.
- Operators depart from the standard where `Departs` and `ArithmeticDeparts` of Operators say so, each
  with its lines: `true === false` is true; `undefined == o` converts `o`; any text is a number to
  `strtod`; ints overflow, divide into ints and trap on a zero or on the smallest one by -1; `%`, shifts
  and bitwise operators cast a `double` to an int; `>>>` is signed; texts are never compared by `<`; a
  date converts to its text in arithmetic; `x += o` takes `o` for a number; `x++` on what is no number
  fails an assertion; the operands of `in` and `instanceof` are not checked; the text of a double is what
  `%g` prints, six significant digits, and an exponent from 1e+06 up and from 1e-05 down (0.00001 is
  `1e-05`, where the standard has 0.00001 and no exponent before 1e-7). Everywhere else the two agree.
- Expressions do where `ExpressionDeparts` says so: `undefined[o]` calls `toString` of `o` before it
  throws; a callee that is no function throws before its arguments are evaluated; a property key that is
  a `double` with more digits than `%g` writes names what `%g` makes of it, rounded or with an exponent
  (the run has such a key, 120 with its `Precision` of 2). `delete` always gives false.
- A walk of a `hash_map` (`for`-`in`, `Object.keys`) also gives the last name erased from an emptied
  bucket: the exception that `WalkComplete` makes.
- With accessors as attributes of a descriptor, `defineProperty` can write over another property (its
  pointer is stale), and reading the property being defined gives a null without an exception.
  `ImplementsPropertyModel` and `ExceptionsMatch` are checked without that use.
- A second `catch (e)` in a function sees the first exception; the `var` of a `switch` in a function is
  lost; `var n = v` in a `with` writes to the object. The properties of Environments are checked
  without the first two.

Every property of a passing run has a mutant (an operator named `...Mutant...` before the definition
it changes) that TLC finds to violate it.

## 4. Proofs

The theorems hold for all values of the constants that satisfy the named assumptions.

**EvaluatorProofs** proves `TypeOK`, `ScopeDiscipline` and `FinalizerAlwaysRuns` of
Evaluator, for any labels, exceptions, set of statements and depth. `ScopeDiscipline` is not
inductive by itself: that a frame hands its saved environment back says nothing unless it is known
*which* frames have saved one, and that a method returns to a method that waits for it.
The part `CallNesting` of the invariant says so, and what is inductive is
`IInv == TypeOK /\ CallNesting /\ ScopeDiscipline`. The actions fall into a few kinds of step (a
frame changes in place, a frame is pushed or popped with or without a scope, ...); one lemma for each
kind shows that it keeps `IInv`, and the proof of the invariant matches each action to its kind.
`FinalizerAlwaysRuns` follows from `IInv`, action by action.

The same module proves what `structured` and `jumps` check of jumps, under hypotheses that say which
programs are meant, each of which the code needs (without the third condition of `JumpsTaken`
`StartsNormal` and the refinement fail on labelled breaks like those of tests/break_test.js 58-94):

| Theorem | Property | Programs |
|---|---|---|
| `NothingPending`, `ExceptionsThere` | `StartsNormal`, `ExceptionPending` | `JumpsTaken`: every return is in a function, every break and continue has a target or is in a function, no labelled break leaves a loop that is not its target, no unlabelled break a labelled block; `NoFinalizers`: no `try` with a `finally` |
| `ControlRefined`, `JumpsKeepTheirWay` | `ImplementsStructuredControl`, `DestinationKept` | besides, no `new` and no `for (o.p in e)` (`OneStepJumps`) |

A finalizer runs with the jump of its block still in `cv_` (the finding above is one consequence); `new`
gives an object back although the constructor threw, and `for (o.p in e)` returns as if nothing had
happened, so their exceptions go nowhere. That nothing is pending when a statement starts follows from
the method that took the last jump having reset `cv_`. So the invariant, `ControlInv == StartsNormal /\
ExceptionPending /\ DoneInv /\ FramesInv`, says of a jump on its way that one of the methods
running takes it and that none before that one alters it (`Reaches`); a jump that is well formed when it
is made has this (the lemmas on `NestingOf`), and one method returning keeps it. The refinement adds what
`Destination` is: returning from a method a jump passes leaves it alone, because choosing the innermost
construct that takes the jump does not see the one returned from (`ThrowFront`, `BreakFront`,
`ContinueFront`, `ReturnFront`), and the method that takes the jump is where it ends.

**HashMapProofs** proves `TypeOK`, `KeysPlaced`, `WalkComplete` and `ImplementsMap` of HashMapStore for
any keys, values, hash function and number of buckets. `IInv == TypeOK /\ KeysPlaced`: that an erased key is
gone, or that `find` after `operator[]` finds the entry just made, needs each key to be stored at
most once. In **HashMapFacts**, `Found`, `Written`, `Erased` and `SubscriptNew` say what each operation
does to the entries, `SubscriptMap`, `StoreMap` and `EraseMap` what that means for the map; `Refinement`
then says that every step is a step of MapStore or changes nothing there. `WalkComplete` speaks of the
end of a walk; `WalkInv` says of one on its way that the entries passed have given their keys, once each,
and that whatever else was collected came from a place passed. That an emptied bucket, which the iterator
visits too, gives no key a second time needs the erased node left in it to have a key of that bucket
(`MemoryPlaced`), so that it is no entry of another.

**ObjectsProofs** proves all that `objects` and `objects_reentrant` check of Objects, for any objects,
names, values, hash function and depth. Three properties hold for any `Uses`. `StorageSound` and
`ReadOnlyKept` rest on `IInv`: the tables of all objects are `Sound` and the stack holds frames. The
lemmas of HashMapFacts, instantiated with names and properties, say what becomes of a table. A
`Property*` that is still somewhere in the memory of its bucket may by then point to an entry of
another name or to none: `WrittenNode` says that writing there moves no key, whichever it is. Each
action either touches no table (`Untouched`) or one (`Touched`), which then `Keeps` what is read-only
unless the object is being made or defined. `TypeOK` needs that the search along the prototypes ends
with an object or with none, hence the assumption `ChainsEnd`: a prototype is there before an object has
it, and nothing changes it. (It is stated of sets of objects: each has one whose prototype is outside.
`HolderIs` unfolds the recursion under it.)

`ExceptionsMatch` holds if no descriptor has accessors of its own (`Settled`), and
`ImplementsPropertyModel` if programs do none of the `Uses` (`Simple`) and ask
`defineProperty` for what is read-only and configurable. Their invariant is `KInv`. A
null comes from reading a property without a value, so all that can be read must have one (`AllSane`);
`defineProperty` makes one that has none, so nothing may run before it is written, through a pointer that
still points to it (`Undisturbed`). For the refinement an entry must also be what its flags say
(`Formed`), half a `defineProperty` included (`HalfDefined`), and stay so when memory is used again: what
erased entries left there is no accessor, and in an object being made nothing is left at all
(`CleanMemory`). That a literal may define what the code puts, and `defineProperty` redefine what is there,
needs the entries of an object being made to be the writable, configurable ones of a literal or the fixed
ones of a built-in object, and nobody to have it yet (`Fresh`). The refinement then goes by operation: `DescriptorIs` says which descriptor stands for an
entry, `LookupHolder` that the owner found along the prototypes is the one the abstract specification
finds, and one lemma for each action (`GetMapped`, `PutMapped`, ...) that it is a step of PropertyModel.

**EnvironmentsProofs** proves every property `environments` checks, for any identifiers, values,
objects and bounds. `TypeOK` and `ScopesNest` need only that what is referred to exists: that the
environments an activation saved, and those around an environment, are environments, the latter older
(`Linked`). The inductive invariant is `IInv == TypeOK /\ Linked /\ ScopesNest`. Most actions are
*evaluations* (`Evaluates`: no activation moves, and the environments there are `Keeps` their kind,
their chain and their variables); the others move one activation (`MoveKeeps`). `StepKeeps` puts the
actions together and says besides that without the use `"catch"` no environment gets a variable after
it is made (`Fixed`); chains being what they were, `Variable` then is too, which is `StaticScoping`.
`ReferencesHold` is inductive relative to `IInv` when `"switchVar"` is not among the `Uses`: a step
either starts an operation whose reference holds at that moment (`CompoundHolds`, `VarHolds`; the
latter needs `ScopesNest`, a `var` inside a `with` is in an object environment) or leaves nothing new
waiting (`OthersHold`). `CompoundLands` follows from both.

**RequireProofs** proves every property `require` checks, for any ids, inherited names, files and
failures. What the cache holds, what runs and what became of the entries have to be known together:
`IInv == TypeOK /\ CacheIsLive /\ RunningNests /\ HeldInside /\ AnswerKnown`. `CacheIsLive` says that the
cache holds, for each id, its one entry that has not thrown; `RunningNests` that entries run in the
order they were made, each still in the cache; `HeldInside` that nobody but itself and
modules begun after it has the exports of an entry that runs or has thrown.

**ArraysProofs** proves `TypeOK`, `ReportsExceptions`, `ElementsBelowLength` and `ImplementsContract` of Arrays
for arrays of any length, any number of accessors and operations inside one another to any depth. None is inductive: that a length
stays in its bounds needs every instruction left in every frame to keep them, and that an exception
is reported needs to know what a frame has made so far and still waits for. The invariant is `IInv`,
of which `FrameOK` speaks of one frame: its instructions (`Instructions`), what it waits for
(`Waiting`), what it will have to return (`Shape`) and, until an exception is lost, that it has met
none but one `pop` will return (`Sound`). `SpliceWorkFresh`, `PushWorkFresh` and `ConcatWorkFresh` say
what an operation begins with, `StartKeeps`, `ReadsKeeps` and `GoesOn` that starting one, reading an
element and going on to the next keep the frames so. For `ElementsBelowLength` the invariant is
`IInv /\ BInv`: what an operation that writes has left to do ends by setting the length, moves and
writes below it only, and erases every element at or past it first (`Settled`); without accessors nothing
runs in between but the callbacks of operations that only read (`Quiet`), which may start others.

`ContractRefined` is the refinement of ArrayContract, with the mapping `Contract` that TLC checks. The
invariant it adds is `CInv`: without accessors every frame keeps what it has `Promised`, that there are
a result and a content which are the outcome of its operation on what the array read before
(`Outcome`) and toward which all it has left to do goes (`Toward`). An operation that writes has left
first elements to take into the result and then deeds that lead to the content (`Leads`): each puts
nothing but what belongs where it goes (`Rightly`), every place that does not read so yet is written by
one (`Reaches`), none moves an element from where an earlier one has written (`Orderly`), and the length
is set last. `PushLeads` and `SpliceLeads` show that push, splice and shift begin so, the last from the order in which
the code closes or opens the gap; `LeadsMove`, `LeadsDeed` and `LeadsEnds` that each instruction keeps
it. `pop` has its own two steps (`Popping`), `concat` and `slice` join what they have read and what the
arguments left will add (`Gathering`), and `apply` has read the content when it calls (`Applying`). While an
operation that writes or reads alone is half done, what is seen is what it began with, so its steps stutter;
`DoReturn` is the step of the contract (`ContractReturns`). `forEach` and `apply` see the array as it
is, since their functions may change it.

**ExpressionsProofs** proves every property `operators` checks of Operators and Expressions, for any
values, methods of objects, parts and lists of arguments, and ints of any width. The assumptions are
`ConversionBoundsAssumption`, `ObjectsAssumption`, `MethodsAssumption`, `OperandsAssumption`,
`PrototypesAssumption` and `PartsAssumption`: widths and numbers of digits are numbers, every method, part
and property has an outcome, a wrapper has an object for its prototype. An evaluation is one step, so
the invariants say little (`EvaluationInv`, `ExpressionInv`: an outcome is one of those its operator or
expression has); the work is in the lemmas.

| Theorem | Property | Argument |
|---|---|---|
| `OperatorsConvertInOrder` | `ConversionOrder` | Every outcome is that of two conversions and what is done `Afterwards`, which calls nothing. |
| `EqualityImplementsES5`, `OperatorsImplementES5` | `EqualityAsES5`, `OperatorsAsES5` | The code's way to a primitive value is [[DefaultValue]], by cases of what the two methods do. Where `Departs` does not hold, the primitive values are `Sound` and the ints among them computed with alike (`Agrees`): ints are sums of powers of two and doubles fractions in lowest terms, which have one form (a gcd argument). `instanceof` searches a chain that is the least set closed under prototypes, so that the recursion need not be unfolded along it. |
| `RepresentationsAgree` | `RepresentationIrrelevant` | A smi and a double of the same number are `Alike`, and every operator keeps them so. |
| `NamesAreIndices` | `IndexNames` | The int that sums up digits may overflow; by a least counterexample over the prefixes of the name it has the bits of their number, and a name below 2^`Width` is the number's when no 0 begins it. |
| `EventsComeInOrder` | `EventsInOrder` | `Reading` says what may happen on the way to some parts, `Going` what may happen from one part on; `ThenReading` and `ThenGoing` say that evaluating one thing after another composes them. |
| `ExpressionsAgree` | `ExpressionsAsES5` | A member is the standard's member unless it departs (`MemberAsES5`); then one lemma for each form (`MemberSame`, `DeleteSame`, `AssignmentSame`, `UpdateSame`, `CallSame`, `BranchesSame`). |

That `ExpressionDeparts` has to name the keys `%g` misspells came out of the last of these proofs: the
lemma about members failed without it, though no key of the run showed it then.

Model-checked only: `JumpsLand` of Evaluator, which is liveness under fairness.

## 5. What is abstracted, and what is not modelled

- Evaluator: an expression is its outcome (true, false, an exception) and the functions it calls;
  the value in `cv_.value` and the contents of environments are left out, and so are the
  `debugger` statement and the conversion of a program's result to text, which may call a `toString`.
- HashMap: the collector is taken to free nothing that is reachable; addresses are not modelled.
- Objects: strings (a branch of `Put`) and the enumerable flag are left out; arrays are in Arrays,
  `DefaultValue` in Conversions; `undefined` stands for `null` too; prototypes are fixed, as nothing in the code
  changes one. `Object.keys` stores names with `Put`, which could meet an accessor of
  `Array.prototype`; HashMapStore takes the walk by itself.
- Environments: the properties of objects are plain (accessors, prototypes and flags are those of
  Objects), `this` is left out, and functions are never strict, as nothing in the code makes one so.
  `arguments` is bound like a variable and no program names it.
- Arrays: getters and setters are on elements only and of the array only (those of prototypes and of
  "length" are left out; `defineProperty` of "length" changes one copy and not the other). Arguments of
  `concat` are this array or a value. `splice` always has its two operands: with fewer, the code
  reads past its arguments (`builtin.cc` 579). The begin of `slice` is a position: one that is missing or
  negative is left out.
- Require: an id is what `require` is given; nothing in the code tells that two name the same file.
  A module's assignment to `module.exports` has no effect there either.
- Expressions: what reads, writes and calls is one event with an outcome (what they do is Objects,
  Arrays and Evaluator), and so is a part. Identifiers, and callees that are identifiers, are in
  Environments. Assigning to or deleting what is no reference, which throws, is left out, and which
  error an exception is.
- Conversions: a smi is an int, as in a 64-bit build (`data.hh` 238 compares a size with 32, and always
  takes the shift of one). Doubles are exact, and there is one zero (the code prints the other as `-0`). The length of a text, its
  characters and wrappers are only what operators tell apart.
- The other functions of `builtin.cc` (strings, dates, numbers, `Math`) are calls of the C++ library
  without state; `string_funcs` has no terminator (`builtin.cc` 1223), which is memory and not state.
- The containers of `coll.hh` but for `hash_map` are sequential and run no callbacks; the models take
  functions and sequences for them.
- The lexer and parser are left out: every program of the grammar is taken. So are the formatting of
  numbers, regular expressions (a library), files and the terminal.

## 6. Plan

Done: the evaluator's control, the storage of properties, the object model, environments, arrays,
`require`, conversions, operators and the order of evaluation.

What is left, in order:

1. *Threads and contexts*: the life of a `Thread` over programs and contexts.
2. *Containers*: the list, the vector and the list-based map of `coll.hh`.
3. Proofs: the theorems of Evaluator about jumps for programs with `finally`, whose hypotheses would have to
   tell which jumps a clause may make.
