# A verification development for the Valen compiler

TLA+ modules for the parts of the Valen compiler whose behaviour is a state
machine, the TLC configurations that check them on small instances, and TLAPS
proofs of what holds for every instance. Paths such as `solver/solver.rs` are
relative to `src/src/`; other paths are relative to the repository's `src/`.

Contents: 1 inventory, 2 modules, 3 the rune solver and inference, 4 the borrow
checker, 5 the TestVM, 6 exploration and the typing pass, 7 the move tracker,
8 the instantiator, 9 overload resolution, 10 variables of the postparser, 11 runs,
12 proofs, 13 what the models found, 14 what is not modelled, 15 plan.

## 1. Inventory

The compiler is a single-threaded pipeline (`pass_manager/full_compilation.rs`):
explore and lex packages, parse, postparse, type, check borrows, instantiate,
then either lower to the C++ backend through FFI or, in tests, interpret the
instantiated program in the TestVM. A pass hands the next one an immutable tree
in an arena; within a pass, components share mutable tables. Nothing is
persisted and nothing runs in parallel, so there are no crashes, lost messages
or data races to model. What is hard is *order*: which rule fires first, which
path of a function reaches a use first, in which order operands are evaluated
and released, and whether the bookkeeping spread over hundreds of match arms
still agrees with the facts after all of them.

| component | state it keeps | operations | hard part | correct when |
|---|---|---|---|---|
| **Rune solver** `solver/` | rules, open rules with their puzzles, declared runes, conclusions, audit trail of steps | `commit_step`, `get_next_solvable`, `is_complete`, queries | partial commits on conflict; rules added during a solve | conclusions are final; closed rules hold; nothing solvable is left behind; counts mean sets |
| **Inference** `typing/infer/`, `typing/infer_compiler.rs` | a solver, the generic parameters, a loop check | fire a rule, stall, fill in a default or placeholder, interpret the result | a rule runs forwards or backwards depending on order; defaults are a last resort; progress | conclusions are forced by the rules; failures are real; success answers everything; it ends |
| **Rune type solver** `typing/rune_typing/` | a second solver instance, over the types of runes | type the runes of a header before its rules are solved | two tables of what a rule says; some rules are solved that were never typed | what a solve concludes of a rune has the type the rune was given |
| **Overload resolver** `typing/overload_resolver.rs`, `typing/convert_helper.rs` | the candidates found, tried and fitting, of one search | search environments, attempt a candidate, narrow down, convert the arguments | a candidate found twice; candidates that each fit one argument better; two tables of what converts to what | the verdict depends on the functions there are, not on the order they are found in; an accepted argument converts |
| **Function, struct, expression compilers** `typing/function`, `citizen`, `expression`, `macros` | environments, `CompilerOutputs` | compile a denizen, request others | recursion between denizens | each is compiled once, after what it needs |
| **CompilerOutputs and deferred compiles** `typing/compiler_outputs.rs`, `typing/compiler.rs` | declarations, headers, two queues, finished sets | declare, defer, peek, mark compiled | compiling the head appends to the queue being drained | every request is served once; the drain ends with empty queues |
| **Template environments** `typing/env/` | name tables with parents | look up, extend | shadowing | nearest name wins |
| **Borrow checker** `typing/borrow_checker/experimental/` | pending uses, post-loop sets, errors | groupify a body, then one backward step per node | joins, loops, breaks, temporaries, joint arguments | an accepted function uses nothing destroyed; a refusal is real |
| **Symphony** `typing/borrow_checker/symphony/` | aliasing log | a second checker behind a feature | | |
| **TestVM** `testvm/` | heap with referrer bags, call stack, locals, registers | one per expression kind | manual counting at every expression; inline structs as allocations; weak references to dead objects | bags are exact; alive iff owned; no assert trips; errors are real |
| **Package exploration** `lexing/lex_and_explore.rs` | started and unexplored packages | take one, resolve, lex, add its imports | import cycles | each package once; it ends |
| **Lexer, parser** `lexing/`, `parsing/` | a cursor over the text, then iterators over brackets of tokens | lex a bracket; try one construct after another; bind operators | a construct that is not there may have moved the iterator; leftovers nobody looks at; flat operands bound by precedence afterwards | what is written is read back, and no token is lost |
| **Postparser** `postparsing/` | scopes with their locals and uses, rule builders | resolves names, finds captures and uses; emits the rules and defaults inference solves | uses that meet where arms, blocks and lambdas end; names the typing pass looks up by another rule | both passes mean the same variable; captures and uses are those of the code; defaults are self-contained |
| **Instantiator** `instantiating/` | instantiated denizens, worklist | instantiate on demand | termination under polymorphic recursion | each instance once |
| **Utilities, interners, arenas** `utils/`, `interner.rs`, `*_arena.rs` | hash-consing tables | intern | | equal values share a pointer |
| **Pass manager, CLI** `pass_manager/`, `bin/` | options | read, run passes, write | | |
| **Rust interop** `typing/rust_interop/`, `instantiating/rust_interop/` | oracle connection | resolve Rust items | behind a feature | |
| **Backend** `backend_ffi/`, `Backend/` | LLVM module | lower | | |
| **Builtins, stdlib, highlighter** | Vale sources; a separate HTML tool | | | |

Interactions that matter to the models. The postparser produces the rules and
the default rules; a call or a definition (`function_compiler_solving_layer.rs`)
creates one solver and drives it through `incrementally_solve`, whose callback
commits into the same solver; overload resolution is a callback from the Resolve
rule. The typed body goes through `groupify` to `check_usages`, which relies on
the callee's signature alone. The instantiated program goes to the TestVM, which
relies on the borrow checker for the absence of dangling borrows (its run-time
answer to one is the error "constraint violated").

## 2. Modules

| module | models | lines of code it follows |
|---|---|---|
| `SimpleSolverState` | the solver's state and `commit_step` | `solver/simple_solver_state.rs`, `solver/solver.rs` |
| `CompilerSolver` | rules, puzzles, the firing loop, the incremental solve (EXTENDS `SimpleSolverState`) | `typing/infer/compiler_solver.rs`, `typing/infer_compiler.rs`, the two callbacks |
| `CompilerSolverProofs` | its theorems | |
| `RuneTypeSolver` | rune typing on a second instance of the solver state, then the solve (EXTENDS `CompilerSolver`) | `typing/rune_typing/*`, `postparsing/itemplatatype.rs`, the callers of both in `function_compiler_solving_layer.rs` and `overload_resolver.rs` |
| `RuneTypeSolverProofs` | its theorems, and those of `CompilerSolverProofs` carried over | |
| `MCCompilerSolver` | the bounded instances of both | |
| `GroupedAst` | grouped nodes and the groups their results have | `grouped_ast.rs`, `groupify.rs` |
| `CheckUsages` | the backward walk | `check_usages.rs` |
| `BorrowSemantics` | forward executions of a grouped body, the specification the walk's verdicts are compared with | none: it says what the code should guarantee |
| `MCCheckUsages` | small functions, and the properties that compare the two | |
| `VivemHeap` | the heap as operators from heap to heap | `testvm/heap.rs`, `testvm/values.rs` |
| `VivemMachine` | frames and one action per expression | `testvm/expression_vivem.rs`, `function_vivem.rs`, `call.rs`, `vivem.rs` |
| `MCVivem` | types, locals and functions of the checked programs | |
| `PackageExploration` | the worklist over packages, files and imports | `lexing/lex_and_explore.rs` |
| `PackageExplorationProofs` | its theorems | |
| `Lexer` | from characters to nested brackets of tokens | `lexing/lexer.rs`, `lexing/lexing_iterator.rs` |
| `Parser` | from those to the tree of a function (EXTENDS `Lexer`) | `parsing/parser.rs`, `expression_parser.rs`, `templex_parser.rs`, `pattern_parser.rs`, `parse_utils.rs` |
| `Grammar` | how a tree is written and what a text ought to mean (EXTENDS `Parser`) | none: what the language says |
| `MCTexts` | trees and texts to read | |
| `CompileOnce` | the abstract specification of a compile: each function is asked for, compiled once, and what a body needs is asked for | none: what the queues promise |
| `TypingPass` | the schedule of `evaluate`, the tables, the two queues and the drain loop | `typing/compiler.rs`, `typing/compiler_outputs.rs`, `typing/function/*`, `typing/citizen/*` |
| `TypingPassProofs` | that `TypingPass` implements `CompileOnce`, that its result is complete, which of its assertions can fail, and its type invariant | |
| `Frontend` | exploration, then the typing pass over what was found (EXTENDS `TypingPass`, `PackageExploration` and `Grammar`) | the hand-over in `typing/compiler.rs` |
| `MCFrontend` | three packages that import each other, and packages of one function to be read | |
| `LocalTracking` | the move tracker of the expression compiler, next to what the emitted code does | `typing/env/function_environment_t.rs`, `typing/expression/*` |
| `LocalTrackingProofs` | its inductive invariant and theorems | |
| `LocalVerdictProofs` | that it neither panics nor refuses without reason (EXTENDS `LocalTrackingProofs`) | |
| `MCLocals` | its bounded instance | |
| `Instantiator` | the three queues, bounds, lambdas, itables | `instantiating/instantiator.rs` |
| `MCInstantiator` | small programs for it | |
| `Conversions` | which types convert to which, and what the conversion does | `typing/templata_compiler.rs`, `typing/convert_helper.rs`, `typing/types/types.rs` |
| `OverloadResolution` | one search for a function, from the environments to the converted arguments (EXTENDS `Conversions`) | `typing/overload_resolver.rs`, `typing/env/*`, `typing/function/function_compiler_solving_layer.rs`, `typing/expression/call_compiler.rs` |
| `OverloadProofs` | its inductive invariant and theorems | |
| `MCOverloads` | small programs and calls | |
| `VariableScout` | names, uses, captures and underscores of a function, next to the typing pass's lookups | `postparsing/expression_scout.rs`, `loop_post_parser.rs`, `variable_uses.rs`, `function_scout.rs`, `typing/env/function_environment_t.rs` |
| `MCVariableScout` | seven kinds of small function for it | |
| `VariableScoutProofs` | its inductive invariant and theorems | |

A definition whose name ends in a twist (`PathCoversSwapped`, `SolvableByAll`,
`ReturnKeepingRegister`, ...) and whose comment starts with "Mutant" is not
part of the model. It is a plausible bug, kept next to the definition it would
replace, and shows that some property notices it.

## 3. The rune solver and inference

**State.** `rules`, `open_rules` (`open_rule_to_puzzle_to_runes`), `all_runes`,
`conclusions` (`rune_to_conclusion`) and `steps` are the fields of
`SimpleSolverState`. `phase` is the program counter of
`incrementally_solve`: *continuing* inside the firing loop, *stalled* before the
callback, *finished* before `interpret_results`, then *solved*, *failed* or
*panicked*. `loop_check` is the counter of
`evaluate_generic_function_from_call`; `prog.checked` says whether this caller
has one (`solve_for_resolving` does not).

**Actions.** `SolveRule` fires the lowest rule with a met puzzle and commits;
the commit is the whole of `commit_step`, with the step recorded first and
conclusions inserted up to the first conflict. `RejectRule` is a rule's own
error. `StopContinuing` leaves the loop and asks `is_complete`. `AddDefault`,
`AddPlaceholder` and `GiveUp` are the callbacks. `Panic` collects the panics.
`interpret_results` decides between success and "incomplete".

**Rune typing.** `RuneTypeSolver` puts before the solve what its callers put
before it. `rune_to_type`, `open_type_rules` and `type_steps` are the state of a second
`SimpleSolverState` (`Typer`), over the rules of the *header*; `typing` is *running*,
then *typed*, *failed* or *panicked*. `SolveTypeRule` fires a rule by
`get_rune_typing_puzzles` and commits the types it says; `PanicTyping` is a bad template
application or an inherited rune of another type; `FinishTyping` demands that every rune
has a type, adds the senders as kinds and checks the known runes. Only then
`SolvingNext` lets `CompilerSolver` step. What is solved is not what was typed:
`CallSiteSolve` drops the definition's bounds and adds an equation per sent
argument, `DefinitionSolve` drops the call-site bounds and resolves,
`InheritingSolve` replaces the runes that come from the function around a call by known
values, and the rules of defaults join in the middle of the solve.

**Data.** A templata is a term (kind, template, citizen, reference, list,
prototype), a template has the types of its parameters (`TemplateParams`), and one of them
takes its size first, as arrays do. The rules are all twelve variants of `IRulexSR`.
`find_function` is the constant
`Overloads`. A step's conclusions are pairs in the order the code inserts them
in its map, a repeated key taking the last value at the first position, as
`IndexMap` does.

**Properties.** `Holds` says what a rule means without regard to how it fires,
`Derivable` what follows from the puzzles in any order, and `Satisfies` when a
total assignment solves the input, each rule in its full meaning (`FullyHolds`: a call
writes every argument, what has parts is made of them). With them:
`ClosedRulesHold`, `ConclusionsForced`, `FailuresJustified`, `StopsAtClosure`,
`SolvedIsSolution`, `ConclusionsAreFinal`, `FillsOnlyUnderivable`,
`Ends`. `PanicsHaveCauses`: each of the solver's assertions is modelled (the "expected a
kind" of references, lists, calls and functions, the length of a kind list, the assert on an
added rule's runes, the infinite-loop check), and one of them fails for three reasons only.
The parameter whose turn it is has a default that cannot give it once the earlier
parameters are known (section 13's first finding); a rule reads a rune of another type than
it was typed with, which an ill-typed default has put there; or a template is applied to
fewer arguments than it has parameters, which neither solver counts. Of the typing:
`TypingIsReference` compares its verdict and its types
with `Demands`, the least relation that has what each rule says of what it has; and
`ConclusionsHaveTheirTypes` says that the two tables agree: whatever the solve concludes,
through defaults, placeholders, sends and resolved functions, has the type its rune was
given. An ill-typed default is exempt, since the rules of a default are typed nowhere
(`TookIllTypedDefault`; a hazard with a note). `TypeOK` and `CompleteMeansAll` are
proved and not run.

**Bounds.** Nine runes, three rules out of a pool of fourteen in every order, which
suffices for a rule that fires before, after and because of another and for a conflict
between two; and two generic parameters, which suffices for a parameter that must wait
for the other. Functions are called and compiled with two parameters, each a kind or an
integer, with six where clauses (bounds among them), six forms of a parameter's type
and four sent arguments: a header that is typed one way and solved another needs a
bound, a send and a default at most. Types written at a call inherit one or two runes.
`ConclusionsForced` and `FailuresJustified` quantify over a finite set of total
assignments built from four kinds, two integers and an array type. The inputs obey
what the callers guarantee
and the code relies on: definition-side and call-site function rules never meet
(asserted at `compiler_solver.rs:259`), a template name is looked up before the
call that applies it, lists of kinds are as long as each other (a candidate of another
arity is refused first), and no known rune is a kind list or a prototype, whose type
the code panics on when asked. `Givens` lists what a solve can be given: knowns, what
names and literals stand for, what functions return, and the parts of these. A header's
rules are otherwise as typed or ill-typed as the programmer likes.

**Fairness.** `WF_typedVars(TypedNext)`, for `Ends`. Typing and solve are two
loops of one thread with nothing to wait for, so they do not stop while a step is
possible. Deadlock is not checked, since a solve that is over stops.

## 4. The borrow checker

**State.** `agenda` is the recursion of `check_ge` made explicit: a stack of
nodes to visit and of what follows an arm or a loop body. `pending` is the
`PendingMap` (a sequence, since insertion order decides the order of errors at
one position), `break_targets` the post-loop sets, `errors` and `next_held` the
fields of `Walk`. `finished` marks the sort and dedup at the end.

**Actions.** One per arm of `check_ge` (`ReadLocal`, `Born`, `Forward`,
`Consumes`, `LookupPlace`, `FunctionCall`, `Bind`, `Stores`, `Returns`, `Breaks`,
`Sequence`, `Discards`, `Destroys`), three for an `if` and two for a loop, whose
arms do work between and after the recursive calls, and `Finish`.

**Grouped nodes.** A node is a record built by one constructor per construct of
`groupify_expression`; the constructor computes the groups of its result and the
churns of a loop's subtree as groupify does. A type is reduced to the groups it
mentions. What is left out is the substitution of a callee's group parameters:
a call node carries the churns and result groups this substitution produces.

**Reference.** `BorrowSemantics` executes a body forward, in evaluation order,
with either arm of every `if` and any number of rounds of every loop. A value
carries the churns that destroyed what it points at; using it is a stale use.
It uses RECURSIVE operators, so that no theorem can be stated in a module that
reaches it; `CheckUsages` and `GroupedAst` do not.

**Properties.** `AcceptedIsSound`: an accepted function has no stale use in any
execution. `ReportsAreReal`: each reported use is a stale use of some execution,
by the churn the report names. `BirthsAreFound`: nothing is pending at the start
of the function. `ChurnsAreDeclared`: what an accepted function churns of its
caller is in its declared effects.

**Bounds.** `borrow_walk` checks 7568 functions: all sequences of four of six
straight-line statements; a branch, a loop, a loop with an early exit or a loop
in a loop, before or between other statements; pairs of them; temporaries as
arguments; joint arguments; holders that are destructured; an ellipsis group;
declared and undeclared churns. Three statements are what the known hazards
need (take, churn, use), and two control constructs in a row what a join needs.

**Excluded from the passing run**, because the code is wrong or unspecified there: a
store to a reference inside a loop (`borrow_loop_carried` shows it); a store whose
source churns what the place points into; an `if` whose arms borrow from different
groups and a store between references of different groups (these are hazards with a
note); statements after an `if` both of whose arms return.

## 5. The TestVM

**State.** `heap` is `HeapV.objects_by_id`: per object its kind, value or slots,
whether it is live, and its bags of strong and weak referrers. `frames` is the
call stack with locals, arguments not yet taken, and registers: the references
the interpreter's own Rust variables hold.

**Actions.** `execute_node` evaluates operands left to right and then does its
work; an action is that work, taking operands from the end of the frame's
registers. The next expression is any whose operands have the right static
types, so that a behaviour is the execution of some well-typed straight-line
program. `Unborrowed` is the borrow checker's promise about an
owner that is consumed whole (discarded, stored, passed to an extern call or used
as an array's size). Destroy and the array's destruction do not assume it, so
that "constraint violated" can be reached and `ErrorsAreJustified` has something
to say.

**Faults.** An assertion or panic of the heap sets `fault` to "panic",
"Constraint violated" sets it to "constraint"; both end the program.

**Properties.** `Holdings` lists who holds what, from the frames and the object
slots alone. `ReferrersAreExact` compares every object's bags with it.
`LiveMeansOwned`, `NeverPanics` (with the leak check at the end),
`ErrorsAreJustified`, `InlineStructsStayPut` (`testvm/testvm-design.md:23`).

A member or an element is looked up through its container, whose liveness is checked first,
and handed out as a reference of its own (`Lend`).

**Bounds.** `MaxAllocations` (4 to 7) is the number of objects ever made,
`MaxRegisters` 2 the operands in flight, `MaxDepth` 2 the nested calls, `Capacity`
2 the size of arrays. Two objects of a type suffice for an overwrite, two
operands for every expression modelled, a caller and a callee for a call. A
program that has used its allocations can be stuck, and a finished one stops:
deadlock is not checked. The run `vivem` is three kinds of program in one:
structs, arrays, and calls with weak references, each with bounds of its own.

**Excluded from the passing run.** Weak references and stores are not mixed (a
weak reference to an overwritten source keeps it alive, sharing its fields), a
struct member is not itself a struct in what is overwritten, and weak locals are
moved, not looked up; nothing is copied by CopyPrim. Each is a hazard in
PROJECT.json, with a note.

## 6. Exploration and the typing pass

**Exploration.** `unexplored` and `started` are the hash sets of
`lex_and_explore.rs`; a package is any of the unexplored ones, its files come in any
order, a file's imports come before its other denizens. Handling a function is
reading it: a file that does not lex stops everything with an error, a function that
does not parse is a panic (`expect_parsed`), and so are an import after another
denizen, a package without a source and a file handled twice. `ExplorationIsExact`:
at the end the started packages are the least set that has the roots and what its
files import, each of their files was handled once, and each denizen of a file once,
with all the imports of that file; and a failure or a panic is owed to something
reachable. TLC evaluates as `SourcesAssumption` what the theorem assumes: a file is
in one package.

**Reading.** `Lexer` and `Parser` are functions, from the text of a function to its
tree or to "none", "bad" or "panicked", with the order in which constructs are
tried, what each attempt consumes although it fails, and how operators are bound
from a flat list of operands (`descramble_elements`). `Grammar` says what a tree
looks like when written (`Write`) and when its operators are bracketed as their
precedence says (`AllBracketed`). `ReadingIsExact`: a tree that is written is read
back as it was, and a text that is read has the meaning of what can be written of
it, none of the tokens of its statements lost. TLC reads 125 chains of three
operators on four operands, 602 elements with their prefixes and suffixes, 232
bodies, 828 headers, and 4 655 texts of up to four pieces in any order, of which 775
are read at all. An identifier or a number is a single item of a text, and positions
in the text are left out. What a reading comes to is a field of its denizen, which
`ReadingsAssumption` makes TLC compare with what the parser makes of it.

**Typing pass.** `todo` is what is left of the straight-line phases of
`Compiler::evaluate`: declare every citizen, compile them package by package,
then a header for every top-level function; then the last loop peeks at the head
of `deferredFunctions`, or if that is empty of `deferredBodies`, compiles it and
marks it compiled, with the assert that it still is the head. Lambdas and closure
drops are compiled in the middle of the body that uses them, so a body is
compiled on a `stack` of frames. A function is declared before its header is
made and a second declaration is an assert; Rust functions are postparsed when
something first calls them. A panic or `unwrap` in any of this is `Panic`.

**Composition.** `Frontend` runs the one and then the other: the namespaces the
typing pass compiles are those of the files exploration handled, in that order.
Every order the hash sets can give is therefore checked against the asserts of
the pass.

**Properties.** `RefinesCompileOnce` (the abstract specification `CompileOnce`),
`ResultIsComplete` (at the end what was compiled is the least set that has what was
written and whatever its bodies mention, its bodies were checked by the borrow
checker, and its externs reported; a failure is owed to a body that every such set
has), `PanicsAreOrderOrRecursion` (two assertions can fail and no other: a header looks
up a struct that is compiled later, section 13's third finding, or a lambda that was
handed itself is called in its own body and so declared a second time),
`ReadingIsExact`, `Terminates` under `WF_vars` of the next-state relation: one
thread, which waits for nothing. `TypeOK` is proved and not run.

**Bounds.** Three packages that import each other and themselves, one of two
files, one of them importing from Rust; twelve functions, one or more of every
kind (code, extern, generated, lambda in a lambda, closure drop, Rust), with
recursion; an interface whose method returns a struct of another package, which is
compiled before it in some orders and after it in others. `WellFormed` is
what is assumed of a program, and TLC evaluates it as `ProgramsAssumption`: bodies where
there can be bodies, and that the schedule comes to every citizen and to what was written,
and to nothing else. The last is a fact about the folds of `Schedule`, which cannot be proved (it is
an induction over the packages) and is therefore evaluated for each program instead. `Linked`,
evaluated as `LinkedAssumption`, is what the assertions depend on. `Orderly`: no two tasks
declare the same thing, because a signature and a citizen are written once (a second
signature is the `FunctionAlreadyExists` panic of `declare_function`), a citizen's
`precompile` comes before its compile, what gets a header is indexed, and what is
resolved outside a body is indexed or Rust's. `Resolved`: what bodies mention and return types name is there,
because overload resolution and the rune solver found it; a closure is made of a drop; and
the drop of a closure is called where the closure is made (`StaysWithin`): in the body
that makes it, after that, or in a lambda that is compiled in the middle of such a body.
The programs take every complete order of the files, with `app`, which nobody imports,
left out or not, and with or without the Rust package. Texts are
explored as packages of one function each.

## 7. The move tracker

**State.** `env` is the `NodeEnvironmentBox` of the block at hand: the locals
declared, unstackified (moved out) and restackified (filled again); `pending`
the temporaries the open statement must drop; `type` whether the block so far
has type Never; `frames` the constructs around it, with what each needs when it
ends. `worlds` and `fault` are not the compiler's: for every way to execute the
emitted code up to this point, `worlds` has the set of locals that hold a value,
and `fault` becomes what the emitted code does wrong.

**Actions.** The program is not given; an action is the next construct of any
program, or the end of an open one, together with all the compiler does there:
`Let`, `LocalLoad`, `Unlet`, `LocalMutate`, `Restackify` (a pattern that sets),
`MakeTemporaryLocalBorrow`, `EndStatement`, `CallPanic`, `Return`, `Break`, entering
and leaving blocks, ifs and whiles, `LeaveFunction`.

**Properties.** `HeldIsTracked`: on every path exactly the live locals of the
environment hold a value. `NothingMishandled`: nothing is used, dropped or
overwritten after it moved, filled twice or left behind. `NeverIsUnreachable`:
no execution comes past an expression of type Never. `RejectionsAreJustified`:
each of the three errors about moves has a path that deserves it. `NeverPanics`.

**Shapes left out** (`Admitted = {}`), because the tracker does not track them;
each is a hazard: a break after an outer local moved in the loop; a local moved
outside a block and set inside it; a loop whose body ends in a return
(`locals_loop_return`); a local moved twice by `^`; a pattern that overwrites; an
`if` neither of whose arms goes on and whose arms moved differently.

**Bounds.** Two locals, which can be one outside and one inside a block, or two
that move on different arms; depth three, a loop in a function and an if in it,
which is how `while` is desugared. The theorems of section 12 have no bounds.

## 8. The instantiator

**State.** The fields of `InstantiatorOutputs`, by name: the translated functions,
structs and impls, `interfaceToImpls`, the abstract functions asked for with
their slot, the itables (`vtable`), the three queues; `blueprint` of the result.

**Actions.** One step of `drain_instantiation_queue`: a function if one waits, else
an impl, else an abstract function, which fills the itables of the impls known
by then (a later impl fills its own); then `Assemble`. Translating a body asks
for its callees, structs and impls in order. A callee inherits its caller's
bounds when its name starts with the caller's name, as a lambda's does.

**Properties.** `ResultIsLinked`: what is in the result is what the program needs,
computed by reachability from the exports alone, and every itable has an
override in every slot. `PanicsAreJustified`: it panics only on two shapes, an
impl first met after its interface's abstract functions were asked for with no
override at hand, and a lambda that calls its sibling. `Terminates`, under
`WF_vars(Next)`: the drain loop is one thread's. The programs do not recurse
through ever larger kinds; such a program never ends, in the code too.

**Bounds.** 2 063 programs: two levels of lambda, a generic function with a
function bound, one with an impl bound, an interface of two methods with two
impls, kinds `int` and `Box<int>`.

## 9. Overload resolution

**State.** One search for the functions of a name: `call` (the arguments' types,
explicit template arguments, whether the match is exact, and the program's
functions of that name), `toSearch` the environments still to be looked into,
`found` the candidates and where each was found, `tried`, `successes` with their
prototypes, `verdict`. The code keeps these in the locals of `find_function`.

**Actions.** `Search` looks into one environment: the calling one, those of the
arguments' kinds, those of the interfaces a placeholder argument has a bound for.
`Attempt` tries a candidate: what the arguments send to the parameters' runes, the
solve, the comparison of the parameters (`params_match`). `Narrow` filters the
banners argument by argument and decides. `ConvertArguments` is what
`evaluate_call` then does with the arguments. The code has one order of search and
of attempts; the model has all of them, so that what it shows does not hang on an
order that no caller knows of. A panic of `is_type_convertible` is a verdict.

**Conversions.** A type is some borrows (or a share) around a kind. `Convertible`
and `Convert` are two functions of the code that answer the same question in two
places, one before and one after a function has been chosen.

**Properties.** `VerdictIsReference`: the verdict is the one the visible functions
call for, said of the program alone: `Visible` functions, of these the `Fitting` ones,
of these the `Best`.
`AcceptedArgsConvert`: what `is_type_convertible` accepts, `convert` converts, but
for a borrow of a borrow.

**Bounds.** Every type of zero to two borrows around five kinds, `never` and the
forms of `str`, as the one argument of all programs of up to three of sixteen
functions, exactly and not; two arguments of programs of up to three of eight; wrong
numbers of arguments and of template arguments. Three functions suffice for two that
each beat the third or each other at one of two arguments. A call that is resolved
stops: deadlock is not checked, and nothing is said of fairness, since a search has
finitely many steps. TLC evaluates what the theorems assume: `KindsAreDisjoint`,
`CalleesAreDeclared` (a where clause's bound has no runes of its own, each rune is
the type of a parameter), `BoundsNest` (the denizens around a call are around each
other) and `CallsAreTyped` (`Argument`: borrows around a kind, of which the
innermost may be counted).

**Assumed of the solve.** It is that of section 3 for the rules a parameter gives
rise to, so it is here what it comes to: a rune is what every argument says it is,
and the where clause is a set of types it allows.

## 10. Variables of the postparser

**State.** `frames` is the stack of `StackFrame`s around the point at hand: the
blocks, with the locals declared in each and how each is used so far (`self` by
the function's own code, `child` by the lambdas in it), and the ifs whose arms
are not yet joined. `decls` numbers the declarations, so that two locals of one
name are told apart; `fns` the function and its lambdas, with what each captures;
`flags` is what the `LocalS` of the finished blocks say. `uses` is no state of
the code: every use as it was met, of which the flags must be the summary.

**Actions.** As in section 7 the program is not given; an action is the next
expression of any function that declares or uses a variable, or the beginning or
end of a block, an arm, a loop or a lambda, with everything `scout_expression`
and `new_block`, `new_if`, `new_while`, `new_foreach` or `scout_body` do there.
The typing pass follows the same order over the same expressions, and its own
lookups (`get_variable`, the check for shadowing, the creation of a closure) are
taken in the same step; its panic ends the run.

**Properties.** `FlagsAreExact`: what the flags of every local say is what the
code and its lambdas do, although they travel through joins of arms, filters at
the end of blocks and two levels of lambdas. `LambdasAreExact`: a lambda captures
what it or a lambda in it uses from outside, no two of one name, and its magic
parameters are the underscores written in it. `NamesAgree`: the postparser takes
the nearest local of a name, the typing pass the oldest of the function's own and
else a capture; they mean the same.

**Bounds.** Seven kinds of function, each leaving out some constructs so that the
others can be combined: lambdas in blocks in lambdas, arms of ifs, short circuits,
underscores, constructors, whiles and foreaches, with two or three locals, up to
two lambdas and up to six uses. Two locals of one name are what a wrong lookup
needs; a lambda in a lambda what a capture that only passes through needs.

**Abstracted.** What was moved out is left to section 7. Locals are not named like
the function itself or like runes. A while's two empty outer blocks are one. Every
lambda is taken to be called, as the typing pass compiles none that is not. The
end of the function is the end of the scout: deadlock is not checked, and nothing
is said of fairness, since the order is that of the source text.

## 11. Runs

| run | distinct states | shows |
|---|---|---|
| `solver` | 56 580 | for all lists of three rules from fourteen, five sets of knowns, two generic parameters, calls, definitions and written types: typing is what the header demands, conclusions have their runes' types and are forced, failures real, the loop stops only at the closure, success means a solution, defaults and placeholders fill only what cannot be derived, a panic has one of three causes, everything ends |
| `borrow_walk` | 434 308 | the walk accepts only sound functions and reports only real stale uses, within the bounds above |
| `vivem` | 359 989 | exact counting and lifetimes through every way to build, lend, overwrite and destroy a struct; the same for arrays of structs, across calls and for weak references |
| `frontend` | 52 072 | exploration and typing pass in every order: complete, each function once, no assert trips but the two known ones, it ends; what is written is read back, what is read loses nothing |
| `locals` | 424 052 | every function body within the bounds: the environment is exact, so every local is moved or dropped once |
| `instantiate` | 24 591 | the result is linked and complete, panics are the two known shapes, it ends |
| `overloads` | 500 919 | the verdict on a call is what the visible functions call for, in every order of search and attempts; accepted arguments convert |
| `scout` | 2 388 176 | every function of seven kinds: uses, captures and underscores are those of the code, both passes mean the same variable by a name |
| `borrow_loop_carried` | violation | a stale value carried to the next round is accepted |
| `locals_loop_return` | violation | a loop that ends in a return is taken never to be left |
| `instantiate_slots` | violation | a virtual call's slot is counted among all methods, the itable has the called ones |
| `instantiate_recursion` | violation | a generic function calling itself for another kind passes on its own bounds |

Run one with `tlc -workers 2 -config solver.cfg MCCompilerSolver`.

## 12. Proofs

The theorems hold for every value of the constants that the named assumptions allow:
every set of runes, rules, solves, overloads and array templates, every header and
its solve, every program of the typing pass, every source of packages, every number
of locals and depth of nesting, every hierarchy of types, set of functions and call.

| theorem | says |
|---|---|
| `CompilerSolverProofs!TypeCorrect` | `Spec => []TypeOK` |
| `ConclusionsStayFinal` | `Spec => ConclusionsAreFinal` |
| `CountsSuffice` | `Spec => []CompleteMeansAll` |
| `ClosedRulesAlwaysHold` | `Spec => []ClosedRulesHold` |
| `SolvedMeansSolved` | `Spec => []SolvedIsSolution` |
| `NothingIsGuessed` | `Spec => []ConclusionsForced` |
| `FailuresAreReal` | `Spec => [](FailuresJustified \/ FinishedKindRefused)` |
| `StopsWhenNothingFollows` | `Spec => [](RulesFit => StopsAtClosure)` |
| `FillsAreLastResort` | `Spec /\ []RulesFit => FillsOnlyUnderivable` |
| `TypedIsSolve` | `TypedSpec => Spec`: a solve that was typed first is a solve |
| `TypedSolvesAreSolutions` | `TypedSpec => [](ClosedRulesHold /\ SolvedIsSolution)` |
| `TypedMeansWellTyped` | when the typing succeeds, every rule of the header is well-typed |
| `TypesAreForced` | a header that can be typed is typed in that one way, and refused only for an unknown name or an undetermined rune |
| `TypesArePreserved` | `TypedSpec => []((\E T : Granted(T)) => ConclusionsHaveTheirTypes)` |
| `PanicsAreExplained` | `TypedSpec => [](RulesFit /\ Orderly => PanicsHaveCauses)` |
| `TypingPassProofs!TypeCorrect` | `Spec => []TypeOK` |
| `CompilesOnce` | `Spec => RefinesCompileOnce`: every step of the pass is a step of the abstract compile or stutters |
| `CompilesExactly` | `Spec => []ResultIsComplete` |
| `PanicsAreKnown` | `Spec => []PanicsAreOrderOrRecursion` |
| `PackageExplorationProofs!TypeCorrect` | `ExplorerSpec => []ExplorerTypeOK` |
| `ExploresExactly` | `ExplorerSpec => []ExplorationIsExact` |
| `LocalTrackingProofs!TypeCorrect` | `Spec => []TypeOK` |
| `EnvironmentIsExact` | `Spec => []HeldIsTracked` |
| `EmitsNoMishandling` | `Spec => []NothingMishandled` |
| `CutCodeIsDead` | `Spec => []NeverIsUnreachable` |
| `TranslationNeverPanics` | `Spec => []NeverPanics` |
| `RejectsOnlyMisuse` | `Spec => []RejectionsAreJustified` |
| `OverloadProofs!TypeCorrect` | `Spec => []TypeOK` |
| `AcceptedTypesConvert` | an accepted argument never makes `convert` panic, and is refused by it only as a borrow of a borrow |
| `AcceptedArgumentsConvert` | `Spec => []AcceptedArgsConvert`: the same of the arguments of a resolved call |
| `SurvivorsAreBest` | the filter leaves the banners that no other beats at any argument |
| `GivenIsUnbeaten` | whatever is called takes the arguments, and no fitting function is more exact at any of them |
| `VerdictsAreReference` | `Spec => []VerdictIsReference` |
| `FlagsAlwaysExact` | `Spec => []FlagsAreExact` |
| `LambdasAlwaysExact` | `Spec => []LambdasAreExact` |
| `NamesAlwaysAgree` | `Spec => []NamesAgree` |

**Solver: assumptions.** `RulesAssumption`: a rule is one of the twelve variants, its
runes are runes, and a function rule's return rune is not one of its other
two (they have different types: a kind, a kind list, a prototype).
`ProgramsAssumption`: an input's rules, knowns and defaults are over its runes.
TLC evaluates both on every solver run.

**Solver: argument.** `TypeOK` is inductive, by a lemma on `commit_step`
(`CommitKeepsStateOK`) and one on finding the lowest solvable rule. `Declared` adds
that every rune of a rule, and every conclusion, is in `all_runes` and that these
are finite; this is what makes the comparison of two sizes in `is_complete` mean set
inclusion. `ClosedRulesHold` is not inductive: a rule may hold of the conclusions
because a rune it reads has *no* conclusion yet, and be broken by the next one. The
invariant `ClosedInv` therefore says that a closed rule is `Settled`: it holds *and*
every rune it reads is concluded. Conclusions are only ever extended
(`CommitExtends`), an extension leaves a settled rule settled (`StaysSettled`), and
firing a rule settles it whichever puzzle fired it and whatever was already known
(`FiringSettles`, one case per variant). `RunesDistinct` is necessary: with a
repeated rune the statement is false. `Quiet` says that a loop which has stopped has
nothing solvable. It gives `SolvedMeansSolved`: all runes are concluded, so every
open rule would have a met puzzle, so there is none, so every rule is closed and
holds.

**Solver: what is concluded.** `NothingIsGuessed` fixes an assignment that satisfies
the program and shows that the conclusions agree with it (`Agrees`): whichever
puzzle fires a rule, what it writes is what the rule's full meaning leaves no choice
about, and the same of a default, whose rules have joined the others by then. A
conflict then refutes every assignment, since it would have to agree with two
answers, and so does a rule's own error, with one exception that the theorem names:
`FinishedKindRefused`. `solve_call_rule` takes a known result apart only if it came
from a template, so that a *finished kind* applied to no arguments is refused when
the result is known first. Names are looked up before calls are solved, so the order
of the postparser's rules keeps this from happening, and TLC sees it in no run; but
that order is nothing the solver checks. `StopsWhenNothingFollows` needs that firing
a rule leaves none of its runes open, which `Exact` says of what has fired
(`Covered`) and of what is known (`OnlyDerived`). A call that writes more arguments
than the known result has (`Opt<A, B>` of an `Opt<int>`) leaves the others open for
good; `RulesFit` says there is none. (A kind list of another length is a panic.) TLC
found no stopped state of `solver` without `RulesFit`.

**Solver: the loop check.** `evaluate_generic_function_from_call` allows one callback for
each generic parameter and a last one. The lemma `StuckOrAsserts` says that this is enough: the
check trips, and the asserts on an added rule, only where the default whose turn it is
does not suffice (`DefaultSuffices`: every set of runes that has the earlier parameters
and is closed under the default's rules has the parameter). The invariant `LoopInv` says
that while a checked solve goes on there is a callback left for each unsolved parameter
and a last one, or a default was just added which may still give its parameter
(`DefaultPending`), or one was added in vain (`DefaultFailed`): its rules are among the
rules, what is known is closed under all of them, and its parameter is unknown. That
refutes `DefaultSuffices`, and since the parameter stays the first unsolved one, it is the
default that is added again and again. A solve with a failed default never leaves that
state, because all the default can add is there already. `RulesFit` is needed to know
that a stopped solve is closed. What remains is `RuleAsserts`, an assertion in the arm of
the rule that fires, whose causes need the typing (below). TLC checked `LoopInv` on all
states of `solver` before it was proved.

**Rune typing: assumptions and argument.** `TemplatesAssumption`: a template's
parameters are kinds and integers. `HeadersAssumption`: a header names templates
that exist, its generic parameters have types, a sender's rune occurs in no rule, and
the rules solved are the header's, without the inherited ones, and equalities.
`TypedInv` says that a rule that has fired is `RuleTyped`: the runes it is
about have types and these fit. That is not so of a rule that names a rune twice
(`NamesOnce`), whose conclusions collapse in a map. `FiringTypes` shows it of the
rule that fires, one case per variant; `StaysTyped` of the others, since a step
without a conflict retypes nothing, nor does the entry of the senders. That a
template's parameters can be zipped with its arguments needs that every type on file
is one (`WellFormedTypes`, by `ConcludedAreTypes`). When nothing is solvable and
every rune has a type no rule is open, because each has a puzzle over its own runes.
`TypedIsSolve` then carries the theorems on solves over.

`TypesAreForced` is the converse. Whatever `T` types the header (`HeaderTyped`: the given
types, and every rule), the types on file are those of `T`, so that there is one such `T`
at most on the runes the rules determine; no rule panics and no two types conflict; and a
typing that fails has met an unknown name, or has a rune that no rule can give a type any
more. `FiringIsForcedByTypes` is its lemma, one case per variant; the generic lookups that
are typed before any rule fires need that one of them is the last (`InitialLookup`). Unlike
`TypedMeansWellTyped` this needs no `NamesOnce`.

**Rune typing: the solve keeps to the types.** `TypesArePreserved` relates the two tables
of what a rule says. A known reference is unwrapped, a citizen and a list are taken
apart, so that the type of a conclusion hangs on the parts of others, to any depth. No
recursion over templatas is needed to say so: a set `W` of templatas is well made
(`WellMade`) if each has its parts in `W` and these have the types their places demand,
and the invariant `TypesAgree` says that there is such a `W` with all that was concluded
in it, and that each conclusion has its rune's type. What a rule concludes is taken one
pair at a time (`Concludes`). `ConclusionIsMade` has one case for each variant and each of
its puzzles: a conclusion is in `W`, or is put together of what is, and then `W` grows by
it (`StaysFounded`). This much needs no typing, since the arms check what they read
(`ArmsCheck`): a reference is to a kind, a citizen is made of as many arguments as its
template has parameters, each of its type. `ConclusionIsTyped` adds that the conclusion has
its rune's type if the rule is typed. `GivensAssumption` starts it off: whatever comes from
outside (knowns, names, literals, what functions return) is well made, and no list and no
prototype. Since the solve has rules and runes that the typing never saw, the theorem asks
for an extension `T` of the header's types (`Granted`) by which these rules are typed too:
those of defaults and of the sent arguments. Of the header's own rules it asks only that
they name no rune twice; that they are typed is `TypedInv`. TLC confirmed on `solver`
that every solved state without an ill-typed default is granted by the header's types
with integers for the defaults' literals, so that the premise is met where it should be.
The comparison with `Demands` (`TypingIsReference`), which adds that a rune without a
type is one the rules give none, stays with TLC.

**Solver: panics.** `PanicsAreExplained` puts this together with the loop check: an
assertion in an arm fails only where the rule reads a rune of another type than its own, or
applies a template to too few arguments. `TypedRuleIsSafe` is one case per variant: a typed
rule whose runes have their types finds a kind where it unwraps or wraps a reference, kinds
in its lists, a prototype where it takes a function apart, an argument of the right type
for each parameter. That `W` exists whether or not the solve is typed is needed here,
because a solve that panics may have concluded other ill-typed things on the way. What the
types do not tell is the length of a list, so the invariant also says that each list and
prototype is as long as its rune is, for every `N` that gives the runes such lengths
(`Measures`, `LengthsAgree`). `Orderly` is the premise that there is such an `N`, that the
header's rules name no rune twice, and that defaults and sent arguments are names, literals
and equalities. The postparser's headers are like that: the parameter list of a function
rule is a rune of its own, made by one kind list next to it. An inherited rune's lookup,
which the solver panics on, is never among the rules (`RulesAreOwn`).

**Typing pass: argument.** The inductive invariant `NothingIsLost` says where each
function asked for is to be found: declared functions have a header or are at the
head of the queue or on the stack, each is in at most one place, and what a finished
body needs was asked for. From it each action maps to the abstract compile's ask,
begin or finish, or to a stutter. `CompilesExactly` adds `ResultIsComing`, in two
directions. What has been handed out is needed: it is in every `Sufficient` set, the
sets that have what was written and are closed under what bodies mention. And what
is needed is handed out, scheduled, deferred, or mentioned by what is left of a body
on the stack (`Fits` says that a frame's work and what is left of it are its body).
At the end nothing is scheduled, deferred or on the stack, so that what was handed
out is sufficient, and the least such set. TLC checked the invariant on some 41 000 states
of `frontend` first.

**Typing pass: assertions.** `PanicsAreKnown` takes every `panic!`, `assert!` and `unwrap`
of the model's actions and shows that it cannot fail, or that one of the two known shapes
is there. It assumes `LinkedAssumption` (section 6) as well. The invariant is
`NothingTwice`. `Afresh`: what is still scheduled declares nothing that was declared, and
a citizen that is still to be compiled was precompiled or will be before. `InIndex`: what
was declared or deferred can be looked up. `InQueues`: a queue has no function twice; a
function that waits for its header is not declared, one that waits for its body is not
added, but for the one that is being drained, which heads its queue; this is what the
assert after a drain needs although compiling enqueues more. `OnStack`: a body is on the
stack once, is not checked yet, and is not added until its steps are done; a body of
written code is there only while it is drained; and what is left of a body is its last
steps, those before having been met (`SoFar`). `ClosuresMade`: whatever set of lambdas a
drop stays within, its closure was made if one of them is on the stack. A call of a drop
then finds it, since its closure was made earlier in the body, or the body is such a
lambda. A lambda or a drop that was declared and not added must be on the stack, so it is
called in its own body; a header's citizen that was not compiled is still to come, and
after the schedule there is none. Without the second shape the invariant is false, and
TLC shows it on the program of `frontend` whose lambda is handed itself.

**Exploration: argument.** The invariant is that of a graph search: what was started
or waits is reachable; what a handled file imports was started or waits; the files
of started packages wait, are at hand or were handled, and are only one of the
three. Of the file at hand it says that its denizens are what was handled followed
by what is left, and that the imports found are those among the handled; an import
after another denizen would have stopped it. Nothing is assumed of what imports
what, or of which packages have a source.

**Move tracker: argument.** Assumed: `Admitted = {}`, the program has none of the
shapes of section 7. `HeldIsTracked` is not inductive, since a construct ends
with what its frame remembers. `Tracked` adds, of every frame: the paths that
entered it held what its environment takes for live (`FrameOK`); the exits of a
loop hold what the loop began with, since a break with an outer local moved is
one of the shapes; the then arm's paths hold what the arm's environment says
(`ThenArm`); and what is inside has moved at least what had been moved outside,
and is dead where the outside is (`Around`, for every pair of frames). `EndOfBlock`
and `EffectsOnOuter` say what `get_effects_since` recovers of it, and
`EffectsResumed` that the parent's environment is exact again. TLC checked
`Tracked` on the instance of `locals` before it was proved.

**Move tracker: verdicts.** `LocalVerdictProofs` builds on `Tracked`. `NeverPanics`
needs that a temporary is still alive when its statement drops it. That is not so
within a statement that has returned in the middle, because a return drops every
live local and marks it so; `TemporariesKept` says that a pending temporary is live
unless something between it and here is of type Never, and then the end of the
statement drops nothing. `RejectionsAreJustified` needs a path to blame:
`PathsComeHere` says that some execution comes to each point that is not dead, and
to each frame's entry. TLC checked both invariants for three locals and depth three
(10.0 million states) before they were proved.

**Overloads: argument.** Assumed: what section 9 lists. `AcceptedTypesConvert` is
about the two tables, by cases on which one accepted and a comparison of how many
borrows the two types have. The inductive invariant of the search is `TypeOK`,
`FitOnly` (a success takes the arguments) and `Unbeaten` (a verdict's banner was a
survivor); `FitOnly` is what `SurvivorsAreBest` is applied to when `Narrow` decides.
`VerdictsAreReference` adds in `RInv` that what was found is visible and what is
visible is found or waits in an environment still to be searched, that the successes
are the fitting ones among what was tried, and that a verdict is that of the
reference. It rests on three comparisons of the code with the program: the
environments searched have exactly the visible functions (`FoundAreVisible`); what
the solve concludes of a candidate's runes is the one assignment of types to them
that the parameters ask for, if there is one (`ConcludedAsKnown`,
`PrototypesAreBanners`); and the outermost of the bounds is one that encloses the
others (`OutermostEncloses`, from `BoundsNest`). For `AcceptedArgumentsConvert` the
types that `AcceptedTypesConvert` is about must be those of real arguments and of
the parameters they instantiate (`ParametersOfArguments`), counted instances
included.

**Postparser's variables: argument.** Assumed: `SelfIsAName`; the bounds of a program
can be any, so that the theorems are about every program. `FlagsAreExact` speaks of
the end alone, and the other two are not inductive either. The invariant `Good` says
of the open frames where every use is: a use waits in a frame of the innermost open
function that it is in, as the function's own or as one of a lambda's, or it is
flagged; and whatever waits or is flagged was a use. It says that a use that waits
is of a local in scope, or an underscore of the function it waits in, and that no
function between the local and the use has another of the name in scope: that makes
a lambda's captures exact and lets them be told apart by name. Last, no function has
two locals of a name in scope, so that the nearest and the oldest are one; the
postparser does not see to that (it compares within a block alone), the typing pass
does by its panic on a shadowed name, and a mutant without this check breaks
`NamesAgree`. `Good` is about functions from frame numbers to sets, and is kept by
five changes of these (`GoodExtends`, `GoodPushes`, `GoodCloses`, `GoodCreates`,
`GoodFinishes`); `Scouted` reads it off the frames, where the uses of an if are
spread over its condition and arms; `Shape` says which frames are around which, so
that an arm is never joined to nothing. A function "in" another is said without
recursion, by the sets closed under the lambdas of their members.

**Only model-checked.** Liveness (`Ends`, `Terminates`). `TypingIsReference`, which
is about a least relation over the header's rules, defined in rounds, so that a proof
would be an induction over data. What reaches a RECURSIVE operator: all
properties of the TestVM, whose `cleanup` is recursive over the type of what it
destroys; those of the borrow checker, which compare it with recursive
executions; the instantiator's, whose reachability is recursive;
`ReadingIsExact`, since a parser is.

## 13. What the models found

Places where the code does something its own documents, comments or tests
exclude; each but the first and the third has a run of its own, see "findings" in
PROJECT.json.

1. A default that names a later generic parameter runs into the loop check's
   panic, although that parameter has a default of its own
   (`PanicsHaveCauses` says what else panics, see below). In
   `solve_for_resolving`, which has no such check, the same input never ends.
2. A loop that re-points a reference at the end of its body to something stale
   since before the loop is accepted by the borrow checker.
3. An interface whose method returns a struct of a package compiled after it:
   the header looks the struct's definition up and panics (`PanicsAreOrderOrRecursion` says
   that nothing else does, but for a lambda that is handed itself).
4. `while c { return 1; }` has type Never, and what follows it is cut although it
   is reached when c is false.
5. A virtual call's slot counts all methods of the interface, the itables hold
   only those called somewhere.
6. A generic function that calls itself for another kind hands that instance its
   own bounds instead of those supplied.

Further divergences, met while bounding the runs, are hazards with a note: a
template call that names one rune twice keeps the last of two different values; a default
of another type than its parameter (an integer for a kind) is typed nowhere, and a reference,
kind list or call that reads it panics ("expected a kind") instead of being reported; so does
a template that is applied to fewer arguments than it has parameters;
CopyPrim in the TestVM shares its original's allocation; looking up a local that
holds a weak reference to a dead object panics; `set e.hp = f(&a)` where the call
destroys what `e` points at is accepted; the groups of an `if` are those of its
then arm; a lambda that is handed itself and calls itself is declared twice, which is a
panic (`compiler_outputs.rs:325`) and no error; a struct inside an overwritten
struct is re-pointed; the shapes of
section 7. Of overload resolution: two functions that each take one of two
arguments more exactly make the resolver panic ("No candidate is a clear
winner!"), where `typing/rust_interop/corpus.rs:1645` expects a designed error; a
conversion that `is_type_convertible` has no case for (a borrowed struct for an
owned interface, say) panics, whether or not another function fits; an
argument of type Never fits no parameter, because its send must equal the
parameter's kind, though `is_type_convertible` and `convert` let Never become
anything; among bounds of equally outermost denizens the winner hangs on the
order of a hash map whose keys are addresses.

Of the parser, from the texts that `ReadingIsExact` had to leave out. Tokens are
silently dropped in `f(1 2)`, `f(a; b)`, `f<int x>(a)`, `set a 3 = b`, `a T[b] c =
3`, `x set int` as a parameter, `not(mut(a) mut(b))` and after a return type; `unlet
(x)` loses its `unlet`, `[n](..)` its size, `-3..5`, `x..-3` and `a.-3` the minus,
`parallel` and a leading `'r` are dropped, a function without a body loses its
default region. `0..list.len()` is `(0..list).len()`; `*.` is read as `.`; a lone
`;` after `}` becomes a variable named `;`. An unterminated string or interface at
the end of the file is accepted. `import a;`, `3.f`, `self. = 3`, an empty template
argument and a dangling `&`, `^`, `not`, `weak`, `a'`, `a..` or `x =>` panic instead
of being reported, and a region followed by a space in `<r' T>` trips an assert; the
default of an untyped generic parameter is never parsed.

## 14. What is not modelled, and why

Text processing but for the texts of functions (structs, interfaces, impls, imports,
exports, attributes and positions in the lexer and parser; of the postparser all but
the variables of section 10; humanizers), pure I/O (pass manager, CLI, file
resolution), code generation (FFI, `Backend/`) and the Rust interop oracle have no
state machine worth checking apart from the outside world they talk to. Interners
and arenas provide that equality is identity, which TLA+ has. The symphony checker
is within reach and not done. Of the modelled components: booleans, strings and
impls as types of runes; defaults of a citizen's own parameters where its struct is
predicted, and the resolution of predicted structs, functions and bounds
after a solve; `aliasing_info.rs`; interfaces, strings, static arrays, generators
and control flow of the TestVM; expression types, conversions, macros and edges of
the typing pass; arrays, Rust externs, kind exports and the bounds of citizens in
the instantiator; template arguments of citizens, where clauses that resolve further
functions, lambdas, default runes and Rust imports in overload resolution; entries
of template environments other than functions.

## 15. Plan

1. `TemplexScout` and `HeaderSolve`: the rules the postparser writes for a header, and
   their typing and solve as one composition, in place of the pools of section 3.
2. Proofs about `CheckUsages`: its type invariant, that a report is never withdrawn,
   and what each of `Insert`, `Retire`, `Rekey` and `Churn` does to the keys.
3. Proofs about the instantiator: `ResultIsLinked` said without recursion, as closedness
   of what was instantiated and minimality against every closed set of demands, with the
   pure operators taking the program as a parameter.
4. TestVM control flow (While, If, Break), static arrays, and primitives that are copied
   while their original is borrowed (`expression_vivem.rs:1076`).
