----------------------------- MODULE TypingPass -----------------------------
(***************************************************************************)
(* The typing pass's driver (typing/compiler.rs, evaluate) and the tables  *)
(* it fills (typing/compiler_outputs.rs): every citizen is declared, then  *)
(* compiled package by package; then every top-level function gets a header;    *)
(* bodies and methods wait in two insertion-ordered queues that the last   *)
(* loop drains.  Lambdas and closure drops are compiled on the spot, in    *)
(* the middle of the body that uses them, so a body is compiled on a stack *)
(* of frames; Rust functions come into being when something first calls    *)
(* them.                                                                   *)
(*                                                                         *)
(* A function here is a signature: a generic function is compiled once, in *)
(* terms of its placeholders, a lambda once per list of argument types.    *)
(* What a body does to the tables is its steps: the functions it calls and *)
(* the closures it makes, in order.                                        *)
(***************************************************************************)
EXTENDS Naturals, Sequences, FiniteSets, SequencesExt

CONSTANTS
  Fn,          \* function signatures
  Citizen,     \* structs and interfaces
  Programs     \* the postparsed programs to compile

\* code: a body and a written return type.  generated: a body a macro makes.
\* lambda: one instance of a lambda.  drop: the drop of a lambda's closure.
\* rust: known to the Rust oracle alone until it is first called.
Kinds == {"code", "extern", "generated", "lambda", "drop", "rust"}

Steps == [op : {"call", "closure"}, fn : Fn]
\* A package's namespace keeps the order of its files, and of a file the
\* structs, the interfaces and the functions.
Packages == [citizens : Seq(Citizen), functions : Seq(Fn)]

\* underscored: the citizens whose names begin with an underscore, by name.
\* returns: the structs a written return type names.  rejected: the bodies
\* that do not type check or that the borrow checker refuses.  witnesses: what
\* the citizens' where clauses resolve to; overrides: what the itables do.
Program ==
  [ packages    : Seq(Packages),
    interfaces  : SUBSET Citizen,
    underscored : Seq(Citizen),
    methods     : [Citizen -> Seq(Fn)],
    kind        : [Fn -> Kinds],
    steps       : [Fn -> Seq(Steps)],
    returns     : [Fn -> SUBSET Citizen],
    rejected    : SUBSET Fn,
    exported    : SUBSET Fn,
    witnesses   : [Citizen -> Seq(Fn)],
    overrides   : [Citizen -> Seq(Fn)] ]

VARIABLES
  prog,                \* the program being compiled
  todo,                \* what is left of the phases before the last loop
  postparsed,          \* template_id_to_postparsed_function
  outerEnvs,           \* type_declared_names, type_name_to_outer_env
  definitions,         \* the compiled structs and interfaces
  declared,            \* function_declared_names and their environments
  functions,           \* signature_to_function
  externs,             \* function_externs
  checked,             \* signature_to_aliasing_info
  bounds,              \* instantiation_name_to_bounds: what was resolved
  deferredFunctions,   \* deferred_function_compiles
  deferredBodies,      \* deferred_function_body_compiles
  draining,            \* the deferred action that was peeked, and its queue
  stack,               \* the bodies being compiled, innermost last
  outcome

tables == <<postparsed, outerEnvs, definitions, declared, functions, externs,
            checked, bounds>>
queues == <<deferredFunctions, deferredBodies, draining>>
vars == <<prog, todo, tables, queues, stack, outcome>>

-----------------------------------------------------------------------------
(* The phases before the last loop, as the tasks they come to.             *)

Task(op, fn, citizen) == [op |-> op, fn |-> fn, citizen |-> citizen]
CitizenTask == [op : {"precompile", "struct", "interface"}, fn : {"none"}, citizen : Citizen]
FunctionTask == [op : {"defer", "header", "resolve"}, fn : Fn, citizen : {"none"}]

OnCitizens(op, cs) == [i \in DOMAIN cs |-> Task(op, "none", cs[i])]
OnFunctions(op, fs) == [i \in DOMAIN fs |-> Task(op, fs[i], "none")]

OverPackages(p, Of(_)) == FoldLeft(LAMBDA acc, pkg : acc \o Of(pkg), <<>>, p.packages)

\* Every type has an outer environment before anything is compiled.
PrecompileTasks(p) ==
  OverPackages(p, LAMBDA pkg : OnCitizens("precompile", pkg.citizens))

\* Within a package whatever begins with an underscore comes first.
InCompileOrder(p, pkg) ==
  SelectSeq(p.underscored, LAMBDA c : c \in ToSet(pkg.citizens))
    \o SelectSeq(pkg.citizens, LAMBDA c : c \notin ToSet(p.underscored))

\* The methods of a citizen, but for Rust's.
ValeMethods(p, c) == SelectSeq(p.methods[c], LAMBDA f : p.kind[f] # "rust")

\* A struct's methods are deferred, an interface's are compiled at once, and
\* then it is added itself.
CitizenTasks(p, c) ==
  IF c \in p.interfaces
  THEN OnFunctions("header", ValeMethods(p, c)) \o <<Task("interface", "none", c)>>
  ELSE OnFunctions("defer", ValeMethods(p, c)) \o <<Task("struct", "none", c)>>

OverCitizens(p, Of(_)) ==
  OverPackages(p, LAMBDA pkg :
    FoldLeft(LAMBDA acc, c : acc \o Of(c), <<>>, InCompileOrder(p, pkg)))

CompileTasks(p) == OverCitizens(p, LAMBDA c : CitizenTasks(p, c))

\* The functions of the rust package are skipped: they are lazy.
FunctionTasks(p) ==
  OverPackages(p, LAMBDA pkg :
    FoldLeft(LAMBDA acc, f :
               acc \o IF p.kind[f] = "rust" THEN <<>>
                      ELSE <<Task("header", f, "none")>>
                             \o IF f \in p.exported THEN <<Task("resolve", f, "none")>> ELSE <<>>,
             <<>>, pkg.functions))

Schedule(p) ==
  PrecompileTasks(p) \o CompileTasks(p) \o OverCitizens(p, LAMBDA c : OnFunctions("resolve", p.witnesses[c]))
    \o FunctionTasks(p) \o OverCitizens(p, LAMBDA c : OnFunctions("resolve", p.overrides[c]))

\* Everything that was written in Vale is indexed; lambdas, their drops and
\* Rust's functions are not.
Indexed(p) ==
  { f \in Fn : /\ p.kind[f] \in {"code", "extern", "generated"}
               /\ \E i \in DOMAIN p.packages :
                    \/ f \in ToSet(p.packages[i].functions)
                    \/ \E c \in ToSet(p.packages[i].citizens) : f \in ToSet(p.methods[c]) }

Covers(p, f) ==
  \E i \in DOMAIN Schedule(p) : Schedule(p)[i].fn = f /\ Schedule(p)[i].op \in {"header", "defer"}

CitizensOf(p) == UNION { ToSet(p.packages[i].citizens) : i \in DOMAIN p.packages }

\* What has to be compiled whoever calls it: all that was written in Vale, and
\* what the citizens' bounds and itables come to.
Roots(p) ==
  Indexed(p) \cup UNION { ToSet(p.witnesses[c]) \cup ToSet(p.overrides[c]) : c \in CitizensOf(p) }

FunctionsIn(tasks) ==
  { tasks[i].fn : i \in { i \in DOMAIN tasks : tasks[i].op \in {"defer", "header", "resolve"} } }
CitizensIn(tasks) ==
  { tasks[i].citizen : i \in { i \in DOMAIN tasks : tasks[i].op \in {"struct", "interface"} } }

\* The phases get to everything that was indexed, and to every citizen; what has
\* no body has no steps.
WellFormed(p) ==
  /\ p.kind \in [Fn -> Kinds]
  /\ p.steps \in [Fn -> Seq(Steps)]
  /\ \A f \in Fn : p.kind[f] \in {"extern", "rust"} => p.steps[f] = <<>>
  /\ Schedule(p) \in Seq(CitizenTask \cup FunctionTask)
  /\ \A f \in Indexed(p) : Covers(p, f)
  /\ FunctionsIn(Schedule(p)) = Roots(p)
  /\ CitizensIn(Schedule(p)) = CitizensOf(p)

ASSUME ProgramsAssumption == \A p \in Programs : WellFormed(p)

\* Two tasks never declare the same thing: a signature is written once (a second one is
\* the panic FunctionAlreadyExists), and a citizen is.
Distinct(task, other) ==
  /\ {task.op, other.op} \subseteq {"header", "defer"} => task.fn # other.fn
  /\ {task.op, other.op} \subseteq {"struct", "interface"} => task.citizen # other.citizen
  /\ {task.op, other.op} = {"precompile"} => task.citizen # other.citizen

Orderly(p, tasks) ==
  /\ \A i, j \in DOMAIN tasks : i # j => Distinct(tasks[i], tasks[j])
  /\ \A i \in DOMAIN tasks :
       CASE tasks[i].op \in {"struct", "interface"} ->
              \E j \in 1..i - 1 : tasks[j] = Task("precompile", "none", tasks[i].citizen)
         [] tasks[i].op \in {"header", "defer"} -> tasks[i].fn \in Indexed(p)
         [] tasks[i].op = "resolve" -> tasks[i].fn \in Indexed(p) \/ p.kind[tasks[i].fn] = "rust"
         [] OTHER -> TRUE

\* The drop of a closure is called where the closure is: in the body that makes it,
\* after that, or in one that is compiled in the middle of such a body.
StaysWithin(p, fs, drop, within) ==
  \A f \in fs : \A i \in DOMAIN p.steps[f] :
    p.steps[f][i].fn \in within \/ p.steps[f][i] = [op |-> "call", fn |-> drop] =>
      f \in within \/ \E j \in 1..i - 1 : p.steps[f][j] = [op |-> "closure", fn |-> drop]

OnTheSpot(p) == { f \in Fn : p.kind[f] \in {"lambda", "drop"} }
CalledWhereMade(p, fs, drop) ==
  \E within \in SUBSET OnTheSpot(p) : StaysWithin(p, fs, drop, within)

\* What the steps of bodies mention, and return types name, is what overload resolution
\* and the rune solver found: it is there.  fs: what the program has, lambdas included.
Resolved(p, fs) ==
  \A f \in fs :
    /\ p.kind[f] # "lambda" => p.returns[f] \subseteq CitizensOf(p)
    /\ p.kind[f] = "drop" => p.returns[f] = {} /\ CalledWhereMade(p, fs, f)
    /\ \A i \in DOMAIN p.steps[f] :
         LET step == p.steps[f][i] IN
           /\ step.fn \in fs
           /\ step.op = "closure" => p.kind[step.fn] = "drop"
           /\ p.kind[step.fn] \in {"code", "extern", "generated"} => step.fn \in Indexed(p)

Linked(p) ==
  /\ Orderly(p, Schedule(p))
  /\ \E fs \in SUBSET Fn : Roots(p) \subseteq fs /\ Resolved(p, fs)

ASSUME LinkedAssumption == \A p \in Programs : Linked(p)

-----------------------------------------------------------------------------

NoProgram == [packages |-> <<>>]
NotDraining == [queue |-> "none", fn |-> "none"]

Frame(f, steps) == [fn |-> f, steps |-> steps, defined |-> FALSE]
Frames == [fn : Fn, steps : Seq(Steps), defined : BOOLEAN]

Init ==
  /\ prog = NoProgram
  /\ todo = <<>>
  /\ postparsed = {} /\ outerEnvs = {} /\ definitions = {}
  /\ declared = {} /\ functions = {} /\ externs = {} /\ checked = {} /\ bounds = {}
  /\ deferredFunctions = <<>> /\ deferredBodies = <<>> /\ draining = NotDraining
  /\ stack = <<>>
  /\ outcome = "waiting"

Evaluate(p) ==
  /\ outcome = "waiting"
  /\ prog' = p
  /\ todo' = Schedule(p)
  /\ postparsed' = Indexed(p)
  /\ outcome' = "running"
  /\ UNCHANGED <<outerEnvs, definitions, declared, functions, externs, checked,
                 bounds, queues, stack>>

Panic ==
  /\ outcome' = "panicked"
  /\ UNCHANGED <<prog, todo, tables, queues, stack>>

Running == outcome = "running"

\* Mutant: what was deferred last is compiled first.
EnqueueAtFront(queue, f) == IF f \in ToSet(queue) THEN queue ELSE <<f>> \o queue

\* An IndexMap keeps the place of a key that is inserted again.
Enqueue(queue, f) == IF f \in ToSet(queue) THEN queue ELSE Append(queue, f)

-----------------------------------------------------------------------------
(* A function gets a header.                                               *)

\* declare_function has no answer to a second declaration.
HeaderPanics(f) ==
  /\ f \notin functions
  /\ \/ f \in declared
     \/ prog.kind[f] # "lambda" /\ ~ prog.returns[f] \subseteq definitions

\* Mutant: the header is made without a declaration.
EvaluateHeaderUndeclared(f, frames) ==
  /\ ~ HeaderPanics(f)
  /\ declared' = declared
  /\ deferredBodies' =
       IF f \notin functions /\ prog.kind[f] = "code"
       THEN Enqueue(deferredBodies, f) ELSE deferredBodies
  /\ LET isExtern == f \notin functions /\ prog.kind[f] \in {"extern", "rust"} IN
       /\ functions' = IF isExtern THEN functions \cup {f} ELSE functions
       /\ externs' = IF isExtern THEN externs \cup {f} ELSE externs
  /\ stack' =
       IF f \notin functions /\ prog.kind[f] \in {"generated", "lambda", "drop"}
       THEN Append(frames, Frame(f, prog.steps[f])) ELSE frames

\* A function that was compiled already is looked up.  Otherwise it is
\* declared, and what has a written return type waits for its body; an extern
\* has none to wait for; the rest is compiled now, on top of `frames`.
EvaluateHeader(f, frames) ==
  /\ ~ HeaderPanics(f)
  /\ declared' = declared \cup {f}
  /\ deferredBodies' =
       IF f \notin functions /\ prog.kind[f] = "code"
       THEN Enqueue(deferredBodies, f) ELSE deferredBodies
  /\ LET isExtern == f \notin functions /\ prog.kind[f] \in {"extern", "rust"} IN
       /\ functions' = IF isExtern THEN functions \cup {f} ELSE functions
       /\ externs' = IF isExtern THEN externs \cup {f} ELSE externs
  /\ stack' =
       IF f \notin functions /\ prog.kind[f] \in {"generated", "lambda", "drop"}
       THEN Append(frames, Frame(f, prog.steps[f])) ELSE frames

-----------------------------------------------------------------------------
(* The phases.                                                             *)

AtTask(op) == Running /\ stack = <<>> /\ todo # <<>> /\ Head(todo).op = op

Precompile ==
  /\ AtTask("precompile")
  /\ LET c == Head(todo).citizen IN
       IF c \in outerEnvs THEN Panic
       ELSE /\ outerEnvs' = outerEnvs \cup {c}
            /\ todo' = Tail(todo)
            /\ UNCHANGED <<prog, postparsed, definitions, declared, functions, externs,
                           checked, bounds, queues, stack, outcome>>

DeferMethod ==
  /\ AtTask("defer")
  /\ deferredFunctions' = Enqueue(deferredFunctions, Head(todo).fn)
  /\ todo' = Tail(todo)
  /\ UNCHANGED <<prog, tables, deferredBodies, draining, stack, outcome>>

CompileCitizen ==
  /\ AtTask("struct") \/ AtTask("interface")
  /\ LET c == Head(todo).citizen IN
       IF c \notin outerEnvs \/ c \in definitions THEN Panic
       ELSE /\ definitions' = definitions \cup {c}
            /\ todo' = Tail(todo)
            /\ UNCHANGED <<prog, postparsed, outerEnvs, declared, functions, externs,
                           checked, bounds, queues, stack, outcome>>

\* An interface's method, or a top-level function.
CompileHeader ==
  /\ AtTask("header")
  /\ LET f == Head(todo).fn IN
       IF f \notin postparsed \/ HeaderPanics(f) THEN Panic
       ELSE /\ EvaluateHeader(f, stack)
            /\ todo' = Tail(todo)
            /\ UNCHANGED <<prog, postparsed, outerEnvs, definitions, checked, bounds,
                           deferredFunctions, draining, outcome>>

\* Mutant: a Rust function is registered, and then nobody compiles it.
IlluminateWithoutDeferring(f) ==
  /\ postparsed' = IF f \notin postparsed /\ prog.kind[f] = "rust"
                   THEN postparsed \cup {f} ELSE postparsed
  /\ UNCHANGED deferredFunctions

\* illuminate_function: a Rust function is registered and deferred when it is
\* first asked for; for anything else a miss is a bug.
Illuminate(f) ==
  IF f \notin postparsed /\ prog.kind[f] = "rust"
  THEN /\ postparsed' = postparsed \cup {f}
       /\ deferredFunctions' = Enqueue(deferredFunctions, f)
  ELSE UNCHANGED <<postparsed, deferredFunctions>>

Unknown(f) == f \notin postparsed /\ prog.kind[f] # "rust"

\* A function outside any body is resolved: an export, a bound, an override.
ResolveFunction ==
  /\ AtTask("resolve")
  /\ LET f == Head(todo).fn IN
       IF Unknown(f) THEN Panic
       ELSE /\ Illuminate(f)
            /\ bounds' = bounds \cup {f}
            /\ todo' = Tail(todo)
            /\ UNCHANGED <<prog, outerEnvs, definitions, declared, functions, externs,
                           checked, deferredBodies, draining, stack, outcome>>

-----------------------------------------------------------------------------
(* A body is compiled.                                                     *)

Top == stack[Len(stack)]
AfterStep == [stack EXCEPT ![Len(stack)].steps = Tail(@)]

AtStep(op) ==
  /\ Running
  /\ stack # <<>>
  /\ Top.steps # <<>>
  /\ Head(Top.steps).op = op

\* A call of a function that has a written return type needs its prototype only.
CallFunction ==
  /\ AtStep("call")
  /\ LET f == Head(Top.steps).fn IN
       /\ prog.kind[f] # "lambda"
       /\ IF Unknown(f) THEN Panic
          ELSE /\ Illuminate(f)
               /\ bounds' = bounds \cup {f}
               /\ stack' = AfterStep
               /\ UNCHANGED <<prog, todo, outerEnvs, definitions, declared, functions,
                              externs, checked, deferredBodies, draining, outcome>>

\* A call of a lambda needs its return type, so its body is compiled now.
CallLambda ==
  /\ AtStep("call")
  /\ LET f == Head(Top.steps).fn IN
       /\ prog.kind[f] = "lambda"
       /\ IF HeaderPanics(f) THEN Panic
          ELSE /\ EvaluateHeader(f, AfterStep)
               /\ postparsed' = postparsed \cup {f}
               /\ bounds' = bounds \cup {f}
               /\ UNCHANGED <<prog, todo, outerEnvs, definitions, checked,
                              deferredFunctions, draining, outcome>>

\* A lambda expression makes its closure struct, whose drop is compiled now.
MakeClosure ==
  /\ AtStep("closure")
  /\ LET f == Head(Top.steps).fn IN
       IF HeaderPanics(f) THEN Panic
       ELSE /\ EvaluateHeader(f, AfterStep)
            /\ postparsed' = postparsed \cup {f}
            /\ UNCHANGED <<prog, todo, outerEnvs, definitions, checked, bounds,
                           deferredFunctions, draining, outcome>>

\* The end of finish_function_maybe_deferred, up to add_function.
DefineFunction ==
  /\ Running
  /\ stack # <<>>
  /\ Top.steps = <<>>
  /\ ~ Top.defined
  /\ IF Top.fn \in functions THEN Panic
     ELSE /\ functions' = functions \cup {Top.fn}
          /\ stack' = [stack EXCEPT ![Len(stack)].defined = TRUE]
          /\ UNCHANGED <<prog, todo, postparsed, outerEnvs, definitions, declared, externs,
                         checked, bounds, queues, outcome>>

Callees(f) == { prog.steps[f][i].fn : i \in DOMAIN prog.steps[f] }

\* ... and from there: the borrow checker reads every callee's postparsed
\* function.  What a macro generated is not checked.
CheckFunction ==
  /\ Running
  /\ stack # <<>>
  /\ Top.defined
  /\ IF prog.kind[Top.fn] \in {"generated", "drop"}
     THEN /\ stack' = Front(stack)
          /\ UNCHANGED <<prog, todo, tables, queues, outcome>>
     ELSE IF ~ Callees(Top.fn) \subseteq postparsed \/ Top.fn \in checked THEN Panic
     ELSE IF Top.fn \in prog.rejected
     THEN /\ outcome' = "failed"
          /\ UNCHANGED <<prog, todo, tables, queues, stack>>
     ELSE /\ checked' = checked \cup {Top.fn}
          /\ stack' = Front(stack)
          /\ UNCHANGED <<prog, todo, postparsed, outerEnvs, definitions, declared,
                         functions, externs, bounds, queues, outcome>>

-----------------------------------------------------------------------------
(* The last loop: whatever is deferred is peeked, compiled, which may defer *)
(* more, and then marked compiled, if it still is what the queue begins    *)
(* with.                                                                   *)

AtLoop == Running /\ stack = <<>> /\ todo = <<>> /\ draining = NotDraining

\* Mutant: bodies come first here too.
DrainFunctionLast ==
  /\ AtLoop
  /\ deferredBodies = <<>>
  /\ deferredFunctions # <<>>
  /\ LET f == Head(deferredFunctions) IN
       IF Unknown(f) \/ HeaderPanics(f) THEN Panic
       ELSE /\ EvaluateHeader(f, stack)
            /\ draining' = [queue |-> "functions", fn |-> f]
            /\ UNCHANGED <<prog, todo, postparsed, outerEnvs, definitions, checked, bounds,
                           deferredFunctions, outcome>>

DrainFunction ==
  /\ AtLoop
  /\ deferredFunctions # <<>>
  /\ LET f == Head(deferredFunctions) IN
       IF Unknown(f) \/ HeaderPanics(f) THEN Panic
       ELSE /\ EvaluateHeader(f, stack)
            /\ draining' = [queue |-> "functions", fn |-> f]
            /\ UNCHANGED <<prog, todo, postparsed, outerEnvs, definitions, checked, bounds,
                           deferredFunctions, outcome>>

\* A body is taken only when no function waits for its header.
DrainBody ==
  /\ AtLoop
  /\ deferredFunctions = <<>>
  /\ deferredBodies # <<>>
  /\ LET f == Head(deferredBodies) IN
       /\ draining' = [queue |-> "bodies", fn |-> f]
       /\ stack' = <<Frame(f, prog.steps[f])>>
  /\ UNCHANGED <<prog, todo, tables, deferredFunctions, deferredBodies, outcome>>

MarkFunctionCompiled ==
  /\ Running
  /\ stack = <<>>
  /\ draining.queue = "functions"
  /\ IF deferredFunctions = <<>> \/ Head(deferredFunctions) # draining.fn THEN Panic
     ELSE /\ deferredFunctions' = Tail(deferredFunctions)
          /\ draining' = NotDraining
          /\ UNCHANGED <<prog, todo, tables, deferredBodies, stack, outcome>>

MarkBodyCompiled ==
  /\ Running
  /\ stack = <<>>
  /\ draining.queue = "bodies"
  /\ IF deferredBodies = <<>> \/ Head(deferredBodies) # draining.fn THEN Panic
     ELSE /\ deferredBodies' = Tail(deferredBodies)
          /\ draining' = NotDraining
          /\ UNCHANGED <<prog, todo, tables, deferredFunctions, stack, outcome>>

\* Mutant: the loop ends when no function waits for its header.
LoopIsOverWithoutBodies == AtLoop /\ deferredFunctions = <<>>

LoopIsOver == AtLoop /\ deferredBodies = <<>> /\ deferredFunctions = <<>>

Finish ==
  /\ LoopIsOver
  /\ outcome' = "done"
  /\ UNCHANGED <<prog, todo, tables, queues, stack>>

-----------------------------------------------------------------------------

Continue ==
  \/ Precompile \/ DeferMethod \/ CompileCitizen \/ CompileHeader \/ ResolveFunction
  \/ CallFunction \/ CallLambda \/ MakeClosure \/ DefineFunction \/ CheckFunction
  \/ DrainFunction \/ DrainBody \/ MarkFunctionCompiled \/ MarkBodyCompiled
  \/ Finish

Next == (\E p \in Programs : Evaluate(p)) \/ Continue

Spec == Init /\ [][Next]_vars
\* The driver is a single thread that runs until it returns.
FairSpec == Spec /\ WF_vars(Continue)

-----------------------------------------------------------------------------
(* Correctness.                                                            *)

TypeOK ==
  /\ outcome = "done" => WellFormed(prog)
  /\ todo \in Seq(CitizenTask \cup FunctionTask)
  /\ postparsed \subseteq Fn
  /\ outerEnvs \subseteq Citizen /\ definitions \subseteq outerEnvs
  /\ functions \subseteq declared /\ declared \subseteq Fn
  /\ externs \subseteq functions
  /\ checked \subseteq functions
  /\ bounds \subseteq Fn
  /\ deferredFunctions \in Seq(Fn)
  /\ deferredBodies \in Seq(Fn)
  /\ draining \in [queue : {"none", "functions", "bodies"}, fn : Fn \cup {"none"}]
  /\ stack \in Seq(Frames)
  /\ outcome \in {"waiting", "running", "done", "failed", "panicked"}

\* A header reads a struct that is compiled later: the return type of a method, whose
\* interface came first.
ReadsUncompiled ==
  /\ stack = <<>> /\ todo # <<>> /\ Head(todo).op = "header"
  /\ \E i \in DOMAIN prog.packages, c \in Citizen :
       /\ c \in ToSet(prog.packages[i].citizens) \cap prog.returns[Head(todo).fn]
       /\ c \notin definitions
  /\ Head(todo).fn \notin declared

\* A lambda that was handed itself is called in its own body.
CallsItself ==
  /\ stack # <<>> /\ Top.steps # <<>>
  /\ LET f == Head(Top.steps).fn IN
       /\ prog.kind[f] \in {"lambda", "drop"}
       /\ f \notin functions
       /\ \E i \in DOMAIN stack : stack[i].fn = f

\* Two assertions can fail, and no other: nothing is declared or added twice otherwise,
\* nothing is looked up that was not indexed, the borrow checker finds every callee's
\* tree, and what the last loop compiled is still what its queue begins with although
\* compiling it enqueued more.
PanicsAreOrderOrRecursion == outcome = "panicked" => ReadsUncompiled \/ CallsItself

Checkable(f) == prog.kind[f] \in {"code", "lambda"}

\* Enough to compile: what was written, and whatever a body in it mentions.
Sufficient(fs) == Roots(prog) \subseteq fs /\ \A f \in fs : Callees(f) \subseteq fs

\* Whatever order the packages came in and however the queues were drained, a
\* pass that ends well has compiled every function that is needed and no other,
\* those of Rust that nobody calls left out; has told the instantiator of every
\* extern; and has borrow-checked every body and refused none.  It fails for a
\* body that deserves it and that no such pass can leave out.
ResultIsComplete ==
  /\ outcome = "done" =>
       /\ Sufficient(functions)
       /\ \A fs \in SUBSET functions : Sufficient(fs) => fs = functions
       /\ externs = { f \in functions : prog.kind[f] \in {"extern", "rust"} }
       /\ checked = { f \in functions : Checkable(f) }
       /\ checked \cap prog.rejected = {}
       /\ bounds \subseteq functions
       /\ definitions = CitizensOf(prog)
  /\ outcome = "failed" =>
       \E f \in prog.rejected :
         /\ Checkable(f)
         /\ \A fs \in SUBSET Fn : Sufficient(fs) => f \in fs

\* Seen from outside: a function is requested once its header exists or a
\* prototype of it was handed out, and compiled once it was added.
Once == INSTANCE CompileOnce
          WITH requested <- declared \cup bounds,
               compiled <- functions,
               outcome <- IF outcome = "panicked" THEN "failed" ELSE outcome

\* The pass compiles each function once and leaves none that was asked for.
RefinesCompileOnce == Once!Spec
=============================================================================
