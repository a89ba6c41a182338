-------------------------- MODULE TypingPassProofs --------------------------
(***************************************************************************)
(* Theorems about TypingPass, for every set of functions and of citizens   *)
(* and every program whose schedule gets to what was indexed.  That is the *)
(* one assumption (ProgramsAssumption) of the first three; nothing is      *)
(* assumed of the order of packages, of what bodies mention or of how      *)
(* often.  The last one, on the assertions, also assumes that a signature  *)
(* and a citizen are written once and that what a body mentions is there   *)
(* (LinkedAssumption).                                                     *)
(*                                                                         *)
(* The inductive invariant, NothingIsLost, says where a function can be on *)
(* its way: what is declared is compiled, waits for its body or is on the  *)
(* stack; what was postparsed is declared, waits in the queue or in the    *)
(* schedule.  At the end both queues, the stack and the schedule are       *)
(* empty, so all that was ever handed out is compiled.                     *)
(*                                                                         *)
(* ResultIsComing, on top of it, says that what was handed out so far is   *)
(* needed and that what is needed is handed out, scheduled or mentioned by *)
(* a body on the stack; so at the end what is compiled is the least set of *)
(* functions a pass may end with.                                          *)
(*                                                                         *)
(* NothingTwice, on top of both, says that what is scheduled was not       *)
(* declared yet, what waits for its header is in its queue once, and a     *)
(* body is on the stack once; that a body has its last steps before it;    *)
(* and that the drop of a closure is known wherever the closure can be.    *)
(***************************************************************************)
EXTENDS TypingPass, TLAPS

-----------------------------------------------------------------------------
(* Sequences and stacks of frames                                          *)

LEMMA ToSetOfAppend ==
  ASSUME NEW S, NEW s \in Seq(S), NEW x
  PROVE  ToSet(Append(s, x)) = ToSet(s) \cup {x}
  BY DEF ToSet

LEMMA ToSetOfTail ==
  ASSUME NEW S, NEW s \in Seq(S), s # <<>>
  PROVE  /\ ToSet(s) = {Head(s)} \cup ToSet(Tail(s))
         /\ Tail(s) \in Seq(S)
         /\ Head(s) \in S
  <1>1. Head(s) = s[1] /\ 1 \in DOMAIN s /\ Tail(s) \in Seq(S) /\ Head(s) \in S
    OBVIOUS
  <1>2. Len(Tail(s)) = Len(s) - 1 /\ \A i \in 1..Len(s) - 1 : Tail(s)[i] = s[i + 1]
    OBVIOUS
  <1>3. ToSet(Tail(s)) \subseteq ToSet(s)
    BY <1>1, <1>2 DEF ToSet
  <1>4. ASSUME NEW i \in DOMAIN s, i # 1
        PROVE  s[i] \in ToSet(Tail(s))
    <2>1. i - 1 \in DOMAIN Tail(s) /\ Tail(s)[i - 1] = s[i]
      BY <1>2, <1>4
    <2>2. QED  BY <2>1 DEF ToSet
  <1>5. QED  BY <1>1, <1>3, <1>4 DEF ToSet

LEMMA ToSetOfNone == ToSet(<<>>) = {}
  BY DEF ToSet

LEMMA ToSetOfEnqueue ==
  ASSUME NEW queue \in Seq(Fn), NEW f \in Fn
  PROVE  /\ ToSet(Enqueue(queue, f)) = ToSet(queue) \cup {f}
         /\ Enqueue(queue, f) \in Seq(Fn)
  BY ToSetOfAppend DEF Enqueue

\* The functions on a stack, and those of them that were added already.
FnsOf(s) == { s[i].fn : i \in DOMAIN s }
DefinedOf(s) == { s[i].fn : i \in { j \in DOMAIN s : s[j].defined } }

LEMMA PushedFrame ==
  ASSUME NEW s \in Seq(Frames), NEW f \in Fn, NEW steps \in Seq(Steps)
  PROVE  LET t == Append(s, Frame(f, steps)) IN
           /\ t \in Seq(Frames)
           /\ FnsOf(t) = FnsOf(s) \cup {f}
           /\ DefinedOf(t) = DefinedOf(s)
  <1> DEFINE t == Append(s, Frame(f, steps))
  <1>1. Frame(f, steps) \in Frames
    BY DEF Frame, Frames
  <1>2. /\ t \in Seq(Frames)
        /\ Len(t) = Len(s) + 1
        /\ \A i \in DOMAIN s : t[i] = s[i]
        /\ t[Len(s) + 1] = Frame(f, steps)
    BY <1>1
  <1>3. t[Len(s) + 1].fn = f /\ t[Len(s) + 1].defined = FALSE
    BY <1>2 DEF Frame
  <1>4. DOMAIN t = DOMAIN s \cup {Len(s) + 1}
    BY <1>2
  <1>5. FnsOf(t) = FnsOf(s) \cup {f}
    BY <1>2, <1>3, <1>4 DEF FnsOf
  <1>6. { j \in DOMAIN t : t[j].defined } = { j \in DOMAIN s : s[j].defined }
    BY <1>2, <1>3, <1>4
  <1>7. DefinedOf(t) = DefinedOf(s)
    BY <1>2, <1>6 DEF DefinedOf
  <1>8. QED  BY <1>2, <1>5, <1>7

LEMMA SteppedFrame ==
  ASSUME NEW s \in Seq(Frames), s # <<>>, s[Len(s)].steps # <<>>
  PROVE  LET t == [s EXCEPT ![Len(s)].steps = Tail(@)] IN
           /\ t \in Seq(Frames)
           /\ FnsOf(t) = FnsOf(s)
           /\ DefinedOf(t) = DefinedOf(s)
           /\ Head(s[Len(s)].steps) \in Steps
  <1> DEFINE t == [s EXCEPT ![Len(s)].steps = Tail(@)]
  <1>1. Len(s) \in DOMAIN s /\ s[Len(s)] \in Frames
    OBVIOUS
  <1>2. s[Len(s)].steps \in Seq(Steps)
    BY <1>1 DEF Frames
  <1>3. Tail(s[Len(s)].steps) \in Seq(Steps) /\ Head(s[Len(s)].steps) \in Steps
    BY <1>2
  <1>4. [s[Len(s)] EXCEPT !.steps = Tail(@)] \in Frames
    BY <1>1, <1>3 DEF Frames
  <1>5. t \in Seq(Frames) /\ DOMAIN t = DOMAIN s
    BY <1>1, <1>4
  <1>6. \A i \in DOMAIN s : t[i].fn = s[i].fn /\ t[i].defined = s[i].defined
    BY <1>1 DEF Frames
  <1>7. FnsOf(t) = FnsOf(s)
    BY <1>5, <1>6 DEF FnsOf
  <1>8. { j \in DOMAIN t : t[j].defined } = { j \in DOMAIN s : s[j].defined }
    BY <1>5, <1>6
  <1>9. DefinedOf(t) = DefinedOf(s)
    BY <1>5, <1>6, <1>8 DEF DefinedOf
  <1>10. QED  BY <1>3, <1>5, <1>7, <1>9

LEMMA DefinedFrame ==
  ASSUME NEW s \in Seq(Frames), s # <<>>
  PROVE  LET t == [s EXCEPT ![Len(s)].defined = TRUE] IN
           /\ t \in Seq(Frames)
           /\ FnsOf(t) = FnsOf(s)
           /\ DefinedOf(t) \subseteq DefinedOf(s) \cup {s[Len(s)].fn}
           /\ s[Len(s)].fn \in Fn
           /\ s[Len(s)].fn \in FnsOf(s)
  <1> DEFINE t == [s EXCEPT ![Len(s)].defined = TRUE]
  <1>1. Len(s) \in DOMAIN s /\ s[Len(s)] \in Frames
    OBVIOUS
  <1>2. [s[Len(s)] EXCEPT !.defined = TRUE] \in Frames
    BY <1>1 DEF Frames
  <1>3. t \in Seq(Frames) /\ DOMAIN t = DOMAIN s
    BY <1>1, <1>2
  <1>4. /\ \A i \in DOMAIN s : t[i].fn = s[i].fn
        /\ \A i \in DOMAIN s : i # Len(s) => t[i].defined = s[i].defined
    BY <1>1 DEF Frames
  <1>5. FnsOf(t) = FnsOf(s)
    BY <1>3, <1>4 DEF FnsOf
  <1>6. DefinedOf(t) \subseteq DefinedOf(s) \cup {s[Len(s)].fn}
    BY <1>3, <1>4 DEF DefinedOf
  <1>7. s[Len(s)].fn \in FnsOf(s) /\ s[Len(s)].fn \in Fn
    BY <1>1 DEF FnsOf, Frames
  <1>8. QED  BY <1>3, <1>5, <1>6, <1>7

LEMMA PoppedFrame ==
  ASSUME NEW s \in Seq(Frames), s # <<>>
  PROVE  /\ Front(s) \in Seq(Frames)
         /\ FnsOf(s) \subseteq FnsOf(Front(s)) \cup {s[Len(s)].fn}
         /\ FnsOf(Front(s)) \subseteq FnsOf(s)
         /\ DefinedOf(Front(s)) \subseteq DefinedOf(s)
         /\ s[Len(s)].fn \in Fn
         /\ s[Len(s)].defined => s[Len(s)].fn \in DefinedOf(s)
  <1> DEFINE t == Front(s)
  <1>1. Len(s) \in DOMAIN s /\ s[Len(s)] \in Frames
    OBVIOUS
  <1>2. /\ t \in Seq(Frames)
        /\ DOMAIN t = 1..Len(s) - 1
        /\ \A i \in 1..Len(s) - 1 : t[i] = s[i]
    BY <1>1 DEF Front
  <1>3. DOMAIN s = DOMAIN t \cup {Len(s)}
    <2>1. DOMAIN s = 1..Len(s) /\ Len(s) \in Nat /\ Len(s) > 0
      BY <1>1
    <2>2. 1..Len(s) = (1..Len(s) - 1) \cup {Len(s)}
      BY <2>1
    <2>3. QED  BY <1>2, <2>1, <2>2
  <1>4. FnsOf(s) \subseteq FnsOf(t) \cup {s[Len(s)].fn} /\ FnsOf(t) \subseteq FnsOf(s)
    BY <1>2, <1>3 DEF FnsOf
  <1>5. DefinedOf(t) \subseteq DefinedOf(s)
    BY <1>2, <1>3 DEF DefinedOf
  <1>6. QED  BY <1>1, <1>2, <1>4, <1>5 DEF DefinedOf, Frames

-----------------------------------------------------------------------------
(* The invariant                                                           *)

\* What the schedule still gets to.
Scheduled(tasks) ==
  { tasks[i].fn : i \in { j \in DOMAIN tasks : tasks[j].op \in {"header", "defer"} } }

Known ==
  /\ outcome # "waiting" => prog \in Programs
  /\ outcome = "waiting" => bounds = {}
  /\ bounds \subseteq postparsed
  /\ postparsed \subseteq declared \cup ToSet(deferredFunctions) \cup Scheduled(todo)
  /\ draining.queue = "functions" => draining.fn \in declared

OnTheWay ==
  /\ FnsOf(stack) \subseteq declared
  /\ ToSet(deferredBodies) \subseteq declared
  /\ declared \subseteq functions \cup ToSet(deferredBodies) \cup FnsOf(stack)
  /\ DefinedOf(stack) \subseteq functions
  /\ draining.queue = "bodies" => draining.fn \in functions \cup FnsOf(stack)

NothingIsLost == TypeOK /\ Known /\ OnTheWay

LEMMA InitIsFine == Init => NothingIsLost
  BY DEF Init, NothingIsLost, TypeOK, Known, OnTheWay, NotDraining, FnsOf, DefinedOf, ToSet

\* A panic changes nothing but the outcome.
LEMMA PanicIsFine ==
  ASSUME NothingIsLost, outcome = "running", Panic
  PROVE  NothingIsLost'
  BY DEF NothingIsLost, TypeOK, Known, OnTheWay, Panic, tables, queues, FnsOf, DefinedOf,
         Scheduled, ToSet

LEMMA ScheduledTail ==
  ASSUME NEW tasks \in Seq(CitizenTask \cup FunctionTask), tasks # <<>>
  PROVE  /\ Tail(tasks) \in Seq(CitizenTask \cup FunctionTask)
         /\ Head(tasks) \in CitizenTask \cup FunctionTask
         /\ Scheduled(Tail(tasks)) \subseteq Scheduled(tasks)
         /\ Scheduled(tasks) \subseteq Scheduled(Tail(tasks)) \cup
              IF Head(tasks).op \in {"header", "defer"} THEN {Head(tasks).fn} ELSE {}
  <1>1. Head(tasks) = tasks[1] /\ 1 \in DOMAIN tasks
        /\ Tail(tasks) \in Seq(CitizenTask \cup FunctionTask)
        /\ Head(tasks) \in CitizenTask \cup FunctionTask
    OBVIOUS
  <1>2. /\ DOMAIN Tail(tasks) = 1..Len(tasks) - 1
        /\ \A i \in 1..Len(tasks) - 1 : Tail(tasks)[i] = tasks[i + 1] /\ i + 1 \in DOMAIN tasks
    OBVIOUS
  <1>3. Scheduled(Tail(tasks)) \subseteq Scheduled(tasks)
    BY <1>2 DEF Scheduled
  <1>4. ASSUME NEW i \in DOMAIN tasks, i # 1, tasks[i].op \in {"header", "defer"}
        PROVE  tasks[i].fn \in Scheduled(Tail(tasks))
    <2>1. i - 1 \in DOMAIN Tail(tasks) /\ Tail(tasks)[i - 1] = tasks[i]
      BY <1>2, <1>4
    <2>2. QED  BY <1>4, <2>1 DEF Scheduled
  <1>5. QED  BY <1>1, <1>3, <1>4 DEF Scheduled

\* What evaluating a header comes to, whatever the kind of the function.
LEMMA HeaderEffect ==
  ASSUME NothingIsLost, outcome = "running", NEW f \in Fn,
         NEW frames \in Seq(Frames),
         FnsOf(frames) = FnsOf(stack), DefinedOf(frames) = DefinedOf(stack),
         EvaluateHeader(f, frames)
  PROVE  /\ declared' = declared \cup {f}
         /\ functions' \in {functions, functions \cup {f}}
         /\ functions' \subseteq declared' /\ externs' \subseteq functions'
         /\ functions' # functions => f \notin functions
         /\ deferredBodies' \in Seq(Fn) /\ ToSet(deferredBodies') \subseteq declared'
         /\ stack' \in Seq(Frames) /\ FnsOf(stack') \subseteq declared'
         /\ FnsOf(stack) \subseteq FnsOf(stack')
         /\ DefinedOf(stack') \subseteq functions'
         /\ declared' \subseteq functions' \cup ToSet(deferredBodies') \cup FnsOf(stack')
  <1>1. prog.kind[f] \in Kinds /\ prog.steps[f] \in Seq(Steps)
    BY ProgramsAssumption DEF NothingIsLost, Known, WellFormed
  <1>2. Append(frames, Frame(f, prog.steps[f])) \in Seq(Frames)
        /\ FnsOf(Append(frames, Frame(f, prog.steps[f]))) = FnsOf(stack) \cup {f}
        /\ DefinedOf(Append(frames, Frame(f, prog.steps[f]))) = DefinedOf(stack)
    BY <1>1, PushedFrame
  <1>3. ToSet(Enqueue(deferredBodies, f)) = ToSet(deferredBodies) \cup {f}
        /\ Enqueue(deferredBodies, f) \in Seq(Fn)
    BY ToSetOfEnqueue DEF NothingIsLost, TypeOK
  <1>4. CASE f \in functions
    BY <1>4 DEF EvaluateHeader, NothingIsLost, TypeOK, OnTheWay
  <1>5. CASE f \notin functions /\ prog.kind[f] = "code"
    BY <1>3, <1>5 DEF EvaluateHeader, NothingIsLost, TypeOK, OnTheWay
  <1>6. CASE f \notin functions /\ prog.kind[f] \in {"extern", "rust"}
    BY <1>6 DEF EvaluateHeader, NothingIsLost, TypeOK, OnTheWay
  <1>7. CASE f \notin functions /\ prog.kind[f] \in {"generated", "lambda", "drop"}
    BY <1>2, <1>7 DEF EvaluateHeader, NothingIsLost, TypeOK, OnTheWay
  <1>8. QED  BY <1>1, <1>4, <1>5, <1>6, <1>7 DEF Kinds

LEMMA EvaluateIsFine ==
  ASSUME NothingIsLost, NEW p \in Programs, Evaluate(p)
  PROVE  NothingIsLost'
  <1>1. WellFormed(p)
    BY ProgramsAssumption
  <1>2. Indexed(p) \subseteq Scheduled(Schedule(p)) /\ Indexed(p) \subseteq Fn
    BY <1>1 DEF WellFormed, Covers, Scheduled, Indexed
  <1>3. TypeOK'
    BY <1>1, <1>2 DEF Evaluate, queues, NothingIsLost, TypeOK, WellFormed
  <1>4. Known'
    BY <1>2 DEF Evaluate, queues, NothingIsLost, TypeOK, Known, ToSet
  <1>5. OnTheWay'
    BY DEF Evaluate, queues, NothingIsLost, OnTheWay, FnsOf, DefinedOf, ToSet
  <1>6. QED  BY <1>3, <1>4, <1>5 DEF NothingIsLost

LEMMA PhaseStepIsFine ==
  ASSUME NothingIsLost, Precompile \/ CompileCitizen \/ DeferMethod
  PROVE  NothingIsLost'
  <1> DEFINE task == Head(todo)
  <1>1. /\ outcome = "running" /\ todo # <<>>
        /\ todo \in Seq(CitizenTask \cup FunctionTask)
    BY DEF Precompile, CompileCitizen, DeferMethod, AtTask, Running, NothingIsLost, TypeOK
  <1>2. /\ Tail(todo) \in Seq(CitizenTask \cup FunctionTask)
        /\ task \in CitizenTask \cup FunctionTask
        /\ Scheduled(todo) \subseteq Scheduled(Tail(todo)) \cup
             IF task.op \in {"header", "defer"} THEN {task.fn} ELSE {}
    BY <1>1, ScheduledTail
  <1>3. CASE Panic
    BY <1>1, <1>3, PanicIsFine
  <1>4. CASE Precompile /\ ~ Panic
    <2>1. task.citizen \in Citizen /\ task.op = "precompile"
      BY <1>2, <1>4 DEF Precompile, AtTask, CitizenTask, FunctionTask
    <2>2. /\ outerEnvs' = outerEnvs \cup {task.citizen} /\ todo' = Tail(todo)
          /\ UNCHANGED <<prog, postparsed, definitions, declared, functions, externs, checked,
                         bounds, deferredFunctions, deferredBodies, draining, stack, outcome>>
      BY <1>4 DEF Precompile, queues
    <2>3. TypeOK'
      BY <1>1, <1>2, <2>1, <2>2 DEF NothingIsLost, TypeOK
    <2>4. Known'
      BY <1>2, <2>1, <2>2 DEF NothingIsLost, Known
    <2>5. OnTheWay'
      BY <2>2 DEF NothingIsLost, OnTheWay
    <2>6. QED  BY <2>3, <2>4, <2>5 DEF NothingIsLost
  <1>5. CASE CompileCitizen /\ ~ Panic
    <2>1. task.op \in {"struct", "interface"}
      BY <1>5 DEF CompileCitizen, AtTask
    <2>2. /\ task.citizen \in outerEnvs
          /\ definitions' = definitions \cup {task.citizen} /\ todo' = Tail(todo)
          /\ UNCHANGED <<prog, postparsed, outerEnvs, declared, functions, externs, checked,
                         bounds, deferredFunctions, deferredBodies, draining, stack, outcome>>
      BY <1>5 DEF CompileCitizen, queues
    <2>3. TypeOK'
      BY <1>1, <1>2, <2>1, <2>2 DEF NothingIsLost, TypeOK
    <2>4. Known'
      BY <1>2, <2>1, <2>2 DEF NothingIsLost, Known
    <2>5. OnTheWay'
      BY <2>2 DEF NothingIsLost, OnTheWay
    <2>6. QED  BY <2>3, <2>4, <2>5 DEF NothingIsLost
  <1>6. CASE DeferMethod
    <2>1. task.fn \in Fn /\ task.op = "defer"
      BY <1>2, <1>6 DEF DeferMethod, AtTask, CitizenTask, FunctionTask
    <2>2. /\ ToSet(deferredFunctions') = ToSet(deferredFunctions) \cup {task.fn}
          /\ deferredFunctions' \in Seq(Fn)
      BY <1>6, <2>1, ToSetOfEnqueue DEF DeferMethod, NothingIsLost, TypeOK
    <2>3. TypeOK' /\ Known'
      BY <1>1, <1>2, <1>6, <2>1, <2>2
      DEF DeferMethod, AtTask, NothingIsLost, TypeOK, Known, tables
    <2>4. OnTheWay'
      BY <1>6 DEF DeferMethod, NothingIsLost, OnTheWay, tables, ToSet, FnsOf, DefinedOf
    <2>5. QED  BY <2>3, <2>4 DEF NothingIsLost
  <1>7. QED  BY <1>3, <1>4, <1>5, <1>6

LEMMA CompileHeaderIsFine ==
  ASSUME NothingIsLost, CompileHeader
  PROVE  NothingIsLost'
  <1> DEFINE f == Head(todo).fn
  <1>1. /\ outcome = "running" /\ todo # <<>> /\ Head(todo).op = "header"
        /\ todo \in Seq(CitizenTask \cup FunctionTask) /\ stack \in Seq(Frames)
    BY DEF CompileHeader, AtTask, Running, NothingIsLost, TypeOK
  <1>2. /\ Tail(todo) \in Seq(CitizenTask \cup FunctionTask)
        /\ f \in Fn
        /\ Scheduled(todo) \subseteq Scheduled(Tail(todo)) \cup {f}
    BY <1>1, ScheduledTail DEF CitizenTask, FunctionTask
  <1>3. CASE Panic
    BY <1>1, <1>3, PanicIsFine
  <1>4. CASE ~ Panic
    <2>1. EvaluateHeader(f, stack)
      BY <1>4 DEF CompileHeader
    <2>2. NothingIsLost /\ outcome = "running"
      BY <1>1
    <2> HIDE DEF f
    <2>3. /\ declared' = declared \cup {f}
          /\ functions' \in {functions, functions \cup {f}}
          /\ functions' \subseteq declared' /\ externs' \subseteq functions'
          /\ deferredBodies' \in Seq(Fn) /\ ToSet(deferredBodies') \subseteq declared'
          /\ stack' \in Seq(Frames) /\ FnsOf(stack') \subseteq declared'
          /\ FnsOf(stack) \subseteq FnsOf(stack')
          /\ DefinedOf(stack') \subseteq functions'
          /\ declared' \subseteq functions' \cup ToSet(deferredBodies') \cup FnsOf(stack')
      BY <1>1, <1>2, <2>1, <2>2, HeaderEffect
    <2> USE DEF f
    <2>4. TypeOK' /\ Known'
      BY <1>1, <1>2, <1>4, <2>3 DEF CompileHeader, NothingIsLost, TypeOK, Known
    <2>5. OnTheWay'
      BY <1>4, <2>3 DEF CompileHeader, NothingIsLost, OnTheWay
    <2>6. QED  BY <2>4, <2>5 DEF NothingIsLost
  <1>5. QED  BY <1>3, <1>4

\* Handing out a function: what was not postparsed yet is deferred.
LEMMA IlluminateEffect ==
  ASSUME NothingIsLost, NEW f \in Fn, ~ Unknown(f), Illuminate(f)
  PROVE  /\ postparsed' = postparsed \cup {f}
         /\ deferredFunctions' \in Seq(Fn)
         /\ ToSet(deferredFunctions) \subseteq ToSet(deferredFunctions')
         /\ f \in postparsed \cup ToSet(deferredFunctions')
  <1> DEFINE asked == f \notin postparsed /\ prog.kind[f] = "rust"
  <1>1. deferredFunctions \in Seq(Fn) /\ (~ asked => f \in postparsed)
    BY DEF NothingIsLost, TypeOK, Unknown
  <1>2. CASE asked
    <2>1. postparsed' = postparsed \cup {f} /\ deferredFunctions' = Enqueue(deferredFunctions, f)
      BY <1>2 DEF Illuminate
    <2>2. QED  BY <1>1, <2>1, ToSetOfEnqueue
  <1>3. CASE ~ asked
    <2>1. postparsed' = postparsed /\ deferredFunctions' = deferredFunctions
      BY <1>3 DEF Illuminate
    <2>2. QED  BY <1>1, <1>3, <2>1
  <1>4. QED  BY <1>2, <1>3

LEMMA ResolveFunctionIsFine ==
  ASSUME NothingIsLost, ResolveFunction
  PROVE  NothingIsLost'
  <1> DEFINE f == Head(todo).fn
  <1>1. /\ outcome = "running" /\ todo # <<>> /\ Head(todo).op = "resolve"
        /\ todo \in Seq(CitizenTask \cup FunctionTask)
    BY DEF ResolveFunction, AtTask, Running, NothingIsLost, TypeOK
  <1>2. /\ Tail(todo) \in Seq(CitizenTask \cup FunctionTask)
        /\ f \in Fn
        /\ Scheduled(todo) \subseteq Scheduled(Tail(todo))
    BY <1>1, ScheduledTail DEF CitizenTask, FunctionTask
  <1>3. CASE Panic
    BY <1>1, <1>3, PanicIsFine
  <1>4. CASE ~ Panic
    <2>1. /\ ~ Unknown(f) /\ Illuminate(f)
          /\ bounds' = bounds \cup {f} /\ todo' = Tail(todo)
          /\ UNCHANGED <<prog, outerEnvs, definitions, declared, functions, externs,
                         checked, deferredBodies, draining, stack, outcome>>
      BY <1>4 DEF ResolveFunction
    <2>2. /\ postparsed' = postparsed \cup {f}
          /\ deferredFunctions' \in Seq(Fn)
          /\ ToSet(deferredFunctions) \subseteq ToSet(deferredFunctions')
          /\ f \in postparsed \cup ToSet(deferredFunctions')
      BY <1>2, <2>1, IlluminateEffect
    <2> HIDE DEF f
    <2>3. TypeOK'
      BY <1>1, <1>2, <2>1, <2>2 DEF NothingIsLost, TypeOK
    <2>4. Known'
      BY <1>1, <1>2, <2>1, <2>2 DEF NothingIsLost, Known
    <2>5. OnTheWay'
      BY <2>1 DEF NothingIsLost, OnTheWay
    <2>6. QED  BY <2>3, <2>4, <2>5 DEF NothingIsLost
  <1>5. QED  BY <1>3, <1>4

LEMMA CallFunctionIsFine ==
  ASSUME NothingIsLost, CallFunction
  PROVE  NothingIsLost'
  <1> DEFINE f == Head(Top.steps).fn
  <1>1. /\ outcome = "running" /\ stack # <<>> /\ Top.steps # <<>> /\ stack \in Seq(Frames)
    BY DEF CallFunction, AtStep, Running, NothingIsLost, TypeOK
  <1>2. /\ AfterStep \in Seq(Frames) /\ f \in Fn
        /\ FnsOf(AfterStep) = FnsOf(stack) /\ DefinedOf(AfterStep) = DefinedOf(stack)
    BY <1>1, SteppedFrame DEF AfterStep, Top, Steps
  <1>3. CASE Panic
    BY <1>1, <1>3, PanicIsFine
  <1>4. CASE ~ Panic
    <2>1. /\ ~ Unknown(f) /\ Illuminate(f)
          /\ bounds' = bounds \cup {f} /\ stack' = AfterStep
          /\ UNCHANGED <<prog, todo, outerEnvs, definitions, declared, functions,
                         externs, checked, deferredBodies, draining, outcome>>
      BY <1>4 DEF CallFunction
    <2>2. /\ postparsed' = postparsed \cup {f}
          /\ deferredFunctions' \in Seq(Fn)
          /\ ToSet(deferredFunctions) \subseteq ToSet(deferredFunctions')
          /\ f \in postparsed \cup ToSet(deferredFunctions')
      BY <1>2, <2>1, IlluminateEffect
    <2> HIDE DEF f
    <2>3. TypeOK'
      BY <1>1, <1>2, <2>1, <2>2 DEF NothingIsLost, TypeOK
    <2>4. Known'
      BY <1>1, <1>2, <2>1, <2>2 DEF NothingIsLost, Known
    <2>5. OnTheWay'
      BY <1>2, <2>1 DEF NothingIsLost, OnTheWay
    <2>6. QED  BY <2>3, <2>4, <2>5 DEF NothingIsLost
  <1>5. QED  BY <1>3, <1>4

\* A lambda is called, or a closure made.
LEMMA LambdaIsFine ==
  ASSUME NothingIsLost, CallLambda \/ MakeClosure
  PROVE  NothingIsLost'
  <1> DEFINE f == Head(Top.steps).fn
  <1>1. /\ outcome = "running" /\ stack # <<>> /\ Top.steps # <<>> /\ stack \in Seq(Frames)
    BY DEF CallLambda, MakeClosure, AtStep, Running, NothingIsLost, TypeOK
  <1>2. /\ AfterStep \in Seq(Frames) /\ f \in Fn
        /\ FnsOf(AfterStep) = FnsOf(stack) /\ DefinedOf(AfterStep) = DefinedOf(stack)
    BY <1>1, SteppedFrame DEF AfterStep, Top, Steps
  <1>3. CASE Panic
    BY <1>1, <1>3, PanicIsFine
  <1>4. CASE ~ Panic
    <2>1. /\ EvaluateHeader(f, AfterStep)
          /\ postparsed' = postparsed \cup {f}
          /\ bounds' \in {bounds, bounds \cup {f}}
          /\ UNCHANGED <<prog, todo, outerEnvs, definitions, checked,
                         deferredFunctions, draining, outcome>>
      BY <1>4 DEF CallLambda, MakeClosure
    <2> HIDE DEF f
    <2>2. /\ declared' = declared \cup {f}
          /\ functions' \in {functions, functions \cup {f}}
          /\ functions' \subseteq declared' /\ externs' \subseteq functions'
          /\ deferredBodies' \in Seq(Fn) /\ ToSet(deferredBodies') \subseteq declared'
          /\ stack' \in Seq(Frames) /\ FnsOf(stack') \subseteq declared'
          /\ FnsOf(stack) \subseteq FnsOf(stack')
          /\ DefinedOf(stack') \subseteq functions'
          /\ declared' \subseteq functions' \cup ToSet(deferredBodies') \cup FnsOf(stack')
      BY <1>1, <1>2, <2>1, HeaderEffect
    <2>3. TypeOK'
      BY <1>1, <1>2, <2>1, <2>2 DEF NothingIsLost, TypeOK
    <2>4. Known'
      BY <1>1, <2>1, <2>2 DEF NothingIsLost, Known
    <2>5. OnTheWay'
      BY <2>1, <2>2 DEF NothingIsLost, OnTheWay
    <2>6. QED  BY <2>3, <2>4, <2>5 DEF NothingIsLost
  <1>5. QED  BY <1>3, <1>4

LEMMA DefineFunctionIsFine ==
  ASSUME NothingIsLost, DefineFunction
  PROVE  NothingIsLost'
  <1>1. outcome = "running" /\ stack # <<>> /\ stack \in Seq(Frames)
    BY DEF DefineFunction, Running, NothingIsLost, TypeOK
  <1>2. CASE Panic
    BY <1>1, <1>2, PanicIsFine
  <1>3. CASE ~ Panic
    <2>1. /\ functions' = functions \cup {Top.fn}
          /\ stack' = [stack EXCEPT ![Len(stack)].defined = TRUE]
          /\ UNCHANGED <<prog, todo, postparsed, outerEnvs, definitions, declared, externs,
                         checked, bounds, deferredFunctions, deferredBodies, draining, outcome>>
      BY <1>3 DEF DefineFunction, queues
    <2>2. /\ stack' \in Seq(Frames)
          /\ FnsOf(stack') = FnsOf(stack)
          /\ DefinedOf(stack') \subseteq DefinedOf(stack) \cup {Top.fn}
          /\ Top.fn \in Fn /\ Top.fn \in FnsOf(stack)
      BY <1>1, <2>1, DefinedFrame DEF Top
    <2>3. TypeOK'
      BY <1>1, <2>1, <2>2 DEF NothingIsLost, TypeOK, OnTheWay
    <2>4. Known'
      BY <2>1 DEF NothingIsLost, Known
    <2>5. OnTheWay'
      BY <2>1, <2>2 DEF NothingIsLost, OnTheWay
    <2>6. QED  BY <2>3, <2>4, <2>5 DEF NothingIsLost
  <1>4. QED  BY <1>2, <1>3

LEMMA CheckFunctionIsFine ==
  ASSUME NothingIsLost, CheckFunction
  PROVE  NothingIsLost'
  <1>1. outcome = "running" /\ stack # <<>> /\ stack \in Seq(Frames) /\ Top.defined
    BY DEF CheckFunction, Running, NothingIsLost, TypeOK
  <1>2. /\ Front(stack) \in Seq(Frames)
        /\ FnsOf(stack) \subseteq FnsOf(Front(stack)) \cup {Top.fn}
        /\ FnsOf(Front(stack)) \subseteq FnsOf(stack)
        /\ DefinedOf(Front(stack)) \subseteq DefinedOf(stack)
        /\ Top.fn \in Fn /\ Top.fn \in DefinedOf(stack)
    BY <1>1, PoppedFrame DEF Top
  <1>3. Top.fn \in functions
    BY <1>2 DEF NothingIsLost, OnTheWay
  <1>4. CASE Panic
    BY <1>1, <1>4, PanicIsFine
  <1>5. CASE outcome' = "failed" /\ UNCHANGED <<prog, todo, tables, queues, stack>>
    <2>1. UNCHANGED <<prog, todo, postparsed, outerEnvs, definitions, declared, functions,
                      externs, checked, bounds, deferredFunctions, deferredBodies, draining,
                      stack>>
      BY <1>5 DEF tables, queues
    <2>2. QED  BY <1>1, <1>5, <2>1 DEF NothingIsLost, TypeOK, Known, OnTheWay
  <1>6. CASE /\ stack' = Front(stack)
             /\ checked' \in {checked, checked \cup {Top.fn}}
             /\ UNCHANGED <<prog, todo, postparsed, outerEnvs, definitions, declared,
                            functions, externs, bounds, queues, outcome>>
    <2>1. UNCHANGED <<deferredFunctions, deferredBodies, draining>>
      BY <1>6 DEF queues
    <2>2. TypeOK'
      BY <1>1, <1>2, <1>3, <1>6, <2>1 DEF NothingIsLost, TypeOK
    <2>3. Known'
      BY <1>6, <2>1 DEF NothingIsLost, Known
    <2>4. OnTheWay'
      BY <1>2, <1>3, <1>6, <2>1 DEF NothingIsLost, OnTheWay
    <2>5. QED  BY <2>2, <2>3, <2>4 DEF NothingIsLost
  <1>7. QED  BY <1>4, <1>5, <1>6 DEF CheckFunction, tables

LEMMA DrainIsFine ==
  ASSUME NothingIsLost, DrainFunction \/ DrainBody
  PROVE  NothingIsLost'
  <1>1. outcome = "running" /\ stack = <<>> /\ stack \in Seq(Frames)
    BY DEF DrainFunction, DrainBody, AtLoop, Running, NothingIsLost, TypeOK
  <1>2. CASE Panic
    BY <1>1, <1>2, PanicIsFine
  <1>3. CASE DrainFunction /\ ~ Panic
    <2> DEFINE f == Head(deferredFunctions)
    <2>1. /\ EvaluateHeader(f, stack)
          /\ draining' = [queue |-> "functions", fn |-> f]
          /\ UNCHANGED <<prog, todo, postparsed, outerEnvs, definitions, checked, bounds,
                         deferredFunctions, outcome>>
      BY <1>3 DEF DrainFunction
    <2>2. f \in Fn
      BY <1>3, ToSetOfTail DEF DrainFunction, NothingIsLost, TypeOK
    <2> HIDE DEF f
    <2>3. /\ declared' = declared \cup {f}
          /\ functions' \in {functions, functions \cup {f}}
          /\ functions' \subseteq declared' /\ externs' \subseteq functions'
          /\ deferredBodies' \in Seq(Fn) /\ ToSet(deferredBodies') \subseteq declared'
          /\ stack' \in Seq(Frames) /\ FnsOf(stack') \subseteq declared'
          /\ FnsOf(stack) \subseteq FnsOf(stack')
          /\ DefinedOf(stack') \subseteq functions'
          /\ declared' \subseteq functions' \cup ToSet(deferredBodies') \cup FnsOf(stack')
      BY <1>1, <2>1, <2>2, HeaderEffect
    <2>4. TypeOK'
      BY <1>1, <2>1, <2>2, <2>3 DEF NothingIsLost, TypeOK
    <2>5. Known'
      BY <1>1, <2>1, <2>3 DEF NothingIsLost, Known
    <2>6. OnTheWay'
      BY <2>1, <2>3 DEF NothingIsLost, OnTheWay
    <2>7. QED  BY <2>4, <2>5, <2>6 DEF NothingIsLost
  <1>4. CASE DrainBody
    <2> DEFINE f == Head(deferredBodies)
    <2>1. /\ draining' = [queue |-> "bodies", fn |-> f]
          /\ stack' = <<Frame(f, prog.steps[f])>>
          /\ UNCHANGED <<prog, todo, postparsed, outerEnvs, definitions, declared, functions,
                         externs, checked, bounds, deferredFunctions, deferredBodies, outcome>>
      BY <1>4 DEF DrainBody, tables
    <2>2. f \in Fn /\ f \in ToSet(deferredBodies)
      BY <1>4, ToSetOfTail DEF DrainBody, NothingIsLost, TypeOK
    <2>3. prog.steps[f] \in Seq(Steps)
      BY <1>1, <2>2, ProgramsAssumption DEF NothingIsLost, Known, WellFormed
    <2>4. /\ stack' \in Seq(Frames) /\ FnsOf(stack') = {f} /\ DefinedOf(stack') = {}
      BY <2>1, <2>2, <2>3 DEF Frame, Frames, FnsOf, DefinedOf
    <2>5. FnsOf(stack) = {}
      BY <1>1 DEF FnsOf
    <2> HIDE DEF f
    <2>6. TypeOK'
      BY <1>1, <2>1, <2>2, <2>4 DEF NothingIsLost, TypeOK
    <2>7. Known'
      BY <2>1 DEF NothingIsLost, Known
    <2>8. OnTheWay'
      BY <2>1, <2>2, <2>4, <2>5 DEF NothingIsLost, OnTheWay
    <2>9. QED  BY <2>6, <2>7, <2>8 DEF NothingIsLost
  <1>5. QED  BY <1>2, <1>3, <1>4

LEMMA MarkIsFine ==
  ASSUME NothingIsLost, MarkFunctionCompiled \/ MarkBodyCompiled
  PROVE  NothingIsLost'
  <1>1. outcome = "running" /\ stack = <<>> /\ FnsOf(stack) = {}
    BY DEF MarkFunctionCompiled, MarkBodyCompiled, Running, FnsOf
  <1>2. CASE Panic
    BY <1>1, <1>2, PanicIsFine
  <1>3. CASE MarkFunctionCompiled /\ ~ Panic
    <2>1. /\ draining.queue = "functions" /\ deferredFunctions # <<>>
          /\ Head(deferredFunctions) = draining.fn
          /\ deferredFunctions' = Tail(deferredFunctions) /\ draining' = NotDraining
          /\ UNCHANGED <<prog, todo, postparsed, outerEnvs, definitions, declared, functions,
                         externs, checked, bounds, deferredBodies, stack, outcome>>
      BY <1>3 DEF MarkFunctionCompiled, tables
    <2>2. /\ deferredFunctions' \in Seq(Fn)
          /\ ToSet(deferredFunctions) \subseteq ToSet(deferredFunctions') \cup {draining.fn}
      BY <2>1, ToSetOfTail DEF NothingIsLost, TypeOK
    <2>3. TypeOK'
      BY <1>1, <2>1, <2>2 DEF NothingIsLost, TypeOK, NotDraining
    <2>4. Known'
      BY <1>1, <2>1, <2>2 DEF NothingIsLost, Known, NotDraining
    <2>5. OnTheWay'
      BY <2>1 DEF NothingIsLost, OnTheWay, NotDraining
    <2>6. QED  BY <2>3, <2>4, <2>5 DEF NothingIsLost
  <1>4. CASE MarkBodyCompiled /\ ~ Panic
    <2>1. /\ draining.queue = "bodies" /\ deferredBodies # <<>>
          /\ Head(deferredBodies) = draining.fn
          /\ deferredBodies' = Tail(deferredBodies) /\ draining' = NotDraining
          /\ UNCHANGED <<prog, todo, postparsed, outerEnvs, definitions, declared, functions,
                         externs, checked, bounds, deferredFunctions, stack, outcome>>
      BY <1>4 DEF MarkBodyCompiled, tables
    <2>2. /\ deferredBodies' \in Seq(Fn)
          /\ ToSet(deferredBodies) = ToSet(deferredBodies') \cup {draining.fn}
      BY <2>1, ToSetOfTail DEF NothingIsLost, TypeOK
    <2>3. draining.fn \in functions
      BY <1>1, <2>1 DEF NothingIsLost, OnTheWay
    <2>4. TypeOK'
      BY <1>1, <2>1, <2>2 DEF NothingIsLost, TypeOK, NotDraining
    <2>5. Known'
      BY <1>1, <2>1, <2>2 DEF NothingIsLost, Known, NotDraining
    <2>6. OnTheWay'
      BY <2>1, <2>2, <2>3 DEF NothingIsLost, OnTheWay, NotDraining
    <2>7. QED  BY <2>4, <2>5, <2>6 DEF NothingIsLost
  <1>5. QED  BY <1>2, <1>3, <1>4

LEMMA FinishIsFine ==
  ASSUME NothingIsLost, Finish
  PROVE  NothingIsLost'
  <1>1. /\ outcome = "running" /\ outcome' = "done"
        /\ UNCHANGED <<prog, todo, postparsed, outerEnvs, definitions, declared, functions,
                       externs, checked, bounds, deferredFunctions, deferredBodies, draining,
                       stack>>
    BY DEF Finish, LoopIsOver, AtLoop, Running, tables, queues
  <1>2. WellFormed(prog')
    BY <1>1, ProgramsAssumption DEF NothingIsLost, Known
  <1>3. TypeOK'
    BY <1>1, <1>2 DEF NothingIsLost, TypeOK
  <1>4. QED  BY <1>1, <1>3 DEF NothingIsLost, Known, OnTheWay

LEMMA StutterIsFine ==
  ASSUME NothingIsLost, UNCHANGED vars
  PROVE  NothingIsLost'
  <1>1. UNCHANGED <<prog, todo, postparsed, outerEnvs, definitions, declared, functions,
                    externs, checked, bounds, deferredFunctions, deferredBodies, draining,
                    stack, outcome>>
    BY DEF vars, tables, queues
  <1>2. QED  BY <1>1 DEF NothingIsLost, TypeOK, Known, OnTheWay

\* The invariant is inductive.
LEMMA NextIsFine == NothingIsLost /\ [Next]_vars => NothingIsLost'
  <1> SUFFICES ASSUME NothingIsLost, [Next]_vars PROVE NothingIsLost'
    OBVIOUS
  <1>1. ASSUME NEW p \in Programs, Evaluate(p) PROVE NothingIsLost'
    BY <1>1, EvaluateIsFine
  <1>2. CASE Continue
    BY <1>2, PhaseStepIsFine, CompileHeaderIsFine, ResolveFunctionIsFine, CallFunctionIsFine,
       LambdaIsFine, DefineFunctionIsFine, CheckFunctionIsFine, DrainIsFine, MarkIsFine,
       FinishIsFine DEF Continue
  <1>3. QED  BY <1>1, <1>2, StutterIsFine DEF Next

-----------------------------------------------------------------------------

\* The tables keep to their types and to each other: nothing is compiled that
\* was not declared, nor extern or borrow-checked that was not compiled.
THEOREM TypeCorrect == Spec => []TypeOK
  <1>1. NothingIsLost => TypeOK
    BY DEF NothingIsLost
  <1>2. QED  BY <1>1, InitIsFine, NextIsFine, PTL DEF Spec

-----------------------------------------------------------------------------
(* The refinement                                                          *)

\* The schedule, the stack and the queues at the end of a pass.
Emptied ==
  stack = <<>> /\ todo = <<>> /\ deferredFunctions = <<>> /\ deferredBodies = <<>>

\* Then nothing is left: whatever got an environment, or was handed out to a
\* caller, has a definition.
LEMMA NothingIsLeft ==
  ASSUME NothingIsLost, Emptied
  PROVE  declared \cup bounds = functions
  <1>1. /\ ToSet(deferredBodies) = {} /\ ToSet(deferredFunctions) = {}
        /\ FnsOf(stack) = {} /\ Scheduled(todo) = {}
    BY ToSetOfNone DEF Emptied, FnsOf, Scheduled
  <1>2. QED  BY <1>1 DEF NothingIsLost, Known, OnTheWay, TypeOK

\* A step that hands out one function, and compiles none but that.
LEMMA HandingOut ==
  ASSUME NEW f \in Fn, outcome = "running", outcome' = "running",
         (declared \cup bounds)' = declared \cup bounds \cup {f},
         functions' \in {functions, functions \cup {f}}
  PROVE  [Once!Next]_(Once!vars)
  <1>1. CASE functions' # functions
    <2>1. Once!Compile(f)
      BY <1>1 DEF Once!Compile
    <2>2. QED  BY <2>1 DEF Once!Next
  <1>2. CASE functions' = functions /\ f \in declared \cup bounds
    BY <1>2 DEF Once!vars
  <1>3. CASE functions' = functions /\ f \notin declared \cup bounds
    <2>1. Once!Request(f)
      BY <1>3 DEF Once!Request
    <2>2. QED  BY <2>1 DEF Once!Next
  <1>4. QED  BY <1>1, <1>2, <1>3

\* A step that leaves the functions alone and may end badly.
LEMMA LookingOn ==
  ASSUME outcome = "running", outcome' \in {"running", "failed", "panicked"},
         UNCHANGED <<declared, bounds, functions>>
  PROVE  [Once!Next]_(Once!vars)
  <1>1. CASE outcome' = "running"
    BY <1>1 DEF Once!vars
  <1>2. CASE outcome' # "running"
    <2>1. Once!Fail
      BY <1>2 DEF Once!Fail
    <2>2. QED  BY <2>1 DEF Once!Next
  <1>3. QED  BY <1>1, <1>2

\* Every step of the typing pass is a step of CompileOnce, or none.
LEMMA StepsAreOnce ==
  ASSUME NothingIsLost, [Next]_vars
  PROVE  [Once!Next]_(Once!vars)
  <1>1. ASSUME NEW p \in Programs, Evaluate(p) PROVE [Once!Next]_(Once!vars)
    <2>1. Once!Begin
      BY <1>1 DEF Evaluate, Once!Begin
    <2>2. QED  BY <2>1 DEF Once!Next
  <1>2. CASE outcome = "running" /\ Panic
    BY <1>2, LookingOn DEF Panic, tables
  <1>3. CASE Precompile \/ DeferMethod \/ CompileCitizen \/ CheckFunction \/ DrainBody
             \/ MarkFunctionCompiled \/ MarkBodyCompiled
    <2>1. outcome = "running"
      BY <1>3 DEF Precompile, DeferMethod, CompileCitizen, CheckFunction, DrainBody,
                  MarkFunctionCompiled, MarkBodyCompiled, AtTask, AtLoop, Running
    <2>2. /\ outcome' \in {"running", "failed", "panicked"}
          /\ UNCHANGED <<declared, bounds, functions>>
      BY <1>3, <2>1
      DEF Precompile, DeferMethod, CompileCitizen, CheckFunction, DrainBody,
          MarkFunctionCompiled, MarkBodyCompiled, Panic, tables
    <2>3. QED  BY <2>1, <2>2, LookingOn
  <1>4. CASE CompileHeader /\ ~ Panic
    <2>1. /\ outcome = "running" /\ todo # <<>> /\ Head(todo).op = "header"
          /\ todo \in Seq(CitizenTask \cup FunctionTask) /\ stack \in Seq(Frames)
      BY <1>4 DEF CompileHeader, AtTask, Running, NothingIsLost, TypeOK
    <2>2. Head(todo).fn \in Fn
      BY <2>1, ScheduledTail DEF CitizenTask, FunctionTask
    <2>3. EvaluateHeader(Head(todo).fn, stack) /\ UNCHANGED <<bounds, outcome>>
      BY <1>4 DEF CompileHeader
    <2>4. /\ declared' = declared \cup {Head(todo).fn}
          /\ functions' \in {functions, functions \cup {Head(todo).fn}}
      BY <2>1, <2>2, <2>3, HeaderEffect
    <2>5. QED  BY <2>1, <2>2, <2>3, <2>4, HandingOut
  <1>5. CASE ResolveFunction /\ ~ Panic
    <2>1. /\ outcome = "running" /\ todo # <<>> /\ Head(todo).op = "resolve"
          /\ todo \in Seq(CitizenTask \cup FunctionTask)
      BY <1>5 DEF ResolveFunction, AtTask, Running, NothingIsLost, TypeOK
    <2>2. Head(todo).fn \in Fn
      BY <2>1, ScheduledTail DEF CitizenTask, FunctionTask
    <2>3. bounds' = bounds \cup {Head(todo).fn} /\ UNCHANGED <<declared, functions, outcome>>
      BY <1>5 DEF ResolveFunction
    <2>4. QED  BY <2>1, <2>2, <2>3, HandingOut
  <1>6. CASE (CallFunction \/ CallLambda \/ MakeClosure) /\ ~ Panic
    <2> DEFINE f == Head(Top.steps).fn
    <2>1. /\ outcome = "running" /\ stack # <<>> /\ Top.steps # <<>>
          /\ stack \in Seq(Frames)
      BY <1>6 DEF CallFunction, CallLambda, MakeClosure, AtStep, Running, NothingIsLost, TypeOK
    <2>2. /\ AfterStep \in Seq(Frames) /\ f \in Fn
          /\ FnsOf(AfterStep) = FnsOf(stack) /\ DefinedOf(AfterStep) = DefinedOf(stack)
      BY <2>1, SteppedFrame DEF AfterStep, Top, Steps
    <2>3. CASE CallFunction
      <3>1. bounds' = bounds \cup {f} /\ UNCHANGED <<declared, functions, outcome>>
        BY <1>6, <2>3 DEF CallFunction
      <3>2. QED  BY <2>1, <2>2, <3>1, HandingOut
    <2>4. CASE CallLambda \/ MakeClosure
      <3>1. /\ EvaluateHeader(f, AfterStep) /\ UNCHANGED outcome
            /\ bounds' \in {bounds, bounds \cup {f}}
        BY <1>6, <2>4 DEF CallLambda, MakeClosure
      <3> HIDE DEF f
      <3>2. declared' = declared \cup {f} /\ functions' \in {functions, functions \cup {f}}
        BY <2>1, <2>2, <3>1, HeaderEffect
      <3>3. QED  BY <2>1, <2>2, <3>1, <3>2, HandingOut
    <2>5. QED  BY <1>6, <2>3, <2>4
  <1>7. CASE DefineFunction /\ ~ Panic
    <2>1. outcome = "running" /\ stack # <<>> /\ stack \in Seq(Frames)
      BY <1>7 DEF DefineFunction, Running, NothingIsLost, TypeOK
    <2>2. Top.fn \in Fn /\ Top.fn \in FnsOf(stack)
      BY <2>1, DefinedFrame DEF Top
    <2>3. Top.fn \in declared
      BY <2>2 DEF NothingIsLost, OnTheWay
    <2>4. /\ functions' = functions \cup {Top.fn} /\ UNCHANGED <<declared, bounds, outcome>>
      BY <1>7 DEF DefineFunction
    <2>5. QED  BY <2>1, <2>2, <2>3, <2>4, HandingOut
  <1>8. CASE DrainFunction /\ ~ Panic
    <2> DEFINE f == Head(deferredFunctions)
    <2>1. /\ outcome = "running" /\ stack \in Seq(Frames) /\ f \in Fn
      BY <1>8, ToSetOfTail DEF DrainFunction, AtLoop, Running, NothingIsLost, TypeOK
    <2>2. EvaluateHeader(f, stack) /\ UNCHANGED <<bounds, outcome>>
      BY <1>8 DEF DrainFunction
    <2> HIDE DEF f
    <2>3. declared' = declared \cup {f} /\ functions' \in {functions, functions \cup {f}}
      BY <2>1, <2>2, HeaderEffect
    <2>4. QED  BY <2>1, <2>2, <2>3, HandingOut
  <1>9. CASE Finish
    <2>1. declared \cup bounds = functions
      BY <1>9, NothingIsLeft DEF Finish, LoopIsOver, AtLoop, Emptied
    <2>2. Once!Finish
      BY <1>9, <2>1 DEF Finish, LoopIsOver, AtLoop, Running, tables, Once!Finish
    <2>3. QED  BY <2>2 DEF Once!Next
  <1>10. CASE UNCHANGED vars
    BY <1>10 DEF vars, tables, Once!vars
  <1>11. QED
    BY <1>1, <1>2, <1>3, <1>4, <1>5, <1>6, <1>7, <1>8, <1>9, <1>10
    DEF Next, Continue, CompileHeader, ResolveFunction, CallFunction, CallLambda, MakeClosure,
        DefineFunction, DrainFunction, AtTask, AtStep, AtLoop, Running

\* The typing pass keeps the promise of CompileOnce: it compiles each function
\* once, and it ends well only if nothing it ever declared or handed out is
\* left without a definition, whatever the queues and the recursion did.
THEOREM CompilesOnce == Spec => RefinesCompileOnce
  <1>1. Init => Once!Init
    BY DEF Init, Once!Init
  <1>2. NothingIsLost /\ [Next]_vars => [Once!Next]_(Once!vars)
    BY StepsAreOnce
  <1>3. QED  BY <1>1, <1>2, InitIsFine, NextIsFine, PTL DEF Spec, RefinesCompileOnce, Once!Spec

-----------------------------------------------------------------------------
(* The result                                                              *)

\* The functions that steps call or make the closures of.
Mentions(steps) == { steps[i].fn : i \in DOMAIN steps }

\* The functions that no sufficient set of functions leaves out.
Needed(p) ==
  { f \in Fn : \A fs \in SUBSET Fn :
      (Roots(p) \subseteq fs /\ \A g \in fs : Mentions(p.steps[g]) \subseteq fs) => f \in fs }

\* What a body mentions is still to come, or was asked for.
Fits(p, s, asked) ==
  \A i \in DOMAIN s :
    /\ p.kind[s[i].fn] \in {"code", "generated", "lambda", "drop"}
    /\ Mentions(s[i].steps) \subseteq Mentions(p.steps[s[i].fn])
    /\ Mentions(p.steps[s[i].fn]) \subseteq Mentions(s[i].steps) \cup asked

\* Where the bodies are: every frame's is one that is compiled, only code waits
\* for its body, and what a compiled one mentions was asked for.
Bodies ==
  /\ Fits(prog, stack, declared \cup bounds)
  /\ \A f \in ToSet(deferredBodies) : prog.kind[f] = "code"
  /\ \A f \in functions : Mentions(prog.steps[f]) \subseteq declared \cup bounds

\* Who is extern and who was checked: all that is checkable and compiled, but
\* for the bodies that were added and are not off the stack yet.
Verdicts ==
  /\ externs = { f \in functions : prog.kind[f] \in {"extern", "rust"} }
  /\ \A f \in checked : Checkable(f) /\ f \notin prog.rejected
  /\ \A f \in functions : Checkable(f) => f \in checked \cup DefinedOf(stack)

\* What has to be compiled was asked for or is scheduled, and no more is.
Coming ==
  /\ Roots(prog) \subseteq declared \cup bounds \cup ToSet(deferredFunctions) \cup FunctionsIn(todo)
  /\ FunctionsIn(todo) \subseteq Roots(prog)
  /\ definitions \cup CitizensIn(todo) = CitizensOf(prog)
  /\ declared \cup bounds \cup ToSet(deferredFunctions) \subseteq Needed(prog)

\* Before a program is there the tables are empty.
NothingBegun ==
  /\ definitions = {} /\ declared = {} /\ functions = {} /\ externs = {} /\ checked = {}
  /\ bounds = {} /\ deferredFunctions = <<>> /\ deferredBodies = <<>> /\ stack = <<>>

\* A failed pass stopped at a body that deserves it.
Refused == stack # <<>> /\ Top.fn \in prog.rejected /\ Checkable(Top.fn)

ResultIsComing ==
  /\ outcome = "waiting" => NothingBegun
  /\ outcome # "waiting" => Bodies /\ Verdicts /\ Coming
  /\ outcome = "done" => Emptied
  /\ outcome = "failed" => Refused

\* Steps mention functions.
LEMMA MentionsAreFunctions ==
  ASSUME NEW steps \in Seq(Steps)
  PROVE  Mentions(steps) \subseteq Fn
  <1>1. \A i \in DOMAIN steps : steps[i] \in Steps
    OBVIOUS
  <1>2. QED  BY <1>1 DEF Mentions, Steps

\* What is needed holds what was written, and whatever a body in it mentions.
LEMMA NeededIsSufficient ==
  ASSUME NEW p, p.steps \in [Fn -> Seq(Steps)]
  PROVE  /\ Roots(p) \cap Fn \subseteq Needed(p)
         /\ \A f \in Needed(p) : Mentions(p.steps[f]) \subseteq Needed(p)
  <1>1. ASSUME NEW f \in Fn PROVE Mentions(p.steps[f]) \subseteq Fn
    <2>1. p.steps[f] \in Seq(Steps)
      OBVIOUS
    <2>2. QED  BY <2>1, MentionsAreFunctions
  <1>2. QED  BY <1>1 DEF Needed

\* The frames on a stack fit, whatever more is asked for, and when one is
\* pushed, when the innermost takes a step (its callee is asked for), when it
\* is added, and when it is popped.
LEMMA FitsMore ==
  ASSUME NEW p, NEW s, NEW asked, NEW more, Fits(p, s, asked), asked \subseteq more
  PROVE  Fits(p, s, more)
  BY DEF Fits

LEMMA FitsPushed ==
  ASSUME NEW p, NEW s \in Seq(Frames), NEW asked, Fits(p, s, asked), NEW f,
         p.kind[f] \in {"code", "generated", "lambda", "drop"}
  PROVE  Fits(p, Append(s, Frame(f, p.steps[f])), asked)
  <1> DEFINE t == Append(s, Frame(f, p.steps[f]))
  <1>1. /\ DOMAIN t = DOMAIN s \cup {Len(s) + 1}
        /\ \A i \in DOMAIN s : t[i] = s[i]
        /\ t[Len(s) + 1] = Frame(f, p.steps[f])
    OBVIOUS
  <1>2. t[Len(s) + 1].fn = f /\ t[Len(s) + 1].steps = p.steps[f]
    BY <1>1 DEF Frame
  <1> HIDE DEF t
  <1>3. \A i \in DOMAIN t : i \in DOMAIN s \/ i = Len(s) + 1
    BY <1>1
  <1>4. ASSUME NEW i \in DOMAIN t
        PROVE  /\ p.kind[t[i].fn] \in {"code", "generated", "lambda", "drop"}
               /\ Mentions(t[i].steps) \subseteq Mentions(p.steps[t[i].fn])
               /\ Mentions(p.steps[t[i].fn]) \subseteq Mentions(t[i].steps) \cup asked
    BY <1>1, <1>2, <1>3 DEF Fits
  <1>5. Fits(p, t, asked)
    BY <1>4 DEF Fits
  <1>6. QED  BY <1>5 DEF t

LEMMA FitsStepped ==
  ASSUME NEW p, NEW s \in Seq(Frames), s # <<>>, s[Len(s)].steps # <<>>,
         NEW asked, Fits(p, s, asked)
  PROVE  LET f == Head(s[Len(s)].steps).fn IN
           /\ f \in Mentions(p.steps[s[Len(s)].fn])
           /\ Fits(p, [s EXCEPT ![Len(s)].steps = Tail(@)], asked \cup {f})
  <1> DEFINE t == [s EXCEPT ![Len(s)].steps = Tail(@)]
             steps == s[Len(s)].steps
             f == Head(steps).fn
  <1>1. Len(s) \in DOMAIN s /\ s[Len(s)] \in Frames
    OBVIOUS
  <1>2. steps \in Seq(Steps) /\ steps # <<>>
    BY <1>1 DEF Frames
  <1>3. Mentions(steps) = Mentions(Tail(steps)) \cup {f}
    <2> HIDE DEF steps
    <2>1. /\ Len(Tail(steps)) = Len(steps) - 1 /\ Head(steps) = steps[1] /\ 1 \in DOMAIN steps
          /\ \A i \in 1..Len(steps) - 1 : Tail(steps)[i] = steps[i + 1] /\ i + 1 \in DOMAIN steps
      BY <1>2
    <2>2. Mentions(Tail(steps)) \cup {f} \subseteq Mentions(steps)
      BY <2>1 DEF Mentions
    <2>3. ASSUME NEW i \in DOMAIN steps, i # 1
          PROVE  steps[i].fn \in Mentions(Tail(steps))
      <3>1. i - 1 \in DOMAIN Tail(steps) /\ Tail(steps)[i - 1] = steps[i]
        BY <1>2, <2>1, <2>3
      <3>2. QED  BY <3>1 DEF Mentions
    <2>4. QED  BY <2>1, <2>2, <2>3 DEF Mentions
  <1>4. DOMAIN t = DOMAIN s /\ t[Len(s)].steps = Tail(steps)
    BY <1>1 DEF Frames
  <1>5. \A i \in DOMAIN s : t[i].fn = s[i].fn /\ (i # Len(s) => t[i].steps = s[i].steps)
    BY <1>1 DEF Frames
  <1>6. Mentions(steps) \subseteq Mentions(p.steps[s[Len(s)].fn])
    BY <1>1 DEF Fits
  <1>7. f \in Mentions(p.steps[s[Len(s)].fn])
    BY <1>3, <1>6
  <1>8. ASSUME NEW i \in DOMAIN t
        PROVE  /\ p.kind[t[i].fn] \in {"code", "generated", "lambda", "drop"}
               /\ Mentions(t[i].steps) \subseteq Mentions(p.steps[t[i].fn])
               /\ Mentions(p.steps[t[i].fn]) \subseteq Mentions(t[i].steps) \cup (asked \cup {f})
    <2> HIDE DEF t, f
    <2>1. CASE i = Len(s)
      <3>1. /\ p.kind[s[i].fn] \in {"code", "generated", "lambda", "drop"}
            /\ Mentions(p.steps[s[i].fn]) \subseteq Mentions(s[i].steps) \cup asked
        BY <1>1, <2>1 DEF Fits
      <3>2. t[i].fn = s[i].fn /\ t[i].steps = Tail(steps) /\ s[i].steps = steps
        BY <1>1, <1>4, <1>5, <2>1
      <3> HIDE DEF steps
      <3>3. QED  BY <1>3, <1>6, <2>1, <3>1, <3>2
    <2>2. CASE i # Len(s)
      BY <1>4, <1>5, <1>8, <2>2 DEF Fits
    <2>3. QED  BY <2>1, <2>2
  <1>9. Fits(p, t, asked \cup {f})
    BY <1>8 DEF Fits
  <1>10. QED  BY <1>7, <1>9

\* A body whose steps are done: all it mentions was asked for.
LEMMA FitsDefined ==
  ASSUME NEW p, NEW s \in Seq(Frames), s # <<>>, s[Len(s)].steps = <<>>,
         NEW asked, Fits(p, s, asked)
  PROVE  LET t == [s EXCEPT ![Len(s)].defined = TRUE] IN
           /\ Fits(p, t, asked)
           /\ DefinedOf(s) \cup {s[Len(s)].fn} \subseteq DefinedOf(t)
           /\ Mentions(p.steps[s[Len(s)].fn]) \subseteq asked
           /\ p.kind[s[Len(s)].fn] \in {"code", "generated", "lambda", "drop"}
  <1> DEFINE t == [s EXCEPT ![Len(s)].defined = TRUE]
  <1>1. Len(s) \in DOMAIN s /\ s[Len(s)] \in Frames
    OBVIOUS
  <1>2. /\ DOMAIN t = DOMAIN s
        /\ \A i \in DOMAIN s : t[i].fn = s[i].fn /\ t[i].steps = s[i].steps
        /\ \A i \in DOMAIN s : i # Len(s) => t[i].defined = s[i].defined
        /\ t[Len(s)].defined = TRUE
    BY <1>1 DEF Frames
  <1>3. Mentions(s[Len(s)].steps) = {}
    BY DEF Mentions
  <1> HIDE DEF t
  <1>4. Fits(p, t, asked)
    BY <1>2 DEF Fits
  <1>5. DefinedOf(s) \cup {s[Len(s)].fn} \subseteq DefinedOf(t)
    BY <1>1, <1>2 DEF DefinedOf
  <1>6. /\ Mentions(p.steps[s[Len(s)].fn]) \subseteq asked
        /\ p.kind[s[Len(s)].fn] \in {"code", "generated", "lambda", "drop"}
    BY <1>1, <1>3 DEF Fits
  <1>7. QED  BY <1>4, <1>5, <1>6 DEF t

LEMMA FitsPopped ==
  ASSUME NEW p, NEW s \in Seq(Frames), s # <<>>, NEW asked, Fits(p, s, asked)
  PROVE  /\ Fits(p, Front(s), asked)
         /\ DefinedOf(s) \subseteq DefinedOf(Front(s)) \cup {s[Len(s)].fn}
         /\ p.kind[s[Len(s)].fn] \in {"code", "generated", "lambda", "drop"}
  <1> DEFINE t == Front(s)
  <1>1. Len(s) \in DOMAIN s /\ Len(s) \in Nat
    OBVIOUS
  <1>2. /\ DOMAIN t = 1..Len(s) - 1
        /\ \A i \in 1..Len(s) - 1 : t[i] = s[i]
    BY <1>1 DEF Front
  <1>3. DOMAIN s = DOMAIN t \cup {Len(s)}
    <2>1. DOMAIN s = 1..Len(s) /\ Len(s) > 0
      BY <1>1
    <2>2. 1..Len(s) = (1..Len(s) - 1) \cup {Len(s)}
      BY <1>1, <2>1
    <2>3. QED  BY <1>2, <2>1, <2>2
  <1> HIDE DEF t
  <1>4. Fits(p, t, asked) /\ p.kind[s[Len(s)].fn] \in {"code", "generated", "lambda", "drop"}
    BY <1>1, <1>2, <1>3 DEF Fits
  <1>5. DefinedOf(s) \subseteq DefinedOf(t) \cup {s[Len(s)].fn}
    BY <1>2, <1>3 DEF DefinedOf
  <1>6. QED  BY <1>4, <1>5 DEF t

\* Taking the first task off the schedule.
LEMMA TasksTail ==
  ASSUME NEW tasks \in Seq(CitizenTask \cup FunctionTask), tasks # <<>>
  PROVE  /\ FunctionsIn(tasks) = FunctionsIn(Tail(tasks)) \cup
              IF Head(tasks).op \in {"defer", "header", "resolve"} THEN {Head(tasks).fn} ELSE {}
         /\ CitizensIn(tasks) = CitizensIn(Tail(tasks)) \cup
              IF Head(tasks).op \in {"struct", "interface"} THEN {Head(tasks).citizen} ELSE {}
  <1> DEFINE rest == Tail(tasks)
  <1>1. /\ Head(tasks) = tasks[1] /\ 1 \in DOMAIN tasks
        /\ DOMAIN rest = 1..Len(tasks) - 1
        /\ \A i \in 1..Len(tasks) - 1 : rest[i] = tasks[i + 1] /\ i + 1 \in DOMAIN tasks
    OBVIOUS
  <1>2. \A i \in DOMAIN tasks : i = 1 \/ (i - 1 \in DOMAIN rest /\ rest[i - 1] = tasks[i])
    OBVIOUS
  <1> HIDE DEF rest
  <1>3. ASSUME NEW fn \in FunctionsIn(tasks)
        PROVE  fn \in FunctionsIn(rest) \cup
                 IF Head(tasks).op \in {"defer", "header", "resolve"} THEN {Head(tasks).fn} ELSE {}
    <2>1. PICK i \in DOMAIN tasks : tasks[i].op \in {"defer", "header", "resolve"} /\ fn = tasks[i].fn
      BY DEF FunctionsIn
    <2>2. QED  BY <1>1, <1>2, <2>1 DEF FunctionsIn
  <1>4. ASSUME NEW c \in CitizensIn(tasks)
        PROVE  c \in CitizensIn(rest) \cup
                 IF Head(tasks).op \in {"struct", "interface"} THEN {Head(tasks).citizen} ELSE {}
    <2>1. PICK i \in DOMAIN tasks : tasks[i].op \in {"struct", "interface"} /\ c = tasks[i].citizen
      BY DEF CitizensIn
    <2>2. QED  BY <1>1, <1>2, <2>1 DEF CitizensIn
  <1>5. /\ FunctionsIn(rest) \subseteq FunctionsIn(tasks)
        /\ CitizensIn(rest) \subseteq CitizensIn(tasks)
    BY <1>1 DEF FunctionsIn, CitizensIn
  <1>6. /\ (Head(tasks).op \in {"defer", "header", "resolve"} => Head(tasks).fn \in FunctionsIn(tasks))
        /\ (Head(tasks).op \in {"struct", "interface"} => Head(tasks).citizen \in CitizensIn(tasks))
    BY <1>1 DEF FunctionsIn, CitizensIn
  <1>7. FunctionsIn(tasks) = FunctionsIn(rest) \cup
              IF Head(tasks).op \in {"defer", "header", "resolve"} THEN {Head(tasks).fn} ELSE {}
    BY <1>3, <1>5, <1>6
  <1>8. CitizensIn(tasks) = CitizensIn(rest) \cup
              IF Head(tasks).op \in {"struct", "interface"} THEN {Head(tasks).citizen} ELSE {}
    BY <1>4, <1>5, <1>6
  <1>9. QED  BY <1>7, <1>8 DEF rest

\* What the assumption on programs says of the one being compiled.
LEMMA ProgramIsFit ==
  ASSUME NothingIsLost, outcome # "waiting"
  PROVE  /\ prog.kind \in [Fn -> Kinds] /\ prog.steps \in [Fn -> Seq(Steps)]
         /\ \A f \in Fn : prog.kind[f] \in {"extern", "rust"} => prog.steps[f] = <<>>
         /\ \A f \in Needed(prog) : Mentions(prog.steps[f]) \subseteq Needed(prog)
         /\ Roots(prog) \cap Fn \subseteq Needed(prog)
  <1>1. WellFormed(prog)
    BY ProgramsAssumption DEF NothingIsLost, Known
  <1>2. QED  BY <1>1, NeededIsSufficient DEF WellFormed

\* What a header does to the tables, if all that is on the stack fits.
LEMMA HeaderKeeps ==
  ASSUME NothingIsLost, ResultIsComing, outcome = "running", NEW f \in Fn,
         NEW frames \in Seq(Frames), DefinedOf(frames) = DefinedOf(stack),
         Fits(prog, frames, declared \cup bounds \cup {f}),
         EvaluateHeader(f, frames), UNCHANGED <<prog, checked>>, bounds \subseteq bounds'
  PROVE  Bodies' /\ Verdicts'
  <1> DEFINE asked == declared \cup bounds \cup {f}
             pushed == Append(frames, Frame(f, prog.steps[f]))
  <1>1. /\ prog.kind[f] \in Kinds /\ prog.steps[f] \in Seq(Steps)
        /\ prog.kind[f] \in {"extern", "rust"} => Mentions(prog.steps[f]) = {}
    BY ProgramIsFit DEF Mentions
  <1>2. Bodies /\ Verdicts
    BY DEF ResultIsComing
  <1>3. declared' = declared \cup {f} /\ asked \subseteq declared' \cup bounds'
    BY DEF EvaluateHeader
  <1>4. Fits(prog, frames, declared' \cup bounds')
    BY <1>3, FitsMore
  <1>5. DefinedOf(pushed) = DefinedOf(stack)
    BY <1>1, PushedFrame
  <1>6. ToSet(Enqueue(deferredBodies, f)) = ToSet(deferredBodies) \cup {f}
    BY ToSetOfEnqueue DEF NothingIsLost, TypeOK
  <1>7. ASSUME stack' \in {frames, pushed}, Fits(prog, stack', declared' \cup bounds'),
               \A g \in ToSet(deferredBodies') : g \in ToSet(deferredBodies) \/ prog.kind[g] = "code",
               \A g \in functions' : g \in functions \/ Mentions(prog.steps[g]) = {}
        PROVE  Bodies'
    <2>1. \A g \in ToSet(deferredBodies') : prog.kind[g] = "code"
      BY <1>2, <1>7 DEF Bodies
    <2>2. \A g \in functions' : Mentions(prog.steps[g]) \subseteq declared' \cup bounds'
      BY <1>2, <1>3, <1>7 DEF Bodies
    <2>3. QED  BY <1>7, <2>1, <2>2 DEF Bodies, Fits
  <1>8. ASSUME DefinedOf(stack') = DefinedOf(stack), UNCHANGED <<functions, externs>>
        PROVE  Verdicts'
    BY <1>2, <1>8 DEF Verdicts, Checkable
  <1> HIDE DEF asked, pushed
  <1>9. CASE f \in functions
    <2>1. UNCHANGED <<functions, externs, deferredBodies>> /\ stack' = frames
      BY <1>9 DEF EvaluateHeader
    <2>2. Bodies'
      BY <1>4, <1>7, <2>1
    <2>3. Verdicts'
      BY <1>8, <2>1
    <2>4. QED  BY <2>2, <2>3
  <1>10. CASE f \notin functions /\ prog.kind[f] = "code"
    <2>1. /\ UNCHANGED <<functions, externs>> /\ stack' = frames
          /\ deferredBodies' = Enqueue(deferredBodies, f)
      BY <1>10 DEF EvaluateHeader
    <2>2. \A g \in ToSet(deferredBodies') : g \in ToSet(deferredBodies) \/ prog.kind[g] = "code"
      BY <1>6, <1>10, <2>1
    <2>3. Bodies'
      BY <1>4, <1>7, <2>1, <2>2
    <2>4. Verdicts'
      BY <1>8, <2>1
    <2>5. QED  BY <2>3, <2>4
  <1>11. CASE f \notin functions /\ prog.kind[f] \in {"extern", "rust"}
    <2>1. /\ functions' = functions \cup {f} /\ externs' = externs \cup {f}
          /\ stack' = frames /\ deferredBodies' = deferredBodies
      BY <1>11 DEF EvaluateHeader
    <2>2. \A g \in functions' : g \in functions \/ Mentions(prog.steps[g]) = {}
      BY <1>1, <1>11, <2>1
    <2>3. Bodies'
      BY <1>4, <1>7, <2>1, <2>2
    <2>4. Verdicts'
      BY <1>2, <1>11, <2>1 DEF Verdicts, Checkable
    <2>5. QED  BY <2>3, <2>4
  <1>12. CASE f \notin functions /\ prog.kind[f] \in {"generated", "lambda", "drop"}
    <2>1. /\ UNCHANGED <<functions, externs, deferredBodies>> /\ stack' = pushed
      BY <1>12 DEF EvaluateHeader, pushed
    <2>2. Fits(prog, pushed, declared' \cup bounds')
      BY <1>4, <1>12, FitsPushed DEF pushed
    <2>3. Bodies'
      BY <1>7, <2>1, <2>2
    <2>4. Verdicts'
      BY <1>5, <1>8, <2>1
    <2>5. QED  BY <2>3, <2>4
  <1>13. QED  BY <1>1, <1>9, <1>10, <1>11, <1>12 DEF Kinds

\* What a step that hands out f does to what is coming.
LEMMA HandedOutIsComing ==
  ASSUME ResultIsComing, outcome = "running", outcome' = "running", NEW f \in Needed(prog),
         UNCHANGED <<prog, definitions>>,
         (declared \cup bounds)' = declared \cup bounds \cup {f},
         ToSet(deferredFunctions) \subseteq ToSet(deferredFunctions'),
         ToSet(deferredFunctions') \subseteq ToSet(deferredFunctions) \cup {f},
         FunctionsIn(todo) \subseteq FunctionsIn(todo') \cup {f},
         FunctionsIn(todo') \subseteq FunctionsIn(todo),
         CitizensIn(todo') = CitizensIn(todo)
  PROVE  Coming'
  <1>1. Coming
    BY DEF ResultIsComing
  <1> DEFINE asked == declared \cup bounds
  <1>2. asked' = asked \cup {f}
    OBVIOUS
  <1>3. Roots(prog') = Roots(prog) /\ Needed(prog') = Needed(prog) /\ CitizensOf(prog') = CitizensOf(prog)
    OBVIOUS
  <1>4. /\ Roots(prog) \subseteq asked \cup ToSet(deferredFunctions) \cup FunctionsIn(todo)
        /\ FunctionsIn(todo) \subseteq Roots(prog)
        /\ definitions \cup CitizensIn(todo) = CitizensOf(prog)
        /\ asked \cup ToSet(deferredFunctions) \subseteq Needed(prog)
    BY <1>1 DEF Coming
  <1> HIDE DEF asked
  <1>5. /\ Roots(prog) \subseteq asked' \cup ToSet(deferredFunctions') \cup FunctionsIn(todo')
        /\ FunctionsIn(todo') \subseteq Roots(prog)
        /\ definitions \cup CitizensIn(todo') = CitizensOf(prog)
        /\ asked' \cup ToSet(deferredFunctions') \subseteq Needed(prog)
    BY <1>2, <1>4
  <1>6. QED  BY <1>3, <1>5 DEF Coming, asked

\* A panic, or the end, changes nothing else.
LEMMA EndingKeeps ==
  ASSUME ResultIsComing, outcome = "running", outcome' \in {"panicked", "done", "failed"},
         UNCHANGED <<prog, todo, tables, queues, stack>>,
         outcome' = "failed" => Refused, outcome' = "done" => Emptied
  PROVE  ResultIsComing'
  <1>1. UNCHANGED <<prog, todo, definitions, declared, functions, externs, checked, bounds,
                    deferredFunctions, deferredBodies, stack>>
    BY DEF tables, queues
  <1>2. Bodies'
    BY <1>1 DEF ResultIsComing, Bodies, Fits
  <1>3. Verdicts'
    BY <1>1 DEF ResultIsComing, Verdicts, Checkable
  <1>4. Coming'
    BY <1>1 DEF ResultIsComing, Coming
  <1>5. outcome' = "failed" => Refused'
    BY <1>1 DEF Refused, Top, Checkable
  <1>6. outcome' = "done" => Emptied'
    BY <1>1 DEF Emptied
  <1>7. QED  BY <1>2, <1>3, <1>4, <1>5, <1>6 DEF ResultIsComing

LEMMA PanicKeeps ==
  ASSUME ResultIsComing, outcome = "running", Panic
  PROVE  ResultIsComing'
  BY EndingKeeps DEF Panic

\* A running step that keeps all three parts.
LEMMA Together ==
  ASSUME outcome' = "running", Bodies', Verdicts', Coming'
  PROVE  ResultIsComing'
  BY DEF ResultIsComing

\* Illuminating f defers f at most.
LEMMA DeferredBy ==
  ASSUME NothingIsLost, NEW f \in Fn, Illuminate(f)
  PROVE  /\ ToSet(deferredFunctions) \subseteq ToSet(deferredFunctions')
         /\ ToSet(deferredFunctions') \subseteq ToSet(deferredFunctions) \cup {f}
  BY ToSetOfEnqueue DEF Illuminate, NothingIsLost, TypeOK

\* A body on the stack or in the queue is as well if one more is asked for.
LEMMA AskingKeepsBodies ==
  ASSUME Bodies, bounds \subseteq bounds',
         UNCHANGED <<prog, declared, functions, deferredBodies, stack>>
  PROVE  Bodies'
  <1>1. Fits(prog, stack, declared' \cup bounds')
    BY FitsMore DEF Bodies
  <1>2. QED  BY <1>1 DEF Bodies, Fits

LEMMA EvaluateKeeps ==
  ASSUME ResultIsComing, NEW p \in Programs, Evaluate(p)
  PROVE  ResultIsComing'
  <1>1. /\ WellFormed(p) /\ NothingBegun /\ prog' = p /\ todo' = Schedule(p)
        /\ outcome' = "running"
        /\ UNCHANGED <<definitions, declared, functions, externs, checked, bounds,
                       deferredFunctions, deferredBodies, stack>>
    BY ProgramsAssumption DEF Evaluate, queues, ResultIsComing
  <1>2. Bodies'
    BY <1>1, ToSetOfNone DEF NothingBegun, Bodies, Fits
  <1>3. Verdicts'
    BY <1>1 DEF NothingBegun, Verdicts
  <1>4. Coming'
    <2>1. FunctionsIn(todo') = Roots(p) /\ CitizensIn(todo') = CitizensOf(p)
      BY <1>1 DEF WellFormed
    <2>2. ToSet(deferredFunctions') = {} /\ declared' \cup bounds' = {} /\ definitions' = {}
      BY <1>1, ToSetOfNone DEF NothingBegun
    <2>3. QED  BY <1>1, <2>1, <2>2 DEF Coming
  <1>5. QED  BY <1>1, <1>2, <1>3, <1>4, Together

LEMMA PhaseStepKeeps ==
  ASSUME NothingIsLost, ResultIsComing, Precompile \/ CompileCitizen \/ DeferMethod
  PROVE  ResultIsComing'
  <1> DEFINE task == Head(todo)
  <1>1. /\ outcome = "running" /\ todo # <<>> /\ Bodies /\ Verdicts /\ Coming
        /\ todo \in Seq(CitizenTask \cup FunctionTask)
    BY DEF Precompile, CompileCitizen, DeferMethod, AtTask, Running, NothingIsLost, TypeOK,
           ResultIsComing
  <1>2. /\ FunctionsIn(todo) = FunctionsIn(Tail(todo)) \cup
              IF task.op \in {"defer", "header", "resolve"} THEN {task.fn} ELSE {}
        /\ CitizensIn(todo) = CitizensIn(Tail(todo)) \cup
              IF task.op \in {"struct", "interface"} THEN {task.citizen} ELSE {}
        /\ task \in CitizenTask \cup FunctionTask
    BY <1>1, TasksTail, ScheduledTail
  <1>3. CASE Panic
    BY <1>1, <1>3, PanicKeeps
  <1>4. CASE ~ Panic
    <2>1. /\ todo' = Tail(todo) /\ outcome' = "running"
          /\ UNCHANGED <<prog, declared, functions, externs, checked, bounds, deferredBodies,
                         stack>>
      BY <1>1, <1>4 DEF Precompile, CompileCitizen, DeferMethod, queues, tables
    <2>2. Bodies'
      BY <1>1, <2>1 DEF Bodies, Fits
    <2>3. Verdicts'
      BY <1>1, <2>1 DEF Verdicts, Checkable
    <2> HIDE DEF task
    <2>4. CASE Precompile
      <3>1. UNCHANGED <<definitions, deferredFunctions>>
        BY <1>4, <2>4 DEF Precompile, queues
      <3>2. FunctionsIn(todo') = FunctionsIn(todo) /\ CitizensIn(todo') = CitizensIn(todo)
        BY <1>2, <2>1, <2>4 DEF Precompile, AtTask, task
      <3>3. Coming'
        BY <1>1, <2>1, <3>1, <3>2 DEF Coming
      <3>4. QED  BY <2>1, <2>2, <2>3, <3>3, Together
    <2>5. CASE CompileCitizen
      <3>1. UNCHANGED deferredFunctions /\ definitions' = definitions \cup {task.citizen}
        BY <1>4, <2>5 DEF CompileCitizen, queues, task
      <3>2. /\ FunctionsIn(todo') = FunctionsIn(todo)
            /\ CitizensIn(todo) = CitizensIn(todo') \cup {task.citizen}
        BY <1>2, <2>1, <2>5 DEF CompileCitizen, AtTask, task
      <3>3. definitions' \cup CitizensIn(todo') = definitions \cup CitizensIn(todo)
        BY <3>1, <3>2
      <3>4. Coming'
        BY <1>1, <2>1, <3>1, <3>2, <3>3 DEF Coming
      <3>5. QED  BY <2>1, <2>2, <2>3, <3>4, Together
    <2>6. CASE DeferMethod
      <3>1. UNCHANGED definitions /\ deferredFunctions' = Enqueue(deferredFunctions, task.fn)
        BY <2>6 DEF DeferMethod, tables, task
      <3>2. task.op = "defer" /\ task.fn \in Fn
        BY <1>2, <2>6 DEF DeferMethod, AtTask, task, CitizenTask, FunctionTask
      <3>3. ToSet(deferredFunctions') = ToSet(deferredFunctions) \cup {task.fn}
        BY <3>1, <3>2, ToSetOfEnqueue DEF NothingIsLost, TypeOK
      <3>4. /\ FunctionsIn(todo) = FunctionsIn(todo') \cup {task.fn}
            /\ CitizensIn(todo') = CitizensIn(todo)
        BY <1>2, <2>1, <3>2
      <3>5. task.fn \in Needed(prog)
        BY <1>1, <3>2, <3>4, ProgramIsFit DEF Coming
      <3>6. Coming'
        BY <1>1, <2>1, <3>1, <3>3, <3>4, <3>5 DEF Coming
      <3>7. QED  BY <2>1, <2>2, <2>3, <3>6, Together
    <2>7. QED  BY <2>4, <2>5, <2>6
  <1>5. QED  BY <1>3, <1>4

LEMMA CompileHeaderKeeps ==
  ASSUME NothingIsLost, ResultIsComing, CompileHeader
  PROVE  ResultIsComing'
  <1> DEFINE f == Head(todo).fn
  <1>1. /\ outcome = "running" /\ todo # <<>> /\ Head(todo).op = "header"
        /\ todo \in Seq(CitizenTask \cup FunctionTask) /\ stack \in Seq(Frames)
        /\ Bodies /\ Coming
    BY DEF CompileHeader, AtTask, Running, NothingIsLost, TypeOK, ResultIsComing
  <1>2. /\ f \in Fn
        /\ FunctionsIn(todo) = FunctionsIn(Tail(todo)) \cup {f}
        /\ CitizensIn(todo) = CitizensIn(Tail(todo))
    BY <1>1, ScheduledTail, TasksTail DEF CitizenTask, FunctionTask
  <1>3. CASE Panic
    BY <1>1, <1>3, PanicKeeps
  <1>4. CASE ~ Panic
    <2>1. /\ EvaluateHeader(f, stack) /\ todo' = Tail(todo)
          /\ UNCHANGED <<prog, definitions, checked, bounds, deferredFunctions, outcome>>
      BY <1>4 DEF CompileHeader
    <2>2. f \in Needed(prog)
      BY <1>1, <1>2, ProgramIsFit DEF Coming
    <2> HIDE DEF f
    <2>3. Fits(prog, stack, declared \cup bounds \cup {f})
      BY <1>1, FitsMore DEF Bodies
    <2>4. Bodies' /\ Verdicts'
      BY <1>1, <1>2, <2>1, <2>3, HeaderKeeps
    <2>5. (declared \cup bounds)' = declared \cup bounds \cup {f}
      BY <2>1 DEF EvaluateHeader
    <2>6. Coming'
      BY <1>1, <1>2, <2>1, <2>2, <2>5, HandedOutIsComing
    <2>7. QED  BY <1>1, <2>1, <2>4, <2>6, Together
  <1>5. QED  BY <1>3, <1>4

LEMMA ResolveFunctionKeeps ==
  ASSUME NothingIsLost, ResultIsComing, ResolveFunction
  PROVE  ResultIsComing'
  <1> DEFINE f == Head(todo).fn
  <1>1. /\ outcome = "running" /\ todo # <<>> /\ Head(todo).op = "resolve"
        /\ todo \in Seq(CitizenTask \cup FunctionTask)
        /\ Bodies /\ Verdicts /\ Coming
    BY DEF ResolveFunction, AtTask, Running, NothingIsLost, TypeOK, ResultIsComing
  <1>2. /\ f \in Fn
        /\ FunctionsIn(todo) = FunctionsIn(Tail(todo)) \cup {f}
        /\ CitizensIn(todo) = CitizensIn(Tail(todo))
    BY <1>1, ScheduledTail, TasksTail DEF CitizenTask, FunctionTask
  <1>3. CASE Panic
    BY <1>1, <1>3, PanicKeeps
  <1>4. CASE ~ Panic
    <2>1. /\ Illuminate(f) /\ bounds' = bounds \cup {f} /\ todo' = Tail(todo)
          /\ UNCHANGED <<prog, definitions, declared, functions, externs, checked,
                         deferredBodies, stack, outcome>>
      BY <1>4 DEF ResolveFunction
    <2>2. f \in Needed(prog)
      BY <1>1, <1>2, ProgramIsFit DEF Coming
    <2>3. /\ ToSet(deferredFunctions) \subseteq ToSet(deferredFunctions')
          /\ ToSet(deferredFunctions') \subseteq ToSet(deferredFunctions) \cup {f}
      BY <1>2, <2>1, DeferredBy
    <2> HIDE DEF f
    <2>4. Bodies'
      BY <1>1, <2>1, AskingKeepsBodies
    <2>5. Verdicts'
      BY <1>1, <2>1 DEF Verdicts, Checkable
    <2>6. Coming'
      BY <1>1, <1>2, <2>1, <2>2, <2>3, HandedOutIsComing
    <2>7. QED  BY <1>1, <2>1, <2>4, <2>5, <2>6, Together
  <1>5. QED  BY <1>3, <1>4

\* What the innermost body mentions is needed, as it is itself.
LEMMA MentionedIsNeeded ==
  ASSUME NothingIsLost, Coming, outcome = "running", stack # <<>>,
         NEW f \in Mentions(prog.steps[Top.fn])
  PROVE  f \in Needed(prog)
  <1>1. Top.fn \in FnsOf(stack)
    BY DefinedFrame DEF Top, NothingIsLost, TypeOK
  <1>2. Top.fn \in Needed(prog)
    BY <1>1 DEF NothingIsLost, OnTheWay, Coming
  <1>3. QED  BY <1>2, ProgramIsFit

LEMMA CallFunctionKeeps ==
  ASSUME NothingIsLost, ResultIsComing, CallFunction
  PROVE  ResultIsComing'
  <1> DEFINE f == Head(Top.steps).fn
  <1>1. /\ outcome = "running" /\ stack # <<>> /\ Top.steps # <<>> /\ stack \in Seq(Frames)
        /\ Bodies /\ Verdicts /\ Coming
    BY DEF CallFunction, AtStep, Running, NothingIsLost, TypeOK, ResultIsComing
  <1>2. /\ f \in Fn /\ f \in Mentions(prog.steps[Top.fn])
        /\ DefinedOf(AfterStep) = DefinedOf(stack)
        /\ Fits(prog, AfterStep, declared \cup bounds \cup {f})
    BY <1>1, SteppedFrame, FitsStepped DEF AfterStep, Top, Steps, Bodies
  <1>3. CASE Panic
    BY <1>1, <1>3, PanicKeeps
  <1>4. CASE ~ Panic
    <2>1. /\ Illuminate(f) /\ bounds' = bounds \cup {f} /\ stack' = AfterStep
          /\ UNCHANGED <<prog, todo, definitions, declared, functions, externs, checked,
                         deferredBodies, outcome>>
      BY <1>4 DEF CallFunction
    <2>2. f \in Needed(prog)
      BY <1>1, <1>2, MentionedIsNeeded
    <2> HIDE DEF f
    <2>3. /\ ToSet(deferredFunctions) \subseteq ToSet(deferredFunctions')
          /\ ToSet(deferredFunctions') \subseteq ToSet(deferredFunctions) \cup {f}
      BY <1>2, <2>1, DeferredBy
    <2>4. Bodies'
      <3>1. declared' \cup bounds' = declared \cup bounds \cup {f}
        BY <2>1
      <3>2. Fits(prog', stack', declared' \cup bounds')
        BY <1>2, <2>1, <3>1
      <3>3. /\ \A g \in ToSet(deferredBodies') : prog'.kind[g] = "code"
            /\ \A g \in functions' : Mentions(prog'.steps[g]) \subseteq declared' \cup bounds'
        BY <1>1, <2>1, <3>1 DEF Bodies
      <3>4. QED  BY <3>2, <3>3 DEF Bodies, Fits
    <2>5. Verdicts'
      BY <1>1, <1>2, <2>1 DEF Verdicts, Checkable
    <2>6. (declared \cup bounds)' = declared \cup bounds \cup {f}
      BY <2>1
    <2>7. Coming'
      BY <1>1, <2>1, <2>2, <2>3, <2>6, HandedOutIsComing
    <2>8. QED  BY <1>1, <2>1, <2>4, <2>5, <2>7, Together
  <1>5. QED  BY <1>3, <1>4

LEMMA LambdaKeeps ==
  ASSUME NothingIsLost, ResultIsComing, CallLambda \/ MakeClosure
  PROVE  ResultIsComing'
  <1> DEFINE f == Head(Top.steps).fn
  <1>1. /\ outcome = "running" /\ stack # <<>> /\ Top.steps # <<>> /\ stack \in Seq(Frames)
        /\ Bodies /\ Verdicts /\ Coming
    BY DEF CallLambda, MakeClosure, AtStep, Running, NothingIsLost, TypeOK, ResultIsComing
  <1>2. /\ AfterStep \in Seq(Frames)
        /\ f \in Fn /\ f \in Mentions(prog.steps[Top.fn])
        /\ DefinedOf(AfterStep) = DefinedOf(stack)
        /\ Fits(prog, AfterStep, declared \cup bounds \cup {f})
    BY <1>1, SteppedFrame, FitsStepped DEF AfterStep, Top, Steps, Bodies
  <1>3. CASE Panic
    BY <1>1, <1>3, PanicKeeps
  <1>4. CASE ~ Panic
    <2>1. /\ EvaluateHeader(f, AfterStep) /\ bounds' \in {bounds, bounds \cup {f}}
          /\ UNCHANGED <<prog, todo, definitions, checked, deferredFunctions, outcome>>
      BY <1>4 DEF CallLambda, MakeClosure
    <2>2. f \in Needed(prog)
      BY <1>1, <1>2, MentionedIsNeeded
    <2> HIDE DEF f
    <2>3. Bodies' /\ Verdicts'
      BY <1>1, <1>2, <2>1, HeaderKeeps
    <2>4. (declared \cup bounds)' = declared \cup bounds \cup {f}
      BY <2>1 DEF EvaluateHeader
    <2>5. Coming'
      BY <1>1, <2>1, <2>2, <2>4, HandedOutIsComing
    <2>6. QED  BY <1>1, <2>1, <2>3, <2>5, Together
  <1>5. QED  BY <1>3, <1>4

LEMMA DefineFunctionKeeps ==
  ASSUME NothingIsLost, ResultIsComing, DefineFunction
  PROVE  ResultIsComing'
  <1>1. /\ outcome = "running" /\ stack # <<>> /\ Top.steps = <<>> /\ stack \in Seq(Frames)
        /\ Bodies /\ Verdicts /\ Coming
    BY DEF DefineFunction, Running, NothingIsLost, TypeOK, ResultIsComing
  <1>2. CASE Panic
    BY <1>1, <1>2, PanicKeeps
  <1>3. CASE ~ Panic
    <2>1. /\ functions' = functions \cup {Top.fn}
          /\ stack' = [stack EXCEPT ![Len(stack)].defined = TRUE]
          /\ UNCHANGED <<prog, todo, definitions, declared, externs, checked, bounds,
                         deferredFunctions, deferredBodies, outcome>>
      BY <1>3 DEF DefineFunction, queues
    <2>2. /\ Fits(prog, stack', declared \cup bounds)
          /\ DefinedOf(stack) \cup {Top.fn} \subseteq DefinedOf(stack')
          /\ Mentions(prog.steps[Top.fn]) \subseteq declared \cup bounds
          /\ prog.kind[Top.fn] \in {"code", "generated", "lambda", "drop"}
      BY <1>1, <2>1, FitsDefined DEF Top, Bodies
    <2>3. Fits(prog', stack', declared' \cup bounds')
      BY <2>1, <2>2
    <2>4. Bodies'
      <3>1. /\ \A g \in ToSet(deferredBodies') : prog'.kind[g] = "code"
            /\ \A g \in functions' : Mentions(prog'.steps[g]) \subseteq declared' \cup bounds'
        BY <1>1, <2>1, <2>2 DEF Bodies
      <3>2. QED  BY <2>3, <3>1 DEF Bodies, Fits
    <2>5. Verdicts'
      BY <1>1, <2>1, <2>2 DEF Verdicts, Checkable
    <2>6. Coming'
      BY <1>1, <2>1 DEF Coming
    <2>7. QED  BY <1>1, <2>1, <2>4, <2>5, <2>6, Together
  <1>4. QED  BY <1>2, <1>3

LEMMA CheckFunctionKeeps ==
  ASSUME NothingIsLost, ResultIsComing, CheckFunction
  PROVE  ResultIsComing'
  <1>1. /\ outcome = "running" /\ stack # <<>> /\ Top.defined /\ stack \in Seq(Frames)
        /\ Bodies /\ Verdicts /\ Coming
    BY DEF CheckFunction, Running, NothingIsLost, TypeOK, ResultIsComing
  <1>2. /\ Fits(prog, Front(stack), declared \cup bounds)
        /\ DefinedOf(stack) \subseteq DefinedOf(Front(stack)) \cup {Top.fn}
        /\ prog.kind[Top.fn] \in {"code", "generated", "lambda", "drop"}
    BY <1>1, FitsPopped DEF Top, Bodies
  <1>3. CASE Panic
    BY <1>1, <1>3, PanicKeeps
  <1>4. CASE outcome' = "failed"
    <2>1. /\ UNCHANGED <<prog, todo, tables, queues, stack>>
          /\ Top.fn \in prog.rejected /\ prog.kind[Top.fn] \notin {"generated", "drop"}
      BY <1>1, <1>4 DEF CheckFunction, Panic
    <2>2. Refused
      BY <1>1, <1>2, <2>1 DEF Refused, Checkable
    <2>3. QED  BY <1>1, <1>4, <2>1, <2>2, EndingKeeps
  <1>5. CASE ~ Panic /\ outcome' # "failed"
    <2>1. /\ stack' = Front(stack) /\ outcome' = "running"
          /\ UNCHANGED <<prog, todo, definitions, declared, functions, externs, bounds,
                         deferredFunctions, deferredBodies>>
      BY <1>1, <1>5 DEF CheckFunction, tables, queues
    <2>2. \/ checked' = checked /\ prog.kind[Top.fn] \in {"generated", "drop"}
          \/ /\ checked' = checked \cup {Top.fn} /\ Top.fn \notin prog.rejected
             /\ prog.kind[Top.fn] \notin {"generated", "drop"}
      BY <1>1, <1>5 DEF CheckFunction, tables, queues
    <2>3. Bodies'
      BY <1>1, <1>2, <2>1 DEF Bodies, Fits
    <2>4. Verdicts'
      BY <1>1, <1>2, <2>1, <2>2 DEF Verdicts, Checkable
    <2>5. Coming'
      BY <1>1, <2>1 DEF Coming
    <2>6. QED  BY <2>1, <2>3, <2>4, <2>5, Together
  <1>6. QED  BY <1>3, <1>4, <1>5

LEMMA DrainKeeps ==
  ASSUME NothingIsLost, ResultIsComing, DrainFunction \/ DrainBody
  PROVE  ResultIsComing'
  <1>1. /\ outcome = "running" /\ stack = <<>> /\ stack \in Seq(Frames)
        /\ Bodies /\ Verdicts /\ Coming
    BY DEF DrainFunction, DrainBody, AtLoop, Running, NothingIsLost, TypeOK, ResultIsComing
  <1>2. CASE Panic
    BY <1>1, <1>2, PanicKeeps
  <1>3. CASE DrainFunction /\ ~ Panic
    <2> DEFINE f == Head(deferredFunctions)
    <2>1. /\ EvaluateHeader(f, stack)
          /\ UNCHANGED <<prog, todo, definitions, checked, bounds, deferredFunctions, outcome>>
      BY <1>3 DEF DrainFunction
    <2>2. f \in Fn /\ f \in ToSet(deferredFunctions)
      BY <1>3, ToSetOfTail DEF DrainFunction, NothingIsLost, TypeOK
    <2> HIDE DEF f
    <2>3. f \in Needed(prog)
      BY <1>1, <2>2 DEF Coming
    <2>4. Fits(prog, stack, declared \cup bounds \cup {f})
      BY <1>1, FitsMore DEF Bodies
    <2>5. Bodies' /\ Verdicts'
      BY <1>1, <2>1, <2>2, <2>4, HeaderKeeps
    <2>6. (declared \cup bounds)' = declared \cup bounds \cup {f}
      BY <2>1 DEF EvaluateHeader
    <2>7. Coming'
      BY <1>1, <2>1, <2>3, <2>6, HandedOutIsComing
    <2>8. QED  BY <1>1, <2>1, <2>5, <2>7, Together
  <1>4. CASE DrainBody
    <2> DEFINE f == Head(deferredBodies)
    <2>1. /\ stack' = <<Frame(f, prog.steps[f])>>
          /\ UNCHANGED <<prog, todo, definitions, declared, functions, externs, checked, bounds,
                         deferredFunctions, deferredBodies, outcome>>
      BY <1>4 DEF DrainBody, tables
    <2>2. f \in Fn /\ f \in ToSet(deferredBodies)
      BY <1>4, ToSetOfTail DEF DrainBody, NothingIsLost, TypeOK
    <2> HIDE DEF f
    <2>3. prog.kind[f] = "code"
      BY <1>1, <2>2 DEF Bodies
    <2>4. /\ stack' = Append(stack, Frame(f, prog.steps[f])) /\ DefinedOf(stack) = {}
      BY <1>1, <2>1 DEF DefinedOf
    <2>5. Fits(prog, stack', declared \cup bounds)
      <3>1. Fits(prog, stack, declared \cup bounds)
        BY <1>1 DEF Bodies
      <3>2. Fits(prog, Append(stack, Frame(f, prog.steps[f])), declared \cup bounds)
        <4>1. stack \in Seq(Frames)
          BY <1>1
        <4>2. prog.kind[f] \in {"code", "generated", "lambda", "drop"}
          BY <2>3
        <4>3. QED  BY <3>1, <4>1, <4>2, FitsPushed
      <3>3. QED  BY <2>4, <3>2
    <2>6. Bodies'
      BY <1>1, <2>1, <2>5 DEF Bodies, Fits
    <2>7. Verdicts'
      BY <1>1, <2>1, <2>4 DEF Verdicts, Checkable
    <2>8. Coming'
      BY <1>1, <2>1 DEF Coming
    <2>9. QED  BY <1>1, <2>1, <2>6, <2>7, <2>8, Together
  <1>5. QED  BY <1>2, <1>3, <1>4

LEMMA MarkKeeps ==
  ASSUME NothingIsLost, ResultIsComing, MarkFunctionCompiled \/ MarkBodyCompiled
  PROVE  ResultIsComing'
  <1>1. outcome = "running" /\ stack = <<>> /\ Bodies /\ Verdicts /\ Coming
    BY DEF MarkFunctionCompiled, MarkBodyCompiled, Running, ResultIsComing
  <1>2. CASE Panic
    BY <1>1, <1>2, PanicKeeps
  <1>3. CASE ~ Panic
    <2>1. UNCHANGED <<prog, todo, definitions, declared, functions, externs, checked, bounds,
                      stack, outcome>>
      BY <1>3 DEF MarkFunctionCompiled, MarkBodyCompiled, tables
    <2>2. Verdicts'
      BY <1>1, <2>1 DEF Verdicts, Checkable
    <2>3. CASE MarkFunctionCompiled
      <3>1. /\ draining.queue = "functions" /\ deferredFunctions # <<>>
            /\ Head(deferredFunctions) = draining.fn
            /\ deferredFunctions' = Tail(deferredFunctions) /\ UNCHANGED deferredBodies
        BY <1>3, <2>3 DEF MarkFunctionCompiled
      <3>2. ToSet(deferredFunctions) = ToSet(deferredFunctions') \cup {draining.fn}
        BY <3>1, ToSetOfTail DEF NothingIsLost, TypeOK
      <3>3. draining.fn \in declared
        BY <3>1 DEF NothingIsLost, Known
      <3>4. Bodies'
        BY <1>1, <2>1, <3>1 DEF Bodies, Fits
      <3>5. Coming'
        BY <1>1, <2>1, <3>2, <3>3 DEF Coming
      <3>6. QED  BY <1>1, <2>1, <2>2, <3>4, <3>5, Together
    <2>4. CASE MarkBodyCompiled
      <3>1. /\ deferredBodies # <<>> /\ deferredBodies' = Tail(deferredBodies)
            /\ UNCHANGED deferredFunctions
        BY <1>3, <2>4 DEF MarkBodyCompiled
      <3>2. ToSet(deferredBodies') \subseteq ToSet(deferredBodies)
        BY <3>1, ToSetOfTail DEF NothingIsLost, TypeOK
      <3>3. Bodies'
        BY <1>1, <2>1, <3>2 DEF Bodies, Fits
      <3>4. Coming'
        BY <1>1, <2>1, <3>1 DEF Coming
      <3>5. QED  BY <1>1, <2>1, <2>2, <3>3, <3>4, Together
    <2>5. QED  BY <2>3, <2>4
  <1>4. QED  BY <1>2, <1>3

LEMMA FinishKeeps ==
  ASSUME ResultIsComing, Finish
  PROVE  ResultIsComing'
  BY EndingKeeps DEF Finish, LoopIsOver, AtLoop, Running, Emptied

LEMMA StutterKeeps ==
  ASSUME ResultIsComing, UNCHANGED vars
  PROVE  ResultIsComing'
  <1>1. UNCHANGED <<prog, todo, definitions, declared, functions, externs, checked, bounds,
                    deferredFunctions, deferredBodies, stack, outcome>>
    BY DEF vars, tables, queues
  <1>2. Bodies => Bodies'
    BY <1>1 DEF Bodies, Fits
  <1>3. Verdicts => Verdicts'
    BY <1>1 DEF Verdicts, Checkable
  <1>4. Coming => Coming'
    BY <1>1 DEF Coming
  <1>5. (NothingBegun => NothingBegun') /\ (Refused => Refused') /\ (Emptied => Emptied')
    BY <1>1 DEF NothingBegun, Refused, Emptied, Top, Checkable
  <1>6. QED  BY <1>1, <1>2, <1>3, <1>4, <1>5 DEF ResultIsComing

\* The strengthened invariant is inductive.
LEMMA NextKeeps == NothingIsLost /\ ResultIsComing /\ [Next]_vars => ResultIsComing'
  <1> SUFFICES ASSUME NothingIsLost, ResultIsComing, [Next]_vars PROVE ResultIsComing'
    OBVIOUS
  <1>1. ASSUME NEW p \in Programs, Evaluate(p) PROVE ResultIsComing'
    BY <1>1, EvaluateKeeps
  <1>2. CASE Continue
    BY <1>2, PhaseStepKeeps, CompileHeaderKeeps, ResolveFunctionKeeps, CallFunctionKeeps,
       LambdaKeeps, DefineFunctionKeeps, CheckFunctionKeeps, DrainKeeps, MarkKeeps,
       FinishKeeps DEF Continue
  <1>3. QED  BY <1>1, <1>2, StutterKeeps DEF Next

LEMMA InitBeginsNothing == Init => ResultIsComing
  BY DEF Init, ResultIsComing, NothingBegun

\* What is both needed and sufficient is the least that is sufficient.
LEMMA WhatCameIsComplete ==
  ASSUME NothingIsLost, ResultIsComing
  PROVE  ResultIsComplete
  <1>1. \A f \in Fn : Callees(f) = Mentions(prog.steps[f])
    BY DEF Callees, Mentions
  <1>2. \A fs \in SUBSET Fn : Sufficient(fs) => Needed(prog) \subseteq fs
    BY <1>1 DEF Sufficient, Needed
  <1>3. functions \subseteq declared /\ declared \subseteq Fn
    BY DEF NothingIsLost, TypeOK
  <1>4. ASSUME outcome = "done"
        PROVE  /\ Sufficient(functions)
               /\ \A fs \in SUBSET functions : Sufficient(fs) => fs = functions
               /\ externs = { f \in functions : prog.kind[f] \in {"extern", "rust"} }
               /\ checked = { f \in functions : Checkable(f) }
               /\ checked \cap prog.rejected = {}
               /\ bounds \subseteq functions
               /\ definitions = CitizensOf(prog)
    <2>1. Bodies /\ Verdicts /\ Coming /\ Emptied
      BY <1>4 DEF ResultIsComing
    <2>2. /\ declared \cup bounds = functions /\ DefinedOf(stack) = {}
          /\ ToSet(deferredFunctions) = {} /\ FunctionsIn(todo) = {} /\ CitizensIn(todo) = {}
      BY <2>1, NothingIsLeft, ToSetOfNone DEF Emptied, DefinedOf, FunctionsIn, CitizensIn
    <2>3. Sufficient(functions)
      BY <1>1, <1>3, <2>1, <2>2 DEF Sufficient, Bodies, Coming
    <2>4. functions \subseteq Needed(prog)
      BY <2>1, <2>2 DEF Coming
    <2>5. \A fs \in SUBSET functions : Sufficient(fs) => fs = functions
      BY <1>2, <1>3, <2>4
    <2>6. checked \subseteq functions
      BY DEF NothingIsLost, TypeOK
    <2>7. /\ externs = { f \in functions : prog.kind[f] \in {"extern", "rust"} }
          /\ checked = { f \in functions : Checkable(f) }
          /\ checked \cap prog.rejected = {}
      BY <2>1, <2>2, <2>6 DEF Verdicts
    <2>8. definitions = CitizensOf(prog)
      BY <2>1, <2>2 DEF Coming
    <2>9. QED  BY <2>2, <2>3, <2>5, <2>7, <2>8
  <1>5. ASSUME outcome = "failed"
        PROVE  \E f \in prog.rejected :
                 /\ Checkable(f)
                 /\ \A fs \in SUBSET Fn : Sufficient(fs) => f \in fs
    <2>1. Refused /\ Coming
      BY <1>5 DEF ResultIsComing
    <2>2. Top.fn \in FnsOf(stack)
      BY <2>1, DefinedFrame DEF Refused, Top, NothingIsLost, TypeOK
    <2>3. Top.fn \in Needed(prog)
      BY <2>1, <2>2 DEF NothingIsLost, OnTheWay, Coming
    <2>4. QED  BY <1>2, <2>1, <2>3 DEF Refused
  <1>6. QED  BY <1>4, <1>5 DEF ResultIsComplete

\* A pass that ends well has compiled the least set of functions that holds
\* what was written and is closed under what bodies mention, has borrow-checked
\* every body of code in it and told of every extern, whatever the order of
\* packages, of the queues and of the recursion; one that fails fails for a body
\* that every such set holds and that the checks refuse.
THEOREM CompilesExactly == Spec => []ResultIsComplete
  <1>1. NothingIsLost /\ ResultIsComing => ResultIsComplete
    BY WhatCameIsComplete
  <1>2. QED
    BY <1>1, InitIsFine, NextIsFine, InitBeginsNothing, NextKeeps, PTL DEF Spec

-----------------------------------------------------------------------------
(* Nothing twice: the assertions                                           *)

\* The tasks that are left declare what was not declared yet.
Fresh(p, tasks, outer, defs, met) ==
  /\ \A i, j \in DOMAIN tasks : i # j => Distinct(tasks[i], tasks[j])
  /\ \A i \in DOMAIN tasks :
       /\ tasks[i].op = "precompile" => tasks[i].citizen \notin outer
       /\ tasks[i].op \in {"struct", "interface"} =>
            /\ tasks[i].citizen \notin defs
            /\ \/ tasks[i].citizen \in outer
               \/ \E j \in 1..i - 1 : tasks[j] = Task("precompile", "none", tasks[i].citizen)
       /\ tasks[i].op \in {"header", "defer"} =>
            tasks[i].fn \in Indexed(p) /\ tasks[i].fn \notin met
       /\ tasks[i].op = "resolve" => tasks[i].fn \in Indexed(p) \/ p.kind[tasks[i].fn] = "rust"

\* A function is in a queue once, and it leaves it before it could come to it again.
InQueues ==
  /\ IsInjective(deferredFunctions) /\ IsInjective(deferredBodies)
  /\ \A f \in ToSet(deferredFunctions) :
       /\ prog.kind[f] \in {"code", "extern", "generated", "rust"}
       /\ f \in declared => draining = [queue |-> "functions", fn |-> f]
  /\ \A f \in ToSet(deferredBodies) \cap functions : draining = [queue |-> "bodies", fn |-> f]
  /\ draining.queue = "functions" =>
       deferredFunctions # <<>> /\ Head(deferredFunctions) = draining.fn
  /\ draining.queue = "bodies" =>
       deferredBodies # <<>> /\ Head(deferredBodies) = draining.fn

\* A body has its last steps before it, and what the others mention is known.
SoFar(p, frame, known) ==
  LET steps == p.steps[frame.fn]
      taken == Len(steps) - Len(frame.steps)
  IN /\ taken \in 0..Len(steps)
     /\ \A k \in 1..Len(frame.steps) : frame.steps[k] = steps[taken + k]
     /\ \A k \in 1..taken : steps[k].fn \in known

\* A body is compiled once: it is on the stack once, and added and checked later.
AtMostOnce(p, s, added, verdicts, drained, known) ==
  /\ \A i, j \in DOMAIN s : s[i].fn = s[j].fn => i = j
  /\ \A i \in DOMAIN s :
       /\ s[i].fn \notin verdicts
       /\ ~ s[i].defined => s[i].fn \notin added
       /\ p.kind[s[i].fn] = "code" => drained = [queue |-> "bodies", fn |-> s[i].fn]
       /\ SoFar(p, s[i], known)

OnStack == AtMostOnce(prog, stack, functions, checked, draining, postparsed)

\* Where a closure was handed to, it was made.
Links(p, fs) == Roots(p) \subseteq fs /\ Resolved(p, fs)
Made(p, fns, known) ==
  \A fs \in SUBSET Fn, within \in SUBSET OnTheSpot(p) : \A drop \in fs :
    Links(p, fs) /\ StaysWithin(p, fs, drop, within) /\ fns \cap within # {} => drop \in known

ClosuresMade == Made(prog, FnsOf(stack), postparsed)

\* What can be looked up: all that was indexed, and all that was met since.
InIndex == Indexed(prog) \cup declared \cup ToSet(deferredFunctions) \subseteq postparsed

Afresh == Fresh(prog, todo, outerEnvs, definitions, declared \cup ToSet(deferredFunctions))

EachOnce == Afresh /\ InIndex /\ InQueues /\ OnStack /\ ClosuresMade

NothingTwice ==
  /\ outcome = "waiting" => outerEnvs = {} /\ draining = NotDraining
  /\ outcome = "running" => EachOnce
  /\ PanicsAreOrderOrRecursion

\* The tasks that are left when the first one is taken, and with more that was met.
LEMMA FreshMore ==
  ASSUME NEW p, NEW tasks, NEW outer, NEW defs, NEW met, Fresh(p, tasks, outer, defs, met),
         NEW more, \A f \in more : f \in met \/ f \notin Indexed(p)
  PROVE  Fresh(p, tasks, outer, defs, more)
  BY DEF Fresh

LEMMA FreshHead ==
  ASSUME NEW p, NEW tasks \in Seq(CitizenTask \cup FunctionTask), tasks # <<>>,
         NEW outer, NEW defs, NEW met, Fresh(p, tasks, outer, defs, met)
  PROVE  LET task == Head(tasks) IN
         /\ task.op = "precompile" => task.citizen \notin outer
         /\ task.op \in {"struct", "interface"} => task.citizen \notin defs /\ task.citizen \in outer
         /\ task.op \in {"header", "defer"} => task.fn \in Indexed(p) /\ task.fn \notin met
         /\ task.op = "resolve" => task.fn \in Indexed(p) \/ p.kind[task.fn] = "rust"
  <1>1. Head(tasks) = tasks[1] /\ 1 \in DOMAIN tasks /\ 1..1 - 1 = {}
    OBVIOUS
  <1>2. QED  BY <1>1 DEF Fresh

LEMMA FreshTail ==
  ASSUME NEW p, NEW tasks \in Seq(CitizenTask \cup FunctionTask), tasks # <<>>,
         NEW outer, NEW defs, NEW met, Fresh(p, tasks, outer, defs, met),
         NEW outer2, NEW defs2, NEW met2,
         LET task == Head(tasks) IN
         /\ outer \subseteq outer2
         /\ \A c \in outer2 : c \in outer \/ (task.op = "precompile" /\ c = task.citizen)
         /\ task.op = "precompile" => task.citizen \in outer2
         /\ \A c \in defs2 : c \in defs \/ (task.op \in {"struct", "interface"} /\ c = task.citizen)
         /\ \A f \in met2 : f \in met \/ (task.op \in {"header", "defer"} /\ f = task.fn)
  PROVE  Fresh(p, Tail(tasks), outer2, defs2, met2)
  <1> DEFINE rest == Tail(tasks)
             task == Head(tasks)
  <1>1. /\ task = tasks[1] /\ 1 \in DOMAIN tasks /\ DOMAIN rest \subseteq Nat
        /\ \A i \in DOMAIN rest : i + 1 \in DOMAIN tasks /\ i + 1 # 1 /\ rest[i] = tasks[i + 1]
    OBVIOUS
  <1> HIDE DEF rest, task
  <1>2. /\ outer \subseteq outer2
        /\ \A c \in outer2 : c \in outer \/ (task.op = "precompile" /\ c = task.citizen)
        /\ task.op = "precompile" => task.citizen \in outer2
        /\ \A c \in defs2 : c \in defs \/ (task.op \in {"struct", "interface"} /\ c = task.citizen)
        /\ \A f \in met2 : f \in met \/ (task.op \in {"header", "defer"} /\ f = task.fn)
    BY DEF task
  <1>3. ASSUME NEW i \in DOMAIN rest, NEW j \in DOMAIN rest, i # j
        PROVE  Distinct(rest[i], rest[j])
    <2>1. i + 1 # j + 1
      BY <1>1, <1>3
    <2>2. QED  BY <1>1, <2>1 DEF Fresh
  <1>4. ASSUME NEW i \in DOMAIN rest
        PROVE  /\ rest[i].op = "precompile" => rest[i].citizen \notin outer2
               /\ rest[i].op \in {"struct", "interface"} => rest[i].citizen \notin defs2
               /\ rest[i].op \in {"header", "defer"} =>
                    rest[i].fn \in Indexed(p) /\ rest[i].fn \notin met2
               /\ rest[i].op = "resolve" => rest[i].fn \in Indexed(p) \/ p.kind[rest[i].fn] = "rust"
    <2>1. Distinct(rest[i], task)
      BY <1>1 DEF Fresh
    <2>2. /\ rest[i].op = "precompile" => rest[i].citizen \notin outer
          /\ rest[i].op \in {"struct", "interface"} => rest[i].citizen \notin defs
          /\ rest[i].op \in {"header", "defer"} =>
               rest[i].fn \in Indexed(p) /\ rest[i].fn \notin met
          /\ rest[i].op = "resolve" => rest[i].fn \in Indexed(p) \/ p.kind[rest[i].fn] = "rust"
      BY <1>1 DEF Fresh
    <2>3. CASE rest[i].op = "precompile"
      BY <1>2, <2>1, <2>2, <2>3 DEF Distinct
    <2>4. CASE rest[i].op \in {"struct", "interface"}
      BY <1>2, <2>1, <2>2, <2>4 DEF Distinct
    <2>5. CASE rest[i].op \in {"header", "defer"}
      BY <1>2, <2>1, <2>2, <2>5 DEF Distinct
    <2>6. QED  BY <2>2, <2>3, <2>4, <2>5
  <1>5. ASSUME NEW i \in DOMAIN rest, rest[i].op \in {"struct", "interface"}
        PROVE  \/ rest[i].citizen \in outer2
               \/ \E j \in 1..i - 1 : rest[j] = Task("precompile", "none", rest[i].citizen)
    <2>1. CASE rest[i].citizen \in outer
      BY <1>2, <2>1
    <2>2. CASE \E j \in 1..(i + 1) - 1 : tasks[j] = Task("precompile", "none", rest[i].citizen)
      <3>1. PICK j \in 1..i : tasks[j] = Task("precompile", "none", rest[i].citizen)
        BY <1>1, <2>2
      <3>2. CASE j = 1
        BY <1>1, <1>2, <3>1, <3>2 DEF Task
      <3>3. CASE j # 1
        <4>1. j - 1 \in 1..i - 1 /\ j - 1 \in DOMAIN rest /\ (j - 1) + 1 = j
          BY <1>1, <3>3 DEF rest
        <4>2. rest[j - 1] = tasks[j]
          BY <1>1, <4>1
        <4>3. QED  BY <3>1, <4>1, <4>2
      <3>4. QED  BY <3>2, <3>3
    <2>3. QED  BY <1>1, <1>5, <2>1, <2>2 DEF Fresh
  <1>6. QED  BY <1>3, <1>4, <1>5 DEF Fresh, rest

\* The tasks of a program, before any is taken.
LEMMA ScheduleIsFresh ==
  ASSUME NEW p, Orderly(p, Schedule(p))
  PROVE  Fresh(p, Schedule(p), {}, {}, {})
  <1> DEFINE tasks == Schedule(p)
  <1>1. Orderly(p, tasks)
    OBVIOUS
  <1> HIDE DEF tasks
  <1>2. ASSUME NEW i \in DOMAIN tasks
        PROVE  /\ tasks[i].op \in {"struct", "interface"} =>
                    \E j \in 1..i - 1 : tasks[j] = Task("precompile", "none", tasks[i].citizen)
               /\ tasks[i].op \in {"header", "defer"} => tasks[i].fn \in Indexed(p)
               /\ tasks[i].op = "resolve" => tasks[i].fn \in Indexed(p) \/ p.kind[tasks[i].fn] = "rust"
    BY <1>1 DEF Orderly
  <1>3. \A i, j \in DOMAIN tasks : i # j => Distinct(tasks[i], tasks[j])
    BY <1>1 DEF Orderly
  <1>4. Fresh(p, tasks, {}, {}, {})
    BY <1>2, <1>3 DEF Fresh
  <1>5. QED  BY <1>4 DEF tasks

\* What is once on the stack stays so while more is known, added and checked that is not
\* on it, when a body is pushed, takes a step, is added, and is popped.
LEMMA OnceMore ==
  ASSUME NEW p, NEW s, NEW added, NEW verdicts, NEW drained, NEW known,
         AtMostOnce(p, s, added, verdicts, drained, known),
         NEW added2, NEW verdicts2, NEW known2,
         \A f \in added2 : f \in added \/ f \notin FnsOf(s),
         \A f \in verdicts2 : f \in verdicts \/ f \notin FnsOf(s),
         known \subseteq known2
  PROVE  AtMostOnce(p, s, added2, verdicts2, drained, known2)
  <1>1. \A i \in DOMAIN s : s[i].fn \in FnsOf(s)
    BY DEF FnsOf
  <1>2. \A i \in DOMAIN s : SoFar(p, s[i], known2)
    BY DEF AtMostOnce, SoFar
  <1>3. QED  BY <1>1, <1>2 DEF AtMostOnce

LEMMA OncePushed ==
  ASSUME NEW p, NEW s \in Seq(Frames), NEW added, NEW verdicts, NEW drained, NEW known,
         AtMostOnce(p, s, added, verdicts, drained, known),
         NEW f, f \notin FnsOf(s), f \notin added, f \notin verdicts,
         p.steps[f] \in Seq(Steps),
         p.kind[f] = "code" => drained = [queue |-> "bodies", fn |-> f]
  PROVE  AtMostOnce(p, Append(s, Frame(f, p.steps[f])), added, verdicts, drained, known)
  <1> DEFINE t == Append(s, Frame(f, p.steps[f]))
             n == Len(s) + 1
  <1>1. /\ DOMAIN t = DOMAIN s \cup {n} /\ n \notin DOMAIN s
        /\ \A i \in DOMAIN s : t[i] = s[i]
        /\ t[n] = Frame(f, p.steps[f])
    OBVIOUS
  <1>2. t[n].fn = f /\ t[n].steps = p.steps[f] /\ t[n].defined = FALSE
    BY <1>1 DEF Frame
  <1> HIDE DEF t, n
  <1>3. \A i \in DOMAIN s : s[i].fn # f
    BY DEF FnsOf
  <1>4. SoFar(p, t[n], known)
    <2> DEFINE steps == p.steps[f]
    <2>1. steps \in Seq(Steps)
      OBVIOUS
    <2> HIDE DEF steps
    <2>2. Len(steps) \in Nat /\ Len(steps) - Len(steps) = 0 /\ 1..0 = {}
      BY <2>1
    <2>3. \A k \in 1..Len(steps) : steps[k] = steps[0 + k]
      BY <2>2
    <2>4. t[n].fn = f /\ t[n].steps = steps /\ p.steps[f] = steps
      BY <1>2 DEF steps
    <2>5. QED  BY <2>2, <2>3, <2>4 DEF SoFar
  <1>5. \A i, j \in DOMAIN t : t[i].fn = t[j].fn => i = j
    <2>1. \A i, j \in DOMAIN s : s[i].fn = s[j].fn => i = j
      BY DEF AtMostOnce
    <2>2. QED  BY <1>1, <1>2, <1>3, <2>1
  <1>6. ASSUME NEW i \in DOMAIN t
        PROVE  /\ t[i].fn \notin verdicts
               /\ ~ t[i].defined => t[i].fn \notin added
               /\ p.kind[t[i].fn] = "code" => drained = [queue |-> "bodies", fn |-> t[i].fn]
               /\ SoFar(p, t[i], known)
    <2>1. CASE i = n
      BY <1>2, <1>4, <2>1
    <2>2. CASE i # n
      <3>1. i \in DOMAIN s /\ t[i] = s[i]
        BY <1>1, <2>2
      <3>2. QED  BY <3>1 DEF AtMostOnce
    <2>3. QED  BY <2>1, <2>2
  <1>7. AtMostOnce(p, t, added, verdicts, drained, known)
    BY <1>5, <1>6 DEF AtMostOnce
  <1>8. QED  BY <1>7 DEF t

\* A step from where the body has come to.
LEMMA StepTaken ==
  ASSUME NEW p, NEW frame, NEW known, SoFar(p, frame, known), p.steps[frame.fn] \in Seq(Steps),
         frame.steps \in Seq(Steps), frame.steps # <<>>
  PROVE  \E i \in DOMAIN p.steps[frame.fn] :
           /\ p.steps[frame.fn][i] = Head(frame.steps)
           /\ i = Len(p.steps[frame.fn]) - Len(frame.steps) + 1
           /\ \A j \in 1..i - 1 : p.steps[frame.fn][j].fn \in known
  <1> DEFINE steps == p.steps[frame.fn]
             rest == frame.steps
             taken == Len(steps) - Len(rest)
  <1>1. steps \in Seq(Steps) /\ rest \in Seq(Steps) /\ rest # <<>>
    OBVIOUS
  <1>2. /\ taken \in 0..Len(steps)
        /\ \A k \in 1..Len(rest) : rest[k] = steps[taken + k]
        /\ \A k \in 1..taken : steps[k].fn \in known
    BY DEF SoFar
  <1> HIDE DEF steps, rest
  <1>3. /\ Len(steps) \in Nat /\ Len(rest) \in Nat /\ Len(rest) > 0 /\ Head(rest) = rest[1]
        /\ DOMAIN steps = 1..Len(steps) /\ 1 \in 1..Len(rest)
    BY <1>1
  <1>4. taken + 1 \in DOMAIN steps /\ steps[taken + 1] = Head(rest) /\ (taken + 1) - 1 = taken
    BY <1>2, <1>3
  <1>5. QED  BY <1>2, <1>4 DEF steps, rest

LEMMA SoFarStepped ==
  ASSUME NEW p, NEW frame \in Frames, NEW known, SoFar(p, frame, known),
         p.steps[frame.fn] \in Seq(Steps), frame.steps # <<>>,
         NEW known2, known \subseteq known2, Head(frame.steps).fn \in known2
  PROVE  SoFar(p, [frame EXCEPT !.steps = Tail(@)], known2)
  <1> DEFINE steps == p.steps[frame.fn]
             rest == frame.steps
             next == [frame EXCEPT !.steps = Tail(@)]
             taken == Len(steps) - Len(rest)
             taken2 == Len(steps) - Len(Tail(rest))
  <1>1. steps \in Seq(Steps) /\ rest \in Seq(Steps) /\ rest # <<>>
    BY DEF Frames
  <1>2. /\ taken \in 0..Len(steps)
        /\ \A k \in 1..Len(rest) : rest[k] = steps[taken + k]
        /\ \A k \in 1..taken : steps[k].fn \in known
    BY DEF SoFar
  <1>3. next.fn = frame.fn /\ next.steps = Tail(rest)
    BY DEF Frames
  <1>4. Head(rest).fn \in known2
    OBVIOUS
  <1> HIDE DEF steps, rest, next
  <1>5. /\ Len(steps) \in Nat /\ Len(rest) \in Nat /\ Len(rest) > 0 /\ Head(rest) = rest[1]
        /\ Len(Tail(rest)) = Len(rest) - 1 /\ \A k \in 1..Len(rest) - 1 : Tail(rest)[k] = rest[k + 1]
    BY <1>1
  <1>6. taken2 = taken + 1 /\ taken \in Nat /\ taken2 \in 0..Len(steps)
    <2>1. ASSUME NEW a \in Nat, NEW b \in Nat, b > 0, a - b \in 0..a
          PROVE  a - (b - 1) = (a - b) + 1 /\ a - b \in Nat /\ a - (b - 1) \in 0..a
      BY <2>1
    <2>2. /\ Len(steps) - (Len(rest) - 1) = (Len(steps) - Len(rest)) + 1
          /\ Len(steps) - Len(rest) \in Nat /\ Len(steps) - (Len(rest) - 1) \in 0..Len(steps)
      BY <1>2, <1>5, <2>1
    <2>3. QED  BY <1>5, <2>2
  <1>7. ASSUME NEW k \in 1..Len(Tail(rest))
        PROVE  Tail(rest)[k] = steps[taken2 + k]
    <2>1. k \in 1..Len(rest) - 1 /\ k + 1 \in 1..Len(rest) /\ taken + (k + 1) = taken2 + k
      BY <1>5, <1>6
    <2>2. QED  BY <1>2, <1>5, <2>1
  <1>8. ASSUME NEW k \in 1..taken2
        PROVE  steps[k].fn \in known2
    <2>1. CASE k = taken + 1
      <3>1. rest[1] = steps[taken + 1]
        BY <1>2, <1>5
      <3>2. QED  BY <1>4, <1>5, <2>1, <3>1
    <2>2. CASE k # taken + 1
      <3>1. k \in 1..taken
        BY <1>6, <2>2
      <3>2. QED  BY <1>2, <3>1
    <2>3. QED  BY <2>1, <2>2
  <1>9. steps = p.steps[next.fn] /\ Tail(rest) = next.steps
    BY <1>3 DEF steps
  <1>10. SoFar(p, next, known2)
    BY <1>6, <1>7, <1>8, <1>9 DEF SoFar
  <1>11. QED  BY <1>10 DEF next

LEMMA OnceStepped ==
  ASSUME NEW p, NEW s \in Seq(Frames), s # <<>>, s[Len(s)].steps # <<>>,
         p.steps[s[Len(s)].fn] \in Seq(Steps),
         NEW added, NEW verdicts, NEW drained, NEW known,
         AtMostOnce(p, s, added, verdicts, drained, known),
         NEW known2, known \subseteq known2, Head(s[Len(s)].steps).fn \in known2
  PROVE  AtMostOnce(p, [s EXCEPT ![Len(s)].steps = Tail(@)], added, verdicts, drained, known2)
  <1> DEFINE n == Len(s)
             top == s[n]
             next == [top EXCEPT !.steps = Tail(@)]
             t == [s EXCEPT ![n] = next]
  <1>1. n \in DOMAIN s /\ top \in Frames
    OBVIOUS
  <1>2. SoFar(p, top, known)
    BY <1>1 DEF AtMostOnce
  <1>3. SoFar(p, next, known2)
    BY <1>1, <1>2, SoFarStepped
  <1>4. next.fn = top.fn /\ next.defined = top.defined
    BY <1>1 DEF Frames
  <1>5. [s EXCEPT ![Len(s)].steps = Tail(@)] = t
    OBVIOUS
  <1> HIDE DEF next
  <1>6. DOMAIN t = DOMAIN s /\ t[n] = next /\ \A i \in DOMAIN s : i # n => t[i] = s[i]
    BY <1>1
  <1> HIDE DEF t
  <1>7. \A i \in DOMAIN t : i \in DOMAIN s /\ t[i].fn = s[i].fn /\ t[i].defined = s[i].defined
    BY <1>4, <1>6
  <1>8. \A i \in DOMAIN t : SoFar(p, t[i], known2)
    <2>1. \A i \in DOMAIN s : SoFar(p, s[i], known2)
      BY DEF AtMostOnce, SoFar
    <2>2. QED  BY <1>3, <1>6, <2>1
  <1>9. AtMostOnce(p, t, added, verdicts, drained, known2)
    BY <1>7, <1>8 DEF AtMostOnce
  <1>10. QED  BY <1>5, <1>9

LEMMA OnceDefined ==
  ASSUME NEW p, NEW s \in Seq(Frames), s # <<>>,
         NEW added, NEW verdicts, NEW drained, NEW known,
         AtMostOnce(p, s, added, verdicts, drained, known)
  PROVE  AtMostOnce(p, [s EXCEPT ![Len(s)].defined = TRUE], added \cup {s[Len(s)].fn}, verdicts,
               drained, known)
  <1> DEFINE n == Len(s)
             top == s[n]
             next == [top EXCEPT !.defined = TRUE]
             t == [s EXCEPT ![n] = next]
  <1>1. n \in DOMAIN s /\ top \in Frames
    OBVIOUS
  <1>2. next.fn = top.fn /\ next.defined /\ next.steps = top.steps
    BY <1>1 DEF Frames
  <1>3. [s EXCEPT ![Len(s)].defined = TRUE] = t
    OBVIOUS
  <1> HIDE DEF next
  <1>4. DOMAIN t = DOMAIN s /\ t[n] = next /\ \A i \in DOMAIN s : i # n => t[i] = s[i]
    BY <1>1
  <1> HIDE DEF t
  <1>5. \A i \in DOMAIN t : i \in DOMAIN s /\ t[i].fn = s[i].fn /\ t[i].steps = s[i].steps
    BY <1>2, <1>4
  <1>6. ASSUME NEW i \in DOMAIN t
        PROVE  SoFar(p, t[i], known)
    <2>1. SoFar(p, s[i], known)
      BY <1>5 DEF AtMostOnce
    <2>2. t[i].fn = s[i].fn /\ t[i].steps = s[i].steps
      BY <1>5
    <2>3. QED  BY <2>1, <2>2 DEF SoFar
  <1>7. \A i, j \in DOMAIN t : t[i].fn = t[j].fn => i = j
    BY <1>5 DEF AtMostOnce
  <1>8. ASSUME NEW i \in DOMAIN t, ~ t[i].defined
        PROVE  t[i].fn \notin added \cup {top.fn}
    <2>1. i # n /\ t[i] = s[i] /\ i \in DOMAIN s
      BY <1>2, <1>4, <1>8
    <2>2. s[i].fn # top.fn /\ s[i].fn \notin added
      BY <1>1, <1>8, <2>1 DEF AtMostOnce
    <2>3. QED  BY <2>1, <2>2
  <1>9. \A i \in DOMAIN t :
          /\ t[i].fn \notin verdicts
          /\ p.kind[t[i].fn] = "code" => drained = [queue |-> "bodies", fn |-> t[i].fn]
    BY <1>5 DEF AtMostOnce
  <1>10. AtMostOnce(p, t, added \cup {top.fn}, verdicts, drained, known)
    BY <1>6, <1>7, <1>8, <1>9 DEF AtMostOnce
  <1>11. QED  BY <1>3, <1>10

LEMMA OncePopped ==
  ASSUME NEW p, NEW s \in Seq(Frames), s # <<>>,
         NEW added, NEW verdicts, NEW drained, NEW known,
         AtMostOnce(p, s, added, verdicts, drained, known),
         NEW verdicts2, verdicts2 \subseteq verdicts \cup {s[Len(s)].fn}
  PROVE  AtMostOnce(p, Front(s), added, verdicts2, drained, known)
  <1> DEFINE t == Front(s)
             n == Len(s)
  <1>1. n \in DOMAIN s /\ n \in Nat
    OBVIOUS
  <1>2. DOMAIN t = 1..n - 1 /\ \A i \in 1..n - 1 : t[i] = s[i] /\ i \in DOMAIN s /\ i # n
    BY <1>1 DEF Front
  <1> HIDE DEF t, n
  <1>3. \A i \in DOMAIN t : t[i] = s[i] /\ i \in DOMAIN s /\ s[i].fn # s[n].fn
    BY <1>1, <1>2 DEF AtMostOnce
  <1>4. AtMostOnce(p, t, added, verdicts2, drained, known)
    BY <1>3 DEF AtMostOnce, n
  <1>5. QED  BY <1>4 DEF t

\* What closures were made, if more is known and for fewer bodies, and with one more.
LEMMA MadeMore ==
  ASSUME NEW p, NEW fns, NEW known, Made(p, fns, known),
         NEW fns2, fns2 \subseteq fns, NEW known2, known \subseteq known2
  PROVE  Made(p, fns2, known2)
  BY DEF Made

LEMMA MadePushed ==
  ASSUME NEW p, NEW fns, NEW known, Made(p, fns, known), NEW f, NEW known2, known \subseteq known2,
         \A fs \in SUBSET Fn, within \in SUBSET OnTheSpot(p) : \A drop \in fs :
           Links(p, fs) /\ StaysWithin(p, fs, drop, within) /\ f \in within => drop \in known2
  PROVE  Made(p, fns \cup {f}, known2)
  <1>1. SUFFICES ASSUME NEW fs \in SUBSET Fn, NEW within \in SUBSET OnTheSpot(p), NEW drop \in fs,
                        Links(p, fs), StaysWithin(p, fs, drop, within),
                        (fns \cup {f}) \cap within # {}
                 PROVE  drop \in known2
    BY DEF Made
  <1>2. CASE f \in within
    BY <1>1, <1>2
  <1>3. CASE f \notin within
    <2>1. fns \cap within # {}
      BY <1>1, <1>3
    <2>2. drop \in known
      BY <1>1, <2>1 DEF Made
    <2>3. QED  BY <2>2
  <1>4. QED  BY <1>2, <1>3

LEMMA MadePlain ==
  ASSUME NEW p, NEW fns, NEW known, Made(p, fns, known), NEW f, NEW known2, known \subseteq known2,
         p.kind[f] \notin {"lambda", "drop"}
  PROVE  Made(p, fns \cup {f}, known2)
  <1>1. \A within \in SUBSET OnTheSpot(p) : f \notin within
    BY DEF OnTheSpot
  <1>2. QED  BY <1>1, MadePushed

\* A queue without repetitions stays so, at its end and at its front.
LEMMA InjectiveEnqueue ==
  ASSUME NEW queue \in Seq(Fn), IsInjective(queue), NEW f \in Fn
  PROVE  /\ IsInjective(Enqueue(queue, f))
         /\ queue # <<>> => Enqueue(queue, f) # <<>> /\ Head(Enqueue(queue, f)) = Head(queue)
  <1>1. CASE f \in ToSet(queue)
    BY <1>1 DEF Enqueue
  <1>2. CASE f \notin ToSet(queue)
    <2> DEFINE t == Append(queue, f)
               n == Len(queue) + 1
    <2>1. /\ DOMAIN t = DOMAIN queue \cup {n} /\ t[n] = f
          /\ \A i \in DOMAIN queue : t[i] = queue[i]
      OBVIOUS
    <2>2. \A i \in DOMAIN queue : queue[i] # f
      BY <1>2 DEF ToSet
    <2>3. queue # <<>> => t # <<>> /\ Head(t) = Head(queue)
      OBVIOUS
    <2>4. Enqueue(queue, f) = t
      BY <1>2 DEF Enqueue
    <2> HIDE DEF t, n
    <2>5. IsInjective(t)
      BY <2>1, <2>2 DEF IsInjective
    <2>6. QED  BY <2>3, <2>4, <2>5
  <1>3. QED  BY <1>1, <1>2

LEMMA InjectiveTail ==
  ASSUME NEW queue \in Seq(Fn), IsInjective(queue), queue # <<>>
  PROVE  IsInjective(Tail(queue)) /\ Head(queue) \notin ToSet(Tail(queue))
  <1> DEFINE t == Tail(queue)
  <1>1. /\ Head(queue) = queue[1] /\ 1 \in DOMAIN queue /\ DOMAIN t \subseteq Nat
        /\ \A i \in DOMAIN t : i + 1 \in DOMAIN queue /\ i + 1 # 1 /\ t[i] = queue[i + 1]
    OBVIOUS
  <1> HIDE DEF t
  <1>2. IsInjective(t)
    <2>1. ASSUME NEW i \in DOMAIN t, NEW j \in DOMAIN t, t[i] = t[j]
          PROVE  i = j
      <3>1. i + 1 = j + 1
        BY <1>1, <2>1 DEF IsInjective
      <3>2. QED  BY <1>1, <3>1
    <2>2. QED  BY <2>1 DEF IsInjective
  <1>3. \A i \in DOMAIN t : t[i] # Head(queue)
    BY <1>1 DEF IsInjective
  <1>4. Head(queue) \notin ToSet(t)
    BY <1>3 DEF ToSet
  <1>5. QED  BY <1>2, <1>4 DEF t

\* What the assumptions on programs say of the one being compiled: what it needs is resolved.
LEMMA ProgramIsLinked ==
  ASSUME NothingIsLost, ResultIsComing, outcome = "running"
  PROVE  /\ \E fs \in SUBSET Fn : Links(prog, fs)
         /\ \A fs \in SUBSET Fn : Links(prog, fs) => Needed(prog) \subseteq fs
  <1>1. \E fs \in SUBSET Fn : Links(prog, fs)
    BY LinkedAssumption DEF NothingIsLost, Known, Linked, Links
  <1>2. ASSUME NEW fs \in SUBSET Fn, Links(prog, fs)
        PROVE  Needed(prog) \subseteq fs
    <2>1. \A f \in fs : Mentions(prog.steps[f]) \subseteq fs
      BY <1>2 DEF Links, Resolved, Mentions
    <2>2. QED  BY <1>2, <2>1 DEF Links, Needed
  <1>3. QED  BY <1>1, <1>2

\* The step a body has come to mentions what is there, and the drop of a closure
\* only where the closure was made.
LEMMA StepIsLinked ==
  ASSUME NothingIsLost, ResultIsComing, EachOnce, outcome = "running",
         stack # <<>>, Top.steps # <<>>, NEW fs \in SUBSET Fn, Links(prog, fs)
  PROVE  LET step == Head(Top.steps) IN
         /\ step \in Steps /\ step.fn \in fs
         /\ step.op = "closure" => prog.kind[step.fn] = "drop"
         /\ prog.kind[step.fn] \in {"code", "extern", "generated"} => step.fn \in Indexed(prog)
         /\ \A within \in SUBSET OnTheSpot(prog) : \A drop \in fs :
              /\ StaysWithin(prog, fs, drop, within)
              /\ step.fn \in within \/ step = [op |-> "call", fn |-> drop]
              => drop \in postparsed
  <1> DEFINE n == Len(stack)
             steps == prog.steps[Top.fn]
             step == Head(Top.steps)
  <1>1. stack \in Seq(Frames) /\ n \in DOMAIN stack /\ Top = stack[n] /\ Top \in Frames
    BY DEF NothingIsLost, TypeOK, Top
  <1>2. Top.fn \in FnsOf(stack) /\ Top.steps \in Seq(Steps) /\ step \in Steps /\ Top.fn \in Fn
    BY <1>1 DEF FnsOf, Frames
  <1>3. Top.fn \in fs
    <2>1. Top.fn \in Needed(prog)
      BY <1>2 DEF NothingIsLost, OnTheWay, ResultIsComing, Coming
    <2>2. QED  BY <2>1, ProgramIsLinked
  <1>4. steps \in Seq(Steps)
    BY <1>2, ProgramIsFit
  <1>5. SoFar(prog, Top, postparsed)
    BY <1>1 DEF EachOnce, OnStack, AtMostOnce
  <1>6. PICK i \in DOMAIN steps :
               steps[i] = step /\ \A j \in 1..i - 1 : steps[j].fn \in postparsed
    BY <1>2, <1>4, <1>5, StepTaken
  <1> HIDE DEF steps, step
  <1>7. /\ step.fn \in fs
        /\ step.op = "closure" => prog.kind[step.fn] = "drop"
        /\ prog.kind[step.fn] \in {"code", "extern", "generated"} => step.fn \in Indexed(prog)
    BY <1>3, <1>6 DEF Links, Resolved, steps
  <1>8. ASSUME NEW within \in SUBSET OnTheSpot(prog), NEW drop \in fs,
               StaysWithin(prog, fs, drop, within),
               step.fn \in within \/ step = [op |-> "call", fn |-> drop]
        PROVE  drop \in postparsed
    <2>1. Top.fn \in within \/ \E j \in 1..i - 1 : steps[j] = [op |-> "closure", fn |-> drop]
      BY <1>3, <1>6, <1>8 DEF StaysWithin, steps
    <2>2. CASE Top.fn \in within
      <3>1. FnsOf(stack) \cap within # {}
        BY <1>2, <2>2
      <3>2. QED  BY <1>8, <3>1 DEF EachOnce, ClosuresMade, Made
    <2>3. CASE \E j \in 1..i - 1 : steps[j] = [op |-> "closure", fn |-> drop]
      BY <1>6, <2>3
    <2>4. QED  BY <2>1, <2>2, <2>3
  <1>9. QED  BY <1>2, <1>7, <1>8 DEF step

\* Nothing is on an empty stack.
LEMMA EmptyStack ==
  ASSUME NEW p, NEW added, NEW verdicts, NEW drained, NEW known
  PROVE  AtMostOnce(p, <<>>, added, verdicts, drained, known) /\ Made(p, FnsOf(<<>>), known)
  BY DEF AtMostOnce, Made, FnsOf

\* A step that goes on, and one that ends the pass.
LEMMA StillOnce ==
  ASSUME outcome' = "running", Afresh', InIndex', InQueues', OnStack', ClosuresMade'
  PROVE  NothingTwice'
  BY DEF NothingTwice, EachOnce, PanicsAreOrderOrRecursion

LEMMA PanicKept ==
  ASSUME outcome = "running", Panic, ReadsUncompiled \/ CallsItself
  PROVE  NothingTwice'
  <1>1. /\ UNCHANGED <<prog, todo, definitions, declared, functions, stack>>
        /\ outcome' = "panicked"
    BY DEF Panic, tables
  <1>2. ReadsUncompiled => ReadsUncompiled'
    BY <1>1 DEF ReadsUncompiled
  <1>3. CallsItself => CallsItself'
    BY <1>1 DEF CallsItself, Top
  <1>4. QED  BY <1>1, <1>2, <1>3 DEF NothingTwice, PanicsAreOrderOrRecursion

\* What a header does to the stack.
LEMMA HeaderOnStack ==
  ASSUME NothingIsLost, ResultIsComing, outcome = "running", NEW f \in Fn,
         NEW frames \in Seq(Frames), FnsOf(frames) = FnsOf(stack),
         EvaluateHeader(f, frames), UNCHANGED <<prog, checked>>,
         AtMostOnce(prog, frames, functions, checked, draining', postparsed')
  PROVE  OnStack' /\ FnsOf(stack') \subseteq FnsOf(stack) \cup {f}
  <1> DEFINE pushed == Append(frames, Frame(f, prog.steps[f]))
  <1>1. prog.steps[f] \in Seq(Steps)
    BY ProgramIsFit
  <1>2. FnsOf(pushed) = FnsOf(stack) \cup {f}
    BY <1>1, PushedFrame
  <1>3. f \notin functions => f \notin FnsOf(frames) /\ f \notin checked
    BY DEF EvaluateHeader, HeaderPanics, NothingIsLost, TypeOK, OnTheWay
  <1>4. CASE f \notin functions /\ prog.kind[f] \in {"generated", "lambda", "drop"}
    <2>1. stack' = pushed /\ functions' = functions
      BY <1>4 DEF EvaluateHeader
    <2>2. AtMostOnce(prog, pushed, functions, checked, draining', postparsed')
      BY <1>1, <1>3, <1>4, OncePushed
    <2> HIDE DEF pushed
    <2>3. QED  BY <1>2, <2>1, <2>2 DEF OnStack
  <1>5. CASE ~ (f \notin functions /\ prog.kind[f] \in {"generated", "lambda", "drop"})
    <2>1. stack' = frames
      BY <1>5 DEF EvaluateHeader
    <2>2. \A g \in functions' : g \in functions \/ g \notin FnsOf(frames)
      BY <1>3 DEF EvaluateHeader
    <2>3. AtMostOnce(prog, frames, functions', checked, draining', postparsed')
      BY <2>2, OnceMore
    <2>4. QED  BY <2>1, <2>3 DEF OnStack
  <1>6. QED  BY <1>4, <1>5

\* What it does to the queues, in the phases and in the last loop.
LEMMA HeaderInQueues ==
  ASSUME NothingIsLost, ResultIsComing, outcome = "running", InQueues, NEW f \in Fn,
         NEW frames, EvaluateHeader(f, frames), UNCHANGED <<prog, deferredFunctions>>,
         \/ f \notin ToSet(deferredFunctions) /\ UNCHANGED draining
         \/ /\ draining = NotDraining /\ deferredFunctions # <<>> /\ f = Head(deferredFunctions)
            /\ draining' = [queue |-> "functions", fn |-> f]
  PROVE  InQueues'
  <1>1. deferredBodies \in Seq(Fn)
    BY DEF NothingIsLost, TypeOK
  <1>2. /\ declared' = declared \cup {f}
        /\ deferredBodies' = IF f \notin functions /\ prog.kind[f] = "code"
                             THEN Enqueue(deferredBodies, f) ELSE deferredBodies
        /\ functions' = IF f \notin functions /\ prog.kind[f] \in {"extern", "rust"}
                        THEN functions \cup {f} ELSE functions
    BY DEF EvaluateHeader
  <1>3. \A g \in ToSet(deferredBodies) : prog.kind[g] = "code"
    BY DEF ResultIsComing, Bodies
  <1>4. /\ IsInjective(deferredBodies')
        /\ deferredBodies # <<>> => deferredBodies' # <<>> /\ Head(deferredBodies') = Head(deferredBodies)
    BY <1>1, <1>2, InjectiveEnqueue DEF InQueues
  <1>5. ASSUME NEW g \in ToSet(deferredBodies') \cap functions'
        PROVE  g \in ToSet(deferredBodies) \cap functions
    <2>1. ToSet(Enqueue(deferredBodies, f)) = ToSet(deferredBodies) \cup {f}
      BY <1>1, ToSetOfEnqueue
    <2>2. CASE f \notin functions /\ prog.kind[f] = "code"
      BY <1>2, <1>5, <2>1, <2>2
    <2>3. CASE ~ (f \notin functions /\ prog.kind[f] = "code")
      <3>1. g \in ToSet(deferredBodies)
        BY <1>2, <1>5, <2>3
      <3>2. g \in functions
        BY <1>2, <1>3, <1>5, <3>1
      <3>3. QED  BY <3>1, <3>2
    <2>4. QED  BY <2>2, <2>3
  <1>6. CASE f \notin ToSet(deferredFunctions) /\ UNCHANGED draining
    <2>1. \A g \in ToSet(deferredFunctions) : g \in declared' => g \in declared
      BY <1>2, <1>6
    <2>2. QED  BY <1>4, <1>5, <1>6, <2>1 DEF InQueues
  <1>7. CASE /\ draining = NotDraining /\ deferredFunctions # <<>> /\ f = Head(deferredFunctions)
             /\ draining' = [queue |-> "functions", fn |-> f]
    <2>1. /\ \A g \in Fn : draining # [queue |-> "functions", fn |-> g]
          /\ \A g \in Fn : draining # [queue |-> "bodies", fn |-> g]
      BY <1>7 DEF NotDraining
    <2>2. ToSet(deferredFunctions) \subseteq Fn /\ ToSet(deferredBodies) \subseteq Fn
      BY DEF NothingIsLost, TypeOK, ToSet
    <2>3. /\ \A g \in ToSet(deferredFunctions) : g \in declared' => g = f
          /\ ToSet(deferredBodies') \cap functions' = {}
      BY <1>2, <1>5, <2>1, <2>2 DEF InQueues
    <2>4. draining'.queue = "functions" /\ draining'.fn = f /\ "functions" # "bodies"
      BY <1>7
    <2>5. QED  BY <1>4, <1>7, <2>3, <2>4 DEF InQueues
  <1>8. QED  BY <1>6, <1>7

\* What is handed out is registered, once.
LEMMA AskedOnce ==
  ASSUME NothingIsLost, outcome = "running", InQueues, InIndex, NEW f \in Fn,
         ~ Unknown(f), Illuminate(f),
         UNCHANGED <<prog, declared, functions, deferredBodies, draining>>
  PROVE  /\ InQueues' /\ InIndex'
         /\ postparsed \subseteq postparsed' /\ f \in postparsed'
         /\ \A g \in (declared \cup ToSet(deferredFunctions))' :
              g \in declared \cup ToSet(deferredFunctions) \/ g \notin Indexed(prog)
  <1>1. postparsed' = postparsed \cup {f} /\ deferredFunctions \in Seq(Fn)
    BY IlluminateEffect DEF NothingIsLost, TypeOK
  <1>2. CASE f \notin postparsed /\ prog.kind[f] = "rust"
    <2>1. deferredFunctions' = Enqueue(deferredFunctions, f)
      BY <1>2 DEF Illuminate
    <2>2. /\ ToSet(deferredFunctions') = ToSet(deferredFunctions) \cup {f}
          /\ IsInjective(deferredFunctions')
          /\ deferredFunctions # <<>> =>
               deferredFunctions' # <<>> /\ Head(deferredFunctions') = Head(deferredFunctions)
      BY <1>1, <2>1, ToSetOfEnqueue, InjectiveEnqueue DEF InQueues
    <2>3. f \notin declared /\ f \notin Indexed(prog)
      BY <1>2 DEF InIndex
    <2>4. InQueues'
      BY <1>2, <2>2, <2>3 DEF InQueues
    <2>5. InIndex'
      BY <1>1, <2>2 DEF InIndex
    <2>6. QED  BY <1>1, <2>2, <2>3, <2>4, <2>5
  <1>3. CASE ~ (f \notin postparsed /\ prog.kind[f] = "rust")
    <2>1. deferredFunctions' = deferredFunctions
      BY <1>3 DEF Illuminate
    <2>2. InQueues' /\ InIndex'
      BY <1>1, <2>1 DEF InQueues, InIndex
    <2>3. QED  BY <1>1, <2>1, <2>2
  <1>4. QED  BY <1>2, <1>3

LEMMA EvaluateOnce ==
  ASSUME NothingTwice, ResultIsComing, NEW p \in Programs, Evaluate(p)
  PROVE  NothingTwice'
  <1>1. /\ NothingBegun /\ outerEnvs = {} /\ draining = NotDraining
        /\ outcome' = "running" /\ prog' = p /\ todo' = Schedule(p) /\ postparsed' = Indexed(p)
        /\ UNCHANGED <<outerEnvs, definitions, declared, functions, checked, deferredFunctions,
                       deferredBodies, draining, stack>>
    BY DEF Evaluate, queues, NothingTwice, ResultIsComing
  <1>2. Fresh(p, Schedule(p), {}, {}, {})
    BY LinkedAssumption, ScheduleIsFresh DEF Linked
  <1>3. ToSet(deferredFunctions') = {} /\ ToSet(deferredBodies') = {} /\ declared' = {}
    BY <1>1, ToSetOfNone DEF NothingBegun
  <1>4. Afresh'
    <2>1. /\ outerEnvs' = {} /\ definitions' = {}
          /\ declared' \cup ToSet(deferredFunctions') = {}
      BY <1>1, <1>3 DEF NothingBegun
    <2>2. QED  BY <1>1, <1>2, <2>1 DEF Afresh
  <1>5. InIndex'
    BY <1>1, <1>3 DEF InIndex
  <1>6. InQueues'
    <2>1. /\ deferredFunctions' = <<>> /\ deferredBodies' = <<>>
          /\ draining'.queue = "none"
      BY <1>1 DEF NothingBegun, NotDraining
    <2>2. IsInjective(<<>>)
      BY DEF IsInjective
    <2>3. QED  BY <1>3, <2>1, <2>2 DEF InQueues
  <1>7. OnStack' /\ ClosuresMade'
    <2>1. stack' = <<>>
      BY <1>1 DEF NothingBegun
    <2>2. QED  BY <2>1, EmptyStack DEF OnStack, ClosuresMade
  <1>8. QED  BY <1>1, <1>4, <1>5, <1>6, <1>7, StillOnce

\* A step of the phases that leaves the bodies alone.
LEMMA PhaseStepOnce ==
  ASSUME NothingIsLost, NothingTwice, Precompile \/ CompileCitizen \/ DeferMethod
  PROVE  NothingTwice'
  <1> DEFINE task == Head(todo)
             met == declared \cup ToSet(deferredFunctions)
  <1>1. /\ outcome = "running" /\ todo # <<>> /\ stack = <<>>
        /\ todo \in Seq(CitizenTask \cup FunctionTask)
        /\ Afresh /\ InIndex /\ InQueues
    BY DEF Precompile, CompileCitizen, DeferMethod, AtTask, Running, NothingIsLost, TypeOK,
           NothingTwice, EachOnce
  <1>2. /\ task.op = "precompile" => task.citizen \notin outerEnvs
        /\ task.op \in {"struct", "interface"} =>
             task.citizen \notin definitions /\ task.citizen \in outerEnvs
        /\ task.op \in {"header", "defer"} => task.fn \in Indexed(prog) /\ task.fn \notin met
    BY <1>1, FreshHead DEF Afresh
  <1>3. Fresh(prog, todo, outerEnvs, definitions, met)
    BY <1>1 DEF Afresh
  <1>4. ASSUME stack' = <<>>
        PROVE  OnStack' /\ ClosuresMade'
    BY <1>4, EmptyStack DEF OnStack, ClosuresMade
  <1>5. CASE Precompile
    <2>1. /\ task.op = "precompile" /\ todo' = Tail(todo) /\ outerEnvs' = outerEnvs \cup {task.citizen}
          /\ UNCHANGED <<prog, postparsed, definitions, declared, functions, deferredFunctions,
                         deferredBodies, draining, stack, outcome>>
      BY <1>2, <1>5 DEF Precompile, AtTask, queues
    <2>2. Fresh(prog, Tail(todo), outerEnvs \cup {task.citizen}, definitions, met)
      BY <1>1, <1>3, <2>1, FreshTail
    <2>3. Afresh'
      BY <2>1, <2>2 DEF Afresh
    <2>4. InIndex' /\ InQueues'
      BY <1>1, <2>1 DEF InIndex, InQueues
    <2>5. QED  BY <1>1, <1>4, <2>1, <2>3, <2>4, StillOnce
  <1>6. CASE CompileCitizen
    <2>1. /\ task.op \in {"struct", "interface"} /\ todo' = Tail(todo)
          /\ definitions' = definitions \cup {task.citizen}
          /\ UNCHANGED <<prog, postparsed, outerEnvs, declared, functions, deferredFunctions,
                         deferredBodies, draining, stack, outcome>>
      BY <1>2, <1>6 DEF CompileCitizen, AtTask, queues
    <2>2. Fresh(prog, Tail(todo), outerEnvs, definitions \cup {task.citizen}, met)
      BY <1>1, <1>3, <2>1, FreshTail
    <2>3. Afresh'
      BY <2>1, <2>2 DEF Afresh
    <2>4. InIndex' /\ InQueues'
      BY <1>1, <2>1 DEF InIndex, InQueues
    <2>5. QED  BY <1>1, <1>4, <2>1, <2>3, <2>4, StillOnce
  <1>7. CASE DeferMethod
    <2> DEFINE f == task.fn
    <2>1. /\ task.op = "defer" /\ todo' = Tail(todo)
          /\ deferredFunctions' = Enqueue(deferredFunctions, f)
          /\ UNCHANGED <<prog, postparsed, outerEnvs, definitions, declared, functions,
                         deferredBodies, draining, stack, outcome>>
      BY <1>7 DEF DeferMethod, AtTask, tables
    <2>2. f \in Indexed(prog) /\ f \notin declared /\ f \in Fn
      BY <1>2, <2>1 DEF Indexed
    <2>3. deferredFunctions \in Seq(Fn)
      BY DEF NothingIsLost, TypeOK
    <2>4. /\ ToSet(deferredFunctions') = ToSet(deferredFunctions) \cup {f}
          /\ IsInjective(deferredFunctions')
          /\ deferredFunctions # <<>> =>
               deferredFunctions' # <<>> /\ Head(deferredFunctions') = Head(deferredFunctions)
      BY <1>1, <2>1, <2>2, <2>3, ToSetOfEnqueue, InjectiveEnqueue DEF InQueues
    <2>5. Fresh(prog, Tail(todo), outerEnvs, definitions, met \cup {f})
      BY <1>1, <1>3, <2>1, FreshTail
    <2>6. Afresh'
      <3>1. declared' \cup ToSet(deferredFunctions') = met \cup {f}
        BY <2>1, <2>4
      <3>2. QED  BY <2>1, <2>5, <3>1 DEF Afresh
    <2>7. prog.kind[f] \in {"code", "extern", "generated", "rust"}
      BY <2>2 DEF Indexed
    <2>8. f \in postparsed
      BY <1>1, <2>2 DEF InIndex
    <2> HIDE DEF f, met, task
    <2>9. InIndex'
      BY <1>1, <2>1, <2>4, <2>8 DEF InIndex
    <2>10. InQueues'
      BY <1>1, <2>1, <2>2, <2>4, <2>7 DEF InQueues
    <2>11. QED  BY <1>1, <1>4, <2>1, <2>6, <2>9, <2>10, StillOnce
  <1>8. QED  BY <1>5, <1>6, <1>7

\* A header of the phases: the one panic is a return type that comes later.
LEMMA CompileHeaderOnce ==
  ASSUME NothingIsLost, ResultIsComing, NothingTwice, CompileHeader
  PROVE  NothingTwice'
  <1> DEFINE f == Head(todo).fn
             met == declared \cup ToSet(deferredFunctions)
  <1>1. /\ outcome = "running" /\ todo # <<>> /\ Head(todo).op = "header" /\ stack = <<>>
        /\ todo \in Seq(CitizenTask \cup FunctionTask) /\ stack \in Seq(Frames)
        /\ Afresh /\ InIndex /\ InQueues
    BY DEF CompileHeader, AtTask, Running, NothingIsLost, TypeOK, NothingTwice, EachOnce
  <1>2. f \in Indexed(prog) /\ f \notin met /\ f \in Fn
    BY <1>1, FreshHead DEF Afresh, Indexed
  <1>3. f \in postparsed /\ f \notin functions
    BY <1>1, <1>2 DEF InIndex, NothingIsLost, TypeOK
  <1>4. prog.kind[f] \in {"code", "extern", "generated"}
    BY <1>2 DEF Indexed
  <1>5. CASE HeaderPanics(f)
    <2>1. PICK fs \in SUBSET Fn : Links(prog, fs)
      BY <1>1, ProgramIsLinked
    <2>2. prog.returns[f] \subseteq CitizensOf(prog)
      BY <1>2, <1>4, <2>1 DEF Links, Resolved, Roots
    <2>3. PICK c \in CitizensOf(prog) : c \in prog.returns[f] /\ c \notin definitions
      BY <1>2, <1>5, <2>2 DEF HeaderPanics
    <2>4. c \in Citizen
      <3>1. CitizensOf(prog) = CitizensIn(Schedule(prog))
            /\ Schedule(prog) \in Seq(CitizenTask \cup FunctionTask)
        BY <1>1, ProgramsAssumption DEF NothingIsLost, Known, WellFormed
      <3>2. QED
        <4>1. PICK i \in DOMAIN Schedule(prog) :
                     /\ Schedule(prog)[i].op \in {"struct", "interface"}
                     /\ Schedule(prog)[i].citizen = c
          BY <3>1 DEF CitizensIn
        <4>2. Schedule(prog)[i] \in CitizenTask \cup FunctionTask
          BY <3>1
        <4>3. QED  BY <4>1, <4>2 DEF CitizenTask, FunctionTask
    <2>5. PICK i \in DOMAIN prog.packages : c \in ToSet(prog.packages[i].citizens)
      BY DEF CitizensOf
    <2>6. ReadsUncompiled
      BY <1>1, <1>2, <2>3, <2>4, <2>5 DEF ReadsUncompiled
    <2>7. Panic
      BY <1>5 DEF CompileHeader
    <2>8. QED  BY <1>1, <2>6, <2>7, PanicKept
  <1>6. CASE ~ HeaderPanics(f)
    <2>1. /\ EvaluateHeader(f, stack) /\ todo' = Tail(todo)
          /\ UNCHANGED <<prog, postparsed, outerEnvs, definitions, checked, bounds,
                         deferredFunctions, draining, outcome>>
      BY <1>3, <1>6 DEF CompileHeader
    <2>2. declared' = declared \cup {f}
      BY <2>1 DEF EvaluateHeader
    <2>3. Fresh(prog, Tail(todo), outerEnvs, definitions, met \cup {f})
      BY <1>1, FreshTail DEF Afresh
    <2>4. Afresh'
      <3>1. declared' \cup ToSet(deferredFunctions') = met \cup {f}
        BY <2>1, <2>2
      <3>2. QED  BY <2>1, <2>3, <3>1 DEF Afresh
    <2> HIDE DEF f, met
    <2>5. InIndex'
      BY <1>1, <1>3, <2>1, <2>2 DEF InIndex
    <2>6. InQueues'
      BY <1>1, <1>2, <2>1, HeaderInQueues DEF met
    <2>7. OnStack' /\ FnsOf(stack') \subseteq FnsOf(stack) \cup {f}
      <3>1. OnStack
        BY <1>1, EmptyStack DEF OnStack
      <3>2. AtMostOnce(prog, stack, functions, checked, draining', postparsed')
        BY <2>1, <3>1 DEF OnStack
      <3>3. QED  BY <1>1, <1>2, <2>1, <3>2, HeaderOnStack
    <2>8. ClosuresMade'
      <3>1. Made(prog, FnsOf(stack), postparsed)
        BY <1>1, EmptyStack
      <3>2. Made(prog, FnsOf(stack) \cup {f}, postparsed)
        BY <1>4, <3>1, MadePlain
      <3>3. QED  BY <2>1, <2>7, <3>2, MadeMore DEF ClosuresMade
    <2>9. QED  BY <1>1, <2>1, <2>4, <2>5, <2>6, <2>7, <2>8, StillOnce
  <1>7. QED  BY <1>5, <1>6

LEMMA ResolveFunctionOnce ==
  ASSUME NothingIsLost, NothingTwice, ResolveFunction
  PROVE  NothingTwice'
  <1> DEFINE f == Head(todo).fn
             met == declared \cup ToSet(deferredFunctions)
  <1>1. /\ outcome = "running" /\ todo # <<>> /\ Head(todo).op = "resolve" /\ stack = <<>>
        /\ todo \in Seq(CitizenTask \cup FunctionTask)
        /\ Afresh /\ InIndex /\ InQueues
    BY DEF ResolveFunction, AtTask, Running, NothingIsLost, TypeOK, NothingTwice, EachOnce
  <1>2. f \in Fn
    BY <1>1, ScheduledTail DEF CitizenTask, FunctionTask
  <1>3. f \in Indexed(prog) \/ prog.kind[f] = "rust"
    BY <1>1, FreshHead DEF Afresh
  <1>4. ~ Unknown(f)
    BY <1>1, <1>3 DEF InIndex, Unknown
  <1>5. /\ Illuminate(f) /\ todo' = Tail(todo)
        /\ UNCHANGED <<prog, outerEnvs, definitions, declared, functions, externs,
                       checked, deferredBodies, draining, stack, outcome>>
    BY <1>4 DEF ResolveFunction
  <1>6. Fresh(prog, Tail(todo), outerEnvs, definitions, met)
    BY <1>1, FreshTail DEF Afresh
  <1> HIDE DEF f
  <1>7. /\ InQueues' /\ InIndex'
        /\ \A g \in (declared \cup ToSet(deferredFunctions))' : g \in met \/ g \notin Indexed(prog)
    BY <1>1, <1>2, <1>4, <1>5, AskedOnce
  <1> HIDE DEF met
  <1>8. Afresh'
    <2>1. Fresh(prog, Tail(todo), outerEnvs, definitions, (declared \cup ToSet(deferredFunctions))')
      BY <1>6, <1>7, FreshMore
    <2>2. QED  BY <1>5, <2>1 DEF Afresh
  <1>9. OnStack' /\ ClosuresMade'
    BY <1>1, <1>5, EmptyStack DEF OnStack, ClosuresMade
  <1>10. QED  BY <1>1, <1>5, <1>7, <1>8, <1>9, StillOnce

\* The innermost body takes its step.
LEMMA SteppedOnce ==
  ASSUME NothingIsLost, outcome = "running", EachOnce, stack # <<>>, Top.steps # <<>>,
         NEW known, postparsed \subseteq known, Head(Top.steps).fn \in known
  PROVE  /\ AfterStep \in Seq(Frames) /\ FnsOf(AfterStep) = FnsOf(stack)
         /\ AtMostOnce(prog, AfterStep, functions, checked, draining, known)
  <1>1. stack \in Seq(Frames) /\ Len(stack) \in DOMAIN stack /\ Top \in Frames
    BY DEF NothingIsLost, TypeOK, Top
  <1>2. prog.steps[Top.fn] \in Seq(Steps)
    BY <1>1, ProgramIsFit DEF Frames
  <1>3. AtMostOnce(prog, stack, functions, checked, draining, postparsed)
    BY DEF EachOnce, OnStack
  <1>4. AtMostOnce(prog, AfterStep, functions, checked, draining, known)
    BY <1>1, <1>2, <1>3, OnceStepped DEF Top, AfterStep
  <1>5. AfterStep \in Seq(Frames) /\ FnsOf(AfterStep) = FnsOf(stack)
    BY <1>1, SteppedFrame DEF Top, AfterStep
  <1>6. QED  BY <1>4, <1>5

\* What is called was met: a drop in the body that made its closure, and the rest in the index.
LEMMA CallFunctionOnce ==
  ASSUME NothingIsLost, ResultIsComing, NothingTwice, CallFunction
  PROVE  NothingTwice'
  <1> DEFINE step == Head(Top.steps)
             f == step.fn
             met == declared \cup ToSet(deferredFunctions)
  <1>1. /\ outcome = "running" /\ stack # <<>> /\ Top.steps # <<>> /\ stack \in Seq(Frames)
        /\ step.op = "call" /\ prog.kind[f] # "lambda" /\ EachOnce
    BY DEF CallFunction, AtStep, Running, NothingIsLost, TypeOK, NothingTwice
  <1>2. PICK fs \in SUBSET Fn : Links(prog, fs)
    BY <1>1, ProgramIsLinked
  <1>3. /\ step \in Steps /\ f \in fs
        /\ prog.kind[f] \in {"code", "extern", "generated"} => f \in Indexed(prog)
        /\ \A within \in SUBSET OnTheSpot(prog) : \A drop \in fs :
             /\ StaysWithin(prog, fs, drop, within)
             /\ f \in within \/ step = [op |-> "call", fn |-> drop]
             => drop \in postparsed
    BY <1>1, <1>2, StepIsLinked
  <1>4. ~ Unknown(f)
    <2>1. f \in Fn /\ prog.kind[f] \in Kinds
      BY <1>3, <1>1, ProgramIsFit DEF Steps
    <2>2. CASE prog.kind[f] \in {"code", "extern", "generated"}
      BY <1>1, <1>3, <2>2 DEF EachOnce, InIndex, Unknown
    <2>3. CASE prog.kind[f] = "drop"
      <3>1. PICK within \in SUBSET OnTheSpot(prog) : StaysWithin(prog, fs, f, within)
        BY <1>2, <1>3, <2>3 DEF Links, Resolved, CalledWhereMade
      <3>2. step = [op |-> "call", fn |-> f]
        BY <1>1, <1>3 DEF Steps
      <3>3. f \in postparsed
        BY <1>3, <3>1, <3>2
      <3>4. QED  BY <3>3 DEF Unknown
    <2>4. CASE prog.kind[f] = "rust"
      BY <2>4 DEF Unknown
    <2>5. QED  BY <1>1, <2>1, <2>2, <2>3, <2>4 DEF Kinds
  <1>5. f \in Fn
    BY <1>3 DEF Steps
  <1>6. /\ Illuminate(f) /\ stack' = AfterStep
        /\ UNCHANGED <<prog, todo, outerEnvs, definitions, declared, functions,
                       externs, checked, deferredBodies, draining, outcome>>
    BY <1>4 DEF CallFunction
  <1> HIDE DEF f
  <1>7. /\ InQueues' /\ InIndex'
        /\ postparsed \subseteq postparsed' /\ f \in postparsed'
        /\ \A g \in (declared \cup ToSet(deferredFunctions))' : g \in met \/ g \notin Indexed(prog)
    BY <1>1, <1>4, <1>5, <1>6, AskedOnce DEF EachOnce
  <1> HIDE DEF met
  <1>8. Afresh'
    <2>1. Fresh(prog, todo, outerEnvs, definitions, met)
      BY <1>1 DEF EachOnce, Afresh, met
    <2>2. Fresh(prog, todo, outerEnvs, definitions, (declared \cup ToSet(deferredFunctions))')
      BY <1>7, <2>1, FreshMore
    <2>3. QED  BY <1>6, <2>2 DEF Afresh
  <1>9. OnStack' /\ FnsOf(stack') = FnsOf(stack)
    BY <1>1, <1>6, <1>7, SteppedOnce DEF f, OnStack
  <1>10. ClosuresMade'
    BY <1>1, <1>6, <1>7, <1>9, MadeMore DEF EachOnce, ClosuresMade
  <1>11. QED  BY <1>1, <1>6, <1>7, <1>8, <1>9, <1>10, StillOnce

\* A lambda is called, or a closure made: the one panic is that of a lambda in itself.
LEMMA LambdaOnce ==
  ASSUME NothingIsLost, ResultIsComing, NothingTwice, CallLambda \/ MakeClosure
  PROVE  NothingTwice'
  <1> DEFINE step == Head(Top.steps)
             f == step.fn
             met == declared \cup ToSet(deferredFunctions)
  <1>1. /\ outcome = "running" /\ stack # <<>> /\ Top.steps # <<>> /\ stack \in Seq(Frames)
        /\ EachOnce
    BY DEF CallLambda, MakeClosure, AtStep, Running, NothingIsLost, TypeOK, NothingTwice
  <1>2. PICK fs \in SUBSET Fn : Links(prog, fs)
    BY <1>1, ProgramIsLinked
  <1>3. /\ step \in Steps /\ f \in fs
        /\ step.op = "closure" => prog.kind[f] = "drop"
        /\ \A within \in SUBSET OnTheSpot(prog) : \A drop \in fs :
             StaysWithin(prog, fs, drop, within) /\ f \in within => drop \in postparsed
    BY <1>1, <1>2, StepIsLinked
  <1>4. f \in Fn /\ prog.kind[f] \in {"lambda", "drop"}
    BY <1>3 DEF CallLambda, MakeClosure, AtStep, Steps
  <1>5. /\ f \notin Indexed(prog) /\ f \notin ToSet(deferredFunctions)
        /\ f \notin ToSet(deferredBodies)
    BY <1>1, <1>4 DEF Indexed, EachOnce, InQueues, ResultIsComing, Bodies
  <1>6. CASE HeaderPanics(f)
    <2>1. f \notin functions /\ f \in declared
      BY <1>2, <1>3, <1>4, <1>6 DEF HeaderPanics, Links, Resolved
    <2>2. f \in FnsOf(stack)
      BY <1>5, <2>1 DEF NothingIsLost, OnTheWay
    <2>3. \E i \in DOMAIN stack : stack[i].fn = f
      BY <2>2 DEF FnsOf
    <2>4. CallsItself
      BY <1>1, <1>4, <2>1, <2>3 DEF CallsItself
    <2>5. Panic
      BY <1>6 DEF CallLambda, MakeClosure
    <2>6. QED  BY <1>1, <2>4, <2>5, PanicKept
  <1>7. CASE ~ HeaderPanics(f)
    <2>1. /\ EvaluateHeader(f, AfterStep) /\ postparsed' = postparsed \cup {f}
          /\ UNCHANGED <<prog, todo, outerEnvs, definitions, checked, deferredFunctions,
                         draining, outcome>>
      BY <1>7 DEF CallLambda, MakeClosure
    <2>2. declared' = declared \cup {f}
      BY <2>1 DEF EvaluateHeader
    <2> HIDE DEF f
    <2>3. Afresh'
      <3>1. Fresh(prog, todo, outerEnvs, definitions, met)
        BY <1>1 DEF EachOnce, Afresh
      <3>2. \A g \in met \cup {f} : g \in met \/ g \notin Indexed(prog)
        BY <1>5
      <3>3. Fresh(prog, todo, outerEnvs, definitions, met \cup {f})
        BY <3>1, <3>2, FreshMore
      <3>4. declared' \cup ToSet(deferredFunctions') = met \cup {f}
        BY <2>1, <2>2
      <3>5. QED  BY <2>1, <3>3, <3>4 DEF Afresh
    <2> HIDE DEF met
    <2>4. InIndex'
      BY <1>1, <2>1, <2>2 DEF EachOnce, InIndex
    <2>5. InQueues'
      BY <1>1, <1>4, <1>5, <2>1, HeaderInQueues DEF EachOnce
    <2>6. OnStack' /\ FnsOf(stack') \subseteq FnsOf(stack) \cup {f}
      <3>1. /\ AfterStep \in Seq(Frames) /\ FnsOf(AfterStep) = FnsOf(stack)
            /\ AtMostOnce(prog, AfterStep, functions, checked, draining, postparsed')
        BY <1>1, <2>1, SteppedOnce DEF f
      <3>2. AtMostOnce(prog, AfterStep, functions, checked, draining', postparsed')
        BY <2>1, <3>1
      <3>3. QED  BY <1>1, <1>4, <2>1, <3>1, <3>2, HeaderOnStack
    <2>7. ClosuresMade'
      <3>1. Made(prog, FnsOf(stack), postparsed)
        BY <1>1 DEF EachOnce, ClosuresMade
      <3>2. \A gs \in SUBSET Fn, within \in SUBSET OnTheSpot(prog) : \A drop \in gs :
              Links(prog, gs) /\ StaysWithin(prog, gs, drop, within) /\ f \in within
                => drop \in postparsed'
        BY <1>1, <2>1, StepIsLinked DEF f
      <3>3. Made(prog, FnsOf(stack) \cup {f}, postparsed')
        BY <2>1, <3>1, <3>2, MadePushed
      <3>4. QED  BY <2>1, <2>6, <3>3, MadeMore DEF ClosuresMade
    <2>8. QED  BY <1>1, <2>1, <2>3, <2>4, <2>5, <2>6, <2>7, StillOnce
  <1>8. QED  BY <1>6, <1>7

\* A body is added once.
LEMMA DefineFunctionOnce ==
  ASSUME NothingIsLost, ResultIsComing, NothingTwice, DefineFunction
  PROVE  NothingTwice'
  <1>1. /\ outcome = "running" /\ stack # <<>> /\ stack \in Seq(Frames) /\ ~ Top.defined
        /\ EachOnce /\ Len(stack) \in DOMAIN stack
    BY DEF DefineFunction, Running, NothingIsLost, TypeOK, NothingTwice
  <1>2. AtMostOnce(prog, stack, functions, checked, draining, postparsed)
    BY <1>1 DEF EachOnce, OnStack
  <1>3. /\ Top.fn \notin functions
        /\ prog.kind[Top.fn] = "code" => draining = [queue |-> "bodies", fn |-> Top.fn]
    BY <1>1, <1>2 DEF AtMostOnce, Top
  <1>4. /\ functions' = functions \cup {Top.fn}
        /\ stack' = [stack EXCEPT ![Len(stack)].defined = TRUE]
        /\ UNCHANGED <<prog, todo, postparsed, outerEnvs, definitions, declared, checked,
                       deferredFunctions, deferredBodies, draining, outcome>>
    BY <1>3 DEF DefineFunction, queues
  <1>5. FnsOf(stack') = FnsOf(stack)
    BY <1>1, <1>4, DefinedFrame
  <1>6. OnStack'
    <2>1. AtMostOnce(prog, stack', functions', checked, draining, postparsed)
      BY <1>1, <1>2, <1>4, OnceDefined DEF Top
    <2>2. QED  BY <1>4, <2>1 DEF OnStack
  <1>7. ClosuresMade' /\ Afresh' /\ InIndex'
    BY <1>1, <1>4, <1>5 DEF EachOnce, ClosuresMade, Afresh, InIndex
  <1>8. InQueues'
    <2>1. \A g \in ToSet(deferredBodies) : prog.kind[g] = "code"
      BY <1>1 DEF ResultIsComing, Bodies
    <2>2. \A g \in ToSet(deferredBodies) \cap functions' :
            draining = [queue |-> "bodies", fn |-> g]
      BY <1>1, <1>3, <1>4, <2>1 DEF EachOnce, InQueues
    <2>3. QED  BY <1>1, <1>4, <2>2 DEF EachOnce, InQueues
  <1>9. QED  BY <1>1, <1>4, <1>6, <1>7, <1>8, StillOnce

\* A body is checked once, and what it mentions is known by then.
LEMMA CheckFunctionOnce ==
  ASSUME NothingIsLost, ResultIsComing, NothingTwice, CheckFunction
  PROVE  NothingTwice'
  <1>1. /\ outcome = "running" /\ stack # <<>> /\ stack \in Seq(Frames) /\ Top.defined
        /\ EachOnce /\ Len(stack) \in DOMAIN stack /\ Top = stack[Len(stack)]
    BY DEF CheckFunction, Running, NothingIsLost, TypeOK, NothingTwice, Top
  <1>2. AtMostOnce(prog, stack, functions, checked, draining, postparsed)
    BY <1>1 DEF EachOnce, OnStack
  <1>3. Top.fn \notin checked
    BY <1>1, <1>2 DEF AtMostOnce
  <1>4. Callees(Top.fn) \subseteq postparsed
    <2>1. Top.fn \in functions
      BY <1>1 DEF DefinedOf, NothingIsLost, OnTheWay
    <2>2. Callees(Top.fn) \subseteq declared \cup bounds
      BY <1>1, <2>1 DEF Callees, Mentions, ResultIsComing, Bodies
    <2>3. QED  BY <1>1, <2>2 DEF EachOnce, InIndex, NothingIsLost, Known
  <1>5. CASE outcome' = "failed"
    BY <1>5 DEF NothingTwice, PanicsAreOrderOrRecursion
  <1>6. CASE outcome' # "failed"
    <2>1. /\ stack' = Front(stack) /\ checked' \subseteq checked \cup {Top.fn}
          /\ UNCHANGED <<prog, todo, postparsed, outerEnvs, definitions, declared, functions,
                         deferredFunctions, deferredBodies, draining, outcome>>
      BY <1>3, <1>4, <1>6 DEF CheckFunction, tables, queues
    <2>2. OnStack'
      <3>1. AtMostOnce(prog, Front(stack), functions, checked', draining, postparsed)
        BY <1>1, <1>2, <2>1, OncePopped
      <3>2. QED  BY <2>1, <3>1 DEF OnStack
    <2>3. ClosuresMade'
      <3>1. FnsOf(Front(stack)) \subseteq FnsOf(stack)
        BY <1>1, PoppedFrame
      <3>2. QED  BY <1>1, <2>1, <3>1, MadeMore DEF EachOnce, ClosuresMade
    <2>4. Afresh' /\ InIndex' /\ InQueues'
      BY <1>1, <2>1 DEF EachOnce, Afresh, InIndex, InQueues
    <2>5. QED  BY <1>1, <2>1, <2>2, <2>3, <2>4, StillOnce
  <1>7. QED  BY <1>5, <1>6

\* What waited for its header is declared now, when every citizen has its definition.
LEMMA DrainFunctionOnce ==
  ASSUME NothingIsLost, ResultIsComing, NothingTwice, DrainFunction
  PROVE  NothingTwice'
  <1> DEFINE f == Head(deferredFunctions)
  <1>1. /\ outcome = "running" /\ stack = <<>> /\ todo = <<>> /\ draining = NotDraining
        /\ deferredFunctions # <<>> /\ deferredFunctions \in Seq(Fn) /\ stack \in Seq(Frames)
        /\ EachOnce
    BY DEF DrainFunction, AtLoop, Running, NothingIsLost, TypeOK, NothingTwice
  <1>2. f \in Fn /\ f \in ToSet(deferredFunctions)
    BY <1>1, ToSetOfTail
  <1>3. f \in postparsed /\ prog.kind[f] \in {"code", "extern", "generated", "rust"}
    BY <1>1, <1>2 DEF EachOnce, InIndex, InQueues
  <1>4. ~ HeaderPanics(f)
    <2>1. f \notin declared
      BY <1>1, <1>2 DEF EachOnce, InQueues, NotDraining
    <2>2. PICK fs \in SUBSET Fn : Links(prog, fs) /\ Needed(prog) \subseteq fs
      BY <1>1, ProgramIsLinked
    <2>3. f \in fs
      BY <1>1, <1>2, <2>2 DEF ResultIsComing, Coming
    <2>4. prog.returns[f] \subseteq CitizensOf(prog)
      BY <1>3, <2>2, <2>3 DEF Links, Resolved
    <2>5. definitions = CitizensOf(prog)
      <3>1. CitizensIn(todo) = {}
        BY <1>1 DEF CitizensIn
      <3>2. QED  BY <1>1, <3>1 DEF ResultIsComing, Coming
    <2>6. QED  BY <2>1, <2>4, <2>5 DEF HeaderPanics
  <1>5. /\ EvaluateHeader(f, stack)
        /\ draining' = [queue |-> "functions", fn |-> f]
        /\ UNCHANGED <<prog, todo, postparsed, outerEnvs, definitions, checked, bounds,
                       deferredFunctions, outcome>>
    BY <1>3, <1>4 DEF DrainFunction, Unknown
  <1>6. declared' = declared \cup {f}
    BY <1>5 DEF EvaluateHeader
  <1>7. InQueues'
    BY <1>1, <1>2, <1>5, HeaderInQueues DEF EachOnce
  <1> HIDE DEF f
  <1>8. Afresh' /\ InIndex'
    <2>1. (declared \cup ToSet(deferredFunctions))' = declared \cup ToSet(deferredFunctions)
      BY <1>2, <1>5, <1>6
    <2>2. QED  BY <1>1, <1>3, <1>5, <2>1 DEF EachOnce, Afresh, InIndex
  <1>9. OnStack' /\ FnsOf(stack') \subseteq FnsOf(stack) \cup {f}
    <2>1. AtMostOnce(prog, stack, functions, checked, draining', postparsed')
      BY <1>1, EmptyStack
    <2>2. QED  BY <1>1, <1>2, <1>5, <2>1, HeaderOnStack
  <1>10. ClosuresMade'
    <2>1. Made(prog, FnsOf(stack), postparsed)
      BY <1>1 DEF EachOnce, ClosuresMade
    <2>2. Made(prog, FnsOf(stack) \cup {f}, postparsed)
      BY <1>3, <2>1, MadePlain
    <2>3. QED  BY <1>5, <1>9, <2>2, MadeMore DEF ClosuresMade
  <1>11. QED  BY <1>1, <1>5, <1>7, <1>8, <1>9, <1>10, StillOnce

LEMMA DrainBodyOnce ==
  ASSUME NothingIsLost, ResultIsComing, NothingTwice, DrainBody
  PROVE  NothingTwice'
  <1> DEFINE f == Head(deferredBodies)
             drained == [queue |-> "bodies", fn |-> f]
  <1>1. /\ outcome = "running" /\ stack = <<>> /\ draining = NotDraining
        /\ deferredFunctions = <<>> /\ deferredBodies # <<>> /\ deferredBodies \in Seq(Fn)
        /\ EachOnce
    BY DEF DrainBody, AtLoop, Running, NothingIsLost, TypeOK, NothingTwice
  <1>2. f \in Fn /\ f \in ToSet(deferredBodies)
    BY <1>1, ToSetOfTail
  <1>3. prog.kind[f] = "code" /\ prog.steps[f] \in Seq(Steps)
    BY <1>1, <1>2, ProgramIsFit DEF ResultIsComing, Bodies
  <1>4. ToSet(deferredBodies) \cap functions = {}
    BY <1>1 DEF EachOnce, InQueues, NotDraining
  <1>5. f \notin functions /\ f \notin checked
    BY <1>2, <1>4 DEF NothingIsLost, TypeOK
  <1>6. /\ draining' = drained /\ stack' = <<Frame(f, prog.steps[f])>>
        /\ UNCHANGED <<prog, todo, postparsed, outerEnvs, definitions, declared, functions,
                       checked, deferredFunctions, deferredBodies, outcome>>
    BY DEF DrainBody, tables
  <1>7. InQueues'
    <2>1. draining'.queue = "bodies" /\ draining'.fn = f /\ "bodies" # "functions"
      BY <1>6
    <2>2. ToSet(deferredFunctions) = {}
      BY <1>1, ToSetOfNone
    <2> HIDE DEF drained
    <2>3. QED  BY <1>1, <1>4, <1>6, <2>1, <2>2 DEF EachOnce, InQueues
  <1> HIDE DEF f
  <1>8. Afresh' /\ InIndex'
    BY <1>1, <1>6 DEF EachOnce, Afresh, InIndex
  <1>9. OnStack' /\ FnsOf(stack') = {f}
    <2>1. stack' = Append(stack, Frame(f, prog.steps[f])) /\ stack \in Seq(Frames)
      BY <1>1, <1>6
    <2>2. FnsOf(stack) = {}
      BY <1>1 DEF FnsOf
    <2>3. AtMostOnce(prog, stack, functions, checked, drained, postparsed)
      BY <1>1, EmptyStack
    <2>4. AtMostOnce(prog, stack', functions, checked, drained, postparsed)
      BY <1>3, <1>5, <2>1, <2>2, <2>3, OncePushed
    <2> HIDE DEF drained
    <2>5. FnsOf(stack') = {f}
      BY <1>2, <1>3, <2>1, <2>2, PushedFrame
    <2>6. QED  BY <1>6, <2>4, <2>5 DEF OnStack
  <1>10. ClosuresMade'
    <2>1. Made(prog, {}, postparsed)
      BY DEF Made
    <2>2. Made(prog, {} \cup {f}, postparsed)
      BY <1>3, <2>1, MadePlain
    <2>3. QED  BY <1>6, <1>9, <2>2 DEF ClosuresMade
  <1>11. QED  BY <1>1, <1>6, <1>7, <1>8, <1>9, <1>10, StillOnce

\* What was peeked is still what the queue begins with, and is not in it again.
LEMMA MarkOnce ==
  ASSUME NothingIsLost, NothingTwice, MarkFunctionCompiled \/ MarkBodyCompiled
  PROVE  NothingTwice'
  <1>1. /\ outcome = "running" /\ stack = <<>> /\ EachOnce
        /\ deferredFunctions \in Seq(Fn) /\ deferredBodies \in Seq(Fn)
    BY DEF MarkFunctionCompiled, MarkBodyCompiled, Running, NothingIsLost, TypeOK, NothingTwice
  <1>2. ASSUME stack' = <<>> PROVE OnStack' /\ ClosuresMade'
    BY <1>2, EmptyStack DEF OnStack, ClosuresMade
  <1>3. CASE MarkFunctionCompiled
    <2>1. draining.queue = "functions" /\ deferredFunctions # <<>>
          /\ Head(deferredFunctions) = draining.fn
      BY <1>1, <1>3 DEF MarkFunctionCompiled, EachOnce, InQueues
    <2>2. /\ deferredFunctions' = Tail(deferredFunctions) /\ draining' = NotDraining
          /\ UNCHANGED <<prog, todo, postparsed, outerEnvs, definitions, declared, functions,
                         deferredBodies, stack, outcome>>
      BY <1>3, <2>1 DEF MarkFunctionCompiled, tables
    <2>3. /\ IsInjective(deferredFunctions') /\ draining.fn \notin ToSet(deferredFunctions')
          /\ ToSet(deferredFunctions') \subseteq ToSet(deferredFunctions)
      BY <1>1, <2>1, <2>2, InjectiveTail, ToSetOfTail DEF EachOnce, InQueues
    <2>4. \A g \in ToSet(deferredFunctions') : g \notin declared
      <3>1. \A g \in ToSet(deferredFunctions) : g \in declared => draining.fn = g
        BY <1>1 DEF EachOnce, InQueues
      <3>2. QED  BY <2>3, <3>1
    <2>5. ToSet(deferredBodies) \cap functions = {}
      <3>1. \A g \in ToSet(deferredBodies) \cap functions : draining.queue = "bodies"
        BY <1>1 DEF EachOnce, InQueues
      <3>2. QED  BY <2>1, <3>1
    <2>6. InQueues'
      <3>1. draining'.queue = "none"
        BY <2>2 DEF NotDraining
      <3>2. QED  BY <1>1, <2>2, <2>3, <2>4, <2>5, <3>1 DEF EachOnce, InQueues
    <2>7. InIndex'
      BY <1>1, <2>2, <2>3 DEF EachOnce, InIndex
    <2>8. Afresh'
      <3>1. Fresh(prog, todo, outerEnvs, definitions, declared \cup ToSet(deferredFunctions'))
        BY <1>1, <2>3, FreshMore DEF EachOnce, Afresh
      <3>2. QED  BY <2>2, <3>1 DEF Afresh
    <2>9. QED  BY <1>1, <1>2, <2>2, <2>6, <2>7, <2>8, StillOnce
  <1>4. CASE MarkBodyCompiled
    <2>1. draining.queue = "bodies" /\ deferredBodies # <<>>
          /\ Head(deferredBodies) = draining.fn
      BY <1>1, <1>4 DEF MarkBodyCompiled, EachOnce, InQueues
    <2>2. /\ deferredBodies' = Tail(deferredBodies) /\ draining' = NotDraining
          /\ UNCHANGED <<prog, todo, postparsed, outerEnvs, definitions, declared, functions,
                         deferredFunctions, stack, outcome>>
      BY <1>4, <2>1 DEF MarkBodyCompiled, tables
    <2>3. /\ IsInjective(deferredBodies') /\ draining.fn \notin ToSet(deferredBodies')
          /\ ToSet(deferredBodies') \subseteq ToSet(deferredBodies)
      BY <1>1, <2>1, <2>2, InjectiveTail, ToSetOfTail DEF EachOnce, InQueues
    <2>4. ToSet(deferredBodies') \cap functions = {}
      <3>1. \A g \in ToSet(deferredBodies) \cap functions : draining.fn = g
        BY <1>1 DEF EachOnce, InQueues
      <3>2. QED  BY <2>3, <3>1
    <2>5. \A g \in ToSet(deferredFunctions) : g \notin declared
      <3>1. \A g \in ToSet(deferredFunctions) : g \in declared => draining.queue = "functions"
        BY <1>1 DEF EachOnce, InQueues
      <3>2. QED  BY <2>1, <3>1
    <2>6. InQueues'
      <3>1. draining'.queue = "none"
        BY <2>2 DEF NotDraining
      <3>2. QED  BY <1>1, <2>2, <2>3, <2>4, <2>5, <3>1 DEF EachOnce, InQueues
    <2>7. InIndex' /\ Afresh'
      BY <1>1, <2>2 DEF EachOnce, InIndex, Afresh
    <2>8. QED  BY <1>1, <1>2, <2>2, <2>6, <2>7, StillOnce
  <1>5. QED  BY <1>3, <1>4

LEMMA FinishOnce ==
  ASSUME NothingTwice, Finish
  PROVE  NothingTwice'
  BY DEF Finish, NothingTwice, PanicsAreOrderOrRecursion

LEMMA StutterOnce ==
  ASSUME NothingTwice, UNCHANGED vars
  PROVE  NothingTwice'
  <1>1. UNCHANGED <<prog, todo, postparsed, outerEnvs, definitions, declared, functions,
                    checked, deferredFunctions, deferredBodies, draining, stack, outcome>>
    BY DEF vars, tables, queues
  <1>2. EachOnce => EachOnce'
    BY <1>1 DEF EachOnce, Afresh, InIndex, InQueues, OnStack, ClosuresMade
  <1>3. PanicsAreOrderOrRecursion => PanicsAreOrderOrRecursion'
    BY <1>1 DEF PanicsAreOrderOrRecursion, ReadsUncompiled, CallsItself, Top
  <1>4. QED  BY <1>1, <1>2, <1>3 DEF NothingTwice

\* Inductive, with what the other theorems of the pass rest on.
LEMMA NextOnce ==
  NothingIsLost /\ ResultIsComing /\ NothingTwice /\ [Next]_vars => NothingTwice'
  <1> SUFFICES ASSUME NothingIsLost, ResultIsComing, NothingTwice, [Next]_vars
               PROVE  NothingTwice'
    OBVIOUS
  <1>1. ASSUME NEW p \in Programs, Evaluate(p) PROVE NothingTwice'
    BY <1>1, EvaluateOnce
  <1>2. CASE Continue
    BY <1>2, PhaseStepOnce, CompileHeaderOnce, ResolveFunctionOnce, CallFunctionOnce, LambdaOnce,
       DefineFunctionOnce, CheckFunctionOnce, DrainFunctionOnce, DrainBodyOnce, MarkOnce,
       FinishOnce DEF Continue
  <1>3. QED  BY <1>1, <1>2, StutterOnce DEF Next

LEMMA InitOnce == Init => NothingTwice
  BY DEF Init, NothingTwice, PanicsAreOrderOrRecursion

\* Of all the assertions of the pass two can fail, and no other: the one that a
\* header's return type has its definition, and the one that a function is not
\* declared while it is compiled.  Nothing else is declared, deferred, added or
\* checked twice, looked up before it is there, or gone from the front of its queue.
THEOREM PanicsAreKnown == Spec => []PanicsAreOrderOrRecursion
  <1>1. NothingTwice => PanicsAreOrderOrRecursion
    BY DEF NothingTwice
  <1>2. QED
    BY <1>1, InitIsFine, NextIsFine, InitBeginsNothing, NextKeeps, InitOnce, NextOnce, PTL DEF Spec
=============================================================================
