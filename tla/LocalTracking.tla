--------------------------- MODULE LocalTracking ---------------------------
(***************************************************************************)
(* The move tracker of the typing pass (src/typing/expression/             *)
(* expression_compiler.rs, local_helper.rs, block_compiler.rs and          *)
(* env/function_environment_t.rs).                                         *)
(*                                                                         *)
(* While it translates a function body, the typing pass keeps for every    *)
(* block a node environment: the locals declared so far, those that were   *)
(* moved out ("unstackified") and those that were filled again             *)
(* ("restackified").  From it alone it decides which uses to reject, where *)
(* to emit the drops that end a block, a statement, a loop or the          *)
(* function, and which locals the code after an if, a block or a loop may  *)
(* still use.                                                              *)
(*                                                                         *)
(* The source program is any program: an action is the next construct in   *)
(* it, or the end of an open one, together with what the pass does when it *)
(* gets there.  "worlds" is the truth the pass is judged by: for every way *)
(* the emitted code can be executed up to this point, the set of locals    *)
(* that then hold a value; it is empty where execution cannot come.        *)
(*                                                                         *)
(* A local is its position among the declarations: once a block is over    *)
(* its positions are free again.  The local that carries the value of a    *)
(* block past the drops (resultify_expressions), or of a return, is        *)
(* declared and emptied at one point and is left out.                      *)
(***************************************************************************)
EXTENDS Integers, Sequences, FiniteSets

CONSTANTS
  MaxLocals,   \* bound on the locals declared at one point
  MaxDepth,    \* bound on the nesting of blocks
  Admitted     \* the shapes, named below, that programs may have

\* Programs of these shapes are the ones the pass does not track.
Shapes == { "MoveBeforeBreak",     \* a loop is left with an outer local moved in it
            "SetInChild",          \* a moved local is set inside a nested block
            "LoopEndsInReturn",    \* a loop's body ends in a return
            "MoveTwice",           \* a moved local is moved again
            "OverwriteByPattern",  \* a pattern sets a local that holds a value
            "DivergingArms" }      \* neither arm of an if goes on, and they moved differently

ASSUME BoundsAssumption ==
  /\ MaxLocals \in Nat
  /\ MaxDepth \in Nat \ {0}
  /\ Admitted \subseteq Shapes

VARIABLES
  env,       \* the NodeEnvironmentBox of the block being translated
  pending,   \* PendingTempDrops: the temporaries the open statement must drop
  type,      \* the type of the block so far: "open", or the first Never in it
  frames,    \* the constructs around the block, outermost first
  verdict,   \* how the translation stands
  worlds,    \* see above
  fault      \* what the emitted code does wrong, or "none"

code == <<worlds, fault>>
vars == <<env, pending, type, frames, verdict, worlds, fault>>

Constructs == {"function", "block", "then", "else", "while"}

\* "return" is Never { from_break: false }: a panic, or a block in which every
\* path returns; "returned" is the same of a block whose last statement is a
\* return.
Types == {"open", "break", "return", "returned"}
Rejections == { "CantUseUnstackifiedLocal", "MustMoveSameVariables",
                "CantUnstackifyOutsideLocalFromInsideWhile" }
Verdicts == {"translating", "accepted", "panicked"} \cup Rejections

Locals == 1..MaxLocals
Declared(e) == 1..e.declared
Live(e) == Declared(e) \ e.unstackified

Environments == [ declared : 0..MaxLocals, unstackified : SUBSET Locals,
                  restackified : SUBSET Locals, temporaries : SUBSET Locals ]

Translating == verdict = "translating" /\ fault = "none"
Verdict(v) == verdict' = v /\ UNCHANGED <<env, pending, type, frames, worlds, fault>>
Panic == Verdict("panicked")

\* The locals the source can name.
Named == Declared(env) \ env.temporaries

-----------------------------------------------------------------------------
(* The node environment *)

add_variable(e) == [e EXCEPT !.declared = @ + 1]

\* Moving a local that was filled again undoes the filling.
mark_local_unstackified(e, locals) ==
  [e EXCEPT !.unstackified = @ \cup (locals \ e.restackified),
            !.restackified = @ \ locals]

\* Mutant: the move is not undone.
mark_local_restackified_only(e, locals) ==
  [e EXCEPT !.restackified = @ \cup locals]

\* Filling a local that was moved undoes the move.
mark_local_restackified(e, locals) ==
  [e EXCEPT !.unstackified = @ \ locals,
            !.restackified = @ \cup (locals \ e.unstackified)]

\* Mutant: the locals that were moved are taken for live.
all_variables_introduced_since(e, since) == Declared(e) \ Declared(since)

get_live_variables_introduced_since(e, since) ==
  (Declared(e) \ Declared(since)) \ e.unstackified

\* Mutant: what happened to the block's own locals is passed on.
get_all_effects(e, earlier) ==
  [unstackified |-> e.unstackified, restackified |-> e.restackified]

\* What happened to the locals that were live at an earlier environment: those
\* declared since, and those already moved then, do not count.
get_effects_since(e, earlier) ==
  [ unstackified |-> e.unstackified \cap Live(earlier),
    restackified |-> e.restackified \cap Live(earlier) ]

\* The parent's environment after a child block had these effects.
Propagated(e, effects) ==
  mark_local_restackified(mark_local_unstackified(e, effects.unstackified),
                          effects.restackified)

\* mark_local_restackified asserts that the local was not filled already.
PropagationPanics(e, effects) ==
  effects.restackified \cap mark_local_unstackified(e, effects.unstackified).restackified # {}

-----------------------------------------------------------------------------
(* Emitted code *)

\* Code that reads or overwrites these locals, in every world.
Needs(locals) == \A w \in worlds : locals \subseteq w
Without(ws, locals) == {w \ locals : w \in ws}

Faulting(fits, what) == fault' = IF fits THEN fault ELSE what

\* LetNormal and LetAndLend fill a new local.
Fill(x) == /\ worlds' = {w \cup {x} : w \in worlds}
           /\ Faulting(\A w \in worlds : x \notin w, "filled twice")

\* Unlet empties these locals; nothing beyond "kept" may then be left.
Empty(locals, kept) ==
  /\ worlds' = Without(worlds, locals)
  /\ Faulting(Needs(locals) /\ UNION Without(worlds, locals) \subseteq kept,
              IF Needs(locals) THEN "leaked" ELSE "used after move")

\* After a Never nothing is emitted: consecutive cuts what follows.
FirstNever(before, new) == IF before = "open" THEN new ELSE before

-----------------------------------------------------------------------------
(* Statements and expressions *)

\* Nothing follows a return in its block (StatementAfterReturnS).
InBlock == Translating /\ type # "returned"

Let ==
  /\ InBlock
  /\ env.declared < MaxLocals
  /\ env' = add_variable(env)
  /\ Fill(env.declared + 1)
  /\ UNCHANGED <<pending, type, frames, verdict>>

\* evaluate_lookup_for_load
LocalLoad ==
  \E x \in Named :
    /\ InBlock
    /\ IF x \in env.unstackified THEN Verdict("CantUseUnstackifiedLocal")
       ELSE /\ Faulting(Needs({x}), "used after move")
            /\ UNCHANGED <<env, pending, type, frames, verdict, worlds>>

\* ^x: the arm does not look whether x was moved; mark_local_unstackified does,
\* with an assert.
Unlet ==
  \E x \in Named :
    /\ InBlock
    /\ x \in env.unstackified => "MoveTwice" \in Admitted
    /\ IF x \in env.unstackified THEN Panic
       ELSE /\ env' = mark_local_unstackified(env, {x})
            /\ Empty({x}, Locals)
            /\ UNCHANGED <<pending, type, frames, verdict>>

\* The local was moved before the block that is being translated began.
MovedOutside(x) == x \in frames[Len(frames)].env.unstackified

\* set x = ...: a moved local is filled again, another one is overwritten.
LocalMutate ==
  \E x \in Named :
    /\ InBlock
    /\ x \in env.unstackified /\ MovedOutside(x) => "SetInChild" \in Admitted
    /\ IF x \in env.unstackified
       THEN /\ env' = mark_local_restackified(env, {x})
            /\ Fill(x)
            /\ UNCHANGED <<pending, type, frames, verdict>>
       ELSE /\ Faulting(Needs({x}), "used after move")
            /\ UNCHANGED <<env, pending, type, frames, verdict, worlds>>

\* [set x, ...] = ...: a capture that mutates always fills x again.
Restackify ==
  \E x \in Named :
    /\ InBlock
    /\ x \notin env.unstackified => "OverwriteByPattern" \in Admitted
    /\ MovedOutside(x) => "SetInChild" \in Admitted
    /\ IF x \in env.restackified THEN Panic
       ELSE /\ env' = mark_local_restackified(env, {x})
            /\ Fill(x)
            /\ UNCHANGED <<pending, type, frames, verdict>>

\* &f() as an argument: the value is kept in a temporary until the statement
\* is over.
MakeTemporaryLocalBorrow ==
  LET x == env.declared + 1 IN
  /\ InBlock
  /\ env.declared < MaxLocals
  /\ env' = [add_variable(env) EXCEPT !.temporaries = @ \cup {x}]
  /\ pending' = pending \cup {x}
  /\ Fill(x)
  /\ UNCHANGED <<type, frames, verdict>>

\* The end of a statement drops its temporaries (drop_since in Consecutor).
EndStatement ==
  /\ Translating
  /\ pending # {}
  /\ IF pending \cap env.unstackified # {} THEN Panic
     ELSE /\ env' = mark_local_unstackified(env, pending)
          /\ Empty(pending, Locals)
          /\ pending' = {}
          /\ UNCHANGED <<type, frames, verdict>>

\* A call of a function that never returns; it drops nothing.
CallPanic ==
  /\ InBlock
  /\ pending = {}
  /\ type' = FirstNever(type, "return")
  /\ worlds' = {}
  /\ UNCHANGED <<env, pending, frames, verdict, fault>>

\* return drops every live local of the function, the innermost first.
Return ==
  /\ InBlock
  /\ pending = {}
  /\ LET locals == Live(env)
     IN  /\ env' = mark_local_unstackified(env, locals)
         /\ fault' = IF ~Needs(locals) THEN "used after move"
                     ELSE IF UNION Without(worlds, locals) # {} THEN "leaked" ELSE fault
  /\ worlds' = {}
  /\ type' = IF type = "open" THEN "returned" ELSE type
  /\ UNCHANGED <<pending, frames, verdict>>

\* nearest_loop_env; 0 outside of every loop.
Loops == {i \in DOMAIN frames : frames[i].construct = "while"}
NearestLoop == CHOOSE i \in Loops : \A j \in Loops : j <= i

\* break drops what was declared inside the loop and leaves it.
Break ==
  /\ InBlock
  /\ pending = {}
  /\ Loops # {}
  /\ LET loop == frames[NearestLoop]
         locals == get_live_variables_introduced_since(env, loop.env)
         left == Without(worlds, locals)
     IN  /\ get_effects_since(env, loop.env).unstackified # {} => "MoveBeforeBreak" \in Admitted
         /\ IF locals \cap env.unstackified # {} THEN Panic
            ELSE /\ env' = mark_local_unstackified(env, locals)
                 /\ fault' = IF ~Needs(locals) THEN "used after move"
                             ELSE IF ~(UNION left \subseteq Declared(loop.env)) THEN "leaked"
                             ELSE fault
                 /\ frames' = [frames EXCEPT ![NearestLoop].exits = @ \cup left]
                 /\ worlds' = {}
                 /\ type' = FirstNever(type, "break")
                 /\ UNCHANGED <<pending, verdict>>

-----------------------------------------------------------------------------
(* Blocks *)

Frame(construct, exits, arm) ==
  [ construct |-> construct, env |-> env, pending |-> pending, type |-> type,
    worlds |-> worlds, exits |-> exits, arm |-> arm ]

NoArm == [env |-> [declared |-> 0, unstackified |-> {}, restackified |-> {}, temporaries |-> {}],
          type |-> "open", worlds |-> {}]

\* make_child: the child starts with copies of the parent's lists.
Enter(construct, exits) ==
  /\ InBlock
  /\ Len(frames) < MaxDepth
  /\ frames' = Append(frames, Frame(construct, exits, NoArm))
  /\ pending' = {}
  /\ type' = "open"
  /\ UNCHANGED <<env, verdict, worlds, fault>>

EnterBlock == Enter("block", {})

\* The condition is evaluated before the arms; its temporaries are a statement
\* of their own.
EnterIf == Enter("then", {})

\* scout_while_body: while c {b} is a loop over {if c {} else {break} {b}}, so
\* the code after the loop is reached from its start.
EnterWhile == pending = {} /\ Enter("while", worlds)

Top == frames[Len(frames)]
Outer == SubSeq(frames, 1, Len(frames) - 1)

\* evaluate_block_statements: at the end of a block its live locals are dropped;
\* past a Never they are only marked.
BlockLocals == get_live_variables_introduced_since(env, Top.env)
BlockEnv == mark_local_unstackified(env, BlockLocals)
BlockWorlds == IF type = "open" THEN Without(worlds, BlockLocals) ELSE worlds
BlockFault ==
  IF type = "open" /\ ~Needs(BlockLocals) THEN "used after move"
  ELSE IF UNION BlockWorlds \subseteq Declared(Top.env) THEN fault
  ELSE "leaked"
BlockType == IF type = "returned" THEN "return" ELSE type
BlockPanics == BlockLocals \cap env.unstackified # {}

BlockEnds(construct) ==
  /\ Translating
  /\ pending = {}
  /\ Top.construct = construct

\* Back in the parent block, after the construct: a call whose argument never
\* returns is left out (BRCOBS).
Resume(e, newType, ws, flt) ==
  /\ Top.pending = {} \/ newType = "open"
  /\ env' = e
  /\ pending' = Top.pending
  /\ type' = FirstNever(Top.type, newType)
  /\ frames' = Outer
  /\ worlds' = ws
  /\ fault' = flt
  /\ UNCHANGED verdict

LeaveBlock ==
  /\ BlockEnds("block")
  /\ LET effects == get_effects_since(BlockEnv, Top.env) IN
     IF BlockPanics \/ PropagationPanics(Top.env, effects) THEN Panic
     ELSE Resume(Propagated(Top.env, effects), BlockType, BlockWorlds, BlockFault)

\* From the then arm to the else arm, which starts where the then arm did.
LeaveThen ==
  /\ BlockEnds("then")
  /\ IF BlockPanics THEN Panic
     ELSE /\ frames' = Append(Outer,
                 [Top EXCEPT !.construct = "else",
                             !.arm = [env |-> BlockEnv, type |-> BlockType, worlds |-> BlockWorlds]])
          /\ env' = Top.env
          /\ pending' = {}
          /\ type' = "open"
          /\ worlds' = Top.worlds
          /\ fault' = BlockFault
          /\ UNCHANGED verdict

\* Mutant: an if that cannot go on from one arm cannot go on.
EitherNever(t, e) == IF t = "open" THEN e ELSE t

\* IfTE: an arm that does not go on leaves the type to the other one.
CommonType(t, e) ==
  IF t = "return" THEN e ELSE IF e = "return" THEN t ELSE IF t = "break" THEN e ELSE t

\* Mutant: the arms are compared although only one of them goes on.
ArmsDisagreeAlways(thenType, elseType, thenEffects, elseEffects) ==
  thenEffects.unstackified # elseEffects.unstackified

\* Both arms go on, or neither does: they must have moved the same locals.
ArmsDisagree(thenType, elseType, thenEffects, elseEffects) ==
  /\ (thenType = "open") = (elseType = "open")
  /\ thenEffects.unstackified # elseEffects.unstackified

\* Mutant: the then arm stands for both.
ThenEffects(thenType, elseType, thenEffects, elseEffects) == thenEffects

\* The effects that count are those of an arm that goes on.
JoinedEffects(thenType, elseType, thenEffects, elseEffects) ==
  IF thenType # "open" /\ elseType = "open" THEN elseEffects ELSE thenEffects

LeaveIf ==
  /\ BlockEnds("else")
  /\ LET before == Top.env
         onThen == get_effects_since(Top.arm.env, before)
         onElse == get_effects_since(BlockEnv, before)
         t == Top.arm.type
         e == BlockType
         joined == JoinedEffects(t, e, onThen, onElse)
     IN  /\ t # "open" /\ e # "open" /\ onThen.unstackified # onElse.unstackified
              => "DivergingArms" \in Admitted
         /\ IF BlockPanics THEN Panic
            ELSE IF ArmsDisagree(t, e, onThen, onElse) THEN Verdict("MustMoveSameVariables")
            ELSE IF (t = "open") = (e = "open") /\ onThen.restackified # onElse.restackified THEN Panic
            ELSE IF PropagationPanics(before, joined) THEN Panic
            ELSE Resume(Propagated(before, joined), CommonType(t, e),
                        Top.arm.worlds \cup BlockWorlds, BlockFault)

\* WhileTE: a break inside the body is how the loop goes on.
LoopType == IF BlockType = "return" THEN "return" ELSE "open"

\* A body that comes back to the start must have left the outer locals as they
\* were; one that does not is not looked at.  The parent's environment is the
\* one from before the loop.
LeaveWhile ==
  /\ BlockEnds("while")
  /\ BlockType = "return" => "LoopEndsInReturn" \in Admitted
  /\ LET effects == get_effects_since(BlockEnv, Top.env)
         again == BlockWorlds \subseteq Top.worlds
     IN  IF BlockPanics THEN Panic
         ELSE IF type = "open" /\ effects.unstackified # {}
              THEN Verdict("CantUnstackifyOutsideLocalFromInsideWhile")
         ELSE IF type = "open" /\ effects.restackified # {}
              THEN Panic
         ELSE Resume(Top.env, LoopType, Top.exits \cup BlockWorlds,
                     IF BlockFault = "none" /\ ~again THEN "the next round starts elsewhere"
                     ELSE BlockFault)

\* The end of the body drops what is live, the parameters too.
LeaveFunction ==
  /\ BlockEnds("function")
  /\ env' = BlockEnv
  /\ worlds' = BlockWorlds
  /\ fault' = BlockFault
  /\ verdict' = IF BlockPanics THEN "panicked" ELSE "accepted"
  /\ UNCHANGED <<pending, type, frames>>

-----------------------------------------------------------------------------
\* evaluate_function_body: evaluate_lets binds the parameters.
Init ==
  /\ \E params \in 0..(IF MaxLocals < 2 THEN MaxLocals ELSE 2) :
       /\ env = [NoArm.env EXCEPT !.declared = params]
       /\ worlds = {1..params}
  /\ pending = {}
  /\ type = "open"
  /\ frames = << [ construct |-> "function", env |-> NoArm.env, pending |-> {}, type |-> "open",
                   worlds |-> {{}}, exits |-> {}, arm |-> NoArm ] >>
  /\ verdict = "translating"
  /\ fault = "none"

Next ==
  \/ Let \/ LocalLoad \/ Unlet \/ LocalMutate \/ Restackify
  \/ MakeTemporaryLocalBorrow \/ EndStatement
  \/ CallPanic \/ Return \/ Break
  \/ EnterBlock \/ EnterIf \/ EnterWhile
  \/ LeaveBlock \/ LeaveThen \/ LeaveIf \/ LeaveWhile \/ LeaveFunction

Spec == Init /\ [][Next]_vars

-----------------------------------------------------------------------------
(* What the tracker owes *)

TypeOK ==
  /\ env \in Environments
  /\ env.unstackified \cup env.restackified \cup env.temporaries \cup pending \subseteq Declared(env)
  /\ type \in Types
  /\ verdict \in Verdicts
  /\ \A w \in worlds : w \subseteq Declared(env)
  /\ frames # <<>> /\ Len(frames) <= MaxDepth
  /\ \A i \in DOMAIN frames :
       /\ frames[i].construct \in Constructs
       /\ frames[i].env \in Environments
       /\ frames[i].env.declared <= env.declared

\* The emitted code never uses, drops or overwrites what was moved, never
\* fills a local that holds a value and leaves nothing behind at the end of a
\* statement, a block, a loop's round or the function: on every path, and
\* whatever the paths did before they met (mark_local_unstackified and
\* get_effects_since are all the pass has to know this by).
NothingMishandled == fault = "none"

\* What follows an expression of type Never is cut (consecutive), so no
\* execution may come past one.
NeverIsUnreachable == type # "open" /\ verdict = "translating" => worlds = {}

\* No assert of the environment fails, and no unreachable! is reached.
NeverPanics == verdict # "panicked"

\* The construct that is being translated is itself dead code.
DeadCode == \E i \in DOMAIN frames : frames[i].type # "open"

\* A rejected program deserved it (the three errors expression_compiler.rs
\* returns about moves): the local that is used is held on no path; two paths
\* really do arrive at the end of an if with different locals; the loop's body
\* really comes back to its start without a local it began with.
RejectionsAreJustified ==
  verdict \in Rejections /\ ~DeadCode =>
    CASE verdict = "CantUseUnstackifiedLocal" ->
           type # "open" \/ \E x \in Named : \A w \in worlds : x \notin w
      [] verdict = "MustMoveSameVariables" ->
           \E v \in Top.arm.worlds, w \in BlockWorlds : v # w
      [] OTHER -> \E w \in BlockWorlds : w \notin Top.worlds

\* The environment is exact: on every path the locals that hold a value are
\* those it takes for live.
HeldIsTracked == Translating => \A w \in worlds : w = Live(env)
=============================================================================
