------------------------ MODULE LocalTrackingProofs ------------------------
(***************************************************************************)
(* Theorems about LocalTracking, for every number of locals and every      *)
(* depth of nesting: on programs that have none of the named shapes        *)
(* (Admitted = {}) the environment is exact, so that the emitted code      *)
(* mishandles nothing.                                                     *)
(*                                                                         *)
(* HeldIsTracked is not inductive: a construct ends with what its frame    *)
(* remembers.  The invariant Tracked says of every frame that the paths    *)
(* that entered it held what its environment takes for live, that a loop's *)
(* exits hold what the loop began with, and that what is inside has moved  *)
(* at least what had been moved outside.                                   *)
(***************************************************************************)
EXTENDS LocalTracking, FiniteSetTheorems, TLAPS

Arms == [env : Environments, type : Types, worlds : SUBSET SUBSET Locals]
Frames == [ construct : Constructs, env : Environments, pending : SUBSET Locals, type : Types,
            worlds : SUBSET SUBSET Locals, exits : SUBSET SUBSET Locals, arm : Arms ]

\* Nothing is filled again but what was moved in the same block.
Plain(e) ==
  /\ e \in Environments
  /\ e.restackified = {}
  /\ e.unstackified \cup e.temporaries \subseteq Declared(e)

\* The paths that come here hold what the environment takes for live.
Exact(e, ws) == \A w \in ws : w = Live(e)

Block(e, p, t, ws) ==
  /\ Plain(e)
  /\ p \subseteq Declared(e)
  /\ t \in Types
  /\ Exact(e, ws)
  /\ t # "open" => ws = {}

\* The then arm of an if, at its end.
ThenArm(f) ==
  /\ Plain(f.arm.env)
  /\ f.env.unstackified \subseteq f.arm.env.unstackified
  /\ \A w \in f.arm.worlds : w = Declared(f.env) \ f.arm.env.unstackified
  /\ f.arm.type \in {"open", "break", "return"}
  /\ f.arm.type # "open" => f.arm.worlds = {}
  /\ f.worlds = {} => f.arm.worlds = {}

FrameOK(f) ==
  /\ Block(f.env, f.pending, f.type, f.worlds)
  /\ Exact(f.env, f.exits)
  /\ f.worlds = {} => f.exits = {}
  /\ f.construct = "else" => ThenArm(f)

\* What is inside the frame has environment e and the paths ws.
Around(f, e, ws) ==
  /\ f.env.declared <= e.declared
  /\ f.env.unstackified \subseteq e.unstackified
  /\ f.worlds = {} => ws = {}

Nested(fs) ==
  /\ fs \in Seq(Frames)
  /\ 0 < Len(fs) /\ Len(fs) <= MaxDepth
  /\ fs[1].construct = "function"
  /\ \A i \in 1..Len(fs) : FrameOK(fs[i])
  /\ \A i, j \in 1..Len(fs) : i < j => Around(fs[i], fs[j].env, fs[j].worlds)

Inside(fs, e, ws) == \A i \in 1..Len(fs) : Around(fs[i], e, ws)

Core ==
  /\ Block(env, pending, type, worlds)
  /\ Nested(frames)
  /\ Inside(frames, env, worlds)

Tracked ==
  /\ TypeOK
  /\ NothingMishandled
  /\ verdict # "accepted" => Core

-----------------------------------------------------------------------------
(* Environments                                                            *)

LEMMA EnvironmentTyped ==
  ASSUME NEW e \in Environments
  PROVE  /\ e.declared \in Nat /\ e.declared <= MaxLocals
         /\ Declared(e) \subseteq Locals
         /\ e = [ declared |-> e.declared, unstackified |-> e.unstackified,
                  restackified |-> e.restackified, temporaries |-> e.temporaries ]
         /\ e.unstackified \in SUBSET Locals
         /\ e.restackified \in SUBSET Locals
         /\ e.temporaries \in SUBSET Locals
  BY BoundsAssumption DEF Environments, Declared, Locals

LEMMA EnvironmentOf ==
  ASSUME NEW d \in Nat, d <= MaxLocals, NEW u \in SUBSET (1..d), NEW t \in SUBSET (1..d)
  PROVE  LET e == [declared |-> d, unstackified |-> u, restackified |-> {}, temporaries |-> t]
         IN  Plain(e) /\ e.declared = d /\ e.unstackified = u /\ e.temporaries = t
  <1>1. 1..d \subseteq Locals
    BY BoundsAssumption DEF Locals
  <1>2. d \in 0..MaxLocals
    BY BoundsAssumption
  <1>3. [declared |-> d, unstackified |-> u, restackified |-> {}, temporaries |-> t] \in Environments
    BY <1>1, <1>2 DEF Environments
  <1>4. QED  BY <1>3 DEF Plain, Declared

LEMMA ChangedFields ==
  ASSUME NEW e \in Environments, NEW u, NEW r
  PROVE  [e EXCEPT !.unstackified = u, !.restackified = r] =
           [declared |-> e.declared, unstackified |-> u, restackified |-> r, temporaries |-> e.temporaries]
  <1> DEFINE first == [ declared |-> e.declared, unstackified |-> u,
                        restackified |-> e.restackified, temporaries |-> e.temporaries ]
  <1>1. [e EXCEPT !.unstackified = u, !.restackified = r] =
          [[e EXCEPT !.unstackified = u] EXCEPT !.restackified = r]
    BY DEF Environments
  <1>2. [e EXCEPT !.unstackified = u] = first
    BY DEF Environments
  <1>3. [first EXCEPT !.restackified = r] =
          [declared |-> e.declared, unstackified |-> u, restackified |-> r, temporaries |-> e.temporaries]
    OBVIOUS
  <1> HIDE DEF first
  <1>4. QED  BY <1>1, <1>2, <1>3

\* What emptying locals does to an environment.
LEMMA Unstackified ==
  ASSUME NEW e, Plain(e), NEW locals, locals \subseteq Declared(e)
  PROVE  LET m == mark_local_unstackified(e, locals) IN
           /\ Plain(m)
           /\ m.declared = e.declared
           /\ m.unstackified = e.unstackified \cup locals
           /\ m.restackified = {}
           /\ Live(m) = Live(e) \ locals
  <1>1. e \in Environments /\ e.restackified = {} /\ e.unstackified \subseteq Declared(e)
        /\ e.temporaries \subseteq Declared(e)
    BY DEF Plain
  <1>2. mark_local_unstackified(e, locals) =
          [ declared |-> e.declared, unstackified |-> e.unstackified \cup locals,
            restackified |-> {}, temporaries |-> e.temporaries ]
    <2>1. e.unstackified \cup (locals \ e.restackified) = e.unstackified \cup locals
          /\ e.restackified \ locals = {}
      BY <1>1
    <2>2. mark_local_unstackified(e, locals) =
            [ declared |-> e.declared, unstackified |-> e.unstackified \cup (locals \ e.restackified),
              restackified |-> e.restackified \ locals, temporaries |-> e.temporaries ]
      BY <1>1, ChangedFields, Zenon DEF mark_local_unstackified
    <2>3. QED  BY <2>1, <2>2
  <1>3. e.unstackified \cup locals \in SUBSET (1..e.declared) /\ e.temporaries \in SUBSET (1..e.declared)
    BY <1>1 DEF Declared
  <1>4. QED  BY <1>1, <1>2, <1>3, EnvironmentTyped, EnvironmentOf DEF Live, Declared

\* What filling a moved local does to an environment.
LEMMA Restackified ==
  ASSUME NEW e, Plain(e), NEW locals, locals \subseteq e.unstackified
  PROVE  LET m == mark_local_restackified(e, locals) IN
           /\ Plain(m)
           /\ m.declared = e.declared
           /\ m.unstackified = e.unstackified \ locals
           /\ Live(m) = Live(e) \cup locals
  <1>1. e \in Environments /\ e.restackified = {} /\ e.unstackified \subseteq Declared(e)
        /\ e.temporaries \subseteq Declared(e)
    BY DEF Plain
  <1>2. mark_local_restackified(e, locals) =
          [ declared |-> e.declared, unstackified |-> e.unstackified \ locals,
            restackified |-> {}, temporaries |-> e.temporaries ]
    <2>1. e.restackified \cup (locals \ e.unstackified) = {}
      BY <1>1
    <2>2. mark_local_restackified(e, locals) =
            [ declared |-> e.declared, unstackified |-> e.unstackified \ locals,
              restackified |-> e.restackified \cup (locals \ e.unstackified),
              temporaries |-> e.temporaries ]
      BY <1>1, ChangedFields, Zenon DEF mark_local_restackified
    <2>3. QED  BY <2>1, <2>2
  <1>3. e.unstackified \ locals \in SUBSET (1..e.declared) /\ e.temporaries \in SUBSET (1..e.declared)
    BY <1>1 DEF Declared
  <1>4. QED  BY <1>1, <1>2, <1>3, EnvironmentTyped, EnvironmentOf DEF Live, Declared

\* The parent's environment after a child that moved some of its live locals.
LEMMA PropagatedEffects ==
  ASSUME NEW e, Plain(e), NEW effects, effects.restackified = {},
         effects.unstackified \subseteq Declared(e)
  PROVE  LET m == Propagated(e, effects) IN
           /\ Plain(m)
           /\ m.declared = e.declared
           /\ m.unstackified = e.unstackified \cup effects.unstackified
           /\ Live(m) = Live(e) \ effects.unstackified
  <1> DEFINE u == mark_local_unstackified(e, effects.unstackified)
  <1>1. /\ Plain(u) /\ u.declared = e.declared
        /\ u.unstackified = e.unstackified \cup effects.unstackified
        /\ Live(u) = Live(e) \ effects.unstackified
    BY Unstackified
  <1> HIDE DEF u
  <1>2. Propagated(e, effects) = mark_local_restackified(u, {})
    BY DEF Propagated, u
  <1>3. QED  BY <1>1, <1>2, Restackified

\* What a block leaves of an environment that went on from `outer`.
LEMMA EndOfBlock ==
  ASSUME NEW e, Plain(e), NEW outer, Plain(outer),
         outer.declared <= e.declared, outer.unstackified \subseteq e.unstackified
  PROVE  LET locals == get_live_variables_introduced_since(e, outer)
             m == mark_local_unstackified(e, locals)
         IN  /\ locals \subseteq Live(e) /\ locals \subseteq Declared(e)
             /\ Live(e) \ locals = Declared(outer) \ m.unstackified
             /\ Declared(outer) \ e.unstackified = Declared(outer) \ m.unstackified
             /\ Plain(m)
             /\ m.declared = e.declared
             /\ outer.unstackified \subseteq m.unstackified
  <1> DEFINE locals == get_live_variables_introduced_since(e, outer)
             m == mark_local_unstackified(e, locals)
  <1>1. locals \subseteq Live(e) /\ locals \subseteq Declared(e)
    BY DEF get_live_variables_introduced_since, Live
  <1>2. Plain(m) /\ m.declared = e.declared /\ m.unstackified = e.unstackified \cup locals
    BY <1>1, Unstackified
  <1>3. Declared(outer) \subseteq Declared(e)
    BY EnvironmentTyped DEF Plain, Declared
  <1>4. locals = (Declared(e) \ Declared(outer)) \ e.unstackified
    BY DEF get_live_variables_introduced_since
  <1> HIDE DEF m, locals
  <1>5. Live(e) \ locals = Declared(outer) \ e.unstackified
    BY <1>3, <1>4 DEF Live
  <1>6. Declared(outer) \ e.unstackified = Declared(outer) \ m.unstackified
    BY <1>2, <1>4
  <1>7. QED  BY <1>1, <1>2, <1>5, <1>6 DEF m, locals

\* What moved in the block, as its parent sees it.
LEMMA EffectsOnOuter ==
  ASSUME NEW e, Plain(e), NEW outer, Plain(outer), outer.unstackified \subseteq e.unstackified
  PROVE  LET effects == get_effects_since(e, outer) IN
           /\ effects.restackified = {}
           /\ effects.unstackified = e.unstackified \cap Live(outer)
           /\ effects.unstackified \subseteq Declared(outer)
           /\ Live(outer) \ effects.unstackified = Declared(outer) \ e.unstackified
  BY DEF get_effects_since, Live, Plain

\* Paths that held what the environment takes for live, less these locals.
LEMMA ExactWithout ==
  ASSUME NEW e, NEW ws, Exact(e, ws), NEW locals
  PROVE  \A w \in Without(ws, locals) : w = Live(e) \ locals
  BY DEF Exact, Without

LEMMA DeadWithout ==
  ASSUME NEW locals
  PROVE  Without({}, locals) = {} /\ UNION Without({}, locals) = {}
  BY DEF Without

\* The type of a block that had one before.
LEMMA FirstNeverDead ==
  ASSUME NEW t \in Types, NEW u \in Types, NEW ws, NEW vs,
         t # "open" => ws = {}, u # "open" => vs = {}, ws = {} => vs = {}
  PROVE  FirstNever(t, u) \in Types /\ (FirstNever(t, u) # "open" => vs = {})
  BY DEF FirstNever

-----------------------------------------------------------------------------
(* The constructs around a block                                           *)

LEMMA TopFrame ==
  ASSUME NEW fs, Nested(fs)
  PROVE  /\ fs \in Seq(Frames) /\ Len(fs) \in Nat /\ Len(fs) \in 1..Len(fs)
         /\ fs[Len(fs)] \in Frames /\ FrameOK(fs[Len(fs)])
         /\ fs[Len(fs)].construct # "function" => Len(fs) > 1
  BY DEF Nested

\* What is inside the innermost construct is inside them all.
LEMMA InsideTop ==
  ASSUME NEW fs, Nested(fs), NEW e, Plain(e), NEW ws, Around(fs[Len(fs)], e, ws)
  PROVE  Inside(fs, e, ws)
  <1> SUFFICES ASSUME NEW i \in 1..Len(fs), i < Len(fs)
               PROVE  Around(fs[i], e, ws)
    BY TopFrame DEF Inside
  <1>1. Around(fs[i], fs[Len(fs)].env, fs[Len(fs)].worlds)
    BY TopFrame DEF Nested
  <1>2. fs[i] \in Frames /\ fs[Len(fs)] \in Frames
    BY TopFrame
  <1>3. fs[i].env.declared \in Nat /\ fs[Len(fs)].env.declared \in Nat /\ e.declared \in Nat
    BY <1>2, EnvironmentTyped DEF Frames, Plain
  <1>4. QED  BY <1>1, <1>3 DEF Around

\* A construct begins.
LEMMA Entered ==
  ASSUME NEW fs, Nested(fs), Len(fs) < MaxDepth, NEW f \in Frames, FrameOK(f),
         Inside(fs, f.env, f.worlds)
  PROVE  Nested(Append(fs, f))
  <1> DEFINE gs == Append(fs, f)
  <1>1. /\ gs \in Seq(Frames) /\ Len(gs) = Len(fs) + 1 /\ gs[Len(gs)] = f
        /\ \A i \in 1..Len(fs) : gs[i] = fs[i]
        /\ Len(fs) \in Nat
    BY DEF Nested
  <1> HIDE DEF gs
  <1>2. 0 < Len(gs) /\ Len(gs) <= MaxDepth /\ gs[1].construct = "function"
    BY <1>1, BoundsAssumption DEF Nested
  <1>3. \A i \in 1..Len(gs) : FrameOK(gs[i])
    BY <1>1 DEF Nested
  <1>4. ASSUME NEW i \in 1..Len(gs), NEW j \in 1..Len(gs), i < j
        PROVE  Around(gs[i], gs[j].env, gs[j].worlds)
    <2>1. CASE j = Len(gs)
      BY <1>1, <1>4, <2>1 DEF Inside
    <2>2. CASE j # Len(gs)
      <3>1. i \in 1..Len(fs) /\ j \in 1..Len(fs)
        BY <1>1, <1>4, <2>2
      <3>2. QED  BY <1>1, <1>4, <3>1 DEF Nested
    <2>3. QED  BY <2>1, <2>2
  <1>5. QED  BY <1>1, <1>2, <1>3, <1>4 DEF Nested, gs

\* A construct ends.
LEMMA Left ==
  ASSUME NEW fs, Nested(fs), Len(fs) > 1
  PROVE  LET os == SubSeq(fs, 1, Len(fs) - 1) IN
           /\ Nested(os)
           /\ Inside(os, fs[Len(fs)].env, fs[Len(fs)].worlds)
  <1> DEFINE os == SubSeq(fs, 1, Len(fs) - 1)
  <1>1. /\ os \in Seq(Frames) /\ Len(os) = Len(fs) - 1 /\ Len(fs) \in Nat
        /\ \A i \in 1..Len(os) : os[i] = fs[i] /\ i \in 1..Len(fs) /\ i < Len(fs)
    BY DEF Nested
  <1> HIDE DEF os
  <1>2. 0 < Len(os) /\ Len(os) <= MaxDepth /\ os[1].construct = "function"
    BY <1>1, BoundsAssumption DEF Nested
  <1>3. /\ \A i \in 1..Len(os) : FrameOK(os[i])
        /\ \A i, j \in 1..Len(os) : i < j => Around(os[i], os[j].env, os[j].worlds)
    BY <1>1 DEF Nested
  <1>4. \A i \in 1..Len(os) : Around(os[i], fs[Len(fs)].env, fs[Len(fs)].worlds)
    BY <1>1 DEF Nested
  <1>5. QED  BY <1>1, <1>2, <1>3, <1>4 DEF Nested, Inside, os

\* Only what a frame remembers of exits or of an arm changes.
LEMMA Updated ==
  ASSUME NEW fs, Nested(fs), NEW k \in 1..Len(fs), NEW f \in Frames, FrameOK(f),
         f.env = fs[k].env, f.worlds = fs[k].worlds, k = 1 => f.construct = "function",
         NEW gs \in Seq(Frames), Len(gs) = Len(fs), gs[k] = f,
         \A i \in 1..Len(fs) : i # k => gs[i] = fs[i]
  PROVE  /\ Nested(gs)
         /\ \A e, ws : Inside(fs, e, ws) => Inside(gs, e, ws)
  <1>1. \A i \in 1..Len(fs) : gs[i].env = fs[i].env /\ gs[i].worlds = fs[i].worlds /\ FrameOK(gs[i])
    BY DEF Nested
  <1>2. \A i \in 1..Len(fs) : \A e, ws : Around(gs[i], e, ws) <=> Around(fs[i], e, ws)
    BY <1>1 DEF Around
  <1>3. gs[1].construct = "function"
    BY TopFrame DEF Nested
  <1>4. QED  BY <1>1, <1>2, <1>3 DEF Nested, Inside

-----------------------------------------------------------------------------
(* What a step has to show                                                 *)

LEMMA CoreFacts ==
  ASSUME Tracked, verdict = "translating"
  PROVE  /\ Block(env, pending, type, worlds) /\ Plain(env)
         /\ Nested(frames) /\ Inside(frames, env, worlds)
         /\ fault = "none"
         /\ Top \in Frames /\ FrameOK(Top) /\ Around(Top, env, worlds)
         /\ Plain(Top.env)
  <1>1. Core /\ fault = "none"
    BY DEF Tracked, NothingMishandled
  <1>2. QED  BY <1>1, TopFrame DEF Core, Inside, Block, Top, FrameOK

LEMMA CoreTyped ==
  ASSUME NEW e, NEW p, NEW t, NEW ws, NEW fs,
         Block(e, p, t, ws), Nested(fs), Inside(fs, e, ws)
  PROVE  /\ e \in Environments
         /\ e.unstackified \cup e.restackified \cup e.temporaries \cup p \subseteq Declared(e)
         /\ t \in Types
         /\ \A w \in ws : w \subseteq Declared(e)
         /\ fs # <<>> /\ Len(fs) <= MaxDepth
         /\ \A i \in DOMAIN fs :
              /\ fs[i].construct \in Constructs
              /\ fs[i].env \in Environments
              /\ fs[i].env.declared <= e.declared
  <1>1. /\ e \in Environments
        /\ e.unstackified \cup e.restackified \cup e.temporaries \cup p \subseteq Declared(e)
        /\ t \in Types
    BY DEF Block, Plain
  <1>2. \A w \in ws : w \subseteq Declared(e)
    BY DEF Block, Exact, Live
  <1>3. fs \in Seq(Frames) /\ fs # <<>> /\ Len(fs) <= MaxDepth
    BY DEF Nested
  <1>4. \A i \in DOMAIN fs : fs[i] \in Frames /\ Around(fs[i], e, ws)
    BY <1>3 DEF Inside
  <1>5. \A i \in DOMAIN fs : /\ fs[i].construct \in Constructs
                             /\ fs[i].env \in Environments
                             /\ fs[i].env.declared <= e.declared
    BY <1>4 DEF Frames, Around
  <1>6. QED  BY <1>1, <1>2, <1>3, <1>5

LEMMA StillTracked ==
  ASSUME Block(env', pending', type', worlds'), Nested(frames'), Inside(frames', env', worlds'),
         verdict' \in Verdicts, fault' = "none"
  PROVE  Tracked'
  <1>1. TypeOK'
    BY CoreTyped DEF TypeOK
  <1>2. Core' /\ NothingMishandled'
    BY DEF Core, NothingMishandled
  <1>3. QED  BY <1>1, <1>2 DEF Tracked

\* The translation stops with an error, or panics.
LEMMA Stopped ==
  ASSUME Tracked, verdict = "translating", NEW v \in Verdicts, Verdict(v)
  PROVE  Tracked'
  <1>1. /\ env' = env /\ pending' = pending /\ type' = type /\ frames' = frames
        /\ worlds' = worlds /\ fault' = fault /\ verdict' = v
    BY DEF Verdict
  <1>2. QED  BY <1>1, CoreFacts, StillTracked

\* A step of the block that is being translated.
LEMMA StepOfBlock ==
  ASSUME Tracked, verdict = "translating", frames' = frames, verdict' = verdict, fault' = "none",
         Block(env', pending', type', worlds'), Around(Top, env', worlds')
  PROVE  Tracked'
  <1>1. Inside(frames', env', worlds')
    BY CoreFacts, InsideTop DEF Block, Top
  <1>2. QED  BY <1>1, CoreFacts, StillTracked DEF Verdicts

\* Back in the block around the construct.
LEMMA Resumed ==
  ASSUME Tracked, verdict = "translating", Top.construct # "function",
         NEW e, Plain(e), e.declared = Top.env.declared,
         Top.env.unstackified \subseteq e.unstackified,
         NEW ws, Exact(e, ws), Top.worlds = {} => ws = {},
         NEW t \in Types, t # "open" => ws = {},
         Resume(e, t, ws, "none")
  PROVE  Tracked'
  <1>1. /\ env' = e /\ pending' = Top.pending /\ type' = FirstNever(Top.type, t)
        /\ frames' = Outer /\ worlds' = ws /\ fault' = "none" /\ verdict' = verdict
    BY DEF Resume
  <1>2. Len(frames) > 1
    BY CoreFacts, TopFrame DEF Top
  <1>3. Nested(Outer) /\ Inside(Outer, Top.env, Top.worlds)
    BY <1>2, CoreFacts, Left DEF Outer, Top
  <1>4. Inside(Outer, e, ws)
    BY <1>3 DEF Inside, Around
  <1>5. Block(Top.env, Top.pending, Top.type, Top.worlds)
    BY CoreFacts DEF FrameOK
  <1>6. Block(e, Top.pending, FirstNever(Top.type, t), ws)
    <2>1. Declared(e) = Declared(Top.env)
      BY DEF Declared
    <2>2. FirstNever(Top.type, t) \in Types /\ (FirstNever(Top.type, t) # "open" => ws = {})
      BY <1>5, FirstNeverDead DEF Block
    <2>3. QED  BY <1>5, <2>1, <2>2 DEF Block
  <1>7. QED  BY <1>1, <1>3, <1>4, <1>6, StillTracked DEF Verdicts

-----------------------------------------------------------------------------
(* Statements and expressions                                              *)

\* A new local: the position after the last.
LEMMA NewLocal ==
  ASSUME NEW e, Plain(e), e.declared < MaxLocals, NEW temps, temps \subseteq {e.declared + 1},
         NEW ws, Exact(e, ws)
  PROVE  LET x == e.declared + 1
             m == [ declared |-> x, unstackified |-> e.unstackified, restackified |-> {},
                    temporaries |-> e.temporaries \cup temps ]
         IN  /\ Plain(m)
             /\ m.declared = x /\ m.unstackified = e.unstackified
             /\ Exact(m, {w \cup {x} : w \in ws})
             /\ \A w \in ws : x \notin w
             /\ e.declared <= m.declared /\ Declared(e) \cup {x} = Declared(m)
  <1> DEFINE x == e.declared + 1
             m == [ declared |-> x, unstackified |-> e.unstackified, restackified |-> {},
                    temporaries |-> e.temporaries \cup temps ]
  <1>1. e.declared \in Nat /\ e.unstackified \cup e.temporaries \subseteq 1..e.declared
    BY EnvironmentTyped DEF Plain, Declared
  <1>2. x \in Nat /\ x <= MaxLocals
    BY <1>1, BoundsAssumption
  <1>3. 1..e.declared \cup {x} = 1..x /\ x \notin 1..e.declared
    BY <1>1
  <1> HIDE DEF x
  <1>4. e.unstackified \in SUBSET (1..x) /\ e.temporaries \cup temps \in SUBSET (1..x)
    BY <1>1, <1>3 DEF x
  <1>5. Plain(m) /\ m.declared = x /\ m.unstackified = e.unstackified
    BY <1>2, <1>4, EnvironmentOf
  <1> HIDE DEF m
  <1>6. Live(m) = Live(e) \cup {x} /\ x \notin Live(e) /\ Declared(e) \cup {x} = Declared(m)
    BY <1>1, <1>3, <1>5 DEF Live, Declared
  <1>7. Exact(m, {w \cup {x} : w \in ws}) /\ \A w \in ws : x \notin w
    BY <1>6 DEF Exact
  <1>8. e.declared <= m.declared
    BY <1>1, <1>5 DEF x
  <1>9. QED  BY <1>5, <1>6, <1>7, <1>8 DEF m, x

LEMMA AddedVariable ==
  ASSUME NEW e \in Environments
  PROVE  add_variable(e) = [ declared |-> e.declared + 1, unstackified |-> e.unstackified,
                             restackified |-> e.restackified, temporaries |-> e.temporaries ]
  BY DEF add_variable, Environments

LEMMA AddedTemporary ==
  ASSUME NEW e \in Environments, NEW temps
  PROVE  [add_variable(e) EXCEPT !.temporaries = @ \cup temps] =
           [ declared |-> e.declared + 1, unstackified |-> e.unstackified,
             restackified |-> e.restackified, temporaries |-> e.temporaries \cup temps ]
  <1> DEFINE first == [ declared |-> e.declared + 1, unstackified |-> e.unstackified,
                        restackified |-> e.restackified, temporaries |-> e.temporaries ]
  <1>1. add_variable(e) = first
    BY AddedVariable
  <1>2. [first EXCEPT !.temporaries = @ \cup temps] =
          [ declared |-> e.declared + 1, unstackified |-> e.unstackified,
            restackified |-> e.restackified, temporaries |-> e.temporaries \cup temps ]
    OBVIOUS
  <1> HIDE DEF first
  <1>3. QED  BY <1>1, <1>2

\* A step that fills a new local.
LEMMA LocalAdded ==
  ASSUME Tracked, Translating, env.declared < MaxLocals,
         NEW temps, temps \subseteq {env.declared + 1},
         env' = [ declared |-> env.declared + 1, unstackified |-> env.unstackified,
                  restackified |-> env.restackified, temporaries |-> env.temporaries \cup temps ],
         Fill(env.declared + 1), pending' = pending \cup temps,
         UNCHANGED <<type, frames, verdict>>
  PROVE  Tracked'
  <1> DEFINE x == env.declared + 1
  <1>1. /\ Block(env, pending, type, worlds) /\ Plain(env) /\ Around(Top, env, worlds)
        /\ fault = "none" /\ env.restackified = {} /\ verdict = "translating"
    BY CoreFacts DEF Translating, Plain
  <1>2. worlds' = {w \cup {x} : w \in worlds}
    BY DEF Fill
  <1>3. /\ Plain(env') /\ env'.declared = x /\ env'.unstackified = env.unstackified
        /\ Exact(env', worlds')
        /\ \A w \in worlds : x \notin w
        /\ env.declared <= env'.declared /\ Declared(env) \cup {x} = Declared(env')
    BY <1>1, <1>2, NewLocal DEF Block
  <1>4. fault' = "none"
    BY <1>1, <1>3 DEF Fill, Faulting
  <1>5. worlds = {} => worlds' = {}
    BY <1>2
  <1>6. Block(env', pending', type', worlds')
    BY <1>1, <1>3, <1>5 DEF Block
  <1>7. Around(Top, env', worlds')
    <2>1. Top.env.declared <= env.declared /\ Top.env.declared \in Nat
          /\ env.declared \in Nat
      BY <1>1, CoreFacts, EnvironmentTyped DEF Around, Plain
    <2>2. QED  BY <1>1, <1>3, <1>5, <2>1 DEF Around
  <1>8. QED  BY <1>1, <1>4, <1>6, <1>7, StepOfBlock

LEMMA LetTracked ==
  ASSUME Tracked, Let
  PROVE  Tracked'
  <1>1. env \in Environments
    BY CoreFacts DEF Let, InBlock, Translating, Plain
  <1>2. env' = [ declared |-> env.declared + 1, unstackified |-> env.unstackified,
                 restackified |-> env.restackified, temporaries |-> env.temporaries \cup {} ]
    BY <1>1, AddedVariable DEF Let
  <1>3. pending' = pending \cup {} /\ {} \subseteq {env.declared + 1}
    BY DEF Let
  <1>4. Translating /\ env.declared < MaxLocals /\ Fill(env.declared + 1)
        /\ UNCHANGED <<type, frames, verdict>>
    BY DEF Let, InBlock
  <1>5. QED  BY <1>2, <1>3, <1>4, LocalAdded

LEMMA MakeTemporaryLocalBorrowTracked ==
  ASSUME Tracked, MakeTemporaryLocalBorrow
  PROVE  Tracked'
  <1>1. env \in Environments
    BY CoreFacts DEF MakeTemporaryLocalBorrow, InBlock, Translating, Plain
  <1>2. env' = [ declared |-> env.declared + 1, unstackified |-> env.unstackified,
                 restackified |-> env.restackified,
                 temporaries |-> env.temporaries \cup {env.declared + 1} ]
    BY <1>1, AddedTemporary DEF MakeTemporaryLocalBorrow
  <1>3. QED  BY <1>2, LocalAdded DEF MakeTemporaryLocalBorrow, InBlock

\* A step that empties live locals and goes on in the block.
LEMMA LocalsEmptied ==
  ASSUME Tracked, Translating, NEW locals, locals \subseteq Live(env),
         env' = mark_local_unstackified(env, locals),
         Empty(locals, Locals), pending' \subseteq pending, 
         UNCHANGED <<type, frames, verdict>>
  PROVE  Tracked'
  <1>1. /\ Block(env, pending, type, worlds) /\ Plain(env) /\ Around(Top, env, worlds)
        /\ fault = "none" /\ verdict = "translating"
    BY CoreFacts DEF Translating
  <1>2. /\ Plain(env') /\ env'.declared = env.declared
        /\ env'.unstackified = env.unstackified \cup locals
        /\ Live(env') = Live(env) \ locals
    BY <1>1, Unstackified DEF Live
  <1>3. worlds' = Without(worlds, locals)
    BY DEF Empty
  <1>4. Exact(env', worlds') /\ (worlds = {} => worlds' = {})
    BY <1>1, <1>2, <1>3, ExactWithout, DeadWithout DEF Exact, Block
  <1>5. fault' = "none"
    <2>1. Needs(locals)
      BY <1>1 DEF Needs, Block, Exact
    <2>2. UNION Without(worlds, locals) \subseteq Locals
      BY <1>1, <1>3, <1>4, <1>2, EnvironmentTyped DEF Exact, Live, Plain
    <2>3. QED  BY <1>1, <2>1, <2>2 DEF Empty, Faulting
  <1>6. Block(env', pending', type', worlds')
    BY <1>1, <1>2, <1>4 DEF Block, Declared
  <1>7. Around(Top, env', worlds')
    BY <1>1, <1>2, <1>4 DEF Around
  <1>8. QED  BY <1>1, <1>5, <1>6, <1>7, StepOfBlock

\* A step that fills moved locals of the block and goes on in it.
LEMMA LocalFilled ==
  ASSUME Tracked, Translating, NEW x, x \in env.unstackified, ~MovedOutside(x),
         env' = mark_local_restackified(env, {x}), Fill(x),
         UNCHANGED <<pending, type, frames, verdict>>
  PROVE  Tracked'
  <1>1. /\ Block(env, pending, type, worlds) /\ Plain(env) /\ Around(Top, env, worlds)
        /\ fault = "none" /\ verdict = "translating"
    BY CoreFacts DEF Translating
  <1>2. /\ Plain(env') /\ env'.declared = env.declared
        /\ env'.unstackified = env.unstackified \ {x}
        /\ Live(env') = Live(env) \cup {x}
    BY <1>1, Restackified
  <1>3. worlds' = {w \cup {x} : w \in worlds}
    BY DEF Fill
  <1>4. Exact(env', worlds') /\ (worlds = {} => worlds' = {})
    BY <1>1, <1>2, <1>3 DEF Exact, Block
  <1>5. fault' = "none"
    BY <1>1 DEF Fill, Faulting, Block, Exact, Live
  <1>6. Block(env', pending', type', worlds')
    BY <1>1, <1>2, <1>4 DEF Block, Declared
  <1>7. Around(Top, env', worlds')
    BY <1>1, <1>2, <1>4 DEF Around, MovedOutside, Top
  <1>8. QED  BY <1>1, <1>5, <1>6, <1>7, StepOfBlock

\* A step that only reads a live local.
LEMMA LocalRead ==
  ASSUME Tracked, Translating, NEW x \in Live(env), Faulting(Needs({x}), "used after move"),
         UNCHANGED <<env, pending, type, frames, verdict, worlds>>
  PROVE  Tracked'
  <1>1. /\ Block(env, pending, type, worlds) /\ Around(Top, env, worlds)
        /\ fault = "none" /\ verdict = "translating"
    BY CoreFacts DEF Translating
  <1>2. fault' = "none"
    BY <1>1 DEF Faulting, Needs, Block, Exact
  <1>3. QED  BY <1>1, <1>2, StepOfBlock

LEMMA LocalLoadTracked ==
  ASSUME Tracked, LocalLoad
  PROVE  Tracked'
  <1>1. PICK x \in Named :
          /\ InBlock
          /\ IF x \in env.unstackified THEN Verdict("CantUseUnstackifiedLocal")
             ELSE /\ Faulting(Needs({x}), "used after move")
                  /\ UNCHANGED <<env, pending, type, frames, verdict, worlds>>
    BY DEF LocalLoad
  <1>2. CASE x \in env.unstackified
    BY <1>1, <1>2, Stopped DEF InBlock, Translating, Verdicts, Rejections
  <1>3. CASE x \notin env.unstackified
    BY <1>1, <1>3, LocalRead DEF InBlock, Live, Named
  <1>4. QED  BY <1>2, <1>3

LEMMA UnletTracked ==
  ASSUME Tracked, Unlet
  PROVE  Tracked'
  <1>1. PICK x \in Named :
          /\ InBlock
          /\ IF x \in env.unstackified THEN Panic
             ELSE /\ env' = mark_local_unstackified(env, {x})
                  /\ Empty({x}, Locals)
                  /\ UNCHANGED <<pending, type, frames, verdict>>
    BY DEF Unlet
  <1>2. CASE x \in env.unstackified
    BY <1>1, <1>2, Stopped DEF InBlock, Translating, Panic, Verdicts
  <1>3. CASE x \notin env.unstackified
    <2>1. {x} \subseteq Live(env)
      BY <1>3 DEF Live, Named
    <2>2. QED  BY <1>1, <1>3, <2>1, LocalsEmptied DEF InBlock
  <1>4. QED  BY <1>2, <1>3

LEMMA LocalMutateTracked ==
  ASSUME Tracked, LocalMutate, Admitted = {}
  PROVE  Tracked'
  <1>1. PICK x \in Named :
          /\ InBlock
          /\ x \in env.unstackified /\ MovedOutside(x) => "SetInChild" \in Admitted
          /\ IF x \in env.unstackified
             THEN /\ env' = mark_local_restackified(env, {x})
                  /\ Fill(x)
                  /\ UNCHANGED <<pending, type, frames, verdict>>
             ELSE /\ Faulting(Needs({x}), "used after move")
                  /\ UNCHANGED <<env, pending, type, frames, verdict, worlds>>
    BY DEF LocalMutate
  <1>2. CASE x \in env.unstackified
    BY <1>1, <1>2, LocalFilled DEF InBlock
  <1>3. CASE x \notin env.unstackified
    BY <1>1, <1>3, LocalRead DEF InBlock, Live, Named
  <1>4. QED  BY <1>2, <1>3

LEMMA RestackifyTracked ==
  ASSUME Tracked, Restackify, Admitted = {}
  PROVE  Tracked'
  <1>1. PICK x \in Named :
          /\ InBlock
          /\ x \notin env.unstackified => "OverwriteByPattern" \in Admitted
          /\ MovedOutside(x) => "SetInChild" \in Admitted
          /\ IF x \in env.restackified THEN Panic
             ELSE /\ env' = mark_local_restackified(env, {x})
                  /\ Fill(x)
                  /\ UNCHANGED <<pending, type, frames, verdict>>
    BY DEF Restackify
  <1>2. x \in env.unstackified /\ ~MovedOutside(x) /\ x \notin env.restackified
    BY <1>1, CoreFacts DEF InBlock, Translating, Plain
  <1>3. QED  BY <1>1, <1>2, LocalFilled DEF InBlock

LEMMA EndStatementTracked ==
  ASSUME Tracked, EndStatement
  PROVE  Tracked'
  <1>1. CASE pending \cap env.unstackified # {}
    BY <1>1, Stopped DEF EndStatement, Translating, Panic, Verdicts
  <1>2. CASE pending \cap env.unstackified = {}
    <2>1. pending \subseteq Live(env)
      BY <1>2, CoreFacts DEF EndStatement, Translating, Live, Block
    <2>2. QED  BY <1>2, <2>1, LocalsEmptied DEF EndStatement
  <1>3. QED  BY <1>1, <1>2

\* A step after which no execution goes on in the block.
LEMMA NeverReached ==
  ASSUME Tracked, Translating, NEW fs, frames' = fs, Nested(fs), Inside(fs, env', {}),
         Plain(env'), pending = {}, pending' = {}, type' \in Types, worlds' = {},
         fault' = "none", verdict' = verdict
  PROVE  Tracked'
  <1>1. Block(env', pending', type', worlds')
    BY DEF Block, Exact
  <1>2. QED  BY <1>1, StillTracked DEF Verdicts, Translating

\* Around the same constructs once no execution goes on.
LEMMA DeadInside ==
  ASSUME NEW fs, NEW e, NEW ws, Inside(fs, e, ws), NEW m,
         m.declared = e.declared, e.unstackified \subseteq m.unstackified
  PROVE  Inside(fs, m, {})
  BY DEF Inside, Around

LEMMA CallPanicTracked ==
  ASSUME Tracked, CallPanic
  PROVE  Tracked'
  <1>1. /\ Plain(env) /\ Nested(frames) /\ Inside(frames, env, worlds) /\ type \in Types
        /\ fault = "none"
    BY CoreFacts DEF CallPanic, InBlock, Translating, Block
  <1>2. Inside(frames, env, {})
    BY <1>1, DeadInside
  <1>3. type' \in Types
    BY <1>1 DEF CallPanic, FirstNever, Types
  <1>4. QED  BY <1>1, <1>2, <1>3, NeverReached DEF CallPanic, InBlock

LEMMA ReturnTracked ==
  ASSUME Tracked, Return
  PROVE  Tracked'
  <1>1. /\ Block(env, pending, type, worlds) /\ Plain(env) /\ Nested(frames)
        /\ Inside(frames, env, worlds) /\ type \in Types /\ fault = "none"
    BY CoreFacts DEF Return, InBlock, Translating, Block
  <1>2. /\ Plain(env') /\ env'.declared = env.declared
        /\ env'.unstackified = env.unstackified \cup Live(env)
    BY <1>1, Unstackified DEF Return, Live
  <1>3. Inside(frames, env', {})
    BY <1>1, <1>2, DeadInside
  <1>4. type' \in Types
    BY <1>1 DEF Return, Types
  <1>5. fault' = "none"
    <2>1. Needs(Live(env))
      BY <1>1 DEF Needs, Block, Exact
    <2>2. \A w \in Without(worlds, Live(env)) : w = {}
      BY <1>1, ExactWithout DEF Block
    <2>3. QED  BY <1>1, <2>1, <2>2 DEF Return
  <1>6. QED  BY <1>1, <1>2, <1>3, <1>4, <1>5, NeverReached DEF Return, InBlock

\* The innermost loop.
LEMMA LastOf ==
  ASSUME NEW n \in Nat, NEW S, S \subseteq 1..n, S # {}
  PROVE  \E i \in S : \A j \in S : j <= i
  <1> DEFINE R == StrictSubsetOrdering(1..n)
             T == {i..n : i \in S}
  <1>1. IsWellFoundedOn(R, SUBSET (1..n))
    <2>1. IsFiniteSet(1..n)
      BY FS_Interval
    <2>2. FiniteSubsetsOf(1..n) = SUBSET (1..n)
      BY <2>1, FS_FiniteSubsetsOfFinite, Zenon
    <2>3. QED  BY <2>2, FS_StrictSubsetOrderingWellFounded, Zenon
  <1>2. T \subseteq SUBSET (1..n) /\ T # {}
    <2>1. \A i \in S : i..n \in SUBSET (1..n)
      OBVIOUS
    <2>2. QED  BY <2>1
  <1> HIDE DEF R, T
  <1>3. PICK x \in T : \A y \in T : ~ (<<y, x>> \in R)
    BY <1>1, <1>2, WFMin
  <1>4. PICK i \in S : x = i..n
    BY DEF T
  <1>5. ASSUME NEW j \in S, ~ (j <= i)
        PROVE  FALSE
    <2>1. /\ j..n \in T /\ j..n \subseteq i..n /\ i \in i..n /\ i \notin j..n
          /\ j..n \in SUBSET (1..n) /\ i..n \in SUBSET (1..n)
      BY <1>5 DEF T
    <2>2. <<j..n, i..n>> \in R
      BY <2>1 DEF R, StrictSubsetOrdering
    <2>3. QED  BY <1>3, <1>4, <2>1, <2>2
  <1>6. QED  BY <1>5

LEMMA NearestLoopFound ==
  ASSUME Nested(frames), Loops # {}
  PROVE  NearestLoop \in 1..Len(frames) /\ frames[NearestLoop].construct = "while"
  <1>1. DOMAIN frames = 1..Len(frames) /\ Len(frames) \in Nat
    BY DEF Nested
  <1>2. Loops \subseteq 1..Len(frames)
    BY <1>1 DEF Loops
  <1>3. \E i \in Loops : \A j \in Loops : j <= i
    BY <1>1, <1>2, LastOf
  <1>4. NearestLoop \in Loops
    BY <1>3, Zenon DEF NearestLoop
  <1>5. QED  BY <1>2, <1>4 DEF Loops

\* The paths that leave a loop by a break are remembered with it.
LEMMA ExitsAdded ==
  ASSUME NEW fs, Nested(fs), NEW k \in 1..Len(fs), fs[k].construct = "while",
         NEW left, Exact(fs[k].env, left), fs[k].worlds = {} => left = {}
  PROVE  LET gs == [fs EXCEPT ![k].exits = @ \cup left] IN
           /\ Nested(gs)
           /\ \A e, ws : Inside(fs, e, ws) => Inside(gs, e, ws)
  <1> DEFINE f == [fs[k] EXCEPT !.exits = @ \cup left]
             gs == [fs EXCEPT ![k] = f]
  <1>1. fs \in Seq(Frames) /\ fs[k] \in Frames /\ FrameOK(fs[k]) /\ Plain(fs[k].env)
    BY DEF Nested, FrameOK, Block
  <1>2. left \in SUBSET SUBSET Locals
    BY <1>1, EnvironmentTyped DEF Exact, Live, Plain
  <1>3. /\ f \in Frames /\ f.env = fs[k].env /\ f.worlds = fs[k].worlds
        /\ f.construct = fs[k].construct /\ f.pending = fs[k].pending /\ f.type = fs[k].type
        /\ f.exits = fs[k].exits \cup left
    BY <1>1, <1>2 DEF Frames
  <1>4. FrameOK(f)
    <2>1. Exact(fs[k].env, fs[k].exits \cup left)
      BY <1>1 DEF FrameOK, Exact
    <2>2. fs[k].worlds = {} => fs[k].exits \cup left = {}
      BY <1>1 DEF FrameOK
    <2>3. QED  BY <1>1, <1>3, <2>1, <2>2 DEF FrameOK
  <1>5. [fs EXCEPT ![k].exits = @ \cup left] = gs
    BY <1>1
  <1> HIDE DEF f
  <1>6. gs \in Seq(Frames) /\ Len(gs) = Len(fs) /\ gs[k] = f
        /\ \A i \in 1..Len(fs) : i # k => gs[i] = fs[i]
    BY <1>1, <1>3
  <1>7. k = 1 => f.construct = "function"
    BY <1>3 DEF Nested
  <1> HIDE DEF gs
  <1>8. Nested(gs) /\ \A e, ws : Inside(fs, e, ws) => Inside(gs, e, ws)
    BY <1>3, <1>4, <1>6, <1>7, Updated
  <1>9. QED  BY <1>5, <1>8

LEMMA BreakTracked ==
  ASSUME Tracked, Break, Admitted = {}
  PROVE  Tracked'
  <1> DEFINE k == NearestLoop
             loop == frames[k]
             locals == get_live_variables_introduced_since(env, loop.env)
             left == Without(worlds, locals)
             gs == [frames EXCEPT ![k].exits = @ \cup left]
  <1>1. /\ Block(env, pending, type, worlds) /\ Plain(env) /\ Nested(frames)
        /\ Inside(frames, env, worlds) /\ type \in Types /\ fault = "none"
        /\ verdict = "translating" /\ pending = {}
    BY CoreFacts DEF Break, InBlock, Translating, Block
  <1>2. CASE locals \cap env.unstackified # {}
    BY <1>2, Stopped DEF Break, InBlock, Translating, Panic, Verdicts
  <1>3. CASE locals \cap env.unstackified = {}
    <2>1. /\ get_effects_since(env, loop.env).unstackified = {}
          /\ env' = mark_local_unstackified(env, locals)
          /\ fault' = IF ~Needs(locals) THEN "used after move"
                      ELSE IF ~(UNION left \subseteq Declared(loop.env)) THEN "leaked"
                      ELSE fault
          /\ frames' = gs
          /\ worlds' = {} /\ type' = FirstNever(type, "break") /\ UNCHANGED <<pending, verdict>>
      BY <1>3 DEF Break
    <2>2. k \in 1..Len(frames) /\ loop.construct = "while"
      BY <1>1, NearestLoopFound DEF Break
    <2>3. Plain(loop.env) /\ Around(loop, env, worlds)
      BY <1>1, <2>2 DEF Nested, Inside, FrameOK, Block
    <2>4. /\ locals \subseteq Live(env) /\ locals \subseteq Declared(env)
          /\ Live(env) \ locals = Declared(loop.env) \ env.unstackified
      BY <1>1, <2>3, EndOfBlock DEF Around
    <2>5. Declared(loop.env) \ env.unstackified = Live(loop.env)
      BY <2>1, <2>3 DEF get_effects_since, Live, Around
    <2> HIDE DEF locals
    <2>6. \A w \in left : w = Live(loop.env)
      BY <1>1, <2>4, <2>5, ExactWithout DEF Block
    <2>7. worlds = {} => left = {}
      BY DeadWithout
    <2>8. Needs(locals)
      BY <1>1, <2>4 DEF Needs, Block, Exact
    <2>9. /\ Plain(env') /\ env'.declared = env.declared
          /\ env.unstackified \subseteq env'.unstackified
      <3>1. locals \subseteq Declared(env) /\ Plain(env)
        BY <1>1, <2>4
      <3>2. LET m == mark_local_unstackified(env, locals)
            IN  Plain(m) /\ m.declared = env.declared /\ env.unstackified \subseteq m.unstackified
        BY <3>1, Unstackified
      <3>3. QED  BY <2>1, <3>2
    <2> HIDE DEF left
    <2>10. fault' = "none"
      BY <1>1, <2>1, <2>6, <2>8 DEF Live
    <2>11. Nested(gs) /\ Inside(gs, env, worlds)
      <3>1. Exact(loop.env, left) /\ (loop.worlds = {} => left = {})
        BY <2>3, <2>6, <2>7 DEF Exact, Around
      <3> HIDE DEF k
      <3>2. QED  BY <1>1, <2>2, <3>1, ExitsAdded
    <2> HIDE DEF gs, k, loop
    <2>12. Inside(gs, env', {})
      BY <2>9, <2>11, DeadInside
    <2>13. type' \in Types
      BY <1>1, <2>1 DEF FirstNever, Types
    <2>14. QED  BY <1>1, <2>1, <2>9, <2>10, <2>11, <2>12, <2>13, NeverReached DEF Translating
  <1>4. QED  BY <1>2, <1>3

-----------------------------------------------------------------------------
(* Blocks                                                                  *)

LEMMA EnterTracked ==
  ASSUME Tracked, NEW construct \in {"block", "then", "while"}, NEW exits \in {{}, worlds},
         Enter(construct, exits)
  PROVE  Tracked'
  <1> DEFINE f == Frame(construct, exits, NoArm)
  <1>1. /\ Block(env, pending, type, worlds) /\ Plain(env) /\ Nested(frames)
        /\ Inside(frames, env, worlds) /\ fault = "none" /\ verdict = "translating"
    BY CoreFacts DEF Enter, InBlock, Translating
  <1>2. worlds \in SUBSET SUBSET Locals /\ pending \in SUBSET Locals
    BY <1>1, EnvironmentTyped DEF Block, Exact, Live, Plain
  <1>3. NoArm \in Arms
    BY BoundsAssumption DEF NoArm, Arms, Environments, Types
  <1>4. f \in Frames
    BY <1>1, <1>2, <1>3 DEF Frame, Frames, Constructs, Block, Plain
  <1>5. /\ f.env = env /\ f.worlds = worlds /\ f.pending = pending /\ f.type = type
        /\ f.exits = exits /\ f.construct = construct
    BY DEF Frame
  <1> HIDE DEF f
  <1>6. FrameOK(f)
    BY <1>1, <1>5 DEF FrameOK, Block, Exact
  <1>7. Nested(Append(frames, f)) /\ Len(frames) < MaxDepth
    BY <1>1, <1>4, <1>5, <1>6, Entered DEF Enter
  <1>8. Inside(Append(frames, f), env, worlds)
    <2>1. /\ \A i \in 1..Len(frames) : Append(frames, f)[i] = frames[i]
          /\ Append(frames, f)[Len(frames) + 1] = f
          /\ Len(Append(frames, f)) = Len(frames) + 1 /\ Len(frames) \in Nat
      BY <1>1, <1>4 DEF Nested
    <2>2. env.declared \in Nat
      BY <1>1, EnvironmentTyped DEF Plain
    <2>3. Around(f, env, worlds)
      BY <1>5, <2>2 DEF Around
    <2>4. QED  BY <1>1, <2>1, <2>3 DEF Inside
  <1>9. Block(env, {}, "open", worlds)
    BY <1>1 DEF Block, Types
  <1>10. QED  BY <1>1, <1>7, <1>8, <1>9, StillTracked DEF Enter, f, Verdicts

\* What a block leaves when it ends.
LEMMA BlockEnded ==
  ASSUME Tracked, Translating
  PROVE  /\ ~BlockPanics
         /\ Plain(BlockEnv) /\ BlockEnv.declared = env.declared
         /\ Top.env.unstackified \subseteq BlockEnv.unstackified
         /\ \A w \in BlockWorlds : w = Declared(Top.env) \ BlockEnv.unstackified
         /\ BlockFault = "none"
         /\ BlockType \in {"open", "break", "return"}
         /\ BlockType = "open" <=> type = "open"
         /\ BlockType # "open" => BlockWorlds = {}
         /\ Top.worlds = {} => BlockWorlds = {}
  <1>1. /\ Block(env, pending, type, worlds) /\ Plain(env) /\ Around(Top, env, worlds)
        /\ Plain(Top.env) /\ fault = "none"
    BY CoreFacts DEF Translating
  <1>2. /\ BlockLocals \subseteq Live(env)
        /\ Live(env) \ BlockLocals = Declared(Top.env) \ BlockEnv.unstackified
        /\ Plain(BlockEnv) /\ BlockEnv.declared = env.declared
        /\ Top.env.unstackified \subseteq BlockEnv.unstackified
    BY <1>1, EndOfBlock DEF Around, BlockLocals, BlockEnv
  <1>3. ~BlockPanics
    BY <1>2 DEF BlockPanics, Live
  <1>4. BlockType \in {"open", "break", "return"} /\ (BlockType = "open" <=> type = "open")
    BY <1>1 DEF BlockType, Block, Types
  <1>5. type # "open" => worlds = {}
    BY <1>1 DEF Block
  <1>6. \A w \in BlockWorlds : w = Declared(Top.env) \ BlockEnv.unstackified
    <2>1. \A w \in Without(worlds, BlockLocals) : w = Live(env) \ BlockLocals
      BY <1>1, ExactWithout DEF Block
    <2>2. QED  BY <1>2, <1>5, <2>1 DEF BlockWorlds
  <1>7. BlockWorlds = {} \/ (type = "open" /\ worlds # {})
    BY <1>5, DeadWithout DEF BlockWorlds
  <1>8. BlockFault = "none"
    <2>1. Needs(BlockLocals)
      BY <1>1, <1>2 DEF Needs, Block, Exact
    <2>2. UNION BlockWorlds \subseteq Declared(Top.env)
      BY <1>6
    <2>3. QED  BY <1>1, <2>1, <2>2 DEF BlockFault
  <1>9. QED  BY <1>1, <1>2, <1>3, <1>4, <1>6, <1>7, <1>8 DEF Around

\* The environment around a construct in which these effects happened, if they
\* leave what the paths hold.
LEMMA EffectsResumed ==
  ASSUME Tracked, Translating, Top.construct # "function",
         NEW effects, effects.restackified = {},
         effects.unstackified \subseteq Declared(Top.env),
         NEW ws, \A w \in ws : w = Live(Top.env) \ effects.unstackified,
         Top.worlds = {} => ws = {},
         NEW t \in Types, t # "open" => ws = {},
         Resume(Propagated(Top.env, effects), t, ws, "none")
  PROVE  Tracked'
  <1> DEFINE e == Propagated(Top.env, effects)
  <1>1. Plain(Top.env)
    BY CoreFacts DEF Translating
  <1>2. /\ Plain(e) /\ e.declared = Top.env.declared
        /\ Top.env.unstackified \subseteq e.unstackified
        /\ Live(e) = Live(Top.env) \ effects.unstackified
    BY <1>1, PropagatedEffects
  <1> HIDE DEF e
  <1>3. Exact(e, ws)
    BY <1>2 DEF Exact
  <1>4. QED  BY <1>2, <1>3, Resumed DEF e, Translating

LEMMA LeaveBlockTracked ==
  ASSUME Tracked, LeaveBlock
  PROVE  Tracked'
  <1> DEFINE effects == get_effects_since(BlockEnv, Top.env)
  <1>1. Translating /\ Top.construct = "block" /\ Plain(Top.env)
    BY CoreFacts DEF LeaveBlock, BlockEnds, Translating
  <1>2. CASE BlockPanics \/ PropagationPanics(Top.env, effects)
    BY <1>1, <1>2, Stopped DEF LeaveBlock, Panic, Verdicts, Translating
  <1>3. CASE ~(BlockPanics \/ PropagationPanics(Top.env, effects))
    <2>1. Resume(Propagated(Top.env, effects), BlockType, BlockWorlds, "none")
      BY <1>1, <1>3, BlockEnded DEF LeaveBlock
    <2>2. /\ effects.restackified = {} /\ effects.unstackified \subseteq Declared(Top.env)
          /\ Live(Top.env) \ effects.unstackified = Declared(Top.env) \ BlockEnv.unstackified
      BY <1>1, BlockEnded, EffectsOnOuter
    <2> HIDE DEF effects
    <2>3. \A w \in BlockWorlds : w = Live(Top.env) \ effects.unstackified
      BY <1>1, <2>2, BlockEnded
    <2>4. BlockType \in Types /\ (BlockType # "open" => BlockWorlds = {})
          /\ (Top.worlds = {} => BlockWorlds = {})
      BY <1>1, BlockEnded DEF Types
    <2>5. QED  BY <1>1, <2>1, <2>2, <2>3, <2>4, EffectsResumed
  <1>4. QED  BY <1>2, <1>3

LEMMA LeaveThenTracked ==
  ASSUME Tracked, LeaveThen
  PROVE  Tracked'
  <1> DEFINE arm == [env |-> BlockEnv, type |-> BlockType, worlds |-> BlockWorlds]
             f == [Top EXCEPT !.construct = "else", !.arm = arm]
             gs == Append(Outer, f)
  <1>1. /\ Translating /\ Top.construct = "then" /\ Plain(Top.env) /\ Top \in Frames
        /\ FrameOK(Top) /\ Nested(frames)
    BY CoreFacts DEF LeaveThen, BlockEnds, Translating
  <1>2. ~BlockPanics /\ BlockFault = "none"
    BY <1>1, BlockEnded
  <1>3. /\ frames' = gs /\ env' = Top.env /\ pending' = {} /\ type' = "open"
        /\ worlds' = Top.worlds /\ fault' = "none" /\ verdict' = verdict
    BY <1>2 DEF LeaveThen
  <1>4. arm \in Arms
    <2>1. BlockEnv \in Environments /\ BlockType \in Types
      BY <1>1, BlockEnded DEF Plain, Types
    <2>2. BlockWorlds \in SUBSET SUBSET Locals
      BY <1>1, BlockEnded, EnvironmentTyped DEF Plain
    <2>3. QED  BY <2>1, <2>2 DEF Arms
  <1>5. /\ arm.env = BlockEnv /\ arm.type = BlockType /\ arm.worlds = BlockWorlds
    OBVIOUS
  <1> HIDE DEF arm
  <1>6. /\ f \in Frames /\ f.env = Top.env /\ f.worlds = Top.worlds /\ f.construct = "else"
        /\ f.pending = Top.pending /\ f.type = Top.type /\ f.exits = Top.exits /\ f.arm = arm
    BY <1>1, <1>4 DEF Frames, Constructs
  <1> HIDE DEF f
  <1>7. ThenArm(f)
    BY <1>1, <1>5, <1>6, BlockEnded DEF ThenArm
  <1>8. FrameOK(f)
    BY <1>1, <1>6, <1>7 DEF FrameOK
  <1>9. Len(frames) > 1 /\ frames \in Seq(Frames) /\ Len(frames) \in Nat
    BY <1>1, TopFrame DEF Top
  <1>10. gs \in Seq(Frames) /\ Len(gs) = Len(frames) /\ gs[Len(frames)] = f
         /\ \A i \in 1..Len(frames) : i # Len(frames) => gs[i] = frames[i]
    BY <1>6, <1>9 DEF Outer
  <1> HIDE DEF gs
  <1>11. Inside(frames, Top.env, Top.worlds)
    <2>1. Around(Top, Top.env, Top.worlds)
      BY <1>1, EnvironmentTyped DEF Around, Plain
    <2>2. QED  BY <1>1, <2>1, InsideTop DEF Top
  <1>12. Nested(gs) /\ Inside(gs, Top.env, Top.worlds)
    <2>1. frames[Len(frames)] = Top
      BY DEF Top
    <2>2. Len(frames) \in 1..Len(frames) /\ Len(frames) # 1
      BY <1>1, <1>9, TopFrame
    <2>3. QED  BY <1>1, <1>6, <1>8, <1>10, <1>11, <2>1, <2>2, Updated
  <1>13. Block(Top.env, {}, "open", Top.worlds)
    BY <1>1 DEF FrameOK, Block, Types
  <1>14. QED  BY <1>1, <1>3, <1>12, <1>13, StillTracked DEF Verdicts, Translating

\* The effects of the arms of an if, as the code after it takes them: on every
\* path that comes there exactly these locals moved.
LEMMA ArmsJoined ==
  ASSUME Tracked, Translating, Top.construct = "else",
         ~ArmsDisagree(Top.arm.type, BlockType, get_effects_since(Top.arm.env, Top.env),
                       get_effects_since(BlockEnv, Top.env))
  PROVE  LET joined == JoinedEffects(Top.arm.type, BlockType,
                                     get_effects_since(Top.arm.env, Top.env),
                                     get_effects_since(BlockEnv, Top.env))
             t == CommonType(Top.arm.type, BlockType)
         IN  /\ joined.restackified = {} /\ joined.unstackified \subseteq Declared(Top.env)
             /\ \A w \in Top.arm.worlds \cup BlockWorlds : w = Live(Top.env) \ joined.unstackified
             /\ Top.worlds = {} => Top.arm.worlds \cup BlockWorlds = {}
             /\ t \in Types
             /\ t # "open" => Top.arm.worlds \cup BlockWorlds = {}
  <1> DEFINE onThen == get_effects_since(Top.arm.env, Top.env)
             onElse == get_effects_since(BlockEnv, Top.env)
             joined == JoinedEffects(Top.arm.type, BlockType, onThen, onElse)
  <1>1. Plain(Top.env) /\ ThenArm(Top)
    BY CoreFacts DEF Translating, FrameOK
  <1>2. /\ onThen.restackified = {} /\ onThen.unstackified \subseteq Declared(Top.env)
        /\ Live(Top.env) \ onThen.unstackified = Declared(Top.env) \ Top.arm.env.unstackified
    BY <1>1, EffectsOnOuter DEF ThenArm
  <1>3. /\ onElse.restackified = {} /\ onElse.unstackified \subseteq Declared(Top.env)
        /\ Live(Top.env) \ onElse.unstackified = Declared(Top.env) \ BlockEnv.unstackified
    BY <1>1, BlockEnded, EffectsOnOuter
  <1>4. ~ArmsDisagree(Top.arm.type, BlockType, onThen, onElse)
    OBVIOUS
  <1> HIDE DEF onThen, onElse
  <1>5. \A w \in Top.arm.worlds : w = Live(Top.env) \ onThen.unstackified
    BY <1>1, <1>2 DEF ThenArm
  <1>6. \A w \in BlockWorlds : w = Live(Top.env) \ onElse.unstackified
    BY <1>3, BlockEnded
  <1>7. /\ Top.arm.type \in {"open", "break", "return"}
        /\ Top.arm.type # "open" => Top.arm.worlds = {}
        /\ BlockType \in {"open", "break", "return"}
        /\ BlockType # "open" => BlockWorlds = {}
    BY <1>1, BlockEnded DEF ThenArm
  <1>8. joined.restackified = {} /\ joined.unstackified \subseteq Declared(Top.env)
    BY <1>2, <1>3 DEF JoinedEffects
  <1>9. \A w \in Top.arm.worlds \cup BlockWorlds : w = Live(Top.env) \ joined.unstackified
    BY <1>4, <1>5, <1>6, <1>7 DEF JoinedEffects, ArmsDisagree
  <1>10. Top.worlds = {} => Top.arm.worlds \cup BlockWorlds = {}
    BY <1>1, BlockEnded DEF ThenArm
  <1>11. /\ CommonType(Top.arm.type, BlockType) \in Types
         /\ CommonType(Top.arm.type, BlockType) # "open" => Top.arm.worlds \cup BlockWorlds = {}
    BY <1>7 DEF CommonType, Types
  <1>12. QED  BY <1>8, <1>9, <1>10, <1>11 DEF onThen, onElse

LEMMA LeaveIfTracked ==
  ASSUME Tracked, LeaveIf
  PROVE  Tracked'
  <1> DEFINE onThen == get_effects_since(Top.arm.env, Top.env)
             onElse == get_effects_since(BlockEnv, Top.env)
             t == Top.arm.type
             e == BlockType
             joined == JoinedEffects(t, e, onThen, onElse)
             uneven == (t = "open") = (e = "open") /\ onThen.restackified # onElse.restackified
  <1>1. Translating /\ Top.construct = "else" /\ BlockFault = "none" /\ ~BlockPanics
    BY BlockEnded DEF LeaveIf, BlockEnds
  <1>2. \/ Panic
        \/ Verdict("MustMoveSameVariables")
        \/ /\ ~ArmsDisagree(t, e, onThen, onElse)
           /\ Resume(Propagated(Top.env, joined), CommonType(t, e),
                     Top.arm.worlds \cup BlockWorlds, "none")
    BY <1>1 DEF LeaveIf
  <1>3. CASE Panic
    BY <1>1, <1>3, Stopped DEF Panic, Verdicts, Translating
  <1>4. CASE Verdict("MustMoveSameVariables")
    BY <1>1, <1>4, Stopped DEF Verdicts, Rejections, Translating
  <1>5. CASE /\ ~ArmsDisagree(t, e, onThen, onElse)
             /\ Resume(Propagated(Top.env, joined), CommonType(t, e),
                       Top.arm.worlds \cup BlockWorlds, "none")
    <2>1. /\ joined.restackified = {} /\ joined.unstackified \subseteq Declared(Top.env)
          /\ \A w \in Top.arm.worlds \cup BlockWorlds : w = Live(Top.env) \ joined.unstackified
          /\ Top.worlds = {} => Top.arm.worlds \cup BlockWorlds = {}
          /\ CommonType(t, e) \in Types
          /\ CommonType(t, e) # "open" => Top.arm.worlds \cup BlockWorlds = {}
      BY <1>1, <1>5, ArmsJoined
    <2> HIDE DEF joined, t, e
    <2>2. QED  BY <1>1, <1>5, <2>1, EffectsResumed
  <1>6. QED  BY <1>2, <1>3, <1>4, <1>5

LEMMA LeaveWhileTracked ==
  ASSUME Tracked, LeaveWhile, Admitted = {}
  PROVE  Tracked'
  <1> DEFINE effects == get_effects_since(BlockEnv, Top.env)
             again == BlockWorlds \subseteq Top.worlds
             flt == IF BlockFault = "none" /\ ~again THEN "the next round starts elsewhere"
                    ELSE BlockFault
  <1>1. /\ Translating /\ Top.construct = "while" /\ BlockFault = "none" /\ ~BlockPanics
        /\ BlockType # "return"
    BY BlockEnded DEF LeaveWhile, BlockEnds
  <1>2. \/ Panic
        \/ Verdict("CantUnstackifyOutsideLocalFromInsideWhile")
        \/ /\ type = "open" => effects.unstackified = {}
           /\ Resume(Top.env, LoopType, Top.exits \cup BlockWorlds, flt)
    BY <1>1 DEF LeaveWhile
  <1>3. CASE Panic
    BY <1>1, <1>3, Stopped DEF Panic, Verdicts, Translating
  <1>4. CASE Verdict("CantUnstackifyOutsideLocalFromInsideWhile")
    BY <1>1, <1>4, Stopped DEF Verdicts, Rejections, Translating
  <1>5. CASE /\ type = "open" => effects.unstackified = {}
             /\ Resume(Top.env, LoopType, Top.exits \cup BlockWorlds, flt)
    <2>1. Plain(Top.env) /\ FrameOK(Top)
      BY <1>1, CoreFacts DEF Translating
    <2>2. Live(Top.env) \ effects.unstackified = Declared(Top.env) \ BlockEnv.unstackified
      BY <1>1, <2>1, BlockEnded, EffectsOnOuter
    <2> HIDE DEF effects
    <2>3. \A w \in BlockWorlds : w = Live(Top.env)
      BY <1>1, <1>5, <2>2, BlockEnded
    <2>4. Top.worlds = {} => BlockWorlds = {}
      BY <1>1, BlockEnded
    <2>5. again
      BY <2>1, <2>3, <2>4 DEF FrameOK, Block, Exact
    <2>6. flt = "none"
      BY <1>1, <2>5
    <2>7. LoopType = "open"
      BY <1>1 DEF LoopType
    <2>8. Exact(Top.env, Top.exits \cup BlockWorlds)
      BY <2>1, <2>3 DEF FrameOK, Exact
    <2>9. Top.worlds = {} => Top.exits \cup BlockWorlds = {}
      BY <2>1, <2>4 DEF FrameOK
    <2>10. Resume(Top.env, "open", Top.exits \cup BlockWorlds, "none")
      BY <1>5, <2>6, <2>7
    <2>11. QED  BY <1>1, <2>1, <2>8, <2>9, <2>10, Resumed DEF Translating, Types
  <1>6. QED  BY <1>2, <1>3, <1>4, <1>5

LEMMA LeaveFunctionTracked ==
  ASSUME Tracked, LeaveFunction
  PROVE  Tracked'
  <1>1. Translating /\ TypeOK
    BY DEF LeaveFunction, BlockEnds, Tracked
  <1>2. /\ ~BlockPanics /\ Plain(BlockEnv) /\ BlockEnv.declared = env.declared
        /\ BlockFault = "none"
        /\ \A w \in BlockWorlds : w = Declared(Top.env) \ BlockEnv.unstackified
    BY <1>1, BlockEnded
  <1>3. /\ env' = BlockEnv /\ worlds' = BlockWorlds /\ fault' = "none" /\ verdict' = "accepted"
        /\ pending' = pending /\ type' = type /\ frames' = frames /\ pending = {}
    BY <1>2 DEF LeaveFunction, BlockEnds
  <1>4. Declared(Top.env) \subseteq Declared(env)
    BY <1>1, CoreFacts, EnvironmentTyped DEF Translating, Around, Declared, Plain
  <1>5. TypeOK'
    <2>1. Declared(env') = Declared(env)
      BY <1>2, <1>3 DEF Declared
    <2>2. /\ env' \in Environments
          /\ env'.unstackified \cup env'.restackified \cup env'.temporaries \cup pending'
               \subseteq Declared(env')
      BY <1>2, <1>3 DEF Plain
    <2>3. \A w \in worlds' : w \subseteq Declared(env')
      BY <1>2, <1>3, <1>4, <2>1
    <2>4. QED  BY <1>1, <1>2, <1>3, <2>2, <2>3 DEF TypeOK, Verdicts
  <1>6. QED  BY <1>3, <1>5 DEF Tracked, NothingMishandled

-----------------------------------------------------------------------------
(* The theorems                                                            *)

LEMMA InitTracked ==
  ASSUME Init
  PROVE  Tracked
  <1>1. PICK params \in 0..(IF MaxLocals < 2 THEN MaxLocals ELSE 2) :
          env = [NoArm.env EXCEPT !.declared = params] /\ worlds = {1..params}
    BY DEF Init
  <1>2. params \in 0..MaxLocals /\ params \in Nat
    BY BoundsAssumption
  <1>3. env = [declared |-> params, unstackified |-> {}, restackified |-> {}, temporaries |-> {}]
    BY <1>1 DEF NoArm
  <1>4. /\ Plain(env) /\ env.declared = params /\ env.unstackified = {}
    BY <1>2, <1>3, EnvironmentOf
  <1>5. Block(env, pending, type, worlds)
    BY <1>1, <1>4 DEF Init, Block, Exact, Live, Declared, Types
  <1> DEFINE f == [ construct |-> "function", env |-> NoArm.env, pending |-> {}, type |-> "open",
                    worlds |-> {{}}, exits |-> {}, arm |-> NoArm ]
  <1>6. Plain(NoArm.env) /\ NoArm.env.declared = 0 /\ NoArm.env.unstackified = {}
    BY BoundsAssumption, EnvironmentOf DEF NoArm
  <1>7. NoArm \in Arms
    BY <1>6 DEF NoArm, Arms, Plain, Types
  <1>8. f \in Frames
    BY <1>6, <1>7 DEF Frames, Constructs, Types, Plain
  <1>9. FrameOK(f)
    BY <1>6 DEF FrameOK, Block, Exact, Live, Declared, Types
  <1>10. frames = <<f>>
    BY DEF Init
  <1>11. f.construct = "function" /\ f.env = NoArm.env /\ f.worlds = {{}}
    OBVIOUS
  <1> HIDE DEF f
  <1>12. Nested(frames)
    BY <1>8, <1>9, <1>10, <1>11, BoundsAssumption DEF Nested
  <1>13. Inside(frames, env, worlds)
    <2>1. Around(f, env, worlds)
      <3>1. f.env.declared = 0 /\ f.env.unstackified = {} /\ f.worlds # {}
        BY <1>6, <1>11
      <3>2. 0 <= env.declared
        BY <1>2, <1>4
      <3>3. QED  BY <3>1, <3>2 DEF Around
    <2>2. \A i \in 1..Len(frames) : frames[i] = f
      BY <1>10
    <2>3. QED  BY <2>1, <2>2 DEF Inside
  <1>14. verdict = "translating" /\ fault = "none" /\ verdict \in Verdicts
    BY DEF Init, Verdicts
  <1>15. TypeOK
    BY <1>5, <1>12, <1>13, <1>14, CoreTyped DEF TypeOK
  <1>16. QED  BY <1>5, <1>12, <1>13, <1>14, <1>15 DEF Tracked, Core, NothingMishandled

LEMMA NextTracked ==
  ASSUME Tracked, Next, Admitted = {}
  PROVE  Tracked'
  BY LetTracked, LocalLoadTracked, UnletTracked, LocalMutateTracked, RestackifyTracked,
     MakeTemporaryLocalBorrowTracked, EndStatementTracked, CallPanicTracked, ReturnTracked,
     BreakTracked, EnterTracked, LeaveBlockTracked, LeaveThenTracked, LeaveIfTracked,
     LeaveWhileTracked, LeaveFunctionTracked
     DEF Next, EnterBlock, EnterIf, EnterWhile

LEMMA StutterTracked ==
  ASSUME Tracked, UNCHANGED vars
  PROVE  Tracked'
  <1>1. /\ env' = env /\ pending' = pending /\ type' = type /\ frames' = frames
        /\ worlds' = worlds /\ fault' = fault /\ verdict' = verdict
    BY DEF vars
  <1>2. TypeOK' <=> TypeOK
    BY <1>1 DEF TypeOK
  <1>3. QED  BY <1>1, <1>2 DEF Tracked, Core, NothingMishandled

\* The inductive invariant, of programs that have none of the named shapes.
THEOREM AlwaysTracked == ASSUME Admitted = {} PROVE Spec => []Tracked
  <1>1. Init => Tracked
    BY InitTracked
  <1>2. Tracked /\ [Next]_vars => Tracked'
    BY NextTracked, StutterTracked
  <1>3. QED  BY <1>1, <1>2, PTL DEF Spec

\* The state the pass keeps for a body is well-formed at every point of it.
THEOREM TypeCorrect == ASSUME Admitted = {} PROVE Spec => []TypeOK
  <1>1. Tracked => TypeOK
    BY DEF Tracked
  <1>2. QED  BY <1>1, AlwaysTracked, PTL

\* Every drop, move and assignment the pass emits (mark_local_unstackified,
\* get_live_variables_introduced_since, get_effects_since) finds the locals as
\* it takes them to be, on every path of the body and however the paths met.
THEOREM EmitsNoMishandling == ASSUME Admitted = {} PROVE Spec => []NothingMishandled
  <1>1. Tracked => NothingMishandled
    BY DEF Tracked
  <1>2. QED  BY <1>1, AlwaysTracked, PTL

\* At every point the live locals of the node environment are those that hold
\* a value on each path that comes there.
THEOREM EnvironmentIsExact == ASSUME Admitted = {} PROVE Spec => []HeldIsTracked
  <1>1. Tracked => HeldIsTracked
    BY CoreFacts DEF HeldIsTracked, Translating, Block, Exact
  <1>2. QED  BY <1>1, AlwaysTracked, PTL

\* consecutive cuts what follows an expression of type Never: no execution
\* comes past one.
THEOREM CutCodeIsDead == ASSUME Admitted = {} PROVE Spec => []NeverIsUnreachable
  <1>1. Tracked => NeverIsUnreachable
    BY CoreFacts DEF NeverIsUnreachable, Block
  <1>2. QED  BY <1>1, AlwaysTracked, PTL
=============================================================================
