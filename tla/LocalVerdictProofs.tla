------------------------- MODULE LocalVerdictProofs -------------------------
(***************************************************************************)
(* More theorems about LocalTracking, for every number of locals and every *)
(* depth of nesting, on programs that have none of the named shapes: the   *)
(* pass never panics, and what it rejects deserved it.                     *)
(*                                                                         *)
(* Beside Tracked, the inductive invariant of LocalTrackingProofs, each of *)
(* the two needs a fact about every construct that is open.  A statement's *)
(* temporaries are dropped once only if nothing inside it dropped them     *)
(* before: a return inside drops every live local of the function, so they *)
(* are kept only as long as nothing between is of type Never               *)
(* (TemporariesKept).  And a rejection is deserved only if execution comes *)
(* to the point at which it is made (PathsComeHere).                       *)
(***************************************************************************)
EXTENDS LocalTrackingProofs

-----------------------------------------------------------------------------
(* No panic                                                                *)

\* A statement's temporaries, in the environment of their block.
HeldIn(p, e) == p \subseteq e.temporaries /\ p \cap e.unstackified = {}

\* Nothing from the i-th construct to the n-th follows a Never.
OpenTo(fs, i, n) == \A j \in i..n : fs[j].type = "open"

\* The statements around the n-th construct wait for their temporaries: seen
\* from a block in it, with temporaries p of its own, they are other locals,
\* and as long as execution comes here they are not dropped.
Kept(fs, n, p, e, t) ==
  \A i \in 1..n :
    /\ fs[i].pending \subseteq e.temporaries
    /\ p \cap Declared(fs[i].env) = {}
    /\ t = "open" /\ OpenTo(fs, i + 1, n) => fs[i].pending \cap e.unstackified = {}

\* The k-th construct, and the then arm it remembers.
FrameKept(fs, k) ==
  LET f == fs[k] IN
  /\ HeldIn(f.pending, f.env)
  /\ Kept(fs, k - 1, f.pending, f.env, f.type)
  /\ f.construct = "else" => Kept(fs, k, {}, f.arm.env, f.arm.type)

TemporariesKept ==
  /\ HeldIn(pending, env)
  /\ Kept(frames, Len(frames), pending, env, type)
  /\ \A k \in 1..Len(frames) : FrameKept(frames, k)

\* The inductive invariant of the first theorem.
NoPanic ==
  /\ Tracked
  /\ NeverPanics
  /\ verdict # "accepted" => TemporariesKept

LEMMA SameTemporaries ==
  ASSUME NEW e \in Environments, NEW locals
  PROVE  /\ mark_local_unstackified(e, locals).temporaries = e.temporaries
         /\ mark_local_restackified(e, locals).temporaries = e.temporaries
  <1>1. mark_local_unstackified(e, locals) =
          [ declared |-> e.declared, unstackified |-> e.unstackified \cup (locals \ e.restackified),
            restackified |-> e.restackified \ locals, temporaries |-> e.temporaries ]
    BY ChangedFields, Zenon DEF mark_local_unstackified
  <1>2. mark_local_restackified(e, locals) =
          [ declared |-> e.declared, unstackified |-> e.unstackified \ locals,
            restackified |-> e.restackified \cup (locals \ e.unstackified),
            temporaries |-> e.temporaries ]
    BY ChangedFields, Zenon DEF mark_local_restackified
  <1>3. QED  BY <1>1, <1>2

\* The locals around a construct are among those of the constructs in it.
LEMMA OuterLocals ==
  ASSUME NEW fs, Nested(fs), NEW i \in 1..Len(fs), NEW j \in 1..Len(fs), i <= j
  PROVE  /\ Declared(fs[i].env) \subseteq Declared(fs[j].env)
         /\ fs[i].pending \subseteq Declared(fs[j].env)
  <1>1. fs \in Seq(Frames) /\ Len(fs) \in Nat /\ fs[i] \in Frames /\ fs[j] \in Frames
    BY DEF Nested
  <1>2. fs[i].env.declared \in Nat /\ fs[j].env.declared \in Nat
    BY <1>1, EnvironmentTyped DEF Frames
  <1>3. fs[i].env.declared <= fs[j].env.declared
    BY <1>1, <1>2 DEF Nested, Around
  <1>4. fs[i].pending \subseteq Declared(fs[i].env)
    BY DEF Nested, FrameOK, Block
  <1>5. QED  BY <1>2, <1>3, <1>4 DEF Declared

LEMMA AroundHere ==
  ASSUME Tracked, verdict = "translating"
  PROVE  /\ frames \in Seq(Frames) /\ Len(frames) \in Nat /\ Len(frames) >= 1
         /\ Top = frames[Len(frames)]
         /\ \A i \in 1..Len(frames) : /\ frames[i].pending \subseteq Declared(Top.env)
                                      /\ Declared(frames[i].env) \subseteq Declared(Top.env)
         /\ Declared(Top.env) \subseteq Declared(env)
         /\ env.unstackified \cup env.temporaries \cup pending \subseteq Declared(env)
  <1>1. Nested(frames) /\ Around(Top, env, worlds) /\ Plain(env) /\ Plain(Top.env)
        /\ Block(env, pending, type, worlds)
    BY CoreFacts
  <1>2. Top.env.declared \in Nat /\ env.declared \in Nat
    BY <1>1, EnvironmentTyped DEF Plain
  <1>3. frames \in Seq(Frames) /\ Len(frames) \in Nat /\ Len(frames) >= 1
    BY <1>1 DEF Nested
  <1>4. \A i \in 1..Len(frames) : /\ frames[i].pending \subseteq Declared(Top.env)
                                  /\ Declared(frames[i].env) \subseteq Declared(Top.env)
    BY <1>1, <1>3, OuterLocals DEF Top
  <1>5. Declared(Top.env) \subseteq Declared(env)
    BY <1>1, <1>2 DEF Around, Declared
  <1>6. env.unstackified \cup env.temporaries \cup pending \subseteq Declared(env)
    BY <1>1 DEF Plain, Block
  <1>7. QED  BY <1>3, <1>4, <1>5, <1>6 DEF Top

\* A block in which no more of what is around it was dropped.
LEMMA KeptOn ==
  ASSUME NEW fs, NEW n, NEW p, NEW e, NEW t, Kept(fs, n, p, e, t),
         NEW q, NEW m, NEW u,
         e.temporaries \subseteq m.temporaries,
         \A i \in 1..n : q \cap Declared(fs[i].env) = {},
         u = "open" => t = "open" /\ \A i \in 1..n : fs[i].pending \cap m.unstackified
                                                       \subseteq e.unstackified
  PROVE  Kept(fs, n, q, m, u)
  <1> SUFFICES ASSUME NEW i \in 1..n
               PROVE  /\ fs[i].pending \subseteq m.temporaries
                      /\ u = "open" /\ OpenTo(fs, i + 1, n) => fs[i].pending \cap m.unstackified = {}
    BY DEF Kept
  <1>1. fs[i].pending \subseteq e.temporaries
        /\ (t = "open" /\ OpenTo(fs, i + 1, n) => fs[i].pending \cap e.unstackified = {})
    BY DEF Kept
  <1>2. QED  BY <1>1

\* The same constructs, but for what they remember of exits.
LEMMA KeptAlike ==
  ASSUME NEW fs, NEW gs, NEW n \in Nat, NEW p, NEW e, NEW t, Kept(fs, n, p, e, t),
         \A i \in 1..n : /\ gs[i].pending = fs[i].pending
                         /\ gs[i].env = fs[i].env
                         /\ gs[i].type = fs[i].type
  PROVE  Kept(gs, n, p, e, t)
  <1>1. \A i \in 1..n : OpenTo(gs, i + 1, n) => OpenTo(fs, i + 1, n)
    BY DEF OpenTo
  <1>2. QED  BY <1>1 DEF Kept

LEMMA FrameKeptAlike ==
  ASSUME NEW fs, NEW n \in Nat, NEW k \in 1..n, FrameKept(fs, k),
         NEW gs, \A i \in 1..k : /\ gs[i].pending = fs[i].pending
                               /\ gs[i].env = fs[i].env
                               /\ gs[i].type = fs[i].type
                               /\ gs[i].construct = fs[i].construct
                               /\ gs[i].arm = fs[i].arm
  PROVE  FrameKept(gs, k)
  <1>1. k \in Nat /\ k - 1 \in Nat /\ k \in 1..k /\ \A i \in 1..k-1 : i \in 1..k
    OBVIOUS
  <1>2. HeldIn(gs[k].pending, gs[k].env)
    BY <1>1 DEF FrameKept
  <1>3. Kept(gs, k - 1, gs[k].pending, gs[k].env, gs[k].type)
    BY <1>1, KeptAlike DEF FrameKept
  <1>4. gs[k].construct = "else" => Kept(gs, k, {}, gs[k].arm.env, gs[k].arm.type)
    BY <1>1, KeptAlike DEF FrameKept
  <1>5. QED  BY <1>2, <1>3, <1>4 DEF FrameKept

\* A step of the block.
LEMMA KeptInBlock ==
  ASSUME TemporariesKept, frames' = frames, HeldIn(pending', env'),
         Kept(frames, Len(frames), pending', env', type')
  PROVE  TemporariesKept'
  BY DEF TemporariesKept

LEMMA Unmoved ==
  ASSUME TemporariesKept, frames' = frames, env' = env, pending' = pending, type' = type
  PROVE  TemporariesKept'
  BY KeptInBlock DEF TemporariesKept

-----------------------------------------------------------------------------
LEMMA AddedKept ==
  ASSUME NoPanic, Translating, env.declared < MaxLocals,
         NEW temps, temps \subseteq {env.declared + 1},
         env' = [ declared |-> env.declared + 1, unstackified |-> env.unstackified,
                  restackified |-> env.restackified, temporaries |-> env.temporaries \cup temps ],
         pending' = pending \cup temps, UNCHANGED <<type, frames, verdict>>
  PROVE  TemporariesKept'
  <1>1. TemporariesKept /\ Tracked /\ verdict = "translating"
    BY DEF NoPanic, Translating
  <1>2. env.declared \in Nat
    BY <1>1, CoreFacts, EnvironmentTyped DEF Plain
  <1>3. temps \cap Declared(env) = {}
    BY <1>2 DEF Declared
  <1>4. env'.temporaries = env.temporaries \cup temps /\ env'.unstackified = env.unstackified
    OBVIOUS
  <1>5. \A i \in 1..Len(frames) : pending' \cap Declared(frames[i].env) = {}
    BY <1>1, <1>3, AroundHere DEF TemporariesKept, Kept
  <1>6. Kept(frames, Len(frames), pending', env', type')
    <2>1. Kept(frames, Len(frames), pending, env, type)
      BY <1>1 DEF TemporariesKept
    <2>2. type' = type /\ env.temporaries \subseteq env'.temporaries
      BY <1>4
    <2>3. \A i \in 1..Len(frames) : frames[i].pending \cap env'.unstackified \subseteq env.unstackified
      BY <1>4
    <2>4. QED  BY <2>1, <2>2, <2>3, <1>5, KeptOn
  <1>7. HeldIn(pending', env')
    BY <1>1, <1>3, <1>4, AroundHere DEF HeldIn, TemporariesKept
  <1>8. QED  BY <1>1, <1>6, <1>7, KeptInBlock

\* A step that empties live locals, none of them a temporary of a statement
\* around it.
LEMMA EmptiedKept ==
  ASSUME NoPanic, Translating, NEW locals, NEW e, e = mark_local_unstackified(env, locals),
         locals \subseteq Declared(env),
         NEW q, q \subseteq pending, q \cap locals = {},
         \A i \in 1..Len(frames) : frames[i].pending \cap locals = {}
  PROVE  HeldIn(q, e) /\ Kept(frames, Len(frames), q, e, type)
  <1>1. TemporariesKept /\ Tracked /\ verdict = "translating" /\ Plain(env)
    BY CoreFacts DEF NoPanic, Translating
  <1>2. e.temporaries = env.temporaries
    BY <1>1, SameTemporaries DEF Plain
  <1>3. e.unstackified = env.unstackified \cup locals
    BY <1>1, Unstackified
  <1>4. \A i \in 1..Len(frames) : q \cap Declared(frames[i].env) = {}
    BY <1>1 DEF TemporariesKept, Kept
  <1>5. Kept(frames, Len(frames), q, e, type)
    <2>1. Kept(frames, Len(frames), pending, env, type)
      BY <1>1 DEF TemporariesKept
    <2>2. \A i \in 1..Len(frames) : frames[i].pending \cap e.unstackified \subseteq env.unstackified
      BY <1>3
    <2>3. QED  BY <2>1, <2>2, <1>2, <1>4, KeptOn
  <1>6. HeldIn(q, e)
    BY <1>1, <1>2, <1>3 DEF HeldIn, TemporariesKept
  <1>7. QED  BY <1>5, <1>6

\* A step that fills a local again.
LEMMA FilledKept ==
  ASSUME NoPanic, Translating, NEW x, x \in env.unstackified,
         env' = mark_local_restackified(env, {x}),
         UNCHANGED <<pending, type, frames, verdict>>
  PROVE  TemporariesKept'
  <1>1. TemporariesKept /\ Tracked /\ verdict = "translating" /\ Plain(env)
    BY CoreFacts DEF NoPanic, Translating
  <1>2. env'.temporaries = env.temporaries
    BY <1>1, SameTemporaries DEF Plain
  <1>3. env'.unstackified \subseteq env.unstackified
    BY <1>1, Restackified
  <1>4. Kept(frames, Len(frames), pending', env', type')
    <2>1. Kept(frames, Len(frames), pending, env, type)
      BY <1>1 DEF TemporariesKept
    <2>2. \A i \in 1..Len(frames) : pending \cap Declared(frames[i].env) = {}
      BY <1>1 DEF TemporariesKept, Kept
    <2>3. QED  BY <2>1, <2>2, <1>2, <1>3, KeptOn
  <1>5. HeldIn(pending', env')
    BY <1>1, <1>2, <1>3 DEF HeldIn, TemporariesKept
  <1>6. QED  BY <1>1, <1>4, <1>5, KeptInBlock

\* A step after which the block is not open, at a point without temporaries.
LEMMA ClosedKept ==
  ASSUME NoPanic, Translating, pending = {}, NEW e, e.temporaries = env.temporaries,
         NEW t, t # "open"
  PROVE  HeldIn({}, e) /\ Kept(frames, Len(frames), {}, e, t)
  <1>1. Kept(frames, Len(frames), pending, env, type)
    BY DEF NoPanic, Translating, TemporariesKept
  <1>2. QED  BY <1>1, KeptOn DEF HeldIn

\* What the block leaves keeps the temporaries around it.
LEMMA KeptAtEnd ==
  ASSUME NoPanic, Translating, pending = {}
  PROVE  Kept(frames, Len(frames), {}, BlockEnv, BlockType)
  <1>1. TemporariesKept /\ Tracked /\ verdict = "translating" /\ Plain(env)
    BY CoreFacts DEF NoPanic, Translating
  <1>2. BlockLocals \cap Declared(Top.env) = {} /\ BlockLocals \subseteq Declared(env)
    BY DEF BlockLocals, get_live_variables_introduced_since
  <1>3. \A i \in 1..Len(frames) : frames[i].pending \cap BlockLocals = {}
    BY <1>1, <1>2, AroundHere
  <1>4. Kept(frames, Len(frames), {}, BlockEnv, type)
    BY <1>2, <1>3, EmptiedKept DEF BlockEnv
  <1>5. BlockType = "open" => type = "open"
    BY <1>1, BlockEnded
  <1>6. QED  BY <1>4, <1>5, KeptOn

-----------------------------------------------------------------------------
\* Back in the block around the construct.
LEMMA ResumedKept ==
  ASSUME NoPanic, Translating, Top.construct # "function", Plain(Top.env), NEW e,
         e.temporaries = Top.env.temporaries,
         NEW t, NEW ws, NEW flt, Resume(e, t, ws, flt),
         t = "open" => \A i \in 1..Len(frames) :
                         OpenTo(frames, i + 1, Len(frames)) => frames[i].pending \cap e.unstackified = {}
  PROVE  TemporariesKept'
  <1> DEFINE n == Len(frames)
  <1>1. TemporariesKept /\ Tracked /\ verdict = "translating"
    BY DEF NoPanic, Translating
  <1>2. /\ Top.pending = {} \/ t = "open"
        /\ env' = e /\ pending' = Top.pending /\ type' = FirstNever(Top.type, t)
        /\ frames' = Outer
    BY DEF Resume
  <1>3. n \in Nat /\ n > 1 /\ frames \in Seq(Frames) /\ frames[n] = Top
    BY <1>1, CoreFacts, TopFrame DEF Top
  <1>4. Outer \in Seq(Frames) /\ Len(Outer) = n - 1 /\ \A i \in 1..n-1 : Outer[i] = frames[i]
    BY <1>3 DEF Outer
  <1>5. /\ HeldIn(Top.pending, Top.env)
        /\ Kept(frames, n - 1, Top.pending, Top.env, Top.type)
    BY <1>1, <1>3 DEF TemporariesKept, FrameKept
  <1> HIDE DEF n
  <1>6. HeldIn(pending', env')
    <2>1. CASE t = "open"
      <3>1. n + 1 .. n = {}
        BY <1>3
      <3>2. OpenTo(frames, n + 1, n)
        BY <3>1 DEF OpenTo
      <3>3. Top.pending \cap e.unstackified = {}
        BY <1>3, <2>1, <3>2 DEF n
      <3>4. QED  BY <1>2, <1>5, <3>3 DEF HeldIn
    <2>2. CASE Top.pending = {}
      BY <1>2, <2>2 DEF HeldIn
    <2>3. QED  BY <1>2, <2>1, <2>2
  <1>7. ASSUME NEW i \in 1..n-1
        PROVE  /\ frames[i].pending \subseteq e.temporaries
               /\ Top.pending \cap Declared(frames[i].env) = {}
               /\ type' = "open" /\ OpenTo(frames, i + 1, n - 1) => frames[i].pending \cap e.unstackified = {}
    <2>1. /\ frames[i].pending \subseteq e.temporaries
          /\ Top.pending \cap Declared(frames[i].env) = {}
      BY <1>5 DEF Kept
    <2>2. ASSUME type' = "open", OpenTo(frames, i + 1, n - 1)
          PROVE  frames[i].pending \cap e.unstackified = {}
      <3>1. Top.type = "open" /\ t = "open"
        BY <1>2, <2>2 DEF FirstNever
      <3>2. i \in 1..n /\ \A j \in i + 1 .. n : j = n \/ j \in i + 1 .. n - 1
        BY <1>3
      <3>3. OpenTo(frames, i + 1, n)
        BY <1>3, <2>2, <3>1, <3>2 DEF OpenTo
      <3>4. QED  BY <3>1, <3>2, <3>3 DEF n
    <2>3. QED  BY <2>1, <2>2
  <1>8. Kept(frames, n - 1, Top.pending, e, type')
    BY <1>7 DEF Kept
  <1>9. Kept(frames', Len(frames'), pending', env', type')
    <2>1. n - 1 \in Nat
      BY <1>3
    <2>2. QED  BY <1>2, <1>4, <1>8, <2>1, KeptAlike
  <1>10. ASSUME NEW k \in 1..Len(frames')
         PROVE  FrameKept(frames', k)
    <2>1. k \in 1..n /\ \A i \in 1..k : frames'[i] = frames[i]
      BY <1>2, <1>3, <1>4
    <2>2. FrameKept(frames, k)
      BY <1>1, <2>1 DEF TemporariesKept, n
    <2>3. QED  BY <1>3, <2>1, <2>2, FrameKeptAlike
  <1>11. QED  BY <1>6, <1>9, <1>10 DEF TemporariesKept

\* A construct begins, or the else arm of an if after its then arm.
LEMMA EnteredKept ==
  ASSUME NEW os, os \in Seq(Frames), NEW n \in Nat, Len(os) = n,
         NEW f, HeldIn(f.pending, f.env),
         Kept(os, n, f.pending, f.env, f.type),
         f.construct = "else" => Kept(Append(os, f), n + 1, {}, f.arm.env, f.arm.type),
         \A k \in 1..n : FrameKept(os, k),
         frames' = Append(os, f), pending' = {}, type' = "open", env' = f.env
  PROVE  TemporariesKept'
  <1> DEFINE gs == Append(os, f)
  <1>1. /\ Len(gs) = n + 1 /\ gs[n + 1] = f /\ \A i \in 1..n : gs[i] = os[i]
    <2>1. os \in Seq(Frames \cup {f})
      OBVIOUS
    <2>2. QED  BY <2>1
  <1> HIDE DEF gs
  <1>2. Kept(gs, n, f.pending, f.env, f.type)
    BY <1>1, KeptAlike
  <1>3. ASSUME NEW k \in 1..n+1
        PROVE  FrameKept(gs, k)
    <2>1. CASE k = n + 1
      <3>1. k - 1 = n
        BY <2>1
      <3>2. QED  BY <1>1, <1>2, <2>1, <3>1 DEF gs, FrameKept
    <2>2. CASE k \in 1..n
      <3>1. \A i \in 1..k : gs[i] = os[i]
        BY <1>1, <2>2
      <3>2. QED  BY <2>2, <3>1, FrameKeptAlike
    <2>3. QED  BY <2>1, <2>2
  <1>4. ASSUME NEW i \in 1..n+1
        PROVE  /\ gs[i].pending \subseteq f.env.temporaries
               /\ OpenTo(gs, i + 1, n + 1) => gs[i].pending \cap f.env.unstackified = {}
    <2>1. CASE i = n + 1
      BY <1>1, <2>1 DEF HeldIn
    <2>2. CASE i \in 1..n
      <3>1. gs[i].pending \subseteq f.env.temporaries
        BY <1>2, <2>2 DEF Kept
      <3>2. ASSUME OpenTo(gs, i + 1, n + 1)
            PROVE  f.type = "open" /\ OpenTo(gs, i + 1, n)
        BY <1>1, <2>2, <3>2 DEF OpenTo
      <3>3. QED  BY <1>2, <2>2, <3>1, <3>2 DEF Kept
    <2>3. QED  BY <2>1, <2>2
  <1>5. Kept(gs, n + 1, {}, f.env, "open")
    BY <1>4 DEF Kept
  <1>6. HeldIn({}, f.env)
    BY DEF HeldIn
  <1>7. QED  BY <1>1, <1>3, <1>5, <1>6 DEF TemporariesKept, gs

-----------------------------------------------------------------------------
(* Statements and expressions *)

LEMMA LetKept ==
  ASSUME NoPanic, Let
  PROVE  NeverPanics' /\ TemporariesKept'
  <1>1. Translating /\ Tracked /\ verdict' = verdict
    BY DEF NoPanic, Let, InBlock
  <1>2. env \in Environments
    BY <1>1, CoreFacts DEF Translating, Plain
  <1>3. env' = [ declared |-> env.declared + 1, unstackified |-> env.unstackified,
                 restackified |-> env.restackified, temporaries |-> env.temporaries \cup {} ]
    BY <1>2, AddedVariable DEF Let
  <1>4. pending' = pending \cup {} /\ {} \subseteq {env.declared + 1} /\ env.declared < MaxLocals
        /\ UNCHANGED <<type, frames, verdict>>
    BY DEF Let
  <1>5. TemporariesKept'
    BY <1>1, <1>3, <1>4, AddedKept
  <1>6. QED  BY <1>1, <1>5 DEF NeverPanics, Translating

LEMMA MakeTemporaryLocalBorrowKept ==
  ASSUME NoPanic, MakeTemporaryLocalBorrow
  PROVE  NeverPanics' /\ TemporariesKept'
  <1>1. Translating /\ Tracked /\ verdict' = verdict
    BY DEF NoPanic, MakeTemporaryLocalBorrow, InBlock
  <1>2. env \in Environments
    BY <1>1, CoreFacts DEF Translating, Plain
  <1>3. env' = [ declared |-> env.declared + 1, unstackified |-> env.unstackified,
                 restackified |-> env.restackified,
                 temporaries |-> env.temporaries \cup {env.declared + 1} ]
    BY <1>2, AddedTemporary DEF MakeTemporaryLocalBorrow
  <1>4. TemporariesKept'
    BY <1>1, <1>3, AddedKept DEF MakeTemporaryLocalBorrow
  <1>5. QED  BY <1>1, <1>4 DEF NeverPanics, Translating

\* The program is rejected, and nothing else changes.
LEMMA RejectedKept ==
  ASSUME NoPanic, Translating, NEW v, Verdict(v), v # "panicked"
  PROVE  NeverPanics' /\ TemporariesKept'
  BY Unmoved DEF NoPanic, Translating, Verdict, NeverPanics

LEMMA LocalLoadKept ==
  ASSUME NoPanic, LocalLoad
  PROVE  NeverPanics' /\ TemporariesKept'
  <1>1. PICK x \in Named :
          /\ InBlock
          /\ IF x \in env.unstackified THEN Verdict("CantUseUnstackifiedLocal")
             ELSE /\ Faulting(Needs({x}), "used after move")
                  /\ UNCHANGED <<env, pending, type, frames, verdict, worlds>>
    BY DEF LocalLoad
  <1>2. CASE x \in env.unstackified
    BY <1>1, <1>2, RejectedKept DEF InBlock
  <1>3. CASE x \notin env.unstackified
    BY <1>1, <1>3, Unmoved DEF NoPanic, InBlock, Translating, NeverPanics
  <1>4. QED  BY <1>2, <1>3

LEMMA UnletKept ==
  ASSUME NoPanic, Unlet, Admitted = {}
  PROVE  NeverPanics' /\ TemporariesKept'
  <1>1. PICK x \in Named :
          /\ InBlock
          /\ x \notin env.unstackified
          /\ env' = mark_local_unstackified(env, {x})
          /\ UNCHANGED <<pending, type, frames, verdict>>
    BY DEF Unlet
  <1>2. x \notin env.temporaries /\ {x} \subseteq Declared(env)
    BY DEF Named
  <1>3. TemporariesKept /\ Translating
    BY <1>1 DEF NoPanic, InBlock, Translating
  <1>4. pending \cap {x} = {} /\ \A i \in 1..Len(frames) : frames[i].pending \cap {x} = {}
    BY <1>2, <1>3 DEF TemporariesKept, HeldIn, Kept
  <1>5. HeldIn(pending', env') /\ Kept(frames, Len(frames), pending', env', type')
    BY <1>1, <1>2, <1>3, <1>4, EmptiedKept
  <1>6. TemporariesKept'
    BY <1>1, <1>3, <1>5, KeptInBlock
  <1>7. QED  BY <1>1, <1>3, <1>6 DEF Translating, NeverPanics

LEMMA LocalMutateKept ==
  ASSUME NoPanic, LocalMutate
  PROVE  NeverPanics' /\ TemporariesKept'
  <1>1. PICK x \in Named :
          /\ InBlock
          /\ IF x \in env.unstackified
             THEN /\ env' = mark_local_restackified(env, {x})
                  /\ UNCHANGED <<pending, type, frames, verdict>>
             ELSE UNCHANGED <<env, pending, type, frames, verdict, worlds>>
    BY DEF LocalMutate
  <1>2. Translating /\ TemporariesKept /\ NeverPanics'
    BY <1>1 DEF NoPanic, InBlock, Translating, NeverPanics
  <1>3. CASE x \in env.unstackified
    BY <1>1, <1>2, <1>3, FilledKept
  <1>4. CASE x \notin env.unstackified
    BY <1>1, <1>2, <1>4, Unmoved
  <1>5. QED  BY <1>2, <1>3, <1>4

LEMMA RestackifyKept ==
  ASSUME NoPanic, Restackify, Admitted = {}
  PROVE  NeverPanics' /\ TemporariesKept'
  <1>1. env.restackified = {}
    BY CoreFacts DEF NoPanic, Restackify, InBlock, Translating, Plain
  <1>2. PICK x \in Named :
          /\ InBlock
          /\ x \in env.unstackified
          /\ env' = mark_local_restackified(env, {x})
          /\ UNCHANGED <<pending, type, frames, verdict>>
    BY <1>1 DEF Restackify
  <1>3. Translating /\ NeverPanics'
    BY <1>2 DEF InBlock, Translating, NeverPanics
  <1>4. QED  BY <1>2, <1>3, FilledKept

LEMMA EndStatementKept ==
  ASSUME NoPanic, EndStatement
  PROVE  NeverPanics' /\ TemporariesKept'
  <1>1. TemporariesKept /\ Translating /\ Tracked /\ verdict = "translating"
    BY DEF NoPanic, EndStatement, Translating
  <1>2. pending \cap env.unstackified = {}
    BY <1>1 DEF TemporariesKept, HeldIn
  <1>3. /\ env' = mark_local_unstackified(env, pending)
        /\ pending' = {} /\ UNCHANGED <<type, frames, verdict>>
    BY <1>2 DEF EndStatement
  <1>4. ASSUME NEW i \in 1..Len(frames)
        PROVE  frames[i].pending \cap pending = {}
    <2>1. frames[i].pending \subseteq Declared(frames[i].env)
      BY <1>1, CoreFacts DEF Nested, FrameOK, Block
    <2>2. pending \cap Declared(frames[i].env) = {}
      BY <1>1 DEF TemporariesKept, Kept
    <2>3. QED  BY <2>1, <2>2
  <1>5. pending \subseteq Declared(env)
    BY <1>1, AroundHere
  <1>6. HeldIn({}, env') /\ Kept(frames, Len(frames), {}, env', type)
    BY <1>1, <1>3, <1>4, <1>5, EmptiedKept
  <1>7. TemporariesKept'
    BY <1>1, <1>3, <1>6, KeptInBlock
  <1>8. QED  BY <1>1, <1>3, <1>7 DEF Translating, NeverPanics

LEMMA CallPanicKept ==
  ASSUME NoPanic, CallPanic
  PROVE  NeverPanics' /\ TemporariesKept'
  <1>1. Translating /\ TemporariesKept /\ pending = {} /\ pending' = {} /\ env' = env
        /\ frames' = frames /\ verdict' = verdict
    BY DEF NoPanic, CallPanic, InBlock, Translating
  <1>2. type' # "open"
    BY DEF CallPanic, FirstNever
  <1>3. QED  BY <1>1, <1>2, ClosedKept, KeptInBlock DEF Translating, NeverPanics

LEMMA ReturnKept ==
  ASSUME NoPanic, Return
  PROVE  NeverPanics' /\ TemporariesKept'
  <1>1. Translating /\ TemporariesKept /\ pending = {} /\ pending' = {}
        /\ env' = mark_local_unstackified(env, Live(env))
        /\ frames' = frames /\ verdict' = verdict
    BY DEF NoPanic, Return, InBlock, Translating
  <1>2. env'.temporaries = env.temporaries
    BY <1>1, CoreFacts, SameTemporaries DEF NoPanic, Translating, Plain
  <1>3. type' # "open"
    BY DEF Return
  <1>4. QED  BY <1>1, <1>2, <1>3, ClosedKept, KeptInBlock DEF Translating, NeverPanics

LEMMA BreakKept ==
  ASSUME NoPanic, Break
  PROVE  NeverPanics' /\ TemporariesKept'
  <1> DEFINE k == NearestLoop
             locals == get_live_variables_introduced_since(env, frames[k].env)
             left == Without(worlds, locals)
  <1>1. Translating /\ TemporariesKept /\ pending = {} /\ Loops # {} /\ Tracked
        /\ verdict = "translating"
    BY DEF NoPanic, Break, InBlock, Translating
  <1>2. locals \cap env.unstackified = {}
    BY DEF get_live_variables_introduced_since
  <1>3. /\ env' = mark_local_unstackified(env, locals)
        /\ frames' = [frames EXCEPT ![k].exits = @ \cup left]
        /\ type' = FirstNever(type, "break") /\ pending' = {} /\ verdict' = verdict
    BY <1>1, <1>2 DEF Break
  <1> HIDE DEF locals, left
  <1>4. k \in 1..Len(frames) /\ frames \in Seq(Frames) /\ Len(frames) \in Nat
    BY <1>1, CoreFacts, NearestLoopFound, AroundHere
  <1> HIDE DEF k
  <1>5. /\ Len(frames') = Len(frames)
        /\ \A i \in 1..Len(frames) : /\ frames'[i].pending = frames[i].pending
                                     /\ frames'[i].env = frames[i].env
                                     /\ frames'[i].type = frames[i].type
                                     /\ frames'[i].construct = frames[i].construct
                                     /\ frames'[i].arm = frames[i].arm
    <2>1. frames[k] \in Frames
      BY <1>4
    <2> DEFINE f == [frames[k] EXCEPT !.exits = @ \cup left]
    <2>2. /\ f.pending = frames[k].pending /\ f.env = frames[k].env /\ f.type = frames[k].type
          /\ f.construct = frames[k].construct /\ f.arm = frames[k].arm
      BY <2>1 DEF Frames
    <2>3. frames' = [frames EXCEPT ![k] = f]
      BY <1>3, <1>4
    <2> HIDE DEF f
    <2>4. QED  BY <1>4, <2>2, <2>3
  <1>6. env'.temporaries = env.temporaries
    BY <1>1, <1>3, CoreFacts, SameTemporaries DEF Plain
  <1>7. type' # "open"
    BY <1>3 DEF FirstNever
  <1>8. HeldIn({}, env') /\ Kept(frames, Len(frames), {}, env', type')
    BY <1>1, <1>6, <1>7, ClosedKept
  <1>9. Kept(frames', Len(frames'), pending', env', type')
    <2> DEFINE n == Len(frames)
    <2>1. n \in Nat /\ Kept(frames, n, {}, env', type')
          /\ \A i \in 1..n : /\ frames'[i].pending = frames[i].pending
                             /\ frames'[i].env = frames[i].env
                             /\ frames'[i].type = frames[i].type
      BY <1>4, <1>5, <1>8
    <2>2. Len(frames') = n /\ pending' = {}
      BY <1>3, <1>5
    <2> HIDE DEF n
    <2>3. Kept(frames', n, {}, env', type')
      BY <2>1, KeptAlike
    <2>4. QED  BY <2>2, <2>3
  <1>10. ASSUME NEW j \in 1..Len(frames)
         PROVE  FrameKept(frames', j)
    <2>1. FrameKept(frames, j)
      BY <1>1 DEF TemporariesKept
    <2>2. \A i \in 1..j : i \in 1..Len(frames)
      BY <1>4
    <2>3. QED  BY <1>4, <1>5, <2>1, <2>2, FrameKeptAlike
  <1>11. QED  BY <1>1, <1>3, <1>5, <1>8, <1>9, <1>10 DEF TemporariesKept, NeverPanics

-----------------------------------------------------------------------------
(* Blocks *)

LEMMA EnterKept ==
  ASSUME NoPanic, NEW construct \in {"block", "then", "while"}, NEW exits, Enter(construct, exits)
  PROVE  NeverPanics' /\ TemporariesKept'
  <1> DEFINE f == Frame(construct, exits, NoArm)
             n == Len(frames)
  <1>1. Translating /\ TemporariesKept /\ verdict' = verdict /\ Tracked /\ verdict = "translating"
    BY DEF NoPanic, Enter, InBlock, Translating
  <1>2. /\ frames' = Append(frames, f) /\ pending' = {} /\ type' = "open" /\ env' = env
    BY DEF Enter
  <1>3. f.pending = pending /\ f.env = env /\ f.type = type /\ f.construct = construct
    BY DEF Frame
  <1> HIDE DEF f
  <1>4. frames \in Seq(Frames) /\ n \in Nat
    BY <1>1, AroundHere
  <1>5. /\ HeldIn(f.pending, f.env) /\ Kept(frames, n, f.pending, f.env, f.type)
        /\ f.construct # "else" /\ \A k \in 1..n : FrameKept(frames, k)
    BY <1>1, <1>3 DEF TemporariesKept
  <1>6. TemporariesKept'
    BY <1>2, <1>3, <1>4, <1>5, EnteredKept
  <1>7. QED  BY <1>1, <1>6 DEF NeverPanics

LEMMA PropagatedTemporaries ==
  ASSUME NEW e, Plain(e), NEW effects, effects.restackified = {},
         effects.unstackified \subseteq Declared(e)
  PROVE  Propagated(e, effects).temporaries = e.temporaries
  <1> DEFINE u == mark_local_unstackified(e, effects.unstackified)
  <1>1. u.temporaries = e.temporaries /\ Plain(u)
    BY SameTemporaries, Unstackified DEF Plain
  <1>2. Propagated(e, effects) = mark_local_restackified(u, {})
    BY DEF Propagated
  <1> HIDE DEF u
  <1>3. QED  BY <1>1, <1>2, SameTemporaries DEF Plain

\* The parent's environment after the effects of a block or an arm, which kept
\* the temporaries around it.
LEMMA EffectsKept ==
  ASSUME NoPanic, Translating, NEW e, Plain(e), Kept(frames, Len(frames), {}, e, "open"),
         NEW effects, effects = get_effects_since(e, Top.env),
         Top.env.unstackified \subseteq e.unstackified
  PROVE  \A i \in 1..Len(frames) :
           OpenTo(frames, i + 1, Len(frames)) =>
             frames[i].pending \cap Propagated(Top.env, effects).unstackified = {}
  <1> DEFINE m == Propagated(Top.env, effects)
  <1>1. Plain(Top.env)
    BY CoreFacts DEF NoPanic, Translating
  <1>2. /\ effects.restackified = {} /\ effects.unstackified \subseteq e.unstackified
        /\ effects.unstackified \subseteq Declared(Top.env)
    BY <1>1, EffectsOnOuter
  <1>3. m.unstackified = Top.env.unstackified \cup effects.unstackified
    BY <1>1, <1>2, PropagatedEffects
  <1>4. m.unstackified \subseteq e.unstackified
    BY <1>2, <1>3
  <1> HIDE DEF m
  <1>5. QED  BY <1>4 DEF Kept, m

\* None of the constructs' own asserts fails.
LEMMA NoPropagationPanic ==
  ASSUME NEW e, Plain(e), NEW effects, effects.restackified = {}
  PROVE  ~PropagationPanics(e, effects)
  BY DEF PropagationPanics

LEMMA LeaveBlockKept ==
  ASSUME NoPanic, LeaveBlock
  PROVE  NeverPanics' /\ TemporariesKept'
  <1> DEFINE effects == get_effects_since(BlockEnv, Top.env)
             e == Propagated(Top.env, effects)
  <1>1. Translating /\ Tracked /\ verdict = "translating" /\ pending = {} /\ Top.construct = "block"
        /\ Plain(Top.env)
    BY CoreFacts DEF NoPanic, LeaveBlock, BlockEnds, Translating
  <1>2. ~BlockPanics /\ Plain(BlockEnv) /\ Top.env.unstackified \subseteq BlockEnv.unstackified
    BY <1>1, BlockEnded
  <1>3. ~PropagationPanics(Top.env, effects)
    BY <1>1, <1>2, EffectsOnOuter, NoPropagationPanic
  <1>4. Resume(e, BlockType, BlockWorlds, BlockFault)
    BY <1>2, <1>3 DEF LeaveBlock
  <1>5. Kept(frames, Len(frames), {}, BlockEnv, BlockType)
    BY <1>1, KeptAtEnd
  <1>6. e.temporaries = Top.env.temporaries
    BY <1>1, <1>2, EffectsOnOuter, PropagatedTemporaries
  <1>7. BlockType = "open" => \A i \in 1..Len(frames) :
          OpenTo(frames, i + 1, Len(frames)) => frames[i].pending \cap e.unstackified = {}
    BY <1>1, <1>2, <1>5, EffectsKept
  <1> HIDE DEF e
  <1>8. TemporariesKept'
    BY <1>1, <1>4, <1>6, <1>7, ResumedKept
  <1>9. QED  BY <1>1, <1>4, <1>8 DEF Resume, NeverPanics
LEMMA LeaveThenKept ==
  ASSUME NoPanic, LeaveThen
  PROVE  NeverPanics' /\ TemporariesKept'
  <1> DEFINE arm == [env |-> BlockEnv, type |-> BlockType, worlds |-> BlockWorlds]
             f == [Top EXCEPT !.construct = "else", !.arm = arm]
             n == Len(frames)
  <1>1. /\ Translating /\ Tracked /\ verdict = "translating" /\ pending = {}
        /\ Top.construct = "then" /\ Top \in Frames /\ TemporariesKept /\ Nested(frames)
    BY CoreFacts DEF NoPanic, LeaveThen, BlockEnds, Translating
  <1>2. ~BlockPanics
    BY <1>1, BlockEnded
  <1>3. /\ frames' = Append(Outer, f) /\ env' = Top.env /\ pending' = {} /\ type' = "open"
        /\ verdict' = verdict
    BY <1>2 DEF LeaveThen
  <1>4. arm.env = BlockEnv /\ arm.type = BlockType
    OBVIOUS
  <1> HIDE DEF arm
  <1>5. /\ f.pending = Top.pending /\ f.env = Top.env /\ f.type = Top.type
        /\ f.construct = "else" /\ f.arm = arm
    BY <1>1 DEF Frames
  <1> HIDE DEF f
  <1>6. n \in Nat /\ n > 1 /\ frames \in Seq(Frames) /\ frames[n] = Top
    BY <1>1, TopFrame DEF Top
  <1>7. n - 1 \in Nat /\ Outer \in Seq(Frames) /\ Len(Outer) = n - 1
        /\ \A i \in 1..n-1 : Outer[i] = frames[i] /\ i \in 1..n
    BY <1>6 DEF Outer
  <1>8. FrameKept(frames, n)
    BY <1>1, <1>6 DEF TemporariesKept
  <1>9. Kept(frames, n, {}, BlockEnv, BlockType)
    BY <1>1, KeptAtEnd
  <1> HIDE DEF n
  <1>10. HeldIn(f.pending, f.env) /\ Kept(Outer, n - 1, f.pending, f.env, f.type)
    <2>1. HeldIn(Top.pending, Top.env) /\ Kept(frames, n - 1, Top.pending, Top.env, Top.type)
      BY <1>6, <1>8 DEF FrameKept
    <2>2. QED  BY <1>5, <1>7, <2>1, KeptAlike
  <1>11. Kept(Append(Outer, f), n, {}, f.arm.env, f.arm.type)
    <2> DEFINE gs == Append(Outer, f)
    <2>1. gs[n] = f /\ \A i \in 1..n-1 : gs[i] = frames[i]
      <3>1. Outer \in Seq(Frames \cup {f})
        BY <1>7
      <3>2. QED  BY <1>6, <1>7, <3>1
    <2> HIDE DEF gs
    <2>2. \A i \in 1..n : /\ gs[i].pending = frames[i].pending
                         /\ gs[i].env = frames[i].env
                         /\ gs[i].type = frames[i].type
      <3>1. \A i \in 1..n : i = n \/ i \in 1..n-1
        BY <1>6
      <3>2. QED  BY <1>5, <1>6, <2>1, <3>1
    <2>3. Kept(gs, n, {}, BlockEnv, BlockType)
      BY <1>6, <1>9, <2>2, KeptAlike
    <2>4. QED  BY <1>4, <1>5, <2>3 DEF gs
  <1>12. ASSUME NEW k \in 1..n-1
         PROVE  FrameKept(Outer, k)
    <2>1. FrameKept(frames, k) /\ \A i \in 1..k : Outer[i] = frames[i]
      BY <1>1, <1>7 DEF TemporariesKept, n
    <2>2. QED  BY <1>7, <2>1, FrameKeptAlike
  <1>13. TemporariesKept'
    <2>1. (n - 1) + 1 = n
      BY <1>6
    <2>2. QED  BY <1>3, <1>5, <1>7, <1>10, <1>11, <1>12, <2>1, EnteredKept
  <1>14. QED  BY <1>1, <1>3, <1>13 DEF NeverPanics

LEMMA LeaveIfKept ==
  ASSUME NoPanic, LeaveIf
  PROVE  NeverPanics' /\ TemporariesKept'
  <1> DEFINE onThen == get_effects_since(Top.arm.env, Top.env)
             onElse == get_effects_since(BlockEnv, Top.env)
             t == Top.arm.type
             e == BlockType
             joined == JoinedEffects(t, e, onThen, onElse)
             m == Propagated(Top.env, joined)
             ws == Top.arm.worlds \cup BlockWorlds
  <1>1. /\ Translating /\ Tracked /\ verdict = "translating" /\ pending = {}
        /\ Top.construct = "else" /\ Plain(Top.env) /\ TemporariesKept /\ ThenArm(Top)
    BY CoreFacts DEF NoPanic, LeaveIf, BlockEnds, Translating, FrameOK
  <1>2. /\ ~BlockPanics /\ Plain(BlockEnv) /\ Top.env.unstackified \subseteq BlockEnv.unstackified
    BY <1>1, BlockEnded
  <1>3. Plain(Top.arm.env) /\ Top.env.unstackified \subseteq Top.arm.env.unstackified
    BY <1>1 DEF ThenArm
  <1>4. /\ onThen.restackified = {} /\ onElse.restackified = {}
        /\ onThen.unstackified \subseteq Declared(Top.env)
        /\ onElse.unstackified \subseteq Declared(Top.env)
    BY <1>1, <1>2, <1>3, EffectsOnOuter
  <1>5. joined \in {onThen, onElse}
    BY DEF JoinedEffects
  <1>6. ~PropagationPanics(Top.env, joined)
    BY <1>1, <1>4, <1>5, NoPropagationPanic
  <1>7. \/ Verdict("MustMoveSameVariables")
        \/ Resume(m, CommonType(t, e), ws, BlockFault)
    BY <1>2, <1>4, <1>6 DEF LeaveIf
  <1>8. CASE Verdict("MustMoveSameVariables")
    BY <1>1, <1>8, RejectedKept
  <1>9. CASE Resume(m, CommonType(t, e), ws, BlockFault)
    <2>1. m.temporaries = Top.env.temporaries
      BY <1>1, <1>4, <1>5, PropagatedTemporaries
    <2>2. ASSUME CommonType(t, e) = "open"
          PROVE  \A i \in 1..Len(frames) :
                   OpenTo(frames, i + 1, Len(frames)) => frames[i].pending \cap m.unstackified = {}
      <3>1. \/ t = "open" /\ joined = onThen
            \/ e = "open" /\ joined = onElse
        BY <2>2 DEF CommonType, JoinedEffects
      <3>2. CASE t = "open" /\ joined = onThen
        <4>1. Kept(frames, Len(frames), {}, Top.arm.env, "open")
          <5>1. Len(frames) \in 1..Len(frames)
            BY <1>1, AroundHere
          <5>2. FrameKept(frames, Len(frames))
            BY <1>1, <5>1 DEF TemporariesKept
          <5>3. QED  BY <1>1, <3>2, <5>2 DEF FrameKept, Top
        <4> HIDE DEF joined, m
        <4>2. QED  BY <1>1, <1>3, <3>2, <4>1, EffectsKept DEF m
      <3>3. CASE e = "open" /\ joined = onElse
        <4>1. Kept(frames, Len(frames), {}, BlockEnv, "open")
          BY <1>1, <3>3, KeptAtEnd
        <4> HIDE DEF joined, m
        <4>2. QED  BY <1>1, <1>2, <3>3, <4>1, EffectsKept DEF m
      <3>4. QED  BY <3>1, <3>2, <3>3
    <2> HIDE DEF m, ws, t, e
    <2>3. TemporariesKept'
      BY <1>1, <1>9, <2>1, <2>2, ResumedKept
    <2>4. QED  BY <1>1, <1>9, <2>3 DEF Resume, NeverPanics
  <1>10. QED  BY <1>7, <1>8, <1>9

LEMMA LeaveWhileKept ==
  ASSUME NoPanic, LeaveWhile
  PROVE  NeverPanics' /\ TemporariesKept'
  <1>1. /\ Translating /\ Tracked /\ verdict = "translating" /\ pending = {}
        /\ Top.construct = "while" /\ Plain(Top.env) /\ TemporariesKept
    BY CoreFacts DEF NoPanic, LeaveWhile, BlockEnds, Translating
  <1>2. ~BlockPanics /\ get_effects_since(BlockEnv, Top.env).restackified = {}
    BY <1>1, BlockEnded, EffectsOnOuter
  <1>3. \/ Verdict("CantUnstackifyOutsideLocalFromInsideWhile")
        \/ \E flt : Resume(Top.env, LoopType, Top.exits \cup BlockWorlds, flt)
    BY <1>2 DEF LeaveWhile
  <1>4. CASE Verdict("CantUnstackifyOutsideLocalFromInsideWhile")
    BY <1>1, <1>4, RejectedKept
  <1>5. CASE \E flt : Resume(Top.env, LoopType, Top.exits \cup BlockWorlds, flt)
    <2>1. PICK flt : Resume(Top.env, LoopType, Top.exits \cup BlockWorlds, flt)
      BY <1>5
    <2> DEFINE n == Len(frames)
    <2>2. n \in Nat /\ n \in 1..n /\ frames[n] = Top
      BY <1>1, AroundHere
    <2>3. FrameKept(frames, n)
      BY <1>1, <2>2 DEF TemporariesKept
    <2> HIDE DEF n
    <2>4. HeldIn(Top.pending, Top.env) /\ Kept(frames, n - 1, Top.pending, Top.env, Top.type)
      BY <2>2, <2>3 DEF FrameKept
    <2>5. ASSUME NEW i \in 1..n, OpenTo(frames, i + 1, n)
          PROVE  frames[i].pending \cap Top.env.unstackified = {}
      <3>1. CASE i = n
        BY <2>2, <2>4, <3>1 DEF HeldIn
      <3>2. CASE i # n
        <4>1. i \in 1..n-1 /\ n \in i + 1 .. n /\ \A j \in i + 1 .. n - 1 : j \in i + 1 .. n
          BY <2>2, <3>2
        <4>2. Top.type = "open" /\ OpenTo(frames, i + 1, n - 1)
          BY <2>2, <2>5, <4>1 DEF OpenTo
        <4>3. QED  BY <2>4, <4>1, <4>2 DEF Kept
      <3>3. QED  BY <3>1, <3>2
    <2>6. TemporariesKept'
      BY <1>1, <2>1, <2>5, ResumedKept DEF n
    <2>7. QED  BY <1>1, <2>1, <2>6 DEF Resume, NeverPanics
  <1>6. QED  BY <1>3, <1>4, <1>5

LEMMA LeaveFunctionKept ==
  ASSUME NoPanic, LeaveFunction
  PROVE  NeverPanics' /\ verdict' = "accepted"
  <1>1. ~BlockPanics
    BY BlockEnded DEF NoPanic, LeaveFunction, BlockEnds
  <1>2. QED  BY <1>1 DEF LeaveFunction, NeverPanics

LEMMA InitNoPanic ==
  ASSUME Init
  PROVE  NoPanic
  <1>1. Tracked /\ NeverPanics /\ frames \in Seq(Frames)
    BY InitTracked DEF Init, NeverPanics, Tracked, Core, Nested
  <1>2. pending = {} /\ Len(frames) = 1 /\ frames[1].pending = {} /\ frames[1].construct = "function"
    BY DEF Init
  <1>3. 1..1 = {1} /\ 1..0 = {}
    OBVIOUS
  <1>4. HeldIn(pending, env) /\ HeldIn(frames[1].pending, frames[1].env)
    BY <1>2 DEF HeldIn
  <1>5. Kept(frames, 1, pending, env, type)
    BY <1>2, <1>3 DEF Kept
  <1>6. FrameKept(frames, 1)
    BY <1>2, <1>3, <1>4 DEF FrameKept, Kept
  <1>7. QED  BY <1>1, <1>2, <1>3, <1>4, <1>5, <1>6 DEF NoPanic, TemporariesKept

LEMMA NextNoPanic ==
  ASSUME NoPanic, Next, Admitted = {}
  PROVE  NoPanic'
  <1>1. Tracked'
    BY NextTracked DEF NoPanic
  <1>2. NeverPanics' /\ (TemporariesKept' \/ verdict' = "accepted")
    BY LetKept, LocalLoadKept, UnletKept, LocalMutateKept, RestackifyKept,
       MakeTemporaryLocalBorrowKept, EndStatementKept, CallPanicKept, ReturnKept, BreakKept,
       EnterKept, LeaveBlockKept, LeaveThenKept, LeaveIfKept, LeaveWhileKept, LeaveFunctionKept
       DEF Next, EnterBlock, EnterIf, EnterWhile
  <1>3. QED  BY <1>1, <1>2 DEF NoPanic

LEMMA StutterNoPanic ==
  ASSUME NoPanic, UNCHANGED vars
  PROVE  NoPanic'
  <1>1. Tracked'
    BY StutterTracked DEF NoPanic
  <1>2. /\ env' = env /\ pending' = pending /\ type' = type /\ frames' = frames
        /\ verdict' = verdict
    BY DEF vars
  <1>3. QED  BY <1>1, <1>2, Unmoved DEF NoPanic, NeverPanics

\* No assert of the node environment fails and no unreachable! is reached
\* (mark_local_unstackified, mark_local_restackified, the drops at the end of a
\* statement, the joins of an if and of a loop).
THEOREM TranslationNeverPanics == ASSUME Admitted = {} PROVE Spec => []NeverPanics
  <1>1. Init => NoPanic
    BY InitNoPanic
  <1>2. NoPanic /\ [Next]_vars => NoPanic'
    BY NextNoPanic, StutterNoPanic
  <1>3. NoPanic => NeverPanics
    BY DEF NoPanic
  <1>4. QED  BY <1>1, <1>2, <1>3, PTL DEF Spec

-----------------------------------------------------------------------------
(* Rejections                                                              *)

\* Execution comes to a construct that follows no Never, to its end by a break
\* and to the end of its then arm.
FrameReached(fs, k) ==
  LET f == fs[k] IN
  OpenTo(fs, 1, k) =>
    /\ f.worlds # {}
    /\ f.construct = "while" => f.exits # {}
    /\ f.construct = "else" /\ f.arm.type = "open" => f.arm.worlds # {}

PathsComeHere ==
  /\ type = "open" /\ OpenTo(frames, 1, Len(frames)) => worlds # {}
  /\ \A k \in 1..Len(frames) : FrameReached(frames, k)

\* The inductive invariant of the second theorem.
Justified ==
  /\ Tracked
  /\ RejectionsAreJustified
  /\ verdict # "accepted" => PathsComeHere

LEMMA NotEmptied ==
  ASSUME NEW ws, ws # {}, NEW locals
  PROVE  Without(ws, locals) # {}
  BY DEF Without

LEMMA FrameReachedAlike ==
  ASSUME NEW fs, NEW n \in Nat, NEW k \in 1..n, FrameReached(fs, k),
         NEW gs, \A i \in 1..k : gs[i].type = fs[i].type,
         gs[k].construct = fs[k].construct, gs[k].worlds = fs[k].worlds,
         gs[k].arm = fs[k].arm, fs[k].exits \subseteq gs[k].exits
  PROVE  FrameReached(gs, k)
  <1>1. OpenTo(gs, 1, k) => OpenTo(fs, 1, k)
    BY DEF OpenTo
  <1>2. QED  BY <1>1 DEF FrameReached

\* A step of the block.
LEMMA ReachedInBlock ==
  ASSUME PathsComeHere, frames' = frames,
         type' = "open" => type = "open" /\ (worlds # {} => worlds' # {})
  PROVE  PathsComeHere'
  BY DEF PathsComeHere

LEMMA Filled ==
  ASSUME NEW x, Fill(x)
  PROVE  worlds # {} => worlds' # {}
  BY DEF Fill

LEMMA Emptied ==
  ASSUME NEW locals, NEW kept, Empty(locals, kept)
  PROVE  worlds # {} => worlds' # {}
  BY NotEmptied DEF Empty

\* Back in the block around the construct.
LEMMA ReachedAgain ==
  ASSUME Justified, Translating, Top.construct # "function",
         NEW e, NEW t, NEW ws, NEW flt, Resume(e, t, ws, flt),
         t = "open" /\ OpenTo(frames, 1, Len(frames)) => ws # {}
  PROVE  PathsComeHere'
  <1> DEFINE n == Len(frames)
  <1>1. PathsComeHere /\ Tracked /\ verdict = "translating"
    BY DEF Justified, Translating
  <1>2. type' = FirstNever(Top.type, t) /\ frames' = Outer /\ worlds' = ws
    BY DEF Resume
  <1>3. n \in Nat /\ n > 1 /\ frames \in Seq(Frames) /\ frames[n] = Top
    BY <1>1, CoreFacts, TopFrame DEF Top
  <1>4. Len(Outer) = n - 1 /\ \A i \in 1..n-1 : Outer[i] = frames[i]
    BY <1>3 DEF Outer
  <1>5. ASSUME type' = "open", OpenTo(frames', 1, Len(frames'))
        PROVE  worlds' # {}
    <2>1. Top.type = "open" /\ t = "open"
      BY <1>2, <1>5 DEF FirstNever
    <2> HIDE DEF n
    <2>2. \A j \in 1..n : frames[j].type = "open"
      <3>1. \A j \in 1..n : j = n \/ j \in 1..n-1
        BY <1>3
      <3>2. QED  BY <1>2, <1>3, <1>4, <1>5, <2>1, <3>1 DEF OpenTo
    <2>3. QED  BY <1>2, <2>1, <2>2 DEF OpenTo, n
  <1>6. ASSUME NEW k \in 1..n-1
        PROVE  FrameReached(frames', k)
    <2>1. FrameReached(frames, k)
      BY <1>1, <1>3 DEF PathsComeHere
    <2>2. \A i \in 1..k : frames'[i] = frames[i]
      BY <1>2, <1>3, <1>4
    <2>3. n - 1 \in Nat /\ k \in 1..k
      BY <1>3
    <2>4. QED  BY <2>1, <2>2, <2>3, FrameReachedAlike
  <1>7. QED  BY <1>2, <1>4, <1>5, <1>6 DEF PathsComeHere

\* A construct begins, or the else arm of an if after its then arm.
LEMMA ReachedInside ==
  ASSUME NEW os, os \in Seq(Frames), NEW n \in Nat, Len(os) = n,
         \A k \in 1..n : FrameReached(os, k),
         NEW f, OpenTo(os, 1, n) /\ f.type = "open" =>
                  /\ f.worlds # {}
                  /\ f.construct = "while" => f.exits # {}
                  /\ f.construct = "else" /\ f.arm.type = "open" => f.arm.worlds # {},
         frames' = Append(os, f), worlds' = f.worlds
  PROVE  PathsComeHere'
  <1> DEFINE gs == Append(os, f)
  <1>1. /\ Len(gs) = n + 1 /\ gs[n + 1] = f /\ \A i \in 1..n : gs[i] = os[i]
    <2>1. os \in Seq(Frames \cup {f})
      OBVIOUS
    <2>2. QED  BY <2>1
  <1> HIDE DEF gs
  <1>2. ASSUME OpenTo(gs, 1, n + 1)
        PROVE  OpenTo(os, 1, n) /\ f.type = "open"
    BY <1>1, <1>2 DEF OpenTo
  <1>3. FrameReached(gs, n + 1)
    BY <1>1, <1>2 DEF FrameReached
  <1>4. ASSUME NEW k \in 1..n
        PROVE  FrameReached(gs, k)
    <2>1. k \in 1..k /\ \A i \in 1..k : gs[i] = os[i]
      BY <1>1
    <2>2. QED  BY <2>1, FrameReachedAlike
  <1>5. \A k \in 1..n+1 : FrameReached(gs, k)
    <2>1. \A k \in 1..n+1 : k = n + 1 \/ k \in 1..n
      OBVIOUS
    <2>2. QED  BY <1>3, <1>4, <2>1
  <1>6. OpenTo(gs, 1, n + 1) => f.worlds # {}
    BY <1>2
  <1>7. QED  BY <1>1, <1>5, <1>6 DEF PathsComeHere, gs

-----------------------------------------------------------------------------
\* The program goes on, so nothing is rejected.
LEMMA NotRejected ==
  ASSUME verdict' \notin Rejections
  PROVE  RejectionsAreJustified'
  BY DEF RejectionsAreJustified

LEMMA GoesOn ==
  ASSUME Translating, verdict' = verdict
  PROVE  RejectionsAreJustified' /\ verdict' # "accepted"
  BY NotRejected DEF Translating, Rejections

\* The state is that in which the program was rejected.
LEMMA Frozen ==
  ASSUME env' = env, pending' = pending, type' = type, frames' = frames, worlds' = worlds
  PROVE  /\ Top' = Top /\ BlockWorlds' = BlockWorlds /\ Named' = Named
         /\ DeadCode' <=> DeadCode
         /\ PathsComeHere' <=> PathsComeHere
  <1>1. Top' = Top /\ Named' = Named
    BY DEF Top, Named, Declared
  <1>2. BlockLocals' = BlockLocals
    BY <1>1 DEF BlockLocals
  <1>3. BlockWorlds' = BlockWorlds
    BY <1>2 DEF BlockWorlds
  <1>4. (DeadCode' <=> DeadCode) /\ (PathsComeHere' <=> PathsComeHere)
    BY DEF DeadCode, PathsComeHere
  <1>5. QED  BY <1>1, <1>3, <1>4

LEMMA Rejected ==
  ASSUME Justified, Translating, NEW v \in Rejections, Verdict(v),
         ~DeadCode =>
           CASE v = "CantUseUnstackifiedLocal" ->
                  type # "open" \/ \E x \in Named : \A w \in worlds : x \notin w
             [] v = "MustMoveSameVariables" -> \E u \in Top.arm.worlds, w \in BlockWorlds : u # w
             [] OTHER -> \E w \in BlockWorlds : w \notin Top.worlds
  PROVE  RejectionsAreJustified' /\ PathsComeHere'
  <1>1. /\ env' = env /\ pending' = pending /\ type' = type /\ frames' = frames
        /\ worlds' = worlds /\ verdict' = v
    BY DEF Verdict
  <1>2. PathsComeHere
    BY DEF Justified, Translating
  <1>3. RejectionsAreJustified'
    <2>1. CASE v = "CantUseUnstackifiedLocal"
      BY <1>1, <2>1, Frozen DEF RejectionsAreJustified
    <2>2. CASE v = "MustMoveSameVariables"
      BY <1>1, <2>2, Frozen DEF RejectionsAreJustified
    <2>3. CASE v = "CantUnstackifyOutsideLocalFromInsideWhile"
      BY <1>1, <2>3, Frozen DEF RejectionsAreJustified
    <2>4. QED  BY <2>1, <2>2, <2>3 DEF Rejections
  <1>4. QED  BY <1>1, <1>2, <1>3, Frozen

\* In code that is not dead every construct follows no Never.
LEMMA Reached ==
  ASSUME Justified, Translating, ~DeadCode
  PROVE  /\ OpenTo(frames, 1, Len(frames))
         /\ type = "open" => BlockWorlds # {}
         /\ Top.construct = "else" /\ Top.arm.type = "open" => Top.arm.worlds # {}
  <1>1. PathsComeHere /\ Tracked /\ verdict = "translating"
    BY DEF Justified, Translating
  <1>2. frames \in Seq(Frames) /\ Len(frames) \in 1..Len(frames) /\ Top = frames[Len(frames)]
    BY <1>1, AroundHere
  <1>3. OpenTo(frames, 1, Len(frames))
    BY <1>2 DEF DeadCode, OpenTo
  <1>4. type = "open" => BlockWorlds # {}
    BY <1>1, <1>3, NotEmptied DEF PathsComeHere, BlockWorlds
  <1>5. QED  BY <1>1, <1>2, <1>3, <1>4 DEF PathsComeHere, FrameReached

LEMMA LocalLoadJustified ==
  ASSUME Justified, LocalLoad
  PROVE  RejectionsAreJustified' /\ PathsComeHere'
  <1>1. PICK x \in Named :
          /\ InBlock
          /\ IF x \in env.unstackified THEN Verdict("CantUseUnstackifiedLocal")
             ELSE UNCHANGED <<env, pending, type, frames, verdict, worlds>>
    BY DEF LocalLoad
  <1>2. Translating /\ PathsComeHere /\ Exact(env, worlds)
    BY <1>1, CoreFacts DEF Justified, InBlock, Translating, Block
  <1>3. CASE x \in env.unstackified
    <2>1. \A w \in worlds : x \notin w
      BY <1>2, <1>3 DEF Exact, Live
    <2>2. QED  BY <1>1, <1>2, <1>3, <2>1, Rejected DEF Rejections
  <1>4. CASE x \notin env.unstackified
    BY <1>1, <1>2, <1>4, GoesOn, ReachedInBlock
  <1>5. QED  BY <1>3, <1>4

\* The steps that only change the block.
LEMMA StatementJustified ==
  ASSUME Justified,
         Let \/ MakeTemporaryLocalBorrow \/ Unlet \/ LocalMutate \/ Restackify
           \/ EndStatement \/ CallPanic \/ Return
  PROVE  RejectionsAreJustified' /\ PathsComeHere'
  <1>1. Translating /\ PathsComeHere
    BY DEF Justified, Let, MakeTemporaryLocalBorrow, Unlet, LocalMutate, Restackify, EndStatement,
           CallPanic, Return, InBlock, Translating
  <1>2. frames' = frames /\ (verdict' = verdict \/ verdict' = "panicked")
    BY DEF Let, MakeTemporaryLocalBorrow, Unlet, LocalMutate, Restackify, EndStatement,
           CallPanic, Return, Panic, Verdict
  <1>3. type' = "open" => type = "open" /\ (worlds # {} => worlds' # {})
    BY Filled, Emptied DEF Let, MakeTemporaryLocalBorrow, Unlet, LocalMutate, Restackify,
           EndStatement, CallPanic, Return, Panic, Verdict, FirstNever
  <1>4. QED  BY <1>1, <1>2, <1>3, ReachedInBlock, NotRejected DEF Translating, Rejections
LEMMA BreakJustified ==
  ASSUME Justified, Break
  PROVE  RejectionsAreJustified' /\ PathsComeHere'
  <1> DEFINE k == NearestLoop
             locals == get_live_variables_introduced_since(env, frames[k].env)
             left == Without(worlds, locals)
  <1>1. Translating /\ PathsComeHere /\ Loops # {} /\ Tracked /\ verdict = "translating"
    BY DEF Justified, Break, InBlock, Translating
  <1>2. locals \cap env.unstackified = {}
    BY DEF get_live_variables_introduced_since
  <1>3. /\ frames' = [frames EXCEPT ![k].exits = @ \cup left]
        /\ type' = FirstNever(type, "break") /\ verdict' = verdict
    BY <1>1, <1>2 DEF Break
  <1> HIDE DEF locals, left
  <1>4. k \in 1..Len(frames) /\ frames \in Seq(Frames) /\ Len(frames) \in Nat
    BY <1>1, CoreFacts, NearestLoopFound, AroundHere
  <1> HIDE DEF k
  <1>5. /\ Len(frames') = Len(frames)
        /\ \A i \in 1..Len(frames) : /\ frames'[i].type = frames[i].type
                                     /\ frames'[i].construct = frames[i].construct
                                     /\ frames'[i].worlds = frames[i].worlds
                                     /\ frames'[i].arm = frames[i].arm
                                     /\ frames[i].exits \subseteq frames'[i].exits
    <2>1. frames[k] \in Frames
      BY <1>4
    <2> DEFINE f == [frames[k] EXCEPT !.exits = @ \cup left]
    <2>2. /\ f.type = frames[k].type /\ f.construct = frames[k].construct
          /\ f.worlds = frames[k].worlds /\ f.arm = frames[k].arm
          /\ frames[k].exits \subseteq f.exits
      BY <2>1 DEF Frames
    <2>3. frames' = [frames EXCEPT ![k] = f]
      BY <1>3, <1>4
    <2> HIDE DEF f
    <2>4. QED  BY <1>4, <2>2, <2>3
  <1>6. type' # "open"
    BY <1>3 DEF FirstNever
  <1>7. ASSUME NEW j \in 1..Len(frames)
        PROVE  FrameReached(frames', j)
    <2>1. FrameReached(frames, j)
      BY <1>1 DEF PathsComeHere
    <2>2. j \in 1..j /\ \A i \in 1..j : i \in 1..Len(frames)
      BY <1>4
    <2>3. QED  BY <1>4, <1>5, <2>1, <2>2, FrameReachedAlike
  <1>8. QED  BY <1>1, <1>3, <1>5, <1>6, <1>7, GoesOn DEF PathsComeHere

LEMMA EnterJustified ==
  ASSUME Justified, NEW construct \in {"block", "then", "while"}, NEW exits,
         construct = "while" => exits = worlds, Enter(construct, exits)
  PROVE  RejectionsAreJustified' /\ PathsComeHere'
  <1> DEFINE f == Frame(construct, exits, NoArm)
             n == Len(frames)
  <1>1. Translating /\ PathsComeHere /\ verdict' = verdict /\ Tracked /\ verdict = "translating"
    BY DEF Justified, Enter, InBlock, Translating
  <1>2. frames' = Append(frames, f) /\ worlds' = worlds
    BY DEF Enter
  <1>3. f.worlds = worlds /\ f.type = type /\ f.construct = construct /\ f.exits = exits
    BY DEF Frame
  <1> HIDE DEF f
  <1>4. frames \in Seq(Frames) /\ n \in Nat
    BY <1>1, AroundHere
  <1>5. \A k \in 1..n : FrameReached(frames, k)
    BY <1>1 DEF PathsComeHere
  <1>6. OpenTo(frames, 1, n) /\ f.type = "open" =>
          /\ f.worlds # {}
          /\ f.construct = "while" => f.exits # {}
          /\ f.construct = "else" /\ f.arm.type = "open" => f.arm.worlds # {}
    BY <1>1, <1>3 DEF PathsComeHere
  <1>7. PathsComeHere'
    BY <1>2, <1>3, <1>4, <1>5, <1>6, ReachedInside
  <1>8. QED  BY <1>1, <1>7, GoesOn

\* The innermost construct, at its end.
LEMMA EndReached ==
  ASSUME Justified, Translating
  PROVE  LET n == Len(frames) IN
           /\ BlockType = "open" /\ OpenTo(frames, 1, n) => BlockWorlds # {}
           /\ OpenTo(frames, 1, n) /\ Top.construct = "else" /\ Top.arm.type = "open"
                => Top.arm.worlds # {}
           /\ OpenTo(frames, 1, n) /\ Top.construct = "while" => Top.exits # {}
  <1>1. PathsComeHere /\ Tracked /\ verdict = "translating"
    BY DEF Justified, Translating
  <1>2. Len(frames) \in 1..Len(frames) /\ Top = frames[Len(frames)]
    BY <1>1, AroundHere
  <1>3. BlockType = "open" => type = "open"
    BY <1>1, BlockEnded DEF Translating
  <1>4. BlockType = "open" /\ OpenTo(frames, 1, Len(frames)) => BlockWorlds # {}
    BY <1>1, <1>3, NotEmptied DEF PathsComeHere, BlockWorlds
  <1>5. FrameReached(frames, Len(frames))
    BY <1>1, <1>2 DEF PathsComeHere
  <1>6. QED  BY <1>2, <1>4, <1>5 DEF FrameReached

LEMMA LeaveBlockJustified ==
  ASSUME Justified, LeaveBlock
  PROVE  RejectionsAreJustified' /\ PathsComeHere'
  <1> DEFINE effects == get_effects_since(BlockEnv, Top.env)
             e == Propagated(Top.env, effects)
  <1>1. Translating /\ Tracked /\ verdict = "translating" /\ Top.construct = "block"
        /\ Plain(Top.env)
    BY CoreFacts DEF Justified, LeaveBlock, BlockEnds, Translating
  <1>2. ~BlockPanics /\ ~PropagationPanics(Top.env, effects)
    BY <1>1, BlockEnded, EffectsOnOuter, NoPropagationPanic
  <1>3. Resume(e, BlockType, BlockWorlds, BlockFault)
    BY <1>2 DEF LeaveBlock
  <1>4. BlockType = "open" /\ OpenTo(frames, 1, Len(frames)) => BlockWorlds # {}
    BY <1>1, EndReached
  <1> HIDE DEF e
  <1>5. PathsComeHere'
    BY <1>1, <1>3, <1>4, ReachedAgain
  <1>6. QED  BY <1>1, <1>3, <1>5, GoesOn DEF Resume

LEMMA LeaveThenJustified ==
  ASSUME Justified, LeaveThen
  PROVE  RejectionsAreJustified' /\ PathsComeHere'
  <1> DEFINE arm == [env |-> BlockEnv, type |-> BlockType, worlds |-> BlockWorlds]
             f == [Top EXCEPT !.construct = "else", !.arm = arm]
             n == Len(frames)
  <1>1. /\ Translating /\ Tracked /\ verdict = "translating"
        /\ Top.construct = "then" /\ Top \in Frames /\ PathsComeHere /\ Nested(frames)
    BY CoreFacts DEF Justified, LeaveThen, BlockEnds, Translating
  <1>2. ~BlockPanics
    BY <1>1, BlockEnded
  <1>3. frames' = Append(Outer, f) /\ worlds' = Top.worlds /\ verdict' = verdict
    BY <1>2 DEF LeaveThen
  <1>4. arm.type = BlockType /\ arm.worlds = BlockWorlds
    OBVIOUS
  <1> HIDE DEF arm
  <1>5. f.worlds = Top.worlds /\ f.type = Top.type /\ f.construct = "else" /\ f.arm = arm
    BY <1>1 DEF Frames
  <1> HIDE DEF f
  <1>6. n \in Nat /\ n > 1 /\ frames \in Seq(Frames) /\ frames[n] = Top
    BY <1>1, TopFrame DEF Top
  <1>7. n - 1 \in Nat /\ Outer \in Seq(Frames) /\ Len(Outer) = n - 1
        /\ \A i \in 1..n-1 : Outer[i] = frames[i] /\ i \in 1..n
    BY <1>6 DEF Outer
  <1>8. FrameReached(frames, n)
    BY <1>1, <1>6 DEF PathsComeHere
  <1>9. BlockType = "open" /\ OpenTo(frames, 1, n) => BlockWorlds # {}
    BY <1>1, EndReached
  <1>10. ASSUME NEW k \in 1..n-1
         PROVE  FrameReached(Outer, k)
    <2>1. FrameReached(frames, k) /\ k \in 1..k /\ \A i \in 1..k : Outer[i] = frames[i]
      BY <1>1, <1>7 DEF PathsComeHere
    <2>2. QED  BY <1>7, <2>1, FrameReachedAlike
  <1> HIDE DEF n
  <1>11. OpenTo(Outer, 1, n - 1) /\ f.type = "open" => OpenTo(frames, 1, n)
    <2>1. \A j \in 1..n : j = n \/ j \in 1..n-1
      BY <1>6
    <2>2. QED  BY <1>5, <1>6, <1>7, <2>1 DEF OpenTo
  <1>12. OpenTo(Outer, 1, n - 1) /\ f.type = "open" =>
           /\ f.worlds # {}
           /\ f.construct = "while" => f.exits # {}
           /\ f.construct = "else" /\ f.arm.type = "open" => f.arm.worlds # {}
    BY <1>4, <1>5, <1>6, <1>8, <1>9, <1>11 DEF FrameReached
  <1>13. PathsComeHere'
    BY <1>3, <1>5, <1>7, <1>10, <1>12, ReachedInside
  <1>14. QED  BY <1>1, <1>3, <1>13, GoesOn

LEMMA LeaveIfJustified ==
  ASSUME Justified, LeaveIf, Admitted = {}
  PROVE  RejectionsAreJustified' /\ PathsComeHere'
  <1> DEFINE onThen == get_effects_since(Top.arm.env, Top.env)
             onElse == get_effects_since(BlockEnv, Top.env)
             t == Top.arm.type
             e == BlockType
             joined == JoinedEffects(t, e, onThen, onElse)
             m == Propagated(Top.env, joined)
             ws == Top.arm.worlds \cup BlockWorlds
  <1>1. /\ Translating /\ Tracked /\ verdict = "translating"
        /\ Top.construct = "else" /\ Plain(Top.env) /\ PathsComeHere /\ ThenArm(Top)
    BY CoreFacts DEF Justified, LeaveIf, BlockEnds, Translating, FrameOK
  <1>2. ~BlockPanics /\ Plain(BlockEnv) /\ Top.env.unstackified \subseteq BlockEnv.unstackified
    BY <1>1, BlockEnded
  <1>3. /\ onThen.restackified = {} /\ onElse.restackified = {}
        /\ Live(Top.env) \ onThen.unstackified = Declared(Top.env) \ Top.arm.env.unstackified
        /\ Live(Top.env) \ onElse.unstackified = Declared(Top.env) \ BlockEnv.unstackified
        /\ onThen.unstackified = Top.arm.env.unstackified \cap Live(Top.env)
        /\ onElse.unstackified = BlockEnv.unstackified \cap Live(Top.env)
    BY <1>1, <1>2, EffectsOnOuter DEF ThenArm
  <1>4. joined \in {onThen, onElse}
    BY DEF JoinedEffects
  <1>5. ~PropagationPanics(Top.env, joined)
    BY <1>1, <1>3, <1>4, NoPropagationPanic
  <1>6. \/ ArmsDisagree(t, e, onThen, onElse) /\ Verdict("MustMoveSameVariables")
        \/ Resume(m, CommonType(t, e), ws, BlockFault)
    BY <1>2, <1>3, <1>5 DEF LeaveIf
  <1>7. CASE ArmsDisagree(t, e, onThen, onElse) /\ Verdict("MustMoveSameVariables")
    <2>1. t = "open" /\ e = "open" /\ onThen.unstackified # onElse.unstackified
      BY <1>7 DEF LeaveIf, ArmsDisagree
    <2>2. type = "open"
      BY <1>1, <2>1, BlockEnded
    <2>3. \A u \in Top.arm.worlds, w \in BlockWorlds : u # w
      <3>1. ASSUME NEW u \in Top.arm.worlds, NEW w \in BlockWorlds, u = w
            PROVE  FALSE
        <4>1. /\ u = Declared(Top.env) \ Top.arm.env.unstackified
              /\ w = Declared(Top.env) \ BlockEnv.unstackified
          BY <1>1, BlockEnded DEF ThenArm
        <4>2. Live(Top.env) \ onThen.unstackified = Live(Top.env) \ onElse.unstackified
          BY <1>3, <3>1, <4>1
        <4>3. onThen.unstackified \subseteq Live(Top.env) /\ onElse.unstackified \subseteq Live(Top.env)
          BY <1>3
        <4> HIDE DEF onThen, onElse
        <4>4. QED  BY <2>1, <4>2, <4>3
      <3>2. QED  BY <3>1
    <2>4. ~DeadCode => \E u \in Top.arm.worlds, w \in BlockWorlds : u # w
      BY <1>1, <2>1, <2>2, <2>3, Reached
    <2>5. QED  BY <1>1, <1>7, <2>4, Rejected DEF Rejections
  <1>8. CASE Resume(m, CommonType(t, e), ws, BlockFault)
    <2>1. CommonType(t, e) = "open" => t = "open" \/ e = "open"
      BY DEF CommonType
    <2>2. CommonType(t, e) = "open" /\ OpenTo(frames, 1, Len(frames)) => ws # {}
      BY <1>1, <2>1, EndReached
    <2> HIDE DEF m, ws, t, e
    <2>3. PathsComeHere'
      BY <1>1, <1>8, <2>2, ReachedAgain
    <2>4. QED  BY <1>1, <1>8, <2>3, GoesOn DEF Resume
  <1>9. QED  BY <1>6, <1>7, <1>8

LEMMA LeaveWhileJustified ==
  ASSUME Justified, LeaveWhile, Admitted = {}
  PROVE  RejectionsAreJustified' /\ PathsComeHere'
  <1> DEFINE effects == get_effects_since(BlockEnv, Top.env)
  <1>1. /\ Translating /\ Tracked /\ verdict = "translating"
        /\ Top.construct = "while" /\ Plain(Top.env) /\ PathsComeHere /\ FrameOK(Top)
    BY CoreFacts DEF Justified, LeaveWhile, BlockEnds, Translating
  <1>2. /\ ~BlockPanics /\ effects.restackified = {}
        /\ effects.unstackified = BlockEnv.unstackified \cap Live(Top.env)
    BY <1>1, BlockEnded, EffectsOnOuter
  <1>3. \/ /\ type = "open" /\ effects.unstackified # {}
           /\ Verdict("CantUnstackifyOutsideLocalFromInsideWhile")
        \/ \E flt : Resume(Top.env, LoopType, Top.exits \cup BlockWorlds, flt)
    BY <1>2 DEF LeaveWhile
  <1>4. CASE /\ type = "open" /\ effects.unstackified # {}
             /\ Verdict("CantUnstackifyOutsideLocalFromInsideWhile")
    <2>1. \A w \in BlockWorlds : w = Declared(Top.env) \ BlockEnv.unstackified
      BY <1>1, BlockEnded
    <2>2. \A w \in Top.worlds : w = Live(Top.env)
      BY <1>1 DEF FrameOK, Block, Exact
    <2>3. Declared(Top.env) \ BlockEnv.unstackified # Live(Top.env)
      BY <1>2, <1>4 DEF Live
    <2>4. ~DeadCode => \E w \in BlockWorlds : w \notin Top.worlds
      BY <1>1, <1>4, <2>1, <2>2, <2>3, Reached
    <2>5. QED  BY <1>1, <1>4, <2>4, Rejected DEF Rejections
  <1>5. CASE \E flt : Resume(Top.env, LoopType, Top.exits \cup BlockWorlds, flt)
    <2>1. PICK flt : Resume(Top.env, LoopType, Top.exits \cup BlockWorlds, flt)
      BY <1>5
    <2>2. OpenTo(frames, 1, Len(frames)) => Top.exits \cup BlockWorlds # {}
      BY <1>1, EndReached
    <2>3. PathsComeHere'
      BY <1>1, <2>1, <2>2, ReachedAgain
    <2>4. QED  BY <1>1, <2>1, <2>3, GoesOn DEF Resume
  <1>6. QED  BY <1>3, <1>4, <1>5

LEMMA LeaveFunctionJustified ==
  ASSUME Justified, LeaveFunction
  PROVE  RejectionsAreJustified' /\ verdict' = "accepted"
  <1>1. ~BlockPanics
    BY BlockEnded DEF Justified, LeaveFunction, BlockEnds
  <1>2. verdict' = "accepted"
    BY <1>1 DEF LeaveFunction
  <1>3. QED  BY <1>2, NotRejected DEF Rejections

LEMMA InitJustified ==
  ASSUME Init
  PROVE  Justified
  <1>1. Tracked /\ RejectionsAreJustified
    BY InitTracked DEF Init, RejectionsAreJustified, Rejections
  <1>2. /\ worlds # {} /\ Len(frames) = 1 /\ frames[1].construct = "function"
        /\ frames[1].worlds = {{}}
    BY DEF Init
  <1>3. \A k \in 1..Len(frames) : FrameReached(frames, k)
    <2>1. \A k \in 1..Len(frames) : k = 1
      BY <1>2
    <2>2. FrameReached(frames, 1)
      BY <1>2 DEF FrameReached
    <2>3. QED  BY <2>1, <2>2
  <1>4. QED  BY <1>1, <1>2, <1>3 DEF Justified, PathsComeHere

LEMMA NextJustified ==
  ASSUME Justified, Next, Admitted = {}
  PROVE  Justified'
  <1>1. Tracked'
    BY NextTracked DEF Justified
  <1>2. RejectionsAreJustified' /\ (PathsComeHere' \/ verdict' = "accepted")
    BY LocalLoadJustified, StatementJustified, BreakJustified, EnterJustified,
       LeaveBlockJustified, LeaveThenJustified, LeaveIfJustified, LeaveWhileJustified,
       LeaveFunctionJustified
       DEF Next, EnterBlock, EnterIf, EnterWhile
  <1>3. QED  BY <1>1, <1>2 DEF Justified

LEMMA StutterJustified ==
  ASSUME Justified, UNCHANGED vars
  PROVE  Justified'
  <1>1. Tracked'
    BY StutterTracked DEF Justified
  <1>2. /\ env' = env /\ pending' = pending /\ type' = type /\ frames' = frames
        /\ worlds' = worlds /\ verdict' = verdict
    BY DEF vars
  <1>3. QED  BY <1>1, <1>2, Frozen DEF Justified, RejectionsAreJustified

\* The three errors expression_compiler.rs returns about moves are returned only
\* where some path really misuses a local: one that is moved is used, the arms
\* of an if part with different locals, a loop's body comes back without one.
THEOREM RejectsOnlyMisuse == ASSUME Admitted = {} PROVE Spec => []RejectionsAreJustified
  <1>1. Init => Justified
    BY InitJustified
  <1>2. Justified /\ [Next]_vars => Justified'
    BY NextJustified, StutterJustified
  <1>3. Justified => RejectionsAreJustified
    BY DEF Justified
  <1>4. QED  BY <1>1, <1>2, <1>3, PTL DEF Spec
=============================================================================
