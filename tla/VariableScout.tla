--------------------------- MODULE VariableScout ----------------------------
(***************************************************************************)
(* What the postparser finds out about variables (expression_scout.rs,     *)
(* loop_post_parser.rs, variable_uses.rs and function_scout.rs in          *)
(* postparsing/): which declaration a name means, how a block uses its     *)
(* locals, which variables a lambda captures and which parameters its      *)
(* underscores make.  The typing pass is handed names, not declarations,   *)
(* and looks them up again by a rule of its own                            *)
(* (typing/env/function_environment_t.rs).                                 *)
(*                                                                         *)
(* The program is not given.  An action is the next thing in some function *)
(* that has to do with a variable or with a block, in the order of         *)
(* evaluation, which is the order both passes go in; the two are taken     *)
(* together, so that a panic of the typing pass ends the run at the        *)
(* expression that it is about.  Every lambda is called.                   *)
(***************************************************************************)
EXTENDS Naturals, Sequences, FiniteSets, SequencesExt, FiniteSetsExt

CONSTANTS
  Name,      \* names of locals and parameters
  self,      \* one of them, the one that constructors and methods treat alike
  Member,    \* names of members, declared in a constructor by `self.m = ...`
  Bounds     \* set of [constructs, names, loads, locals, lambdas, depth, uses]: the
             \* programs, by what is in them and by how much of it

ASSUME SelfIsAName == self \in Name

VARIABLES
  bounds,    \* the one this program keeps to
  frames,    \* the blocks and ifs around this point, outermost first
  decls,     \* every local declared so far: [name, sort, fn]
  fns,       \* every function so far; the first one is not a lambda
  flags,     \* what the LocalS of the finished blocks say: [local, child, how]
  uses,      \* history: [fn, local, how, typed], what each function's own code does
  outcome    \* "scouting", "done", "error" or "panicked"

vars == <<bounds, frames, decls, fns, flags, uses, outcome>>

Sorts == {"var", "member", "magic", "synthetic"}
How == {"borrowed", "moved", "mutated"}

\* Uses of locals: those of the function's own code, those of the lambdas in it.
NoUses == [self |-> {}, child |-> {}]

\* function: the body of one.  wrapper: the block around an if.  loop: the innermost of
\* those around a while.  each, round: those around a foreach, before and in its rounds.
\* body: the one written as the body of a loop.
Block(kind, fn, locals) == [kind |-> kind, fn |-> fn, locals |-> locals, uses |-> NoUses]

\* new_if: the uses of its condition and of the arms so far.
If(shape, fn) ==
  [kind |-> shape, fn |-> fn, locals |-> <<>>, uses |-> NoUses,
   stage |-> "condition", arms |-> <<>>]

Ifs == {"if", "and", "or"}

Top == Last(frames)
Under == Last(Front(frames))
Local(n, sort, fn) == [name |-> n, sort |-> sort, fn |-> fn]
New(k) == Len(decls) + k

\* Between two expressions of a block, or in the condition of an if.
IsOpen == /\ outcome = "scouting"
          /\ \/ Top.kind \in {"function", "block", "loop", "each", "body"}
             \/ Top.kind \in Ifs /\ Top.stage = "condition"

May(construct) == IsOpen /\ construct \in bounds.constructs
MayDeclare(n) == Len(decls) + n <= bounds.locals
MayName(names) == Range(names) \subseteq bounds.names
MayLoad(load) == load \in bounds.loads
MayUse == Cardinality(uses) < bounds.uses
MayNest(n) == Len(frames) + n <= bounds.depth

Init ==
  /\ bounds \in Bounds
  /\ \E params \in {<<>>} \cup { <<n>> : n \in Name } :
       /\ MayName(params)
       /\ decls = [k \in DOMAIN params |-> Local(params[k], "var", 1)]
       /\ frames = <<Block("function", 1, [k \in DOMAIN params |-> k])>>
  /\ fns = <<[creator |-> 0, params |-> 0, captured |-> {}, magic |-> {}, given |-> {}]>>
  /\ flags = {} /\ uses = {} /\ outcome = "scouting"

-----------------------------------------------------------------------------
(* Lookups.                                                                *)

\* The block, and the place in it, of every local in scope that is called this.
Found(fs, n, sort) ==
  UNION { { <<i, j>> : j \in { k \in DOMAIN fs[i].locals :
              decls[fs[i].locals[k]].name = n /\ decls[fs[i].locals[k]].sort = sort } }
          : i \in DOMAIN fs }

IsFound(n, sort) == Found(frames, n, sort) # {}

\* The postparser's lookup: the nearest block that has the name, and there the first.
find_variable(fs, n, sort) ==
  LET nearest == Max({ p[1] : p \in Found(fs, n, sort) })
  IN fs[nearest].locals[Min({ p[2] : p \in { q \in Found(fs, n, sort) : q[1] = nearest } })]

\* Where the typing pass looks what it does not find in the function: its captures.
Outside == 0

\* The typing pass's lookup: a block starts with a copy of the variables around it, and
\* the first that is called this is the oldest.
get_variable(fs, n, sort) ==
  LET own == { fs[p[1]].locals[p[2]] :
                 p \in { q \in Found(fs, n, sort) : fs[q[1]].fn = Last(fs).fn } }
  IN IF own = {} THEN Outside ELSE Min(own)

-----------------------------------------------------------------------------
(* Uses.                                                                   *)

\* No use is ever taken back.
then_merge(a, b) == [self |-> a.self \cup b.self, child |-> a.child \cup b.child]

\* Mutant of branch_merge: what only one arm does is forgotten.
branch_merge_both(a, b) == [self |-> a.self \cap b.self, child |-> a.child \cap b.child]

\* What one arm uses is used.
branch_merge(a, b) == [self |-> a.self \cup b.self, child |-> a.child \cup b.child]

\* mark_borrowed, mark_moved, mark_mutated.
Marked(fs, marked) ==
  Append(Front(fs), [Last(fs) EXCEPT !.uses = then_merge(@, [self |-> marked, child |-> {}])])

\* What the typing pass makes of each of these uses.
Seen(fs, marked) ==
  { [fn |-> Last(fs).fn, local |-> m[1], how |-> m[2],
     typed |-> IF decls[m[1]].sort \in {"var", "member"}
                 THEN get_variable(fs, decls[m[1]].name, decls[m[1]].sort)
                 ELSE m[1]] : m \in marked }

Mark(marked) ==
  /\ frames' = Marked(frames, marked)
  /\ uses' = uses \cup Seen(frames, marked)

Fail(result) ==
  /\ outcome' = result
  /\ UNCHANGED <<bounds, frames, decls, fns, flags, uses>>

\* A use of a local that is in scope; the typing pass can only unlet a function's own.
UseLocal(l, how, unlets) ==
  IF unlets /\ decls[l].fn # Top.fn
    THEN Fail("panicked")
    ELSE Mark({<<l, how>>}) /\ UNCHANGED <<bounds, decls, fns, flags, outcome>>

-----------------------------------------------------------------------------
(* How an expression loads an operand that is a variable.                  *)

\* A function call's callee and its arguments; likewise an index and its subject.
CallLoads == {"LoadAsBorrow", "Use"}
\* Binary operators, not, ranges and __copy_prim.
OperatorLoads == {"LoadAsBorrow"}
\* The subject of a method call, a member access.
SubjectLoads == {"LoadAsBorrow"}
\* The elements of tuples, arrays and interpolated strings; what is let, returned,
\* tested, destructed or a statement.
ElementLoads == {"Use"}
\* ^x, &x and weak x.
PrefixLoads == {"Move", "LoadAsBorrow", "LoadAsWeak"}

Loads == CallLoads \cup OperatorLoads \cup SubjectLoads \cup ElementLoads \cup PrefixLoads

\* coerce: a plain use counts as a move.
Coerced(load) == IF load \in {"LoadAsBorrow", "LoadAsWeak"} THEN "borrowed" ELSE "moved"

\* A variable by name; a name that is no variable is an error but for a callee.
Mention(n, load) ==
  /\ May("use") /\ MayUse /\ MayName(<<n>>) /\ MayLoad(load)
  /\ IF IsFound(n, "var")
       THEN UseLocal(find_variable(frames, n, "var"), Coerced(load), load = "Move")
       ELSE Fail("error")

\* self.m, when self is not a variable; when it is, self is a subject like any other.
MentionMember(m, load) ==
  /\ May("member") /\ MayUse /\ MayLoad(load)
  /\ IF IsFound(self, "var")
       THEN \E how \in SubjectLoads :
              UseLocal(find_variable(frames, self, "var"), Coerced(how), FALSE)
     ELSE IF IsFound(m, "member")
       THEN UseLocal(find_variable(frames, m, "member"), Coerced(load), load = "Move")
       ELSE Fail("panicked")

\* An underscore is a parameter of its own, moved as well as what it is loaded as.
MagicParam(load) ==
  /\ May("magic") /\ MayUse /\ MayLoad(load) /\ MayDeclare(1)
  /\ decls' = Append(decls, Local(self, "magic", Top.fn))
  /\ frames' = Marked(frames, { <<New(1), "moved">>, <<New(1), Coerced(load)>> })
  /\ uses' = uses \cup { [fn |-> Top.fn, local |-> New(1), how |-> how, typed |-> New(1)]
                         : how \in {"moved", Coerced(load)} }
  /\ UNCHANGED <<bounds, fns, flags, outcome>>

\* set n = ...
LocalMutate(n) ==
  /\ May("set") /\ MayUse /\ MayName(<<n>>)
  /\ IF IsFound(n, "var") THEN UseLocal(find_variable(frames, n, "var"), "mutated", FALSE)
                          ELSE Fail("error")

\* unlet n.
Unlet(n) ==
  /\ May("unlet") /\ MayUse /\ MayName(<<n>>)
  /\ IF IsFound(n, "var") THEN UseLocal(find_variable(frames, n, "var"), "moved", TRUE)
                          ELSE Fail("error")

-----------------------------------------------------------------------------
(* Declarations.                                                           *)

\* The block that declarations go to.
Home(fs) == Max({ i \in DOMAIN fs : fs[i].kind \notin Ifs })

\* plus: the new locals go to the end of the block.
Plus(fs, locals) ==
  [fs EXCEPT ![Home(fs)].locals = @ \o [k \in DOMAIN locals |-> New(k)]]

Declares(block, d) ==
  \E l \in Range(block.locals) : decls[l].name = d.name /\ decls[l].sort = d.sort

\* Mutant of IsTaken: as in the postparser, only the names of one pattern are compared.
IsTaken_in_pattern(fs, locals) == ~IsInjective(locals)

\* make_user_local_variable's check, by the function's own variables.
IsTaken(fs, locals) ==
  \/ \E d \in Range(locals) : get_variable(fs, d.name, d.sort) # Outside
  \/ ~IsInjective(locals)

\* A pattern: the postparser minds the names of the same block alone.
Declare(locals) ==
  IF \E d \in Range(locals) : Declares(frames[Home(frames)], d)
    THEN Fail("error")
  ELSE IF IsTaken(frames, locals)
    THEN Fail("panicked")
  ELSE /\ decls' = decls \o locals
       /\ frames' = Plus(frames, locals)
       /\ UNCHANGED <<bounds, fns, flags, uses, outcome>>

Patterns == { <<n>> : n \in Name } \cup { <<n, o>> : n, o \in Name }
Vars(names) == [k \in DOMAIN names |-> Local(names[k], "var", Top.fn)]

Let(names) ==
  May("let") /\ MayName(names) /\ MayDeclare(Len(names)) /\ Declare(Vars(names))

\* self.m = ...
LetMember(m) ==
  May("member") /\ MayDeclare(1) /\ Declare(<<Local(m, "member", Top.fn)>>)

\* A pattern that sets a local instead declares nothing and uses nothing; the typing
\* pass looks for it among the function's own.
LetSetting(n) ==
  /\ May("set pattern") /\ MayName(<<n>>)
  /\ Found(frames, n, "var") = {} \/ get_variable(frames, n, "var") = Outside
  /\ Fail("panicked")

-----------------------------------------------------------------------------
(* Blocks.                                                                 *)

\* Uses that come up from a construct: into an arm of an if, else after what came before.
Receive(fs, u) ==
  IF Last(fs).kind \in Ifs /\ Last(fs).stage = "arms"
    THEN Append(Front(fs), [Last(fs) EXCEPT !.arms = Append(@, u)])
    ELSE Append(Front(fs), [Last(fs) EXCEPT !.uses = then_merge(@, u)])

Members(block) == { l \in Range(block.locals) : decls[l].sort = "member" }

\* The constructor call at the end of a block that declares members: self.m for each.
ConstructorUses(fs) ==
  IF Members(Last(fs)) = {} THEN {}
  ELSE IF Found(fs, self, "var") # {} THEN { <<find_variable(fs, self, "var"), "borrowed">> }
  ELSE { <<l, "moved">> : l \in Members(Last(fs)) }

\* The locals of a block with how they are used, by itself and by lambdas.
LocalFlags(locals, u) ==
  { [local |-> x[1], child |-> FALSE, how |-> x[2]] : x \in { y \in u.self : y[1] \in locals } }
  \cup
  { [local |-> x[1], child |-> TRUE, how |-> x[2]] : x \in { y \in u.child : y[1] \in locals } }

FromAbove(locals, u) ==
  [self |-> { x \in u.self : x[1] \notin locals }, child |-> { x \in u.child : x[1] \notin locals }]

BlockUses(fs) ==
  then_merge(Last(fs).uses, [self |-> ConstructorUses(fs), child |-> {}])

\* The end of new_block.  So far: [frames, flags, uses, panics] of what ends with it.
CloseBlock(c) ==
  LET block == Last(c.frames)
      locals == Range(block.locals)
      u == BlockUses(c.frames)
  IN [frames |-> Receive(Front(c.frames), FromAbove(locals, u)),
      flags |-> c.flags \cup LocalFlags(locals, u),
      uses |-> c.uses \cup Seen(c.frames, ConstructorUses(c.frames)),
      panics |-> c.panics \/ (Members(block) # {} /\ block.fn # 1)]

\* The end of new_if: the arm that is a constant uses nothing.
CloseIf(c) ==
  LET top == Last(c.frames)
      arms == top.arms \o <<NoUses>>
  IN [c EXCEPT !.frames =
        Receive(Front(@), then_merge(top.uses, branch_merge(arms[1], arms[2])))]

Now == [frames |-> frames, flags |-> flags, uses |-> uses, panics |-> FALSE]

Resume(c) ==
  IF c.panics THEN Fail("panicked")
  ELSE /\ frames' = c.frames /\ flags' = c.flags /\ uses' = c.uses
       /\ UNCHANGED <<bounds, decls, fns, outcome>>

\* Room is left for all the blocks of the construct.
Enter(blocks, inner) ==
  /\ MayNest(Len(blocks) + inner)
  /\ frames' = frames \o blocks
  /\ UNCHANGED <<bounds, decls, fns, flags, uses, outcome>>

EnterBlock == May("block") /\ Enter(<<Block("block", Top.fn, <<>>)>>, 0)

LeaveBlock ==
  /\ IsOpen /\ Top.kind = "block"
  /\ \/ Under.kind \in {"function", "block", "loop", "each", "body"}
     \/ Under.kind \in Ifs /\ Under.stage = "condition"
  /\ \E c \in {CloseBlock(Now)} : Resume(c)

\* if goes into a block of its own; and, or do not.
EnterIf == May("if") /\ Enter(<<Block("wrapper", Top.fn, <<>>), If("if", Top.fn)>>, 1)
EnterAnd == May("and") /\ Enter(<<If("and", Top.fn)>>, 1)
EnterOr == May("or") /\ Enter(<<If("or", Top.fn)>>, 1)

\* From the condition to the first arm that is written out.
BeginArms ==
  /\ IsOpen /\ Top.kind \in Ifs
  /\ frames' = Append(Append(Front(frames),
                 [Top EXCEPT !.stage = "arms",
                             !.arms = IF Top.kind = "or" THEN <<NoUses>> ELSE <<>>]),
                 Block("block", Top.fn, <<>>))
  /\ UNCHANGED <<bounds, decls, fns, flags, uses, outcome>>

LeaveArm ==
  /\ IsOpen /\ Top.kind = "block" /\ Under.kind \in Ifs /\ Under.stage = "arms"
  /\ \E c \in {CloseBlock(Now)} :
       IF Under.kind = "if" /\ Under.arms = <<>>
         THEN Resume([c EXCEPT !.frames = Append(@, Block("block", Top.fn, <<>>))])
       ELSE IF Under.kind = "if"
         THEN \E d \in {CloseIf(c)} : Resume(CloseBlock(d))
       ELSE Resume(CloseIf(c))

\* The arms of a while's if use nothing, so what is left of it is its condition.
EnterWhile == May("while") /\ Enter(<<Block("loop", Top.fn, <<>>)>>, 1)

BeginBody == IsOpen /\ Top.kind = "loop" /\ Enter(<<Block("body", Top.fn, <<>>)>>, 0)

EnterEach == May("foreach") /\ Enter(<<Block("each", Top.fn, <<>>)>>, 2)

\* After the iterable: locals for it, for its iterator and, in every round, for the next
\* option, which is asked whether it is empty, dropped before the break when it is, and
\* consumed into the pattern when it is not.
StartRounds(names) ==
  /\ IsOpen /\ Top.kind = "each" /\ MayName(names) /\ MayDeclare(3 + Len(names))
  /\ LET iterable == New(1)
         iterator == New(2)
         option == New(3)
         before == { <<iterable, "borrowed">> }
         within == { <<iterator, "borrowed">>, <<option, "borrowed">>, <<option, "moved">> }
         each == [Top EXCEPT !.locals = @ \o <<iterable, iterator>>]
         round == Block("round", Top.fn, <<option>> \o [k \in DOMAIN names |-> New(3 + k)])
     IN IF IsTaken(frames, Vars(names)) THEN Fail("panicked")
        ELSE /\ decls' = decls \o [k \in 1..3 |-> Local(self, "synthetic", Top.fn)]
                               \o Vars(names)
             /\ frames' = Marked(Append(Front(frames), each), before)
                            \o Marked(<<round>>, within) \o <<Block("body", Top.fn, <<>>)>>
             /\ uses' = uses \cup { [fn |-> Top.fn, local |-> m[1], how |-> m[2], typed |-> m[1]]
                                    : m \in before \cup within }
             /\ UNCHANGED <<bounds, fns, flags, outcome>>

LeaveLoop ==
  /\ IsOpen /\ Top.kind = "body"
  /\ \E c \in {CloseBlock(Now)} : \E d \in {CloseBlock(c)} :
       Resume(IF Under.kind = "round" THEN CloseBlock(d) ELSE d)

-----------------------------------------------------------------------------
(* Functions.                                                              *)

EnterLambda(params) ==
  /\ May("lambda") /\ MayNest(1) /\ Len(fns) <= bounds.lambdas
  /\ MayName(params) /\ MayDeclare(Len(params))
  /\ LET fn == Len(fns) + 1
     IN /\ decls' = decls \o [k \in DOMAIN params |-> Local(params[k], "var", fn)]
        /\ frames' = Append(frames, Block("function", fn, [k \in DOMAIN params |-> New(k)]))
        /\ fns' = Append(fns, [creator |-> Top.fn, params |-> Len(params), captured |-> {},
                               magic |-> {}, given |-> {}])
  /\ UNCHANGED <<bounds, flags, uses, outcome>>

\* Mutant of all_uses: a variable that only a lambda in this one uses is not captured.
all_uses_self(u) == u.self

\* What a lambda uses and the lambdas in it use.
all_uses(u) == u.self \cup u.child

\* scout_body: what is left of the uses of a function's outermost block.
Escaping == FromAbove(Range(Top.locals), BlockUses(frames))
OfParent == { x \in all_uses(Escaping) : decls[x[1]].sort # "magic" }
Captured == { x[1] : x \in OfParent }
Magic == { l \in { x[1] : x \in Escaping.self } : decls[l].sort = "magic" }

\* determine_closure_variable_member: the creator looks every capture up by its name.
Given == { [local |-> l, typed |-> get_variable(Front(frames), decls[l].name, "var")]
           : l \in Captured }

\* What the typing pass panics on: a member captured; a local of the lambda that is
\* called like one of its captures.
BadCaptures ==
  \/ \E l \in Captured : decls[l].sort # "var"
  \/ \E l \in Captured, d \in Range(decls) :
       d.fn = Top.fn /\ d.sort = "var" /\ d.name = decls[l].name

LeaveLambda ==
  /\ IsOpen /\ Top.kind = "function" /\ Top.fn # 1
  /\ IF Members(Top) # {} THEN Fail("panicked")
     ELSE IF Magic # {} /\ fns[Top.fn].params # 0 THEN Fail("error")
     ELSE IF BadCaptures THEN Fail("panicked")
     ELSE /\ frames' = Receive(Front(frames), [self |-> {}, child |-> OfParent])
          /\ flags' = flags \cup LocalFlags(Range(Top.locals) \cup Magic, BlockUses(frames))
          /\ fns' = [fns EXCEPT ![Top.fn].captured = Captured, ![Top.fn].magic = Magic,
                                ![Top.fn].given = Given]
          /\ UNCHANGED <<bounds, decls, uses, outcome>>

\* A function that is no lambda has no underscores and nothing to capture from.
LeaveFunction ==
  /\ IsOpen /\ Top.kind = "function" /\ Top.fn = 1
  /\ IF Magic # {} \/ Captured # {} THEN Fail("panicked")
     ELSE /\ flags' = flags \cup LocalFlags(Range(Top.locals), BlockUses(frames))
          /\ uses' = uses \cup Seen(frames, ConstructorUses(frames))
          /\ outcome' = "done"
          /\ UNCHANGED <<bounds, frames, decls, fns>>

Next ==
  \/ \E n \in Name, load \in Loads : Mention(n, load)
  \/ \E m \in Member, load \in Loads : MentionMember(m, load)
  \/ \E load \in Loads : MagicParam(load)
  \/ \E n \in Name : LocalMutate(n) \/ Unlet(n) \/ LetSetting(n)
  \/ \E names \in Patterns : Let(names)
  \/ \E m \in Member : LetMember(m)
  \/ EnterBlock \/ LeaveBlock
  \/ EnterIf \/ EnterAnd \/ EnterOr \/ BeginArms \/ LeaveArm
  \/ EnterWhile \/ BeginBody \/ EnterEach \/ LeaveLoop
  \/ \E names \in Patterns : StartRounds(names)
  \/ \E params \in {<<>>} \cup { <<n>> : n \in Name } : EnterLambda(params)
  \/ LeaveLambda \/ LeaveFunction

Spec == Init /\ [][Next]_vars

-----------------------------------------------------------------------------
(* Properties.                                                             *)

\* Function k and the lambdas in it, however deep.
Within(k) ==
  { j \in DOMAIN fns :
      \A in \in SUBSET DOMAIN fns :
        k \in in /\ (\A i \in DOMAIN fns : fns[i].creator \in in => i \in in) => j \in in }

IsFinished(k) ==
  outcome \in {"scouting", "done"} /\ \A i \in DOMAIN frames : frames[i].fn # k

\* What the finished function's LocalS flags say (self and child; borrowed, moved and
\* mutated) is what its code and its lambdas do: nothing is lost where arms and blocks
\* come together, and no use is booked on the wrong one of two locals or levels.
FlagsAreExact ==
  outcome = "done" =>
    flags = { [local |-> u.local, child |-> u.fn # decls[u.local].fn, how |-> u.how] : u \in uses }

\* A lambda captures exactly the locals from around it that it or a lambda in it uses, no
\* two of a name, since the closure struct finds its members by name; and the underscores
\* that are its parameters are those written in it, not those of lambdas around or in it.
LambdasAreExact ==
  \A k \in 2..Len(fns) : IsFinished(k) =>
    /\ fns[k].captured =
         { u.local : u \in { v \in uses : v.fn \in Within(k) /\ decls[v.local].fn \notin Within(k) } }
    /\ \A l, m \in fns[k].captured : decls[l].name = decls[m].name => l = m
    /\ fns[k].magic = { l \in DOMAIN decls : decls[l].sort = "magic" /\ decls[l].fn = k }

\* Two passes, two rules: the postparser takes the nearest local of a name, the typing pass
\* the oldest of the function's own and else a capture.  They never mean different ones.
NamesAgree ==
  /\ \A u \in uses : u.typed = IF decls[u.local].fn = u.fn THEN u.local ELSE Outside
  /\ \A k \in DOMAIN fns : \A g \in fns[k].given :
       g.typed = IF decls[g.local].fn = fns[k].creator THEN g.local ELSE Outside
=============================================================================
