----------------------------- MODULE CheckUsages ----------------------------
(***************************************************************************)
(* The borrow checker's use-after-churn walk                               *)
(* (typing/borrow_checker/experimental/check_usages.rs).                   *)
(*                                                                         *)
(* The walk visits the grouped body backward, in reverse evaluation order, *)
(* carrying the reference values that still have a use later in the        *)
(* program.  A churn met on the way back that reaches a pending value is a *)
(* use after churn.  The recursion of check_ge is an agenda, a stack of    *)
(* what is left to do: one action visits one node, and an if or a loop     *)
(* leaves the work that follows its arms or its body on the agenda.        *)
(***************************************************************************)
EXTENDS GroupedAst, FiniteSets

CONSTANTS Programs,     \* the checked functions
          Body(_),      \* the grouped body of a function
          Declared(_)   \* the paths its signature declares mut

VARIABLES program,        \* the function being checked
          agenda,         \* what is left to visit, next first
          pending,        \* the values with a later use, in insertion order
          break_targets,  \* the post-loop pending of each enclosing loop
          errors,         \* the violations found
          next_held,      \* the counter that names held temporaries
          finished        \* the errors were put in program order

vars == <<program, agenda, pending, break_targets, errors, next_held, finished>>

NoKey == <<"none", 0>>
Named(x) == <<"named", x>>
Held(n) == <<"held", n>>

Check(node, key) == [do |-> "check", node |-> node, key |-> key, saved |-> <<>>]
After(do, node, key, saved) == [do |-> do, node |-> node, key |-> key, saved |-> saved]

Problem(kind, at, key, churned_at) ==
  [kind |-> kind, at |-> at, key |-> key, churned_at |-> churned_at]

-----------------------------------------------------------------------------
(* Group paths.                                                            *)

(* Whether a churn of the path reaches a reference into the mention: it    *)
(* must lie below, across a destructible child edge; a mention with an     *)
(* ellipsis dies to a churn at, above or below it.                         *)
Reaches(churned, mention) ==
  IF mention.ellipsis
  THEN IsPrefix(churned, mention.steps) \/ IsPrefix(mention.steps, churned)
  ELSE /\ IsStrictPrefix(churned, mention.steps)
       /\ \E i \in (Len(churned) + 1)..Len(mention.steps) : mention.steps[i] = ELEM

\* Mutant of PathCovers: the prefix test is the wrong way round.
PathCoversSwapped(declared, churned) == IsPrefix(churned, declared)

PathsAlias(p, q) == IsPrefix(p, q) \/ IsPrefix(q, p)
IsParamRooted(steps) == Head(steps) \in Runes
PathCovers(declared, churned) == IsPrefix(declared, churned)

-----------------------------------------------------------------------------
(* The pending map: a sequence of [key, use, mentions], one per key.       *)

IsPending(p, key) == \E i \in DOMAIN p : p[i].key = key

(* Merging keeps the earlier use, and the mentions of both.                *)
Insert(p, entry) ==
  IF IsPending(p, entry.key)
  THEN [i \in DOMAIN p |->
          IF p[i].key # entry.key THEN p[i]
          ELSE [p[i] EXCEPT !.use = IF entry.use < @ THEN entry.use ELSE @,
                            !.mentions = @ \union entry.mentions]]
  ELSE Append(p, entry)

InsertAll(p, entries) == FoldLeft(Insert, p, entries)

Retire(p, key) == SelectSeq(p, LAMBDA entry : entry.key # key)

(* The value under one key is supplied by another.                         *)
Rekey(p, from, to) ==
  LET moved == SelectSeq(p, LAMBDA entry : entry.key = from)
  IN  InsertAll(Retire(p, from), [i \in DOMAIN moved |-> [moved[i] EXCEPT !.key = to]])

PendingKey(p, key) == IF IsPending(p, key) THEN key ELSE NoKey

(* Register children as uses, in order: each gets the key of the local it  *)
(* reads, or a fresh held one; a child that mentions no group gets none.   *)
UseKey(node, held) == IF node.reads # NoName THEN Named(node.reads) ELSE Held(held)
Register(w, node) ==
  IF MentionsOf(node.type) = {} THEN [w EXCEPT !.keys = Append(@, NoKey)]
  ELSE LET key == UseKey(node, w.next_held)
       IN  [pending |-> Insert(w.pending, [key |-> key, use |-> node.use_at,
                                           mentions |-> MentionsOf(node.type)]),
            next_held |-> IF node.reads # NoName THEN w.next_held ELSE w.next_held + 1,
            keys |-> Append(w.keys, key)]
RegisterAll(p, nodes) ==
  FoldLeft(Register, [pending |-> p, next_held |-> next_held, keys |-> <<>>], nodes)

(* Report and drop every pending value a churn reaches.                    *)
Churn(w, churn) ==
  LET reached(entry) == \E m \in entry.mentions : Reaches(churn.path, m)
      hit == SelectSeq(w.pending, reached)
      kind(entry) == IF entry.key[1] = "named" THEN "UseAfterChurn" ELSE "UseAfterChurnTemporary"
  IN  [pending |-> SelectSeq(w.pending, LAMBDA entry : ~reached(entry)),
       errors |-> w.errors \o
         [i \in DOMAIN hit |->
            Problem(kind(hit[i]), hit[i].use,
                    IF hit[i].key[1] = "named" THEN hit[i].key ELSE NoKey, churn.at)]]
ChurnAll(w, churns) == FoldLeft(Churn, w, churns)

-----------------------------------------------------------------------------
(* The facts about the arguments of one call, taken together.              *)

IsPlace(node) == node.place # NoName /\ IsBorrow(node.type)
SolePath(node) == (CHOOSE p \in Head(node.type.layers) : TRUE).steps
FirstOf(pairs) ==
  CHOOSE p \in pairs : \A q \in pairs : p[1] < q[1] \/ (p[1] = q[1] /\ p[2] <= q[2])

BorrowsIntoMoved(args) ==
  {p \in (DOMAIN args) \X (DOMAIN args) :
     /\ p[1] # p[2] /\ IsPlace(args[p[1]])
     /\ args[p[2]].op = "unlet" /\ args[p[2]].var = args[p[1]].place}

AliasingIntoDisjointMut(args, runes, mutated) ==
  {p \in (DOMAIN args) \X (DOMAIN args) :
     /\ p[1] < p[2] /\ IsPlace(args[p[1]]) /\ IsPlace(args[p[2]])
     /\ NoRune \notin {runes[p[1]], runes[p[2]]} /\ runes[p[1]] # runes[p[2]]
     /\ {runes[p[1]], runes[p[2]]} \intersect mutated # {}
     /\ PathsAlias(SolePath(args[p[1]]), SolePath(args[p[2]]))}

(* Only the first fact is reported, at the borrowing argument.             *)
JointErrors(node) ==
  LET moved == BorrowsIntoMoved(node.kids)
      aliased == AliasingIntoDisjointMut(node.kids, node.runes, node.mutated)
      at(pairs) == node.kids[FirstOf(pairs)[1]].at
  IN  IF moved # {} THEN <<Problem("BorrowIntoMovedArgument", at(moved), NoKey, 0)>>
      ELSE IF aliased # {} THEN <<Problem("AliasingIntoDisjointMutGroups", at(aliased), NoKey, 0)>>
      ELSE <<>>

(* A churn rooted at a group of the signature must be covered by a         *)
(* declared mut; then it spoils what is pending.                           *)
GatedChurn(w, churn) ==
  LET declared == ~IsParamRooted(churn.path)
                  \/ \E d \in Declared(program) : PathCovers(d, churn.path)
  IN  Churn(IF declared THEN w
            ELSE [w EXCEPT !.errors = Append(@, Problem("UndeclaredChurn", churn.at, NoKey, 0))],
            churn)

-----------------------------------------------------------------------------
(* The errors in program order, ties in the order they were found, and one *)
(* report of a use kept from each run of equal ones.                       *)
InProgramOrder(es) ==
  LET before(i, j) == es[i].at < es[j].at \/ (es[i].at = es[j].at /\ i < j)
      rank(i) == 1 + Cardinality({j \in DOMAIN es : before(j, i)})
  IN  [r \in DOMAIN es |-> es[CHOOSE i \in DOMAIN es : rank(i) = r]]
SameUse(e, f) ==
  /\ e.at = f.at /\ e.kind = f.kind /\ e.key = f.key
  /\ e.kind \in {"UseAfterChurn", "UseAfterChurnTemporary", "UndeclaredChurn"}
Dedup(es) ==
  FoldLeft(LAMBDA kept, e : IF kept # <<>> /\ SameUse(Last(kept), e) THEN kept ELSE Append(kept, e),
           <<>>, es)

-----------------------------------------------------------------------------
Init ==
  /\ program \in Programs
  /\ agenda = <<Check(Body(program), NoKey)>>
  /\ pending = <<>> /\ break_targets = <<>> /\ errors = <<>>
  /\ next_held = 0 /\ finished = FALSE

Top == Head(agenda)
Key == Top.key
Kid(i) == Top.node.kids[i]
Visiting(ops) == agenda # <<>> /\ Top.do = "check" /\ Top.node.op \in ops
Then(tasks) == agenda' = tasks \o Tail(agenda) /\ UNCHANGED <<program, finished>>

(* Consume children: every one is registered before any is walked, and     *)
(* they are walked last first.                                             *)
CheckArgs(p, nodes) ==
  LET w == RegisterAll(p, nodes)
  IN  /\ pending' = w.pending /\ next_held' = w.next_held
      /\ Then(Reverse([i \in DOMAIN nodes |-> Check(nodes[i], w.keys[i])]))

(* A local read forwards its value: whoever uses it uses the local.        *)
ReadLocal ==
  /\ Visiting({"local", "unlet"})
  /\ pending' = Rekey(pending, Key, Named(Top.node.var))
  /\ Then(<<>>) /\ UNCHANGED <<break_targets, errors, next_held>>

(* A parameter or a constant: born here.                                   *)
Born ==
  /\ Visiting({"arg", "const"})
  /\ pending' = Retire(pending, Key)
  /\ Then(<<>>) /\ UNCHANGED <<break_targets, errors, next_held>>

(* A decay, a cast or a block forwards its value.                          *)
Forward ==
  /\ \/ Visiting({"forward"})
     \/ Visiting({"deref"}) /\ IsBorrow(Top.node.type)
  /\ Then(<<Check(Kid(1), Key)>>)
  /\ UNCHANGED <<pending, break_targets, errors, next_held>>

(* A load through a reference, or a node that consumes its children: uses. *)
Consumes ==
  /\ \/ Visiting({"copyprim", "opaque", "consume"})
     \/ Visiting({"deref"}) /\ ~IsBorrow(Top.node.type)
  /\ CheckArgs(Retire(pending, Key), Top.node.kids)
  /\ UNCHANGED <<break_targets, errors>>

(* An element or member reference is born here, by reading through the     *)
(* base, which is a use of it; the index is walked while the base waits.   *)
LookupPlace ==
  /\ Visiting({"lookup"})
  /\ LET w == RegisterAll(Retire(pending, Key), <<Kid(1)>>)
         index == [i \in 1..(Len(Top.node.kids) - 1) |-> Check(Kid(i + 1), NoKey)]
     IN  /\ pending' = w.pending /\ next_held' = w.next_held
         /\ Then(Append(index, Check(Kid(1), w.keys[1])))
  /\ UNCHANGED <<break_targets, errors>>

(* A call: its result is born here, then it churns, then - earlier still - *)
(* its arguments are used.                                                 *)
FunctionCall ==
  /\ Visiting({"call"})
  /\ LET w == FoldLeft(GatedChurn, [pending |-> Retire(pending, Key), errors |-> errors],
                       Top.node.churns)
     IN  /\ errors' = w.errors \o JointErrors(Top.node)
         /\ CheckArgs(w.pending, Top.node.kids)
  /\ UNCHANGED break_targets

\* Mutant of Bind: the initializer does not learn of the local's later use.
BindForgets ==
  /\ Visiting({"let"})
  /\ pending' = Retire(pending, Key)
  /\ Then(<<Check(Kid(1), NoKey)>>)
  /\ UNCHANGED <<break_targets, errors, next_held>>

(* A binding forwards the local's pending use to what it is bound to.      *)
Bind ==
  /\ Visiting({"let"})
  /\ pending' = Retire(pending, Key)
  /\ Then(<<Check(Kid(1), PendingKey(pending', Named(Top.node.var)))>>)
  /\ UNCHANGED <<break_targets, errors, next_held>>

(* A store (Mutate).  Into a bare local, the source supplies the local's later      *)
(* uses; into any other place, the source is a use.  The source is walked, *)
(* then the destination.                                                   *)
Stores ==
  /\ Visiting({"mutate"})
  /\ LET retired == Retire(pending, Key)
         w == IF Kid(1).op = "local"
              THEN [pending |-> retired, next_held |-> next_held,
                    keys |-> <<PendingKey(retired, Named(Kid(1).var))>>]
              ELSE RegisterAll(retired, <<Kid(2)>>)
     IN  /\ pending' = w.pending /\ next_held' = w.next_held
         /\ Then(<<Check(Kid(2), w.keys[1]), Check(Kid(1), NoKey)>>)
  /\ UNCHANGED <<break_targets, errors>>

\* Mutant of Returns: what follows the return stays pending.
ReturnsKeepPending ==
  /\ Visiting({"return"})
  /\ CheckArgs(pending, Top.node.kids)
  /\ UNCHANGED <<break_targets, errors>>

(* Nothing after a return is reachable; what it returns is a use.          *)
Returns ==
  /\ Visiting({"return"})
  /\ CheckArgs(<<>>, Top.node.kids)
  /\ UNCHANGED <<break_targets, errors>>

(* A break resumes from what is pending after the innermost loop.          *)
Breaks ==
  /\ Visiting({"break"})
  /\ pending' = Last(break_targets)
  /\ Then(<<>>) /\ UNCHANGED <<break_targets, errors, next_held>>

\* Mutant of JoinArms: what only the then arm left pending is lost.
JoinArmsElseOnly ==
  /\ agenda # <<>> /\ Top.do = "join"
  /\ Then(<<Check(Kid(1), NoKey)>>)
  /\ UNCHANGED <<pending, break_targets, errors, next_held>>

(* Both arms run from the set after the if, and before it whatever either  *)
(* left pending is.                                                        *)
ThenArm ==
  /\ Visiting({"if"})
  /\ Then(<<Check(Kid(2), Key), After("else", Top.node, Key, pending)>>)
  /\ UNCHANGED <<pending, break_targets, errors, next_held>>
ElseArm ==
  /\ agenda # <<>> /\ Top.do = "else"
  /\ pending' = Top.saved
  /\ Then(<<Check(Kid(3), Key), After("join", Top.node, Key, pending)>>)
  /\ UNCHANGED <<break_targets, errors, next_held>>
JoinArms ==
  /\ agenda # <<>> /\ Top.do = "join"
  /\ pending' = InsertAll(Top.saved, pending)
  /\ Then(<<Check(Kid(1), NoKey)>>)
  /\ UNCHANGED <<break_targets, errors, next_held>>

(* The body is walked once, from the set after the loop; what is pending   *)
(* at its start is then spoiled by every churn in the body.                *)
EnterLoop ==
  /\ Visiting({"while"})
  /\ pending' = Retire(pending, Key)
  /\ break_targets' = Append(break_targets, pending')
  /\ Then(<<Check(Kid(1), NoKey), After("loop", Top.node, Key, <<>>)>>)
  /\ UNCHANGED <<errors, next_held>>
LeaveLoop ==
  /\ agenda # <<>> /\ Top.do = "loop"
  /\ LET w == ChurnAll([pending |-> pending, errors |-> errors], Kid(1).churns_in)
     IN  pending' = w.pending /\ errors' = w.errors
  /\ break_targets' = Front(break_targets)
  /\ Then(<<>>) /\ UNCHANGED next_held

(* A sequence is walked last first; its value is the last one's.           *)
Sequence ==
  /\ Visiting({"seq"})
  /\ Then(Reverse([i \in DOMAIN Top.node.kids |->
                     Check(Kid(i), IF i = Len(Top.node.kids) THEN Key ELSE NoKey)]))
  /\ UNCHANGED <<pending, break_targets, errors, next_held>>

(* Discarding a value is no use of it.                                     *)
Discards ==
  /\ Visiting({"discard"})
  /\ pending' = Retire(pending, Key)
  /\ Then(<<Check(Kid(1), NoKey)>>)
  /\ UNCHANGED <<break_targets, errors, next_held>>

(* A destructure binds its destinations and uses what it destructures.     *)
Destroys ==
  /\ Visiting({"destroy"})
  /\ CheckArgs(SelectSeq(Retire(pending, Key),
                         LAMBDA entry : entry.key \notin {Named(x) : x \in Top.node.drops}),
               Top.node.kids)
  /\ UNCHANGED <<break_targets, errors>>

(* The walk is over: the errors are put in program order and deduplicated. *)
Finish ==
  /\ agenda = <<>> /\ ~finished
  /\ finished' = TRUE
  /\ errors' = Dedup(InProgramOrder(errors))
  /\ UNCHANGED <<program, agenda, pending, break_targets, next_held>>

Next ==
  \/ ReadLocal \/ Born \/ Forward \/ Consumes \/ LookupPlace \/ FunctionCall
  \/ Bind \/ Stores \/ Returns \/ Breaks \/ ThenArm \/ ElseArm \/ JoinArms
  \/ EnterLoop \/ LeaveLoop \/ Sequence \/ Discards \/ Destroys \/ Finish

Spec == Init /\ [][Next]_vars
=============================================================================
