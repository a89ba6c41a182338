--------------------------- MODULE BorrowSemantics --------------------------
(***************************************************************************)
(* What an execution of a grouped body does to references: the reference   *)
(* the walk of CheckUsages is compared with.  A body is executed forward,  *)
(* children in evaluation order, either arm of an if and any number of     *)
(* rounds of a loop.  A value carries the places it points into and the    *)
(* churns that destroyed what it pointed at; an execution records every    *)
(* use of such a stale value, with the churn.                              *)
(***************************************************************************)
EXTENDS GroupedAst, FiniteSets

Nothing == [paths |-> {}, by |-> {}]
Fresh(type) == [paths |-> MentionsOf(type), by |-> {}]

(* A churn destroys every element of every collection at or below the      *)
(* churned place, and so all that is stored in them.                       *)
Destroyed(churned, steps) ==
  \E n \in DOMAIN steps : steps[n] = ELEM /\ IsPrefix(churned, SubSeq(steps, 1, n - 1))
Places(path) ==
  IF path.ellipsis
  THEN {path.steps \o tail : tail \in UNION {[1..n -> {ELEM, "hp"}] : n \in 0..2}}
  ELSE {path.steps}
Kills(churned, path) == \E steps \in Places(path) : Destroyed(churned, steps)

Spoil(v, churn) ==
  IF \E p \in v.paths : Kills(churn.path, p) THEN [v EXCEPT !.by = @ \union {churn.at}] ELSE v

(* The last n temporaries of a state, and the state without them.          *)
Operands(s, n) == SubSeq(s.temps, Len(s.temps) - n + 1, Len(s.temps))
Push(s, n, v) == [s EXCEPT !.temps = Append(SubSeq(@, 1, Len(@) - n), v)]

(* A use of each operand of a node.                                        *)
Use(s, node) ==
  LET n == Len(node.kids)
      vals == Operands(s, n)
  IN  [s EXCEPT !.stale = @ \union
         UNION {{<<node.kids[i].use_at, c>> : c \in vals[i].by} : i \in 1..n}]

(* What a callee that was promised disjoint groups, or handed an owner,    *)
(* destroys under another of its arguments.                                *)
InsideCallee(s, node) ==
  LET n == Len(node.kids)
      vals == Operands(s, n)
      moved(i, j) == /\ node.kids[i].op = "unlet"
                     /\ \E p \in vals[j].paths : Head(p.steps) = node.kids[i].var
      mutated(i, j) == /\ NoRune \notin {node.runes[i], node.runes[j]}
                       /\ node.runes[i] # node.runes[j] /\ node.runes[i] \in node.mutated
                       /\ \E p \in vals[i].paths, q \in vals[j].paths : Kills(p.steps, q)
  IN  {<<node.kids[j].use_at, node.at>> : j \in {j \in 1..n : \E i \in 1..n :
         i # j /\ (moved(i, j) \/ mutated(i, j))}}

ChurnState(s, churn) ==
  [s EXCEPT !.locals = [x \in DOMAIN @ |-> Spoil(@[x], churn)],
            !.temps = [i \in DOMAIN @ |-> Spoil(@[i], churn)],
            !.churned = @ \union {churn.path}]

(* What a node does once its children are evaluated.                       *)
Effect(node, s) ==
  LET n == Len(node.kids)
      vals == Operands(s, n)
      used == Use(s, node)
  IN  CASE node.op = "const" -> Push(s, 0, Nothing)
        [] node.op = "arg" -> Push(s, 0, Fresh(node.type))
        [] node.op = "local" ->
             Push(s, 0, [s.locals[node.var] EXCEPT !.paths = @ \union {Path(<<node.var>>)}])
        [] node.op = "unlet" -> Push(s, 0, s.locals[node.var])
        [] node.op = "deref" /\ IsBorrow(node.type) ->
             Push(s, 1, IF node.kids[1].op = "local" THEN s.locals[node.kids[1].var] ELSE vals[1])
        [] node.op = "forward" -> Push(s, 1, vals[1])
        [] node.op = "discard" -> Push(s, 1, Nothing)
        [] node.op = "let" ->
             Push([s EXCEPT !.locals[node.var] = vals[1]], 1,
                  IF IsBorrow(node.type) THEN [vals[1] EXCEPT !.paths = MentionsOf(node.type)]
                  ELSE Nothing)
        [] node.op = "mutate" /\ node.kids[1].op = "local" ->
             Push([s EXCEPT !.locals[node.kids[1].var] = vals[2]], 2, s.locals[node.kids[1].var])
        [] node.op = "destroy" ->
             Push([used EXCEPT !.locals = [x \in DOMAIN @ |->
                     IF x \in node.drops THEN [paths |-> vals[1].paths, by |-> {}] ELSE @[x]]],
                  1, Nothing)
        [] node.op = "call" ->
             LET entered == [used EXCEPT !.stale = @ \union InsideCallee(s, node)]
             IN  Push(FoldLeft(ChurnState, Push(entered, n, Nothing), node.churns), 1, Fresh(node.type))
        [] node.op = "return" -> [used EXCEPT !.out = "return"]
        [] node.op = "break" -> [s EXCEPT !.out = "break"]
        [] OTHER -> Push(used, n, Fresh(node.type))

RECURSIVE Exec(_, _), LoopRounds(_, _, _)

(* The states in which a node, or nodes in turn, can leave a state.        *)
ExecAll(nodes, start) ==
  FoldLeft(LAMBDA states, node :
             UNION {IF s.out = "on" THEN Exec(node, s) ELSE {s} : s \in states}, start, nodes)

Exec(node, s) ==
  CASE node.op = "if" ->
         UNION {IF t.out # "on" THEN {t}
                ELSE LET u == [t EXCEPT !.temps = Front(@)]
                     IN  Exec(node.kids[2], u) \union Exec(node.kids[3], u) :
                  t \in Exec(node.kids[1], s)}
    [] node.op = "while" -> LoopRounds(node.kids[1], {s}, {s})
    [] node.op = "seq" ->
         {IF t.out # "on" THEN t ELSE Push(t, Len(node.kids), Last(t.temps)) :
            t \in ExecAll(node.kids, {s})}
    [] OTHER -> {IF t.out # "on" THEN t ELSE Effect(node, t) : t \in ExecAll(node.kids, {s})}

(* Rounds of a loop until no new state reaches its head; a break leaves it.*)
LoopRounds(body, heads, new) ==
  LET depth == Len((CHOOSE s \in heads : TRUE).temps)
      ended == UNION {Exec(body, s) : s \in new}
      again == {[t EXCEPT !.temps = SubSeq(@, 1, depth)] : t \in {u \in ended : u.out = "on"}}
      left == {Push([t EXCEPT !.out = "on", !.temps = SubSeq(@, 1, depth)], 0, Nothing) :
                 t \in {u \in ended : u.out = "break"}}
      returned == {t \in ended : t.out = "return"}
      unseen == again \ heads
  IN  left \union returned \union
      (IF unseen = {} THEN {} ELSE LoopRounds(body, heads \union unseen, unseen))

Executions(body) ==
  Exec(body, [locals |-> [x \in Locals |-> Nothing], temps |-> <<>>,
                      stale |-> {}, churned |-> {}, out |-> "on"])

StaleUses(body) == UNION {t.stale : t \in Executions(body)}
=============================================================================
