------------------------- MODULE SimpleSolverState -------------------------
(***************************************************************************)
(* The state of one rune solve and the one operation that changes it:      *)
(* solver/simple_solver_state.rs.  A solve holds a list of rules, the set  *)
(* of runes, the rules that are still open with the puzzles that would let *)
(* them fire, what has been concluded of which rune, and the audit trail.  *)
(*                                                                         *)
(* The module knows nothing of what a rule means: CompilerSolver extends   *)
(* it with the typing pass's rules and control loop.                       *)
(*                                                                         *)
(* Rule indices are 1-based here and 0-based in the code.  An IndexMap     *)
(* built with collect() from pairs is modelled by the sequence of pairs:   *)
(* a key keeps the position of its first pair and the value of its last.   *)
(***************************************************************************)
EXTENDS Naturals, Sequences, FiniteSets

VARIABLES
  rules,        \* Seq of rules; never shrinks
  all_runes,    \* set of runes
  open_rules,   \* open_rule_to_puzzle_to_runes: index -> set of puzzles
  conclusions,  \* rune_to_conclusion: partial function from runes
  steps         \* Seq of [solved, conclusions], one per commit

stateVars == <<rules, all_runes, open_rules, conclusions, steps>>

-----------------------------------------------------------------------------
(* The IndexMap that a sequence of <<rune, conclusion>> pairs collects to. *)

MapRunes(pairs) == { pairs[i][1] : i \in DOMAIN pairs }

IsFirst(pairs, i) == \A j \in DOMAIN pairs : pairs[j][1] = pairs[i][1] => i <= j
IsLast(pairs, i)  == \A j \in DOMAIN pairs : pairs[j][1] = pairs[i][1] => j <= i

MapPosition(pairs, r) ==
  CHOOSE i \in DOMAIN pairs : pairs[i][1] = r /\ IsFirst(pairs, i)

MapValue(pairs, r) ==
  pairs[CHOOSE i \in DOMAIN pairs : pairs[i][1] = r /\ IsLast(pairs, i)][2]

MapOf(pairs) == [r \in MapRunes(pairs) |-> MapValue(pairs, r)]

-----------------------------------------------------------------------------
(* commit_step *)

\* Mutant of Conflicts: the existing conclusion is not compared.
NoConflicts(pairs) == {}

\* The runes of a step whose new conclusion disagrees with the one on file.
Conflicts(pairs) ==
  { r \in MapRunes(pairs) : /\ r \in DOMAIN conclusions
                            /\ conclusions[r] # MapValue(pairs, r) }

\* The loop returns at the first conflict, after inserting what came before.
Inserted(pairs) ==
  { r \in MapRunes(pairs) :
      \A q \in Conflicts(pairs) : MapPosition(pairs, r) < MapPosition(pairs, q) }

WithInserted(pairs) ==
  [r \in DOMAIN conclusions \cup Inserted(pairs) |->
     IF r \in Inserted(pairs) THEN MapValue(pairs, r) ELSE conclusions[r]]

\* Mutant of Reopened: the index of an added rule is taken after its push.
ReopenedAfterPush(solved, newPuzzles) ==
  [i \in (DOMAIN open_rules \ solved)
           \cup { Len(rules) + k + 1 : k \in { k \in DOMAIN newPuzzles : newPuzzles[k] # {} } } |->
     IF i \in DOMAIN open_rules THEN open_rules[i] ELSE newPuzzles[i - Len(rules) - 1]]

\* open_rules without the solved ones, with an entry for each added rule.
Reopened(solved, newPuzzles) ==
  [i \in (DOMAIN open_rules \ solved)
           \cup { Len(rules) + k : k \in { k \in DOMAIN newPuzzles : newPuzzles[k] # {} } } |->
     IF i \in DOMAIN open_rules THEN open_rules[i] ELSE newPuzzles[i - Len(rules)]]

\* Mutant of commit_step: the rules are closed before the conflict check.
commit_step_closing_first(solved, pairs, newRules, newPuzzles, newRunes) ==
  /\ all_runes' = all_runes \cup newRunes
  /\ steps' = Append(steps, [solved |-> solved, conclusions |-> MapOf(pairs)])
  /\ conclusions' = WithInserted(pairs)
  /\ open_rules' = Reopened(solved, newPuzzles)
  /\ rules' = rules \o newRules

\* The audit trail gets the step before the conflict check; on a conflict no
\* rule is closed and none is added.
commit_step(solved, pairs, newRules, newPuzzles, newRunes) ==
  /\ all_runes' = all_runes \cup newRunes
  /\ steps' = Append(steps, [solved |-> solved, conclusions |-> MapOf(pairs)])
  /\ conclusions' = WithInserted(pairs)
  /\ IF Conflicts(pairs) = {}
     THEN /\ open_rules' = Reopened(solved, newPuzzles)
          /\ rules' = rules \o newRules
     ELSE UNCHANGED <<open_rules, rules>>

\* Mutant of PuzzlesDeclared: the new runes are recorded after the assert.
PuzzlesDeclaredBefore(newPuzzles, newRunes) ==
  \A k \in DOMAIN newPuzzles :
    \A puzzle \in newPuzzles[k] : puzzle \subseteq all_runes

\* The assert in commit_step's loop over the added rules.
PuzzlesDeclared(newPuzzles, newRunes) ==
  \A k \in DOMAIN newPuzzles :
    \A puzzle \in newPuzzles[k] : puzzle \subseteq all_runes \cup newRunes

-----------------------------------------------------------------------------
(* Queries *)

is_complete == Cardinality(DOMAIN conclusions) = Cardinality(all_runes)

\* Mutant of Solvable: every puzzle must be met, not any.
SolvableByAll ==
  { i \in DOMAIN open_rules :
      \A puzzle \in open_rules[i] : puzzle \subseteq DOMAIN conclusions }

Solvable ==
  { i \in DOMAIN open_rules :
      \E puzzle \in open_rules[i] : puzzle \subseteq DOMAIN conclusions }

get_next_solvable == CHOOSE i \in Solvable : \A j \in Solvable : i <= j

rule_is_solved(i) == i \notin DOMAIN open_rules

get_unsolved_runes == all_runes \ DOMAIN conclusions

-----------------------------------------------------------------------------
(* make_solver_state: new(), then a commit of the known runes and the      *)
(* initial rules, which cannot conflict with an empty state.               *)

make_solver_state(initialRules, initialPuzzles, knowns, runes) ==
  /\ rules = initialRules
  /\ all_runes = runes
  /\ open_rules = [i \in { k \in DOMAIN initialPuzzles : initialPuzzles[k] # {} } |->
                     initialPuzzles[i]]
  /\ conclusions = knowns
  /\ steps = << [solved |-> {}, conclusions |-> knowns] >>
=============================================================================
