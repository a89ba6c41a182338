------------------------ MODULE CompilerSolverProofs ------------------------
(***************************************************************************)
(* Theorems about CompilerSolver, for every set of runes, of rules and of  *)
(* solves.  Nothing here depends on what find_function answers, on which   *)
(* puzzle of a rule is met first, or on which callback fills the gaps.     *)
(*                                                                         *)
(* The invariants are proved in the order in which they need each other:   *)
(* TypeOK, then Declared (nothing is said of a rune the solve does not     *)
(* have), ClosedInv, which strengthens ClosedRulesHold, Quiet (a loop that *)
(* has stopped has nothing left to fire), ConclusionsForced with Justified,*)
(* Exact (what is known is what the rules give of what was given), and     *)
(* LoopInv (a checked solve has callbacks left, or a default was in vain). *)
(***************************************************************************)
EXTENDS CompilerSolver, FiniteSetTheorems, WellFoundedInduction, TLAPS

-----------------------------------------------------------------------------
(* What a rule mentions *)

\* Every rule has a puzzle, and its puzzles are made of its own runes.
LEMMA PuzzlesAreOfRunes ==
  ASSUME NEW rule \in Rule
  PROVE  /\ get_puzzles(rule) # {}
         /\ \A puzzle \in get_puzzles(rule) : puzzle \subseteq RunesOf(rule)
  BY RulesAssumption DEF get_puzzles, RunesOf, LeafOps, RefOps

\* The runes of the shapes of conclusion lists.
LEMMA RunesOfNone == MapRunes(<<>>) = {} /\ DOMAIN <<>> = {}
  <1>1. DOMAIN <<>> = {}
    OBVIOUS
  <1>2. QED  BY <1>1 DEF MapRunes

LEMMA RunesOfOne ==
  ASSUME NEW a, NEW v
  PROVE  MapRunes(<< <<a, v>> >>) = {a}
  BY DEF MapRunes

LEMMA RunesOfTwo ==
  ASSUME NEW a, NEW v, NEW b, NEW w
  PROVE  MapRunes(<< <<a, v>>, <<b, w>> >>) = {a, b}
  BY DEF MapRunes

LEMMA RunesOfZip ==
  ASSUME NEW runes, NEW ts
  PROVE  MapRunes(ZipPairs(runes, ts)) \subseteq Range(runes)
  BY DEF MapRunes, ZipPairs, Range

\* A rule concludes things of its own runes only.
LEMMA ConcludesOwnRunes ==
  ASSUME NEW rule \in Rule
  PROVE  MapRunes(Concluded(rule)) \subseteq RunesOf(rule)
  <1>1. CASE rule.op \in LeafOps
    <2>1. Concluded(rule) = << <<rule.result, rule.value>> >>
      BY <1>1 DEF Concluded, LeafOps, RefOps
    <2>2. RunesOf(rule) = {rule.result}
      BY <1>1 DEF RunesOf, LeafOps, RefOps
    <2>3. QED  BY <2>1, <2>2, RunesOfOne
  <1>2. CASE rule.op = "Equals"
    <2>1. Concluded(rule) = EqualsConcluded(rule)
      BY <1>2 DEF Concluded, LeafOps, RefOps
    <2>2. RunesOf(rule) = {rule.left, rule.right}
      BY <1>2 DEF RunesOf, LeafOps, RefOps
    <2>3. QED  BY <2>1, <2>2, RunesOfOne DEF EqualsConcluded
  <1>3. CASE rule.op \in RefOps
    <2>1. Concluded(rule) = RefConcluded(rule)
      BY <1>3 DEF Concluded, LeafOps, RefOps
    <2>2. RunesOf(rule) = {rule.result, rule.inner}
      BY <1>3 DEF RunesOf, LeafOps, RefOps
    <2>3. QED  BY <2>1, <2>2, RunesOfOne DEF RefConcluded
  <1>4. CASE rule.op = "KindList"
    <2>1. Concluded(rule) = KindListConcluded(rule)
      BY <1>4 DEF Concluded, LeafOps, RefOps
    <2>2. RunesOf(rule) = {rule.result} \cup Range(rule.members)
      BY <1>4 DEF RunesOf, LeafOps, RefOps
    <2>3. QED  BY <2>1, <2>2, RunesOfOne, RunesOfZip DEF KindListConcluded
  <1>5. CASE rule.op = "Call"
    <2>1. Concluded(rule) = CallConcluded(rule)
      BY <1>5 DEF Concluded, LeafOps, RefOps
    <2>2. RunesOf(rule) = {rule.result, rule.template} \cup Range(rule.args)
      BY <1>5 DEF RunesOf, LeafOps, RefOps
    <2>3. QED  BY <2>1, <2>2, RunesOfOne, RunesOfZip DEF CallConcluded
  <1>6. CASE rule.op \in {"CallSiteFunc", "DefinitionFunc", "Resolve"}
    <2>1. Concluded(rule) \in {CallSiteFuncConcluded(rule), Predicted(rule), Resolved(rule)}
      BY <1>6 DEF Concluded, LeafOps, RefOps
    <2>2. RunesOf(rule) = {rule.result, rule.params, rule.return}
      BY <1>6 DEF RunesOf, LeafOps, RefOps
    <2>3. QED
      BY <2>1, <2>2, RunesOfOne, RunesOfTwo DEF CallSiteFuncConcluded, Predicted, Resolved
  <1>7. QED
    BY <1>1, <1>2, <1>3, <1>4, <1>5, <1>6, RulesAssumption

-----------------------------------------------------------------------------
(* Type correctness *)

\* The part of TypeOK that commit_step is answerable for.
StateOK ==
  /\ rules \in Seq(Rule)
  /\ all_runes \subseteq Rune
  /\ DOMAIN conclusions \subseteq Rune
  /\ DOMAIN open_rules \subseteq DOMAIN rules
  /\ \A i \in DOMAIN open_rules : open_rules[i] = get_puzzles(rules[i])

\* commit_step keeps the state well typed: an added rule gets the puzzles and
\* the index that are its own (open_rule_to_puzzle_to_runes).
LEMMA CommitKeepsStateOK ==
  ASSUME StateOK,
         NEW solved, NEW pairs, NEW newRules \in Seq(Rule), NEW newRunes \in SUBSET Rune,
         MapRunes(pairs) \subseteq Rune,
         commit_step(solved, pairs, newRules, PuzzlesOf(newRules), newRunes)
  PROVE  StateOK'
  <1>1. all_runes' \subseteq Rune /\ DOMAIN conclusions' \subseteq Rune
    BY DEF StateOK, commit_step, WithInserted, Inserted
  <1>2. CASE Conflicts(pairs) = {}
    <2>1. rules' = rules \o newRules /\ open_rules' = Reopened(solved, PuzzlesOf(newRules))
      BY <1>2 DEF commit_step
    <2>2. rules' \in Seq(Rule) /\ Len(rules') = Len(rules) + Len(newRules)
      BY <2>1 DEF StateOK
    <2>3. ASSUME NEW i \in DOMAIN open_rules'
          PROVE  i \in DOMAIN rules' /\ open_rules'[i] = get_puzzles(rules'[i])
      <3>1. CASE i \in DOMAIN open_rules
        <4>1. i \in 1..Len(rules) /\ rules'[i] = rules[i]
          BY <3>1, <2>1 DEF StateOK
        <4>2. open_rules'[i] = open_rules[i]
          BY <3>1, <2>1, <2>3 DEF Reopened
        <4>3. QED  BY <3>1, <4>1, <4>2, <2>2 DEF StateOK
      <3>2. CASE i \notin DOMAIN open_rules
        <4>1. PICK k \in 1..Len(newRules) : i = Len(rules) + k
          <5>1. i \in { Len(rules) + k : k \in { k \in DOMAIN newRules : get_puzzles(newRules[k]) # {} } }
            BY <3>2, <2>1, <2>3 DEF Reopened, PuzzlesOf
          <5>2. QED  BY <5>1
        <4>2. rules'[i] = newRules[k]
          BY <4>1, <2>1 DEF StateOK
        <4>3. i - Len(rules) = k
          BY <4>1 DEF StateOK
        <4>4. open_rules'[i] = get_puzzles(newRules[k])
          BY <3>2, <2>1, <2>3, <4>3 DEF Reopened, PuzzlesOf
        <4>5. i \in DOMAIN rules'
          BY <4>1, <2>2 DEF StateOK
        <4>6. QED  BY <4>2, <4>4, <4>5
      <3>3. QED  BY <3>1, <3>2
    <2>4. QED  BY <1>1, <2>2, <2>3 DEF StateOK
  <1>3. CASE Conflicts(pairs) # {}
    BY <1>1, <1>3 DEF StateOK, commit_step
  <1>4. QED  BY <1>2, <1>3

\* get_next_solvable's min().
LEMMA SmallestIndex ==
  ASSUME NEW S \in SUBSET Nat, S # {}
  PROVE  \E i \in S : \A j \in S : i <= j
  <1>1. PICK i \in S : \A j \in S : <<j, i>> \notin OpToRel(<, Nat)
    BY WFMin, NatLessThanWellFounded, Zenon
  <1>2. \A j \in S : ~ (j < i)
    BY <1>1 DEF OpToRel
  <1>3. QED  BY <1>2

\* The next rule to fire is an open one with a met puzzle.
LEMMA NextSolvable ==
  ASSUME StateOK, Solvable # {}
  PROVE  /\ get_next_solvable \in DOMAIN open_rules
         /\ get_next_solvable \in DOMAIN rules
         /\ rules[get_next_solvable] \in Rule
         /\ \E puzzle \in get_puzzles(rules[get_next_solvable]) : puzzle \subseteq DOMAIN conclusions
  <1>1. Solvable \subseteq Nat
    BY DEF Solvable, StateOK
  <1>2. \E i \in Solvable : \A j \in Solvable : i <= j
    BY <1>1, SmallestIndex
  <1>3. get_next_solvable \in Solvable
    BY <1>2 DEF get_next_solvable
  <1>4. QED
    BY <1>3 DEF Solvable, StateOK

LEMMA FirstUnsolvedIsGeneric ==
  ASSUME SolveInput(prog), UnsolvedGenerics # {}
  PROVE  \E g \in DOMAIN prog.generics :
           FirstUnsolved = prog.generics[g] /\ ~Known(FirstUnsolved.rune)
  <1>1. UnsolvedGenerics \subseteq Nat
    BY DEF UnsolvedGenerics, SolveInput
  <1>2. get_first_unsolved_identifying_rune \in UnsolvedGenerics
    BY <1>1, SmallestIndex DEF get_first_unsolved_identifying_rune
  <1>3. QED
    BY <1>2 DEF UnsolvedGenerics, FirstUnsolved

\* The default the callback commits is a list of rules over declared runes.
LEMMA FirstDefault ==
  ASSUME SolveInput(prog), UnsolvedGenerics # {}, HasDefault(FirstUnsolved)
  PROVE  LET default == FirstUnsolved.default IN
         /\ default.rules \in Seq(Rule)
         /\ default.result \in Rune
         /\ \A k \in DOMAIN default.rules :
              RunesOf(default.rules[k]) \subseteq prog.runes \cup {default.result}
  BY FirstUnsolvedIsGeneric DEF SolveInput

LEMMA TypeOKInit == Init => TypeOK
  <1> SUFFICES ASSUME NEW p \in Programs, prog = p,
                      make_solver_state(p.rules, PuzzlesOf(p.rules), p.knowns, p.runes),
                      phase = "continuing", loop_check = Len(p.generics) + 1,
                      failure = "none"
               PROVE  TypeOK
    BY DEF Init
  <1>1. SolveInput(p)
    BY ProgramsAssumption
  <1>2. rules \in Seq(Rule) /\ all_runes \subseteq Rune /\ DOMAIN conclusions \subseteq Rune
    BY <1>1 DEF SolveInput, make_solver_state
  <1>3. /\ DOMAIN open_rules \subseteq DOMAIN rules
        /\ \A i \in DOMAIN open_rules : open_rules[i] = get_puzzles(rules[i])
    BY DEF make_solver_state, PuzzlesOf
  <1>4. loop_check \in Nat
    BY <1>1 DEF SolveInput
  <1>5. QED
    BY <1>1, <1>2, <1>3, <1>4 DEF TypeOK, Phases, Failures

LEMMA TypeOKNext == TypeOK /\ [Next]_vars => TypeOK'
  <1> SUFFICES ASSUME TypeOK, [Next]_vars
               PROVE  TypeOK'
    OBVIOUS
  <1>0. StateOK
    BY DEF TypeOK, StateOK
  <1>1. CASE SolveRule
    <2> DEFINE pairs == Concluded(rules[get_next_solvable])
    <2>1. MapRunes(pairs) \subseteq Rune
      BY <1>0, <1>1, NextSolvable, ConcludesOwnRunes, RulesAssumption DEF SolveRule
    <2>2. commit_step({get_next_solvable}, pairs, <<>>, PuzzlesOf(<<>>), {})
      BY <1>1 DEF SolveRule, PuzzlesOf
    <2>3. <<>> \in Seq(Rule) /\ {} \in SUBSET Rune
      OBVIOUS
    <2>4. StateOK'
      BY <1>0, <2>1, <2>2, <2>3, CommitKeepsStateOK
    <2>5. QED
      BY <1>1, <2>4 DEF SolveRule, TypeOK, StateOK, Fail, Phases, Failures
  <1>2. CASE RejectRule
    BY <1>2 DEF RejectRule, stateVars, TypeOK, Fail, Phases, Failures
  <1>3. CASE StopContinuing
    BY <1>3 DEF StopContinuing, stateVars, TypeOK, Phases
  <1>4. CASE AddDefault
    <2> DEFINE default == FirstUnsolved.default
    <2>1. default.rules \in Seq(Rule) /\ default.result \in Rune
      BY <1>4, FirstDefault DEF AddDefault, TypeOK
    <2>2. commit_step({}, <<>>, default.rules, PuzzlesOf(default.rules), {default.result})
      BY <1>4 DEF AddDefault
    <2>3. StateOK'
      BY <1>0, <2>1, <2>2, CommitKeepsStateOK DEF MapRunes
    <2>4. loop_check' \in Nat
      BY <1>4 DEF AddDefault, SpendLoopCheck, LoopCheckSpent, TypeOK
    <2>5. QED
      BY <1>4, <2>3, <2>4 DEF AddDefault, TypeOK, StateOK, Phases
  <1>5. CASE AddPlaceholder
    <2> DEFINE r == FirstUnsolved.rune
    <2>1. r \in Rune
      BY <1>5, FirstUnsolvedIsGeneric DEF AddPlaceholder, TypeOK, SolveInput
    <2>2. commit_step({}, << <<r, Placeholder(r)>> >>, <<>>, PuzzlesOf(<<>>), {})
      BY <1>5 DEF AddPlaceholder, PuzzlesOf
    <2>3. /\ MapRunes(<< <<r, Placeholder(r)>> >>) \subseteq Rune
          /\ <<>> \in Seq(Rule) /\ {} \in SUBSET Rune
      BY <2>1, RunesOfOne
    <2>4. StateOK'
      BY <1>0, <2>2, <2>3, CommitKeepsStateOK
    <2>5. QED
      BY <1>5, <2>4 DEF AddPlaceholder, TypeOK, StateOK, Phases
  <1>6. CASE GiveUp
    <2>1. loop_check' \in Nat
      BY <1>6 DEF GiveUp, SpendLoopCheck, LoopCheckSpent, TypeOK
    <2>2. QED
      BY <1>6, <2>1 DEF GiveUp, stateVars, TypeOK, Phases
  <1>7. CASE Panic
    BY <1>7 DEF Panic, stateVars, TypeOK, Phases
  <1>8. CASE interpret_results
    BY <1>8 DEF interpret_results, stateVars, TypeOK, Fail, Phases, Failures
  <1>9. CASE UNCHANGED vars
    BY <1>9 DEF vars, stateVars, TypeOK
  <1>10. QED
    BY <1>1, <1>2, <1>3, <1>4, <1>5, <1>6, <1>7, <1>8, <1>9 DEF Next

\* The solver's state is well typed, and the puzzles on file are always those of
\* the rule at that index, also for rules added half way through a solve.
THEOREM TypeCorrect == Spec => []TypeOK
  BY TypeOKInit, TypeOKNext, PTL DEF Spec

-----------------------------------------------------------------------------
(* Conclusions are final *)

\* The conclusion list of a rule is indexed by naturals.
LEMMA ConcludedIndices ==
  ASSUME NEW rule \in Rule
  PROVE  DOMAIN Concluded(rule) \subseteq Nat
  <1>1. CASE rule.op \in LeafOps
    BY <1>1 DEF Concluded, LeafOps, RefOps
  <1>2. CASE rule.op = "Equals"
    BY <1>2 DEF Concluded, EqualsConcluded, LeafOps, RefOps
  <1>3. CASE rule.op \in RefOps
    BY <1>3 DEF Concluded, RefConcluded, LeafOps, RefOps
  <1>4. CASE rule.op = "KindList"
    <2>1. rule.members \in Seq(Rune)
      BY <1>4, RulesAssumption
    <2>2. Concluded(rule) = KindListConcluded(rule)
      BY <1>4 DEF Concluded, LeafOps, RefOps
    <2>3. QED  BY <2>1, <2>2 DEF KindListConcluded, ZipPairs
  <1>5. CASE rule.op = "Call"
    <2>1. rule.args \in Seq(Rune)
      BY <1>5, RulesAssumption
    <2>2. Concluded(rule) = CallConcluded(rule)
      BY <1>5 DEF Concluded, LeafOps, RefOps
    <2>3. QED  BY <2>1, <2>2 DEF CallConcluded, ZipPairs
  <1>6. CASE rule.op \in {"CallSiteFunc", "DefinitionFunc", "Resolve"}
    <2>1. Concluded(rule) \in {CallSiteFuncConcluded(rule), Predicted(rule), Resolved(rule)}
      BY <1>6 DEF Concluded, LeafOps, RefOps
    <2>2. QED
      BY <2>1 DEF CallSiteFuncConcluded, Predicted, Resolved
  <1>7. QED
    BY <1>1, <1>2, <1>3, <1>4, <1>5, <1>6, RulesAssumption

\* A rune of the list has a first pair in it.
LEMMA PositionExists ==
  ASSUME NEW pairs, DOMAIN pairs \subseteq Nat, NEW r \in MapRunes(pairs)
  PROVE  MapPosition(pairs, r) \in DOMAIN pairs
  <1> DEFINE S == { i \in DOMAIN pairs : pairs[i][1] = r }
  <1>1. S \in SUBSET Nat /\ S # {}
    BY DEF MapRunes
  <1>2. PICK i \in S : \A j \in S : i <= j
    BY <1>1, SmallestIndex, Zenon
  <1>3. i \in DOMAIN pairs /\ pairs[i][1] = r /\ IsFirst(pairs, i)
    BY <1>2 DEF IsFirst
  <1>4. QED  BY <1>3 DEF MapPosition

\* What a step inserts does not disagree with what is on file.
LEMMA InsertedAgrees ==
  ASSUME NEW pairs, DOMAIN pairs \subseteq Nat, NEW r \in Inserted(pairs),
         r \in DOMAIN conclusions
  PROVE  MapValue(pairs, r) = conclusions[r]
  <1>1. SUFFICES ASSUME r \in Conflicts(pairs)
                 PROVE  FALSE
    BY DEF Conflicts, Inserted
  <1>2. MapPosition(pairs, r) < MapPosition(pairs, r)
    BY <1>1 DEF Inserted
  <1>3. MapPosition(pairs, r) \in Nat
    BY PositionExists DEF Inserted
  <1>4. QED  BY <1>2, <1>3

\* B says all that A says.
Extends(B, A) ==
  DOMAIN A \subseteq DOMAIN B /\ \A r \in DOMAIN A : B[r] = A[r]

\* Whether or not a step conflicts, it only adds conclusions (commit_step's loop).
LEMMA CommitExtends ==
  ASSUME NEW solved, NEW pairs, NEW newRules, NEW newPuzzles, NEW newRunes,
         DOMAIN pairs \subseteq Nat,
         commit_step(solved, pairs, newRules, newPuzzles, newRunes)
  PROVE  Extends(conclusions', conclusions) /\ all_runes' = all_runes \cup newRunes
  BY InsertedAgrees DEF commit_step, WithInserted, Extends

LEMMA FinalStep ==
  TypeOK /\ [Next]_vars =>
    Extends(conclusions', conclusions) /\ all_runes \subseteq all_runes'
  <1> SUFFICES ASSUME TypeOK, [Next]_vars
               PROVE  Extends(conclusions', conclusions) /\ all_runes \subseteq all_runes'
    OBVIOUS
  <1>1. CASE SolveRule
    <2> DEFINE rule == rules[get_next_solvable]
    <2>1. rule \in Rule
      BY <1>1, NextSolvable DEF SolveRule, TypeOK, StateOK
    <2>2. DOMAIN Concluded(rule) \subseteq Nat
      BY <2>1, ConcludedIndices
    <2>3. commit_step({get_next_solvable}, Concluded(rule), <<>>, <<>>, {})
      BY <1>1 DEF SolveRule
    <2>4. QED  BY <2>2, <2>3, CommitExtends
  <1>2. CASE AddDefault
    <2>1. PICK newRules, newPuzzles, newRunes :
            commit_step({}, <<>>, newRules, newPuzzles, newRunes)
      BY <1>2 DEF AddDefault
    <2>2. DOMAIN <<>> \subseteq Nat
      OBVIOUS
    <2>3. QED  BY <2>1, <2>2, CommitExtends
  <1>3. CASE AddPlaceholder
    <2> DEFINE pairs == << <<FirstUnsolved.rune, Placeholder(FirstUnsolved.rune)>> >>
    <2>1. commit_step({}, pairs, <<>>, <<>>, {})
      BY <1>3 DEF AddPlaceholder
    <2>2. DOMAIN pairs \subseteq Nat
      OBVIOUS
    <2>3. QED  BY <2>1, <2>2, CommitExtends
  <1>4. CASE UNCHANGED stateVars
    BY <1>4 DEF stateVars, Extends
  <1>5. QED
    BY <1>1, <1>2, <1>3, <1>4
       DEF Next, RejectRule, StopContinuing, GiveUp, Panic, interpret_results, vars

\* No step of any solve, not even one that ends in a conflict, changes or
\* forgets a conclusion (rune_to_conclusion), or forgets a rune (all_runes).
THEOREM ConclusionsStayFinal == Spec => ConclusionsAreFinal
  <1>1. TypeOK /\ [Next]_vars =>
          [ /\ DOMAIN conclusions \subseteq DOMAIN conclusions'
            /\ \A r \in DOMAIN conclusions : conclusions'[r] = conclusions[r]
            /\ all_runes \subseteq all_runes' ]_vars
    BY FinalStep DEF Extends
  <1>2. QED
    BY <1>1, TypeCorrect, PTL DEF Spec, ConclusionsAreFinal

-----------------------------------------------------------------------------
(* Every conclusion is about a rune of the solve *)

Declared ==
  /\ prog.runes \subseteq all_runes
  /\ IsFiniteSet(all_runes)
  /\ DOMAIN conclusions \subseteq all_runes
  /\ \A i \in DOMAIN rules : RunesOf(rules[i]) \subseteq all_runes

LEMMA DeclaredInit == Init => Declared
  BY ProgramsAssumption DEF Init, SolveInput, make_solver_state, Declared

LEMMA CommitKeepsDeclared ==
  ASSUME Declared, StateOK,
         NEW solved, NEW pairs, NEW newRules \in Seq(Rule), NEW newPuzzles, NEW newRunes,
         IsFiniteSet(newRunes),
         MapRunes(pairs) \subseteq all_runes,
         \A k \in DOMAIN newRules : RunesOf(newRules[k]) \subseteq all_runes \cup newRunes,
         commit_step(solved, pairs, newRules, newPuzzles, newRunes),
         prog' = prog
  PROVE  Declared'
  <1>1. all_runes' = all_runes \cup newRunes
    BY DEF commit_step
  <1>2. IsFiniteSet(all_runes')
    BY <1>1, FS_Union DEF Declared
  <1>3. DOMAIN conclusions' \subseteq all_runes'
    BY <1>1 DEF Declared, commit_step, WithInserted, Inserted
  <1>4. \A i \in DOMAIN rules' : RunesOf(rules'[i]) \subseteq all_runes'
    <2>1. CASE rules' = rules
      BY <2>1, <1>1 DEF Declared
    <2>2. CASE rules' = rules \o newRules
      <3>1. ASSUME NEW i \in DOMAIN rules'
            PROVE  \/ i \in DOMAIN rules /\ rules'[i] = rules[i]
                   \/ \E k \in DOMAIN newRules : rules'[i] = newRules[k]
        <4>1. i \in 1..(Len(rules) + Len(newRules))
          BY <2>2, <3>1 DEF StateOK
        <4>2. CASE i \in 1..Len(rules)
          BY <2>2, <4>2 DEF StateOK
        <4>3. CASE i \notin 1..Len(rules)
          <5>1. i - Len(rules) \in DOMAIN newRules /\ rules'[i] = newRules[i - Len(rules)]
            BY <2>2, <4>1, <4>3 DEF StateOK
          <5>2. QED  BY <5>1
        <4>4. QED  BY <4>2, <4>3
      <3>2. QED  BY <3>1, <1>1 DEF Declared
    <2>3. QED  BY <2>1, <2>2 DEF commit_step
  <1>5. QED  BY <1>1, <1>2, <1>3, <1>4 DEF Declared

LEMMA DeclaredNext == Declared /\ TypeOK /\ [Next]_vars => Declared'
  <1> SUFFICES ASSUME Declared, TypeOK, [Next]_vars
               PROVE  Declared'
    OBVIOUS
  <1>0. StateOK /\ SolveInput(prog)
    BY DEF TypeOK, StateOK
  <1>a. /\ IsFiniteSet({}) /\ <<>> \in Seq(Rule)
        /\ \A k \in DOMAIN <<>> : RunesOf(<<>>[k]) \subseteq all_runes \cup {}
    BY FS_EmptySet, RunesOfNone
  <1>1. CASE SolveRule
    <2> DEFINE rule == rules[get_next_solvable]
    <2>1. rule \in Rule /\ RunesOf(rule) \subseteq all_runes
      BY <1>0, <1>1, NextSolvable DEF SolveRule, Declared
    <2>2. MapRunes(Concluded(rule)) \subseteq all_runes
      BY <2>1, ConcludesOwnRunes
    <2>3. commit_step({get_next_solvable}, Concluded(rule), <<>>, <<>>, {}) /\ prog' = prog
      BY <1>1 DEF SolveRule
    <2>4. QED  BY <1>0, <1>a, <2>2, <2>3, CommitKeepsDeclared
  <1>2. CASE AddDefault
    <2> DEFINE default == FirstUnsolved.default
    <2>1. /\ default.rules \in Seq(Rule)
          /\ \A k \in DOMAIN default.rules :
               RunesOf(default.rules[k]) \subseteq all_runes \cup {default.result}
      BY <1>0, <1>2, FirstDefault DEF AddDefault, Declared
    <2>2. /\ commit_step({}, <<>>, default.rules, PuzzlesOf(default.rules), {default.result})
          /\ prog' = prog
      BY <1>2 DEF AddDefault
    <2>3. MapRunes(<<>>) \subseteq all_runes /\ IsFiniteSet({default.result})
      BY FS_Singleton, RunesOfNone
    <2>4. QED  BY <1>0, <2>1, <2>2, <2>3, CommitKeepsDeclared
  <1>3. CASE AddPlaceholder
    <2> DEFINE r == FirstUnsolved.rune
    <2>1. r \in all_runes
      BY <1>0, <1>3, FirstUnsolvedIsGeneric DEF AddPlaceholder, SolveInput, Declared
    <2>2. commit_step({}, << <<r, Placeholder(r)>> >>, <<>>, <<>>, {}) /\ prog' = prog
      BY <1>3 DEF AddPlaceholder
    <2>3. MapRunes(<< <<r, Placeholder(r)>> >>) \subseteq all_runes
      BY <2>1, RunesOfOne
    <2>4. QED  BY <1>0, <1>a, <2>2, <2>3, CommitKeepsDeclared
  <1>4. CASE UNCHANGED <<stateVars, prog>>
    BY <1>4 DEF stateVars, Declared
  <1>5. QED
    BY <1>1, <1>2, <1>3, <1>4
       DEF Next, RejectRule, StopContinuing, GiveUp, Panic, interpret_results, vars

LEMMA AlwaysDeclared == Spec => []Declared
  BY DeclaredInit, DeclaredNext, TypeCorrect, PTL DEF Spec

\* Counting is enough: is_complete, which compares two lengths, holds exactly
\* when every rune has a conclusion.
THEOREM CountsSuffice == Spec => []CompleteMeansAll
  <1>1. Declared => CompleteMeansAll
    <2> SUFFICES ASSUME Declared
                 PROVE  Cardinality(DOMAIN conclusions) = Cardinality(all_runes)
                          <=> all_runes \subseteq DOMAIN conclusions
      BY DEF CompleteMeansAll, is_complete
    <2>1. all_runes \subseteq DOMAIN conclusions => DOMAIN conclusions = all_runes
      BY DEF Declared
    <2>2. Cardinality(DOMAIN conclusions) = Cardinality(all_runes) => DOMAIN conclusions = all_runes
      BY FS_Subset DEF Declared
    <2>3. QED  BY <2>1, <2>2
  <1>2. QED
    BY <1>1, AlwaysDeclared, PTL

-----------------------------------------------------------------------------
(* Closed rules hold *)

\* The runes that Holds reads in A.
Read(rule, A) ==
  CASE rule.op \in LeafOps  -> {rule.result}
    [] rule.op = "Equals"   -> {rule.left, rule.right}
    [] rule.op \in RefOps   -> {rule.result, rule.inner}
    [] rule.op = "KindList" ->
         {rule.result} \cup
           { rule.members[j] : j \in DOMAIN rule.members \cap DOMAIN A[rule.result].kinds }
    [] rule.op = "Call"     ->
         {rule.result, rule.template} \cup
           { rule.args[j] : j \in DOMAIN rule.args \cap DOMAIN A[rule.result].args }
    [] OTHER                -> {rule.result, rule.params, rule.return}

\* The rule holds, and so it will: all it is about is known.
Settled(rule, A) == Holds(rule, A) /\ Read(rule, A) \subseteq DOMAIN A

\* More conclusions do not unsettle a rule.
LEMMA StaysSettled ==
  ASSUME NEW rule \in Rule, NEW A, NEW B, Extends(B, A), Settled(rule, A)
  PROVE  Settled(rule, B)
  <1>1. CASE rule.op \in LeafOps
    BY <1>1 DEF Extends, Settled, Holds, Read, LeafOps, RefOps
  <1>2. CASE rule.op = "Equals"
    BY <1>2 DEF Extends, Settled, Holds, Read, LeafOps, RefOps
  <1>3. CASE rule.op \in RefOps
    BY <1>3 DEF Extends, Settled, Holds, Read, LeafOps, RefOps
  <1>4. CASE rule.op = "KindList"
    <2>1. /\ \A C : Holds(rule, C) <=> /\ Len(C[rule.result].kinds) = Len(rule.members)
                                       /\ Zipped(rule.members, C[rule.result].kinds, C)
          /\ \A C : Read(rule, C) = {rule.result} \cup
               { rule.members[j] : j \in DOMAIN rule.members \cap DOMAIN C[rule.result].kinds }
      BY <1>4 DEF Holds, Read, LeafOps, RefOps
    <2>2. A[rule.result] = B[rule.result]
      BY <2>1 DEF Extends, Settled
    <2>3. QED  BY <2>1, <2>2 DEF Extends, Settled, Zipped
  <1>5. CASE rule.op = "Call"
    <2>1. /\ \A C : Holds(rule, C) <=> CallHolds(rule, C)
          /\ \A C : Read(rule, C) = {rule.result, rule.template} \cup
               { rule.args[j] : j \in DOMAIN rule.args \cap DOMAIN C[rule.result].args }
      BY <1>5 DEF Holds, Read, LeafOps, RefOps
    <2>2. A[rule.result] = B[rule.result] /\ A[rule.template] = B[rule.template]
      BY <2>1 DEF Extends, Settled
    <2>3. QED  BY <2>1, <2>2 DEF Extends, Settled, CallHolds, Zipped
  <1>6. CASE rule.op \in {"CallSiteFunc", "DefinitionFunc", "Resolve"}
    <2>1. /\ \A C : Holds(rule, C) <=> FuncHolds(rule, C)
          /\ \A C : Read(rule, C) = {rule.result, rule.params, rule.return}
      BY <1>6 DEF Holds, Read, LeafOps, RefOps
    <2>2. QED  BY <2>1 DEF Extends, Settled, FuncHolds
  <1>7. QED
    BY <1>1, <1>2, <1>3, <1>4, <1>5, <1>6, RulesAssumption

\* What a step without a conflict leaves on file.
LEMMA InsertsAll ==
  ASSUME NEW pairs, DOMAIN pairs \subseteq Nat, Conflicts(pairs) = {}
  PROVE  /\ Extends(WithInserted(pairs), conclusions)
         /\ \A i \in DOMAIN pairs :
              (\A j \in DOMAIN pairs : pairs[j][1] = pairs[i][1] => j = i) =>
                /\ pairs[i][1] \in DOMAIN WithInserted(pairs)
                /\ WithInserted(pairs)[pairs[i][1]] = pairs[i][2]
  <1>1. Inserted(pairs) = MapRunes(pairs)
    BY DEF Inserted
  <1>2. Extends(WithInserted(pairs), conclusions)
    BY <1>1 DEF Conflicts, WithInserted, Extends
  <1>3. ASSUME NEW i \in DOMAIN pairs,
               \A j \in DOMAIN pairs : pairs[j][1] = pairs[i][1] => j = i
        PROVE  /\ pairs[i][1] \in DOMAIN WithInserted(pairs)
               /\ WithInserted(pairs)[pairs[i][1]] = pairs[i][2]
    <2>1. pairs[i][1] \in MapRunes(pairs)
      BY DEF MapRunes
    <2>2. MapValue(pairs, pairs[i][1]) = pairs[i][2]
      BY <1>3, i <= i DEF MapValue, IsLast
    <2>3. QED  BY <1>1, <2>1, <2>2 DEF WithInserted
  <1>4. QED  BY <1>2, <1>3

LEMMA InsertsOne ==
  ASSUME NEW a, NEW v, Conflicts(<< <<a, v>> >>) = {}
  PROVE  LET W == WithInserted(<< <<a, v>> >>)
         IN Extends(W, conclusions) /\ a \in DOMAIN W /\ W[a] = v
  <1> DEFINE pairs == << <<a, v>> >>
  <1>1. DOMAIN pairs = {1} /\ pairs[1] = <<a, v>>
    OBVIOUS
  <1>2. QED  BY <1>1, InsertsAll

LEMMA InsertsTwo ==
  ASSUME NEW a, NEW v, NEW b, NEW w, a # b, Conflicts(<< <<a, v>>, <<b, w>> >>) = {}
  PROVE  LET W == WithInserted(<< <<a, v>>, <<b, w>> >>)
         IN /\ Extends(W, conclusions)
            /\ {a, b} \subseteq DOMAIN W /\ W[a] = v /\ W[b] = w
  <1> DEFINE pairs == << <<a, v>>, <<b, w>> >>
  <1>1. DOMAIN pairs = {1, 2} /\ pairs[1] = <<a, v>> /\ pairs[2] = <<b, w>>
    OBVIOUS
  <1>2. QED  BY <1>1, InsertsAll

LEMMA InsertsZip ==
  ASSUME NEW runes \in Seq(Rune), NEW ts, Injective(runes),
         Conflicts(ZipPairs(runes, ts)) = {}
  PROVE  LET W == WithInserted(ZipPairs(runes, ts))
         IN /\ Extends(W, conclusions)
            /\ \A j \in DOMAIN runes \cap DOMAIN ts :
                 runes[j] \in DOMAIN W /\ W[runes[j]] = ts[j]
  <1> DEFINE pairs == ZipPairs(runes, ts)
  <1>1. /\ DOMAIN pairs = DOMAIN runes \cap DOMAIN ts
        /\ DOMAIN pairs \subseteq Nat
        /\ \A j \in DOMAIN pairs : pairs[j][1] = runes[j] /\ pairs[j][2] = ts[j]
    BY DEF ZipPairs
  <1>2. \A i, j \in DOMAIN pairs : pairs[j][1] = pairs[i][1] => j = i
    BY <1>1 DEF Injective
  <1>3. QED  BY <1>1, <1>2, InsertsAll

\* A rule that fires without an error, a panic or a conflict is settled by it.
LEMMA FiringSettles ==
  ASSUME NEW rule \in Rule, RunesDistinct(rule),
         \E puzzle \in get_puzzles(rule) : puzzle \subseteq DOMAIN conclusions,
         ~RuleError(rule), ~RulePanics(rule),
         Conflicts(Concluded(rule)) = {}
  PROVE  Settled(rule, WithInserted(Concluded(rule)))
  <1> DEFINE W == WithInserted(Concluded(rule))
  <1>1. CASE rule.op \in LeafOps
    <2>1. Concluded(rule) = << <<rule.result, rule.value>> >>
      BY <1>1 DEF Concluded, LeafOps, RefOps
    <2>2. rule.result \in DOMAIN W /\ W[rule.result] = rule.value
      BY <2>1, InsertsOne
    <2>3. QED  BY <1>1, <2>2 DEF Settled, Holds, Read, RulePanics, LeafOps, RefOps
  <1>2. CASE rule.op = "Equals"
    <2>1. Concluded(rule) = EqualsConcluded(rule)
      BY <1>2 DEF Concluded, LeafOps, RefOps
    <2>2. rule.left \in DOMAIN conclusions \/ rule.right \in DOMAIN conclusions
      BY <1>2 DEF get_puzzles, LeafOps, RefOps
    <2>3. {rule.left, rule.right} \subseteq DOMAIN W /\ W[rule.left] = W[rule.right]
      BY <2>1, <2>2, InsertsOne DEF EqualsConcluded, Known, Extends
    <2>4. QED  BY <1>2, <2>3 DEF Settled, Holds, Read, LeafOps, RefOps
  <1>3. CASE rule.op \in RefOps
    <2>1. Concluded(rule) = RefConcluded(rule)
      BY <1>3 DEF Concluded, LeafOps, RefOps
    <2>2. rule.result \in DOMAIN conclusions \/ rule.inner \in DOMAIN conclusions
      BY <1>3 DEF get_puzzles, LeafOps, RefOps
    <2>3. /\ {rule.result, rule.inner} \subseteq DOMAIN W
          /\ W[rule.result].tag = rule.op /\ W[rule.result].inner = W[rule.inner]
      <3>1. CASE KnownKind(rule.result)
        BY <1>3, <2>1, <3>1, InsertsOne DEF RefConcluded, RuleError, KnownKind, Known, Extends
      <3>2. CASE ~KnownKind(rule.result)
        <4>1. Known(rule.inner)
          BY <1>3, <3>2 DEF RulePanics, RefPanics, KnownKind
        <4>2. QED  BY <2>1, <3>2, <4>1, InsertsOne DEF RefConcluded, RefTo, Known, Extends
      <3>3. QED  BY <3>1, <3>2
    <2>4. QED  BY <1>3, <2>3 DEF Settled, Holds, Read, LeafOps, RefOps
  <1>4. CASE rule.op = "KindList"
    <2>1. /\ rule.members \in Seq(Rune) /\ Injective(rule.members)
          /\ Concluded(rule) = KindListConcluded(rule)
      BY <1>4, RulesAssumption DEF RunesDistinct, Concluded, LeafOps, RefOps
    <2>2. rule.result \in DOMAIN conclusions \/ Range(rule.members) \subseteq DOMAIN conclusions
      BY <1>4 DEF get_puzzles, LeafOps, RefOps
    <2>3. /\ rule.result \in DOMAIN W
          /\ DOMAIN W[rule.result].kinds = DOMAIN rule.members
          /\ \A j \in DOMAIN rule.members \cap DOMAIN W[rule.result].kinds :
               /\ rule.members[j] \in DOMAIN W
               /\ W[rule.members[j]] = W[rule.result].kinds[j]
      <3>1. CASE Known(rule.result)
        <4>1. Concluded(rule) = ZipPairs(rule.members, conclusions[rule.result].kinds)
          BY <2>1, <3>1 DEF KindListConcluded
        <4>2. W[rule.result] = conclusions[rule.result] /\ rule.result \in DOMAIN W
          BY <2>1, <3>1, <4>1, InsertsZip DEF Extends, Known
        <4>3. DOMAIN W[rule.result].kinds = DOMAIN rule.members
          BY <1>4, <3>1, <4>2 DEF RulePanics, KindListPanics
        <4>4. QED  BY <2>1, <4>1, <4>2, <4>3, InsertsZip
      <3>2. CASE ~Known(rule.result)
        <4>1. Concluded(rule) = << <<rule.result, KindListOf(ValuesOf(rule.members))>> >>
          BY <2>1, <3>2 DEF KindListConcluded
        <4>2. /\ Extends(W, conclusions)
              /\ rule.result \in DOMAIN W
              /\ W[rule.result].kinds = ValuesOf(rule.members)
          BY <4>1, InsertsOne DEF KindListOf
        <4>3. DOMAIN ValuesOf(rule.members) = DOMAIN rule.members
          BY DEF ValuesOf
        <4>4. ASSUME NEW j \in DOMAIN rule.members
              PROVE  /\ rule.members[j] \in DOMAIN W
                     /\ W[rule.members[j]] = ValuesOf(rule.members)[j]
          BY <2>2, <3>2, <4>2 DEF Extends, ValuesOf, Known, Range
        <4>5. QED  BY <4>2, <4>3, <4>4
      <3>3. QED  BY <3>1, <3>2
    <2>4. QED  BY <1>4, <2>3 DEF Settled, Holds, Read, Zipped, LeafOps, RefOps
  <1>5. CASE rule.op = "Call"
    <2>1. /\ rule.args \in Seq(Rune) /\ Injective(rule.args)
          /\ Concluded(rule) = CallConcluded(rule)
      BY <1>5, RulesAssumption DEF RunesDistinct, Concluded, LeafOps, RefOps
    <2>2. /\ rule.template \in DOMAIN conclusions
          /\ rule.result \in DOMAIN conclusions \/ Range(rule.args) \subseteq DOMAIN conclusions
      BY <1>5 DEF get_puzzles, LeafOps, RefOps
    <2>3. /\ {rule.result, rule.template} \subseteq DOMAIN W
          /\ CallHolds(rule, W)
          /\ \A j \in DOMAIN rule.args \cap DOMAIN W[rule.result].args :
               rule.args[j] \in DOMAIN W
      <3>1. CASE Known(rule.result)
        <4>1. Concluded(rule) = ZipPairs(rule.args, conclusions[rule.result].args)
          BY <2>1, <3>1 DEF CallConcluded
        <4>2. /\ {rule.result, rule.template} \subseteq DOMAIN W
              /\ W[rule.result] = conclusions[rule.result]
              /\ W[rule.template] = conclusions[rule.template]
          BY <2>1, <2>2, <3>1, <4>1, InsertsZip DEF Extends, Known
        <4>3. IsFromTemplate(W[rule.result], W[rule.template])
          BY <1>5, <3>1, <4>2 DEF RuleError, RulePanics, CallPanics, CallMismatch, KnownKind
        <4>4. \A j \in DOMAIN rule.args \cap DOMAIN W[rule.result].args :
                /\ rule.args[j] \in DOMAIN W
                /\ W[rule.args[j]] = W[rule.result].args[j]
          BY <2>1, <4>1, <4>2, InsertsZip
        <4>5. QED  BY <4>2, <4>3, <4>4 DEF CallHolds, Zipped, IsFromTemplate
      <3>2. CASE ~Known(rule.result)
        <4> DEFINE v == Applied(conclusions[rule.template], ValuesOf(rule.args))
        <4>1. Concluded(rule) = << <<rule.result, v>> >>
          BY <2>1, <3>2 DEF CallConcluded
        <4>2. /\ Extends(W, conclusions)
              /\ {rule.result, rule.template} \subseteq DOMAIN W
              /\ W[rule.result] = v
              /\ W[rule.template] = conclusions[rule.template]
          BY <2>2, <4>1, InsertsOne DEF Extends
        <4>3. ASSUME NEW j \in DOMAIN rule.args
              PROVE  /\ rule.args[j] \in DOMAIN W
                     /\ W[rule.args[j]] = ValuesOf(rule.args)[j]
          BY <2>2, <3>2, <4>2 DEF Extends, ValuesOf, Known, Range
        <4>4. CASE W[rule.template].tag = "template"
          <5>1. /\ v.tag = "citizen" /\ v.name = W[rule.template].name
                /\ \A j \in DOMAIN v.args : v.args[j] = ValuesOf(rule.args)[j]
            BY <4>2, <4>4 DEF Applied, Citizen
          <5>2. QED  BY <4>2, <4>3, <4>4, <5>1 DEF CallHolds, Zipped, IsFromTemplate
        <4>5. CASE W[rule.template].tag # "template"
          <5>1. W[rule.result] = W[rule.template]
            BY <4>2, <4>5 DEF Applied
          <5>2. QED  BY <4>2, <4>3, <4>5, <5>1 DEF CallHolds
        <4>6. QED  BY <4>4, <4>5
      <3>3. QED  BY <3>1, <3>2
    <2>4. QED  BY <1>5, <2>3 DEF Settled, Holds, Read, LeafOps, RefOps
  <1>6. CASE rule.op \in {"CallSiteFunc", "DefinitionFunc", "Resolve"}
    <2>1. /\ rule.return # rule.params /\ rule.return # rule.result
      BY <1>6, RulesAssumption
    <2>2. {rule.result, rule.params, rule.return} \subseteq DOMAIN W /\ FuncHolds(rule, W)
      <3>1. CASE rule.op = "CallSiteFunc"
        <4>1. Concluded(rule) = CallSiteFuncConcluded(rule) /\ rule.result \in DOMAIN conclusions
          BY <3>1 DEF Concluded, get_puzzles, LeafOps, RefOps
        <4>2. QED
          <5> DEFINE p == conclusions[rule.result]
                     v == KindListOf(p.params)
                     k == p.return
          <5>1. Concluded(rule) = << <<rule.params, v>>, <<rule.return, k>> >>
            BY <4>1 DEF CallSiteFuncConcluded
          <5>2. v.kinds = p.params
            BY DEF KindListOf
          <5> HIDE DEF v
          <5>3. /\ {rule.params, rule.return} \subseteq DOMAIN W
                /\ W[rule.params] = v /\ W[rule.return] = k /\ Extends(W, conclusions)
            BY <2>1, <5>1, InsertsTwo
          <5>4. rule.result \in DOMAIN W /\ W[rule.result] = p
            BY <4>1, <5>3 DEF Extends
          <5>5. QED  BY <5>2, <5>3, <5>4 DEF FuncHolds
      <3>2. ASSUME Concluded(rule) = Predicted(rule),
                   {rule.params, rule.return} \subseteq DOMAIN conclusions
            PROVE  {rule.result, rule.params, rule.return} \subseteq DOMAIN W /\ FuncHolds(rule, W)
        BY <3>2, InsertsOne DEF Predicted, Prototype, FuncHolds, Extends
      <3>3. CASE rule.op = "DefinitionFunc"
        <4>1. /\ Concluded(rule) = Predicted(rule)
              /\ {rule.params, rule.return} \subseteq DOMAIN conclusions
          BY <3>3 DEF Concluded, get_puzzles, LeafOps, RefOps
        <4>2. QED  BY <3>2, <4>1
      <3>4. CASE rule.op = "Resolve"
        <4>1. Concluded(rule) = Resolved(rule) /\ rule.params \in DOMAIN conclusions
          BY <3>4 DEF Concluded, get_puzzles, LeafOps, RefOps
        <4>2. CASE Known(rule.return)
          BY <3>2, <4>1, <4>2 DEF Resolved, Known
        <4>3. CASE ~Known(rule.return)
          <5> DEFINE params == conclusions[rule.params].kinds
                     v == Prototype(params, Overloads[params])
                     k == Overloads[params]
          <5>1. Concluded(rule) = << <<rule.result, v>>, <<rule.return, k>> >>
            BY <4>1, <4>3 DEF Resolved
          <5>2. v.params = params /\ v.return = k
            BY DEF Prototype
          <5> HIDE DEF v, k
          <5>3. /\ {rule.result, rule.return} \subseteq DOMAIN W
                /\ W[rule.result] = v /\ W[rule.return] = k /\ Extends(W, conclusions)
            BY <2>1, <5>1, InsertsTwo
          <5>4. rule.params \in DOMAIN W /\ W[rule.params].kinds = params
            BY <4>1, <5>3 DEF Extends
          <5>5. QED  BY <5>2, <5>3, <5>4 DEF FuncHolds
        <4>4. QED  BY <4>2, <4>3
      <3>5. QED  BY <1>6, <3>1, <3>3, <3>4
    <2>3. QED  BY <1>6, <2>2 DEF Settled, Holds, Read, LeafOps, RefOps
  <1>7. QED
    BY <1>1, <1>2, <1>3, <1>4, <1>5, <1>6, RulesAssumption

ClosedInv ==
  \A i \in DOMAIN rules :
    rule_is_solved(i) /\ RunesDistinct(rules[i]) => Settled(rules[i], conclusions)

LEMMA ClosedInit == Init => ClosedInv
  <1> SUFFICES ASSUME NEW p \in Programs,
                      make_solver_state(p.rules, PuzzlesOf(p.rules), p.knowns, p.runes)
               PROVE  ClosedInv
    BY DEF Init
  <1>1. p.rules \in Seq(Rule)
    BY ProgramsAssumption DEF SolveInput
  <1>2. \A i \in DOMAIN p.rules : PuzzlesOf(p.rules)[i] # {}
    BY <1>1, PuzzlesAreOfRunes DEF PuzzlesOf
  <1>3. DOMAIN rules \subseteq DOMAIN open_rules
    BY <1>2 DEF make_solver_state, PuzzlesOf
  <1>4. QED  BY <1>3 DEF ClosedInv, rule_is_solved

\* A commit that solves no rule closes none: a conflicting step, a placeholder,
\* or the rules of a default, which start open.
LEMMA CommitClosesNone ==
  ASSUME StateOK,
         NEW pairs, NEW newRules \in Seq(Rule), NEW newRunes, NEW solved,
         solved = {} \/ Conflicts(pairs) # {},
         commit_step(solved, pairs, newRules, PuzzlesOf(newRules), newRunes),
         NEW i \in DOMAIN rules', i \notin DOMAIN open_rules'
  PROVE  i \in DOMAIN rules /\ rules'[i] = rules[i] /\ i \notin DOMAIN open_rules
  <1>1. CASE Conflicts(pairs) # {}
    BY <1>1 DEF commit_step
  <1>2. CASE Conflicts(pairs) = {}
    <2>1. rules' = rules \o newRules /\ open_rules' = Reopened({}, PuzzlesOf(newRules))
      BY <1>2 DEF commit_step
    <2>2. i \notin DOMAIN open_rules
      BY <2>1 DEF Reopened
    <2>3. i \in 1..(Len(rules) + Len(newRules))
      BY <2>1 DEF StateOK
    <2>4. CASE i \in 1..Len(rules)
      BY <2>1, <2>2, <2>4 DEF StateOK
    <2>5. CASE i \notin 1..Len(rules)
      <3> DEFINE k == i - Len(rules)
      <3>1. k \in DOMAIN newRules /\ i = Len(rules) + k
        BY <2>3, <2>5 DEF StateOK
      <3>2. PuzzlesOf(newRules)[k] # {} /\ k \in DOMAIN PuzzlesOf(newRules)
        BY <3>1, PuzzlesAreOfRunes DEF PuzzlesOf
      <3>3. i \in DOMAIN open_rules'
        BY <2>1, <3>1, <3>2 DEF Reopened
      <3>4. QED  BY <3>3
    <2>6. QED  BY <2>4, <2>5
  <1>3. QED  BY <1>1, <1>2

\* Such a commit keeps the closed ones settled.
LEMMA CommitKeepsClosed ==
  ASSUME ClosedInv, StateOK,
         NEW pairs, NEW newRules \in Seq(Rule), NEW newRunes, NEW solved,
         DOMAIN pairs \subseteq Nat,
         solved = {} \/ Conflicts(pairs) # {},
         commit_step(solved, pairs, newRules, PuzzlesOf(newRules), newRunes)
  PROVE  ClosedInv'
  <1>1. Extends(conclusions', conclusions)
    BY CommitExtends
  <1>2. ASSUME NEW i \in DOMAIN rules', i \notin DOMAIN open_rules'
        PROVE  i \in DOMAIN rules /\ rules'[i] = rules[i] /\ i \notin DOMAIN open_rules
    BY <1>2, CommitClosesNone
  <1>3. \A i \in DOMAIN rules : rules[i] \in Rule
    BY DEF StateOK
  <1>4. QED
    BY <1>1, <1>2, <1>3, StaysSettled DEF ClosedInv, rule_is_solved

LEMMA ClosedNext == ClosedInv /\ TypeOK /\ [Next]_vars => ClosedInv'
  <1> SUFFICES ASSUME ClosedInv, TypeOK, [Next]_vars
               PROVE  ClosedInv'
    OBVIOUS
  <1>0. StateOK /\ SolveInput(prog) /\ <<>> \in Seq(Rule) /\ <<>> = PuzzlesOf(<<>>)
    BY DEF TypeOK, StateOK, PuzzlesOf
  <1>1. CASE SolveRule
    <2> DEFINE i == get_next_solvable
               rule == rules[i]
               pairs == Concluded(rule)
    <2>1. /\ i \in DOMAIN rules /\ rule \in Rule
          /\ \E puzzle \in get_puzzles(rule) : puzzle \subseteq DOMAIN conclusions
      BY <1>0, <1>1, NextSolvable DEF SolveRule
    <2>2. DOMAIN pairs \subseteq Nat
      BY <2>1, ConcludedIndices
    <2>3. commit_step({i}, pairs, <<>>, PuzzlesOf(<<>>), {}) /\ ~RuleError(rule) /\ ~RulePanics(rule)
      BY <1>0, <1>1 DEF SolveRule
    <2>4. CASE Conflicts(pairs) # {}
      BY <1>0, <2>2, <2>3, <2>4, CommitKeepsClosed
    <2>5. CASE Conflicts(pairs) = {}
      <3>1. /\ rules' = rules \o <<>> /\ conclusions' = WithInserted(pairs)
            /\ open_rules' = Reopened({i}, PuzzlesOf(<<>>))
        BY <2>3, <2>5 DEF commit_step
      <3>2. rules' = rules
        BY <1>0, <3>1 DEF StateOK
      <3>3. DOMAIN open_rules \ {i} \subseteq DOMAIN open_rules'
        BY <3>1 DEF Reopened
      <3>4. Extends(conclusions', conclusions)
        BY <2>2, <2>3, CommitExtends
      <3>5. RunesDistinct(rule) => Settled(rule, conclusions')
        BY <2>1, <2>3, <2>5, <3>1, FiringSettles
      <3>6. ASSUME NEW j \in DOMAIN rules', j \notin DOMAIN open_rules', RunesDistinct(rules'[j])
            PROVE  Settled(rules'[j], conclusions')
        <4>1. CASE j = i
          BY <3>2, <3>5, <3>6, <4>1
        <4>2. CASE j # i
          <5>1. Settled(rules[j], conclusions) /\ rules[j] \in Rule
            BY <1>0, <3>2, <3>3, <3>6, <4>2 DEF ClosedInv, rule_is_solved, StateOK
          <5>2. QED  BY <3>2, <3>4, <5>1, StaysSettled
        <4>3. QED  BY <4>1, <4>2
      <3>7. QED  BY <3>6 DEF ClosedInv, rule_is_solved, RunesDistinct, Injective
    <2>6. QED  BY <2>4, <2>5
  <1>2. CASE AddDefault
    <2> DEFINE default == FirstUnsolved.default
    <2>1. default.rules \in Seq(Rule) /\ DOMAIN <<>> \subseteq Nat
      BY <1>0, <1>2, FirstDefault, RunesOfNone DEF AddDefault
    <2>2. commit_step({}, <<>>, default.rules, PuzzlesOf(default.rules), {default.result})
      BY <1>2 DEF AddDefault
    <2>3. QED  BY <1>0, <2>1, <2>2, CommitKeepsClosed
  <1>3. CASE AddPlaceholder
    <2> DEFINE pairs == << <<FirstUnsolved.rune, Placeholder(FirstUnsolved.rune)>> >>
    <2>1. commit_step({}, pairs, <<>>, PuzzlesOf(<<>>), {})
      BY <1>0, <1>3 DEF AddPlaceholder
    <2>2. DOMAIN pairs \subseteq Nat
      OBVIOUS
    <2>3. QED  BY <1>0, <2>1, <2>2, CommitKeepsClosed
  <1>4. CASE UNCHANGED stateVars
    BY <1>4 DEF stateVars, ClosedInv, rule_is_solved
  <1>5. QED
    BY <1>1, <1>2, <1>3, <1>4
       DEF Next, RejectRule, StopContinuing, GiveUp, Panic, interpret_results, vars

LEMMA AlwaysClosedInv == Spec => []ClosedInv
  BY ClosedInit, ClosedNext, TypeCorrect, PTL DEF Spec

\* A rule that has left open_rule_to_puzzle_to_runes is satisfied by the
\* conclusions for good, whatever find_function answers and whatever fired it.
THEOREM ClosedRulesAlwaysHold == Spec => []ClosedRulesHold
  <1>1. ClosedInv => ClosedRulesHold
    BY DEF ClosedInv, ClosedRulesHold, Settled
  <1>2. QED
    BY <1>1, AlwaysClosedInv, PTL

-----------------------------------------------------------------------------
(* What "solved" means *)

\* Once the loop has stopped nothing can fire until a callback commits, and a
\* solve is called solved only when every rune has its conclusion.
Quiet ==
  /\ phase \in {"stalled", "finished", "solved"} => Solvable = {}
  /\ phase = "solved" => all_runes \subseteq DOMAIN conclusions

LEMMA AlwaysQuiet == Spec => []Quiet
  <1>1. Init => Quiet
    BY DEF Init, Quiet
  <1>2. Quiet /\ [Next]_vars => Quiet'
    <2> SUFFICES ASSUME Quiet, [Next]_vars
                 PROVE  Quiet'
      OBVIOUS
    <2>1. CASE SolveRule
      BY <2>1 DEF SolveRule, Fail, Quiet
    <2>2. CASE RejectRule
      BY <2>2 DEF RejectRule, Fail, Quiet
    <2>3. CASE StopContinuing
      BY <2>3 DEF StopContinuing, stateVars, Quiet, Solvable
    <2>4. CASE AddDefault \/ AddPlaceholder
      BY <2>4 DEF AddDefault, AddPlaceholder, Quiet
    <2>5. CASE GiveUp
      BY <2>5 DEF GiveUp, stateVars, Quiet, Solvable
    <2>6. CASE Panic
      BY <2>6 DEF Panic, Quiet
    <2>7. CASE interpret_results
      BY <2>7 DEF interpret_results, Fail, stateVars, Quiet, Solvable
    <2>8. CASE UNCHANGED vars
      BY <2>8 DEF vars, stateVars, Quiet, Solvable
    <2>9. QED
      BY <2>1, <2>2, <2>3, <2>4, <2>5, <2>6, <2>7, <2>8 DEF Next
  <1>3. QED
    BY <1>1, <1>2, PTL DEF Spec

\* A successful solve answers every rune, leaves no rule open and satisfies all
\* of them, although interpret_results looks only at the conclusions.
THEOREM SolvedMeansSolved == Spec => []SolvedIsSolution
  <1>1. TypeOK /\ Declared /\ ClosedInv /\ Quiet => SolvedIsSolution
    <2> SUFFICES ASSUME TypeOK, Declared, ClosedInv, Quiet, phase = "solved"
                 PROVE  /\ \A i \in DOMAIN rules : RunesOf(rules[i]) \subseteq DOMAIN conclusions
                        /\ DOMAIN open_rules = {}
                        /\ \A i \in DOMAIN rules : RunesDistinct(rules[i]) => Holds(rules[i], conclusions)
      BY DEF SolvedIsSolution
    <2>1. all_runes \subseteq DOMAIN conclusions /\ Solvable = {}
      BY DEF Quiet
    <2>2. \A i \in DOMAIN rules : rules[i] \in Rule /\ RunesOf(rules[i]) \subseteq DOMAIN conclusions
      BY <2>1 DEF Declared, TypeOK
    <2>3. ASSUME NEW i \in DOMAIN open_rules
          PROVE  FALSE
      <3>1. i \in DOMAIN rules /\ open_rules[i] = get_puzzles(rules[i])
        BY DEF TypeOK
      <3>2. \E puzzle \in open_rules[i] : puzzle \subseteq DOMAIN conclusions
        BY <2>2, <3>1, PuzzlesAreOfRunes
      <3>3. QED  BY <2>1, <3>2 DEF Solvable
    <2>4. QED
      BY <2>2, <2>3 DEF ClosedInv, rule_is_solved, Settled
  <1>2. QED
    BY <1>1, TypeCorrect, AlwaysDeclared, AlwaysClosedInv, AlwaysQuiet, PTL

-----------------------------------------------------------------------------
(* Every conclusion is forced *)

\* The last of a list: what collect() keeps of a key.
LEMMA LargestIndex ==
  ASSUME NEW n \in Nat, NEW S \in SUBSET (1..n), S # {}
  PROVE  \E i \in S : \A j \in S : j <= i
  <1> DEFINE reflected == { n - i : i \in S }
  <1>1. reflected \in SUBSET Nat /\ reflected # {}
    <2>1. \A i \in S : n - i \in Nat
      OBVIOUS
    <2>2. PICK i \in S : TRUE
      OBVIOUS
    <2>3. n - i \in reflected
      OBVIOUS
    <2>4. QED  BY <2>1, <2>3
  <1>2. PICK k \in reflected : \A l \in reflected : k <= l
    BY <1>1, SmallestIndex
  <1>3. PICK i \in S : k = n - i
    OBVIOUS
  <1>4. \A j \in S : n - i <= n - j
    BY <1>2, <1>3
  <1>5. \A j \in S : j <= i
    BY <1>4
  <1>6. QED  BY <1>5

\* A step concludes values of its list.
LEMMA ValueIsOfList ==
  ASSUME NEW pairs, NEW n \in Nat, DOMAIN pairs \subseteq 1..n, NEW r \in MapRunes(pairs)
  PROVE  \E i \in DOMAIN pairs : pairs[i][1] = r /\ MapValue(pairs, r) = pairs[i][2]
  <1> DEFINE S == { i \in DOMAIN pairs : pairs[i][1] = r }
  <1>1. S \in SUBSET (1..n) /\ S # {}
    BY DEF MapRunes
  <1>2. PICK i \in S : \A j \in S : j <= i
    BY <1>1, LargestIndex
  <1>3. i \in DOMAIN pairs /\ pairs[i][1] = r /\ IsLast(pairs, i)
    BY <1>2 DEF IsLast
  <1> DEFINE last == CHOOSE k \in DOMAIN pairs : pairs[k][1] = r /\ IsLast(pairs, k)
  <1>4. last \in DOMAIN pairs /\ pairs[last][1] = r
    BY <1>3
  <1>5. QED  BY <1>4 DEF MapValue

\* A list of conclusions, each of which A has too.
Forced(pairs, A) ==
  /\ \E n \in Nat : DOMAIN pairs \subseteq 1..n
  /\ \A i \in DOMAIN pairs : pairs[i][2] = A[pairs[i][1]]

LEMMA ForcedOne ==
  ASSUME NEW a, NEW v, NEW A, A[a] = v
  PROVE  Forced(<< <<a, v>> >>, A)
  <1> DEFINE pairs == << <<a, v>> >>
  <1>1. DOMAIN pairs = {1} /\ pairs[1] = <<a, v>>
    OBVIOUS
  <1>2. DOMAIN pairs \subseteq 1..1
    BY <1>1
  <1>3. QED  BY <1>1, <1>2 DEF Forced

LEMMA ForcedTwo ==
  ASSUME NEW a, NEW v, NEW b, NEW w, NEW A, A[a] = v, A[b] = w
  PROVE  Forced(<< <<a, v>>, <<b, w>> >>, A)
  <1> DEFINE pairs == << <<a, v>>, <<b, w>> >>
  <1>1. DOMAIN pairs = {1, 2} /\ pairs[1] = <<a, v>> /\ pairs[2] = <<b, w>>
    OBVIOUS
  <1>2. DOMAIN pairs \subseteq 1..2
    BY <1>1
  <1>3. QED  BY <1>1, <1>2 DEF Forced

LEMMA ForcedZip ==
  ASSUME NEW runes \in Seq(Rune), NEW ts, NEW A,
         \A j \in DOMAIN runes \cap DOMAIN ts : A[runes[j]] = ts[j]
  PROVE  Forced(ZipPairs(runes, ts), A)
  <1> DEFINE pairs == ZipPairs(runes, ts)
  <1>1. /\ DOMAIN pairs = DOMAIN runes \cap DOMAIN ts
        /\ \A j \in DOMAIN pairs : pairs[j] = <<runes[j], ts[j]>>
    BY DEF ZipPairs
  <1>2. DOMAIN pairs \subseteq 1..Len(runes) /\ Len(runes) \in Nat
    BY <1>1
  <1>3. QED  BY <1>1, <1>2 DEF Forced

\* What is on file is what A says.
Agrees(A) == \A r \in DOMAIN conclusions : A[r] = conclusions[r]

\* Whichever puzzle of it was met, a rule that fires concludes nothing that is
\* not so in every assignment that satisfies it and agrees with what is on file.
LEMMA FiringIsForced ==
  ASSUME NEW rule \in Rule, NEW A, Agrees(A), FullyHolds(rule, A),
         \E puzzle \in get_puzzles(rule) : puzzle \subseteq DOMAIN conclusions,
         ~RuleError(rule), ~RulePanics(rule)
  PROVE  Forced(Concluded(rule), A)
  <1>0. \A r : Known(r) => A[r] = conclusions[r]
    BY DEF Agrees, Known
  <1>1. CASE rule.op \in LeafOps
    <2>1. Concluded(rule) = << <<rule.result, rule.value>> >> /\ A[rule.result] = rule.value
      BY <1>1 DEF Concluded, FullyHolds, Holds, RulePanics, LeafOps, RefOps
    <2>2. QED  BY <2>1, ForcedOne
  <1>2. CASE rule.op = "Equals"
    <2>1. Concluded(rule) = EqualsConcluded(rule) /\ A[rule.left] = A[rule.right]
      BY <1>2 DEF Concluded, FullyHolds, Holds, LeafOps, RefOps
    <2>2. Known(rule.left) \/ Known(rule.right)
      BY <1>2 DEF get_puzzles, Known, LeafOps, RefOps
    <2>3. QED  BY <1>0, <2>1, <2>2, ForcedOne DEF EqualsConcluded
  <1>3. CASE rule.op \in RefOps
    <2>1. /\ Concluded(rule) = RefConcluded(rule)
          /\ A[rule.result].inner = A[rule.inner] /\ A[rule.result] = RefTo(rule.op, A[rule.inner])
      BY <1>3 DEF Concluded, FullyHolds, Holds, LeafOps, RefOps
    <2>2. KnownKind(rule.result) \/ KnownKind(rule.inner)
      BY <1>3 DEF RulePanics, RefPanics
    <2>3. QED  BY <1>0, <2>1, <2>2, ForcedOne DEF RefConcluded, KnownKind
  <1>4. CASE rule.op = "KindList"
    <2>1. /\ rule.members \in Seq(Rune) /\ Concluded(rule) = KindListConcluded(rule)
          /\ Zipped(rule.members, A[rule.result].kinds, A)
          /\ A[rule.result] = KindListOf([j \in DOMAIN rule.members |-> A[rule.members[j]]])
      BY <1>4, RulesAssumption DEF Concluded, FullyHolds, Holds, LeafOps, RefOps
    <2>2. CASE Known(rule.result)
      <3>1. Concluded(rule) = ZipPairs(rule.members, A[rule.result].kinds)
        BY <1>0, <2>1, <2>2 DEF KindListConcluded
      <3>2. QED  BY <2>1, <3>1, ForcedZip DEF Zipped
    <2>3. CASE ~Known(rule.result)
      <3>1. \A j \in DOMAIN rule.members : Known(rule.members[j])
        BY <1>4, <2>3 DEF get_puzzles, Known, Range, LeafOps, RefOps
      <3>2. ValuesOf(rule.members) = [j \in DOMAIN rule.members |-> A[rule.members[j]]]
        BY <1>0, <3>1 DEF ValuesOf
      <3>3. Concluded(rule) = << <<rule.result, A[rule.result]>> >>
        BY <2>1, <2>3, <3>2 DEF KindListConcluded
      <3>4. QED  BY <3>3, ForcedOne
    <2>4. QED  BY <2>2, <2>3
  <1>5. CASE rule.op = "Call"
    <2>1. /\ rule.args \in Seq(Rune) /\ Concluded(rule) = CallConcluded(rule)
          /\ CallHolds(rule, A)
          /\ A[rule.result] = Applied(A[rule.template], [j \in DOMAIN rule.args |-> A[rule.args[j]]])
      BY <1>5, RulesAssumption DEF Concluded, FullyHolds, Holds, LeafOps, RefOps
    <2>2. Known(rule.template)
      BY <1>5 DEF get_puzzles, Known, LeafOps, RefOps
    <2>3. CASE Known(rule.result)
      <3>1. A[rule.template].tag = "template"
        BY <1>0, <1>5, <2>2, <2>3
        DEF RuleError, RulePanics, CallPanics, CallMismatch, IsFromTemplate, KnownKind
      <3>2. Zipped(rule.args, A[rule.result].args, A)
        BY <2>1, <3>1 DEF CallHolds
      <3>3. Concluded(rule) = ZipPairs(rule.args, A[rule.result].args)
        BY <1>0, <2>1, <2>3 DEF CallConcluded
      <3>4. QED  BY <2>1, <3>2, <3>3, ForcedZip DEF Zipped
    <2>4. CASE ~Known(rule.result)
      <3>1. \A j \in DOMAIN rule.args : Known(rule.args[j])
        BY <1>5, <2>4 DEF get_puzzles, Known, Range, LeafOps, RefOps
      <3>2. ValuesOf(rule.args) = [j \in DOMAIN rule.args |-> A[rule.args[j]]]
        BY <1>0, <3>1 DEF ValuesOf
      <3>3. Concluded(rule) = << <<rule.result, A[rule.result]>> >>
        BY <1>0, <2>1, <2>2, <2>4, <3>2 DEF CallConcluded
      <3>4. QED  BY <3>3, ForcedOne
    <2>5. QED  BY <2>3, <2>4
  <1>6. CASE rule.op \in {"CallSiteFunc", "DefinitionFunc", "Resolve"}
    <2>1. /\ A[rule.params] = KindListOf(A[rule.params].kinds)
          /\ A[rule.result] = Prototype(A[rule.params].kinds, A[rule.return])
          /\ A[rule.params].kinds = A[rule.result].params
          /\ A[rule.return] = A[rule.result].return
      BY <1>6 DEF FullyHolds, Holds, FuncHolds, LeafOps, RefOps
    <2>2. CASE rule.op = "CallSiteFunc"
      <3>1. Known(rule.result) /\ Concluded(rule) = CallSiteFuncConcluded(rule)
        BY <2>2 DEF get_puzzles, Known, Concluded, LeafOps, RefOps
      <3>2. Concluded(rule) = << <<rule.params, KindListOf(A[rule.result].params)>>,
                                 <<rule.return, A[rule.result].return>> >>
        BY <1>0, <3>1 DEF CallSiteFuncConcluded
      <3>3. QED  BY <2>1, <3>2, ForcedTwo
    <2>3. CASE rule.op # "CallSiteFunc" /\ Known(rule.return)
      <3>1. Known(rule.params) /\ Concluded(rule) = Predicted(rule)
        BY <1>6, <2>3 DEF get_puzzles, Known, Concluded, Resolved, LeafOps, RefOps
      <3>2. Concluded(rule) = << <<rule.result, A[rule.result]>> >>
        BY <1>0, <2>1, <2>3, <3>1 DEF Predicted
      <3>3. QED  BY <3>2, ForcedOne
    <2>4. CASE rule.op # "CallSiteFunc" /\ ~Known(rule.return)
      <3>1. rule.op = "Resolve" /\ Known(rule.params)
        BY <1>6, <2>4 DEF get_puzzles, Known, LeafOps, RefOps
      <3>2. A[rule.return] = Overloads[A[rule.params].kinds]
        BY <3>1 DEF FullyHolds
      <3>3. Concluded(rule) = << <<rule.result, Prototype(A[rule.params].kinds, A[rule.return])>>,
                                 <<rule.return, A[rule.return]>> >>
        BY <1>0, <2>4, <3>1, <3>2 DEF Concluded, Resolved, LeafOps, RefOps
      <3>4. QED  BY <2>1, <3>3, ForcedTwo
    <2>5. QED  BY <2>2, <2>3, <2>4
  <1>7. QED
    BY <1>1, <1>2, <1>3, <1>4, <1>5, <1>6, RulesAssumption

\* A forced list keeps the agreement and meets no conflict.
LEMMA ForcedKeepsAgreement ==
  ASSUME NEW pairs, NEW A, Forced(pairs, A), Agrees(A)
  PROVE  /\ Conflicts(pairs) = {}
         /\ \A r \in DOMAIN WithInserted(pairs) : A[r] = WithInserted(pairs)[r]
  <1>1. \A r \in MapRunes(pairs) : MapValue(pairs, r) = A[r]
    BY ValueIsOfList DEF Forced
  <1>2. QED
    BY <1>1 DEF Conflicts, WithInserted, Inserted, Agrees

\* Nor is a rule refused that an assignment satisfies, unless it applies a
\* finished kind whose result is known already.
FinishedKindApplied(rule) ==
  /\ rule.op = "Call" /\ Known(rule.result)
  /\ conclusions[rule.template].tag # "template"

LEMMA ErrorsAreReal ==
  ASSUME NEW rule \in Rule, NEW A, Agrees(A), FullyHolds(rule, A),
         \E puzzle \in get_puzzles(rule) : puzzle \subseteq DOMAIN conclusions,
         ~FinishedKindApplied(rule)
  PROVE  ~RuleError(rule)
  <1>0. \A r : Known(r) => A[r] = conclusions[r]
    BY DEF Agrees, Known
  <1>1. ~(rule.op = "Lookup" /\ rule.value = NotFound)
    BY DEF FullyHolds
  <1>2. ~(rule.op \in RefOps /\ KnownKind(rule.result) /\ conclusions[rule.result].tag # rule.op)
    BY <1>0 DEF FullyHolds, Holds, KnownKind, LeafOps, RefOps
  <1>3. ASSUME rule.op = "Call", KnownKind(rule.result)
        PROVE  ~CallMismatch(rule)
    <2>1. Known(rule.template) /\ Known(rule.result)
      BY <1>3 DEF get_puzzles, KnownKind, Known, LeafOps, RefOps
    <2>2. A[rule.template].tag = "template" /\ CallHolds(rule, A)
      BY <1>0, <1>3, <2>1 DEF FinishedKindApplied, FullyHolds, Holds, LeafOps, RefOps
    <2>3. IsFromTemplate(A[rule.result], A[rule.template])
      BY <2>2 DEF CallHolds
    <2>4. A[rule.template].name \in ArrayTemplates => Len(rule.args) = Len(A[rule.result].args)
      BY <1>3, <2>2 DEF FullyHolds
    <2>5. QED  BY <1>0, <1>3, <2>1, <2>3, <2>4 DEF CallMismatch, IsFromTemplate
  <1>4. ASSUME rule.op = "Resolve", ~Known(rule.return)
        PROVE  conclusions[rule.params].kinds \in DOMAIN Overloads
    <2>1. Known(rule.params)
      BY <1>4 DEF get_puzzles, Known, LeafOps, RefOps
    <2>2. QED  BY <1>0, <1>4, <2>1 DEF FullyHolds
  <1>5. ASSUME rule.op = "CallSiteFunc"
        PROVE  conclusions[rule.result].tag = "prototype"
    <2>1. Known(rule.result)
      BY <1>5 DEF get_puzzles, Known, LeafOps, RefOps
    <2>2. QED  BY <1>0, <1>5, <2>1 DEF FullyHolds, Prototype
  <1>6. QED  BY <1>1, <1>2, <1>3, <1>4, <1>5 DEF RuleError

\* The rules only grow: what satisfies them satisfied the ones before.
LEMMA CommitKeepsRules ==
  ASSUME StateOK, NEW solved, NEW pairs, NEW newRules \in Seq(Rule), NEW newPuzzles, NEW newRunes,
         commit_step(solved, pairs, newRules, newPuzzles, newRunes)
  PROVE  \A i \in DOMAIN rules : i \in DOMAIN rules' /\ rules'[i] = rules[i]
  <1>1. CASE rules' = rules
    BY <1>1
  <1>2. CASE rules' = rules \o newRules
    BY <1>2 DEF StateOK
  <1>3. QED  BY <1>1, <1>2 DEF commit_step

LEMMA SatisfiedBefore ==
  ASSUME prog' = prog, \A i \in DOMAIN rules : i \in DOMAIN rules' /\ rules'[i] = rules[i],
         NEW A, Satisfies(A)'
  PROVE  Satisfies(A)
  <1>1. /\ \A r \in DOMAIN prog'.knowns : A[r] = prog'.knowns[r]
        /\ \A i \in DOMAIN rules' : FullyHolds(rules'[i], A)
    BY DEF Satisfies, FullyHolds, Holds, CallHolds, FuncHolds, Zipped
  <1>2. QED  BY <1>1 DEF Satisfies

LEMMA ForcedInit == Init => ConclusionsForced
  BY DEF Init, make_solver_state, ConclusionsForced, Satisfies

\* The rule the loop takes next: its puzzle is met and an assignment that
\* satisfies the rules satisfies it.
LEMMA NextIsSatisfied ==
  ASSUME TypeOK, Solvable # {}, NEW A, Satisfies(A)
  PROVE  LET rule == rules[get_next_solvable]
         IN /\ rule \in Rule /\ FullyHolds(rule, A)
            /\ \E puzzle \in get_puzzles(rule) : puzzle \subseteq DOMAIN conclusions
  <1>1. StateOK
    BY DEF TypeOK, StateOK
  <1>2. QED  BY <1>1, NextSolvable DEF Satisfies

LEMMA ForcedNext == ConclusionsForced /\ TypeOK /\ [Next]_vars => ConclusionsForced'
  <1> SUFFICES ASSUME ConclusionsForced, TypeOK, [Next]_vars,
                      prog'.fill # "placeholder",
                      NEW A \in Assignments, Satisfies(A)',
                      NEW r \in DOMAIN conclusions'
               PROVE  A[r] = conclusions'[r]
    BY DEF ConclusionsForced
  <1>0. StateOK /\ <<>> \in Seq(Rule)
    BY DEF TypeOK, StateOK
  <1>a. prog' = prog
    BY DEF Next, SolveRule, RejectRule, StopContinuing, AddDefault, AddPlaceholder, GiveUp, Panic,
           interpret_results, vars
  <1>1. CASE SolveRule
    <2> DEFINE rule == rules[get_next_solvable]
               pairs == Concluded(rule)
    <2>1. commit_step({get_next_solvable}, pairs, <<>>, <<>>, {}) /\ ~RuleError(rule) /\ ~RulePanics(rule)
      BY <1>1 DEF SolveRule
    <2>2. Satisfies(A)
      BY <1>0, <1>a, <2>1, CommitKeepsRules, SatisfiedBefore
    <2>3. Agrees(A)
      BY <1>a, <2>2 DEF ConclusionsForced, Agrees
    <2>4. /\ rule \in Rule /\ FullyHolds(rule, A)
          /\ \E puzzle \in get_puzzles(rule) : puzzle \subseteq DOMAIN conclusions
      BY <1>1, <2>2, NextIsSatisfied DEF SolveRule
    <2>5. Forced(pairs, A)
      BY <2>1, <2>3, <2>4, FiringIsForced
    <2>6. \A q \in DOMAIN WithInserted(pairs) : A[q] = WithInserted(pairs)[q]
      BY <2>3, <2>5, ForcedKeepsAgreement
    <2>7. conclusions' = WithInserted(pairs)
      BY <2>1 DEF commit_step
    <2>8. QED  BY <2>6, <2>7
  <1>2. CASE AddDefault
    <2> DEFINE default == FirstUnsolved.default
    <2>1. default.rules \in Seq(Rule)
      BY <1>2, FirstDefault DEF AddDefault, TypeOK
    <2>2. commit_step({}, <<>>, default.rules, PuzzlesOf(default.rules), {default.result})
      BY <1>2 DEF AddDefault
    <2>3. Satisfies(A)
      BY <1>0, <1>a, <2>1, <2>2, CommitKeepsRules, SatisfiedBefore
    <2>4. conclusions' = WithInserted(<<>>)
      BY <2>2 DEF commit_step
    <2>5. DOMAIN conclusions' = DOMAIN conclusions /\ conclusions'[r] = conclusions[r]
      BY <2>4, RunesOfNone DEF WithInserted, Inserted
    <2>6. QED  BY <1>a, <2>3, <2>5 DEF ConclusionsForced
  <1>3. CASE AddPlaceholder
    BY <1>3, <1>a DEF AddPlaceholder
  <1>4. CASE UNCHANGED stateVars
    <2>1. Satisfies(A)
      BY <1>4, <1>a, SatisfiedBefore DEF stateVars
    <2>2. QED  BY <1>4, <1>a, <2>1 DEF stateVars, ConclusionsForced
  <1>5. QED
    BY <1>1, <1>2, <1>3, <1>4
       DEF Next, RejectRule, StopContinuing, GiveUp, Panic, interpret_results, vars

\* Nothing is guessed: whatever satisfies the rules and the knowns agrees with
\* all that has been concluded, in any solve that fills in no placeholder, at
\* every step of it and whichever puzzle let each rule fire (solve_rule).
THEOREM NothingIsGuessed == Spec => []ConclusionsForced
  BY ForcedInit, ForcedNext, TypeCorrect, PTL DEF Spec

\* A solve failed by refusing to apply a finished kind to nothing although the
\* result is known: only a template's result is taken apart (solve_call_rule).
FinishedKindRefused ==
  /\ failure = "RuleError"
  /\ Solvable # {}
  /\ FinishedKindApplied(rules[get_next_solvable])

Justified == FailuresJustified \/ FinishedKindRefused

LEMMA JustifiedNext ==
  Justified /\ ConclusionsForced /\ TypeOK /\ [Next]_vars => Justified'
  <1> SUFFICES ASSUME Justified, ConclusionsForced, TypeOK, [Next]_vars
               PROVE  Justified'
    OBVIOUS
  <1>0. StateOK /\ <<>> \in Seq(Rule)
    BY DEF TypeOK, StateOK
  <1>1. CASE SolveRule
    <2> DEFINE rule == rules[get_next_solvable]
               pairs == Concluded(rule)
    <2> SUFFICES ASSUME phase' = "failed", prog'.fill # "placeholder",
                        NEW A \in Assignments, Satisfies(A)'
                 PROVE  FALSE
      BY DEF Justified, FailuresJustified
    <2>1. /\ commit_step({get_next_solvable}, pairs, <<>>, <<>>, {}) /\ ~RuleError(rule) /\ ~RulePanics(rule)
          /\ prog' = prog
      BY <1>1 DEF SolveRule
    <2>2. Satisfies(A)
      BY <1>0, <2>1, CommitKeepsRules, SatisfiedBefore
    <2>3. Agrees(A)
      BY <2>1, <2>2 DEF ConclusionsForced, Agrees
    <2>4. /\ rule \in Rule /\ FullyHolds(rule, A)
          /\ \E puzzle \in get_puzzles(rule) : puzzle \subseteq DOMAIN conclusions
      BY <1>1, <2>2, NextIsSatisfied DEF SolveRule
    <2>5. Forced(pairs, A)
      BY <2>1, <2>3, <2>4, FiringIsForced
    <2>6. Conflicts(pairs) = {}
      BY <2>3, <2>5, ForcedKeepsAgreement
    <2>7. QED  BY <1>1, <2>6 DEF SolveRule
  <1>2. CASE RejectRule
    <2> DEFINE rule == rules[get_next_solvable]
    <2>1. /\ Solvable # {} /\ RuleError(rule) /\ prog' = prog
          /\ UNCHANGED stateVars /\ failure' = "RuleError"
      BY <1>2 DEF RejectRule, Fail
    <2>2. CASE FinishedKindApplied(rule)
      <3>1. open_rules' = open_rules /\ conclusions' = conclusions /\ rules' = rules
        BY <2>1 DEF stateVars
      <3>2. Solvable' = Solvable /\ get_next_solvable' = get_next_solvable
        BY <3>1 DEF Solvable, get_next_solvable
      <3> DEFINE i == get_next_solvable
      <3>3. FinishedKindApplied(rules[i])
        BY <2>2
      <3>4. (get_next_solvable)' = i
        BY <3>2
      <3> HIDE DEF i, rule
      <3>5. FinishedKindRefused'
        BY <2>1, <3>1, <3>2, <3>3, <3>4 DEF FinishedKindRefused, FinishedKindApplied, Known
      <3>6. QED  BY <3>5 DEF Justified
    <2>3. CASE ~FinishedKindApplied(rule)
      <3> SUFFICES ASSUME prog'.fill # "placeholder", NEW A \in Assignments, Satisfies(A)'
                   PROVE  FALSE
        BY DEF Justified, FailuresJustified
      <3>1. Satisfies(A)
        BY <2>1, SatisfiedBefore DEF stateVars
      <3>2. Agrees(A)
        BY <2>1, <3>1 DEF ConclusionsForced, Agrees
      <3>3. QED  BY <2>1, <2>3, <3>1, <3>2, NextIsSatisfied, ErrorsAreReal
    <2>4. QED  BY <2>2, <2>3
  <1>3. CASE interpret_results
    BY <1>3 DEF interpret_results, Fail, Justified, FailuresJustified
  <1>4. CASE StopContinuing \/ AddDefault \/ AddPlaceholder \/ GiveUp \/ Panic
    <2>1. phase' # "failed"
      BY <1>4 DEF StopContinuing, AddDefault, AddPlaceholder, GiveUp, Panic
    <2>2. QED  BY <2>1 DEF Justified, FailuresJustified
  <1>5. CASE UNCHANGED vars
    <2>1. FinishedKindRefused => FinishedKindRefused'
      BY <1>5 DEF vars, stateVars, FinishedKindRefused, FinishedKindApplied, Solvable,
                  get_next_solvable, Known
    <2>2. \A A \in Assignments : Satisfies(A)' => Satisfies(A)
      BY <1>5, SatisfiedBefore DEF vars, stateVars
    <2>3. phase' = phase /\ failure' = failure /\ prog' = prog
      BY <1>5 DEF vars
    <2>4. FailuresJustified => FailuresJustified'
      BY <2>2, <2>3 DEF FailuresJustified
    <2>5. QED  BY <2>1, <2>4 DEF Justified
  <1>6. QED
    BY <1>1, <1>2, <1>3, <1>4, <1>5 DEF Next

\* A conflict is always a real one: no assignment satisfies the rules.  So is
\* the error of a rule, but for a finished kind that is applied when its result
\* is known (advance_infer, solve_rule).
THEOREM FailuresAreReal == Spec => [](FailuresJustified \/ FinishedKindRefused)
  <1>1. Init => Justified
    BY DEF Init, Justified, FailuresJustified
  <1>2. QED
    BY <1>1, JustifiedNext, NothingIsGuessed, TypeCorrect, PTL DEF Spec, Justified

-----------------------------------------------------------------------------
(* The loop stops at the closure *)

\* What the rule would take apart has a part for every rune it writes.
PartsFit(rule, A) ==
  rule.op = "Call" /\ {rule.result, rule.template} \subseteq DOMAIN A =>
    (IsFromTemplate(A[rule.result], A[rule.template]) =>
       DOMAIN rule.args \subseteq DOMAIN A[rule.result].args)

\* All the rule is about is known, or it wrote more than there was.
Filled(rule, A) == RunesOf(rule) \subseteq DOMAIN A \/ ~PartsFit(rule, A)

LEMMA StaysFilled ==
  ASSUME NEW rule \in Rule, NEW A, NEW B, Extends(B, A), Filled(rule, A)
  PROVE  Filled(rule, B)
  <1>1. CASE RunesOf(rule) \subseteq DOMAIN A
    BY <1>1 DEF Filled, Extends
  <1>2. CASE ~PartsFit(rule, A)
    <2>1. ~PartsFit(rule, B)
      BY <1>2 DEF PartsFit, Extends
    <2>2. QED  BY <2>1 DEF Filled
  <1>3. QED  BY <1>1, <1>2 DEF Filled

LEMMA RunesOfWholeZip ==
  ASSUME NEW runes, NEW ts, DOMAIN runes \subseteq DOMAIN ts
  PROVE  Range(runes) \subseteq MapRunes(ZipPairs(runes, ts))
  BY DEF MapRunes, ZipPairs, Range

\* A rule that fires without an error, a panic or a conflict leaves none of its
\* runes open.
LEMMA FiringFills ==
  ASSUME NEW rule \in Rule,
         \E puzzle \in get_puzzles(rule) : puzzle \subseteq DOMAIN conclusions,
         ~RuleError(rule), ~RulePanics(rule), Conflicts(Concluded(rule)) = {},
         DOMAIN Concluded(rule) \subseteq Nat
  PROVE  Filled(rule, WithInserted(Concluded(rule)))
  <1> DEFINE pairs == Concluded(rule)
             W == WithInserted(pairs)
  <1>0. DOMAIN W = DOMAIN conclusions \cup MapRunes(pairs)
    BY DEF WithInserted, Inserted
  <1>1. CASE rule.op \in LeafOps
    <2>1. pairs = << <<rule.result, rule.value>> >> /\ RunesOf(rule) = {rule.result}
      BY <1>1 DEF Concluded, RunesOf, LeafOps, RefOps
    <2>2. QED  BY <1>0, <2>1, RunesOfOne DEF Filled
  <1>2. CASE rule.op = "Equals"
    <2>1. pairs = EqualsConcluded(rule) /\ RunesOf(rule) = {rule.left, rule.right}
      BY <1>2 DEF Concluded, RunesOf, LeafOps, RefOps
    <2>2. Known(rule.left) \/ Known(rule.right)
      BY <1>2 DEF get_puzzles, Known, LeafOps, RefOps
    <2>3. QED  BY <1>0, <2>1, <2>2, RunesOfOne DEF EqualsConcluded, Known, Filled
  <1>3. CASE rule.op \in RefOps
    <2>1. pairs = RefConcluded(rule) /\ RunesOf(rule) = {rule.result, rule.inner}
      BY <1>3 DEF Concluded, RunesOf, LeafOps, RefOps
    <2>2. KnownKind(rule.result) \/ KnownKind(rule.inner)
      BY <1>3 DEF RulePanics, RefPanics
    <2>3. QED  BY <1>0, <2>1, <2>2, RunesOfOne DEF RefConcluded, KnownKind, Known, Filled
  <1>4. CASE rule.op = "KindList"
    <2>1. pairs = KindListConcluded(rule) /\ RunesOf(rule) = {rule.result} \cup Range(rule.members)
      BY <1>4 DEF Concluded, RunesOf, LeafOps, RefOps
    <2>2. CASE Known(rule.result)
      <3>1. DOMAIN rule.members \subseteq DOMAIN conclusions[rule.result].kinds
        BY <1>4, <2>2 DEF RulePanics, KindListPanics
      <3>2. Range(rule.members) \subseteq MapRunes(pairs)
        BY <2>1, <2>2, <3>1, RunesOfWholeZip DEF KindListConcluded
      <3>3. QED  BY <1>0, <2>1, <2>2, <3>2 DEF Known, Filled
    <2>3. CASE ~Known(rule.result)
      <3>1. Range(rule.members) \subseteq DOMAIN conclusions
        BY <1>4, <2>3 DEF get_puzzles, Known, LeafOps, RefOps
      <3>2. MapRunes(pairs) = {rule.result}
        BY <2>1, <2>3, RunesOfOne DEF KindListConcluded
      <3>3. QED  BY <1>0, <2>1, <3>1, <3>2 DEF Filled
    <2>4. QED  BY <2>2, <2>3
  <1>5. CASE rule.op = "Call"
    <2>1. /\ pairs = CallConcluded(rule)
          /\ RunesOf(rule) = {rule.result, rule.template} \cup Range(rule.args)
      BY <1>5 DEF Concluded, RunesOf, LeafOps, RefOps
    <2>2. Known(rule.template)
      BY <1>5 DEF get_puzzles, Known, LeafOps, RefOps
    <2>3. CASE Known(rule.result)
      <3>1. CASE DOMAIN rule.args \subseteq DOMAIN conclusions[rule.result].args
        <4>1. Range(rule.args) \subseteq MapRunes(pairs)
          BY <2>1, <2>3, <3>1, RunesOfWholeZip DEF CallConcluded
        <4>2. QED  BY <1>0, <2>1, <2>2, <2>3, <4>1 DEF Known, Filled
      <3>2. CASE ~(DOMAIN rule.args \subseteq DOMAIN conclusions[rule.result].args)
        <4>1. IsFromTemplate(conclusions[rule.result], conclusions[rule.template])
          BY <1>5, <2>3 DEF RuleError, RulePanics, CallPanics, CallMismatch, KnownKind
        <4>2. ~PartsFit(rule, conclusions)
          BY <1>5, <2>2, <2>3, <3>2, <4>1 DEF PartsFit, Known
        <4>3. Extends(W, conclusions)
          BY InsertsAll
        <4>4. QED  BY <4>2, <4>3, StaysFilled DEF Filled
      <3>3. QED  BY <3>1, <3>2
    <2>4. CASE ~Known(rule.result)
      <3>1. Range(rule.args) \subseteq DOMAIN conclusions
        BY <1>5, <2>4 DEF get_puzzles, Known, LeafOps, RefOps
      <3>2. MapRunes(pairs) = {rule.result}
        BY <2>1, <2>4, RunesOfOne DEF CallConcluded
      <3>3. QED  BY <1>0, <2>1, <2>2, <3>1, <3>2 DEF Filled, Known
    <2>5. QED  BY <2>3, <2>4
  <1>6. CASE rule.op \in {"CallSiteFunc", "DefinitionFunc", "Resolve"}
    <2>0. RunesOf(rule) = {rule.result, rule.params, rule.return}
      BY <1>6 DEF RunesOf, LeafOps, RefOps
    <2>1. CASE rule.op = "CallSiteFunc"
      <3>1. Known(rule.result) /\ pairs = CallSiteFuncConcluded(rule)
        BY <2>1 DEF get_puzzles, Known, Concluded, LeafOps, RefOps
      <3>2. MapRunes(pairs) = {rule.params, rule.return}
        BY <3>1, RunesOfTwo DEF CallSiteFuncConcluded
      <3>3. QED  BY <1>0, <2>0, <3>1, <3>2 DEF Known, Filled
    <2>2. CASE rule.op # "CallSiteFunc" /\ Known(rule.return)
      <3>1. Known(rule.params) /\ pairs = Predicted(rule)
        BY <1>6, <2>2 DEF get_puzzles, Known, Concluded, Resolved, LeafOps, RefOps
      <3>2. MapRunes(pairs) = {rule.result}
        BY <3>1, RunesOfOne DEF Predicted
      <3>3. QED  BY <1>0, <2>0, <2>2, <3>1, <3>2 DEF Known, Filled
    <2>3. CASE rule.op # "CallSiteFunc" /\ ~Known(rule.return)
      <3>1. rule.op = "Resolve" /\ Known(rule.params)
        BY <1>6, <2>3 DEF get_puzzles, Known, LeafOps, RefOps
      <3>2. MapRunes(pairs) = {rule.result, rule.return}
        BY <2>3, <3>1, RunesOfTwo DEF Concluded, Resolved, LeafOps, RefOps
      <3>3. QED  BY <1>0, <2>0, <3>1, <3>2 DEF Known, Filled
    <2>4. QED  BY <2>1, <2>2, <2>3
  <1>7. QED
    BY <1>1, <1>2, <1>3, <1>4, <1>5, <1>6, RulesAssumption

\* Solved rules are filled.
Covered == \A i \in DOMAIN rules : rule_is_solved(i) => Filled(rules[i], conclusions)

\* What has been given is on file.
GivenIsKnown == Given \subseteq DOMAIN conclusions

\* Every conclusion follows from what has been given.
OnlyDerived ==
  \A S \in SUBSET Rune :
    Given \subseteq S /\ ClosedUnder(rules, S) => DOMAIN conclusions \subseteq S

StepsAreList == Len(steps) \in Nat /\ DOMAIN steps = 1..Len(steps) /\ \E T : steps \in Seq(T)

Exact == StepsAreList /\ Covered /\ GivenIsKnown /\ OnlyDerived

\* A commit gives the runes it concludes when it solves no rule.
LEMMA CommitGives ==
  ASSUME StepsAreList, NEW solved, NEW pairs, NEW newRules, NEW newPuzzles, NEW newRunes,
         commit_step(solved, pairs, newRules, newPuzzles, newRunes)
  PROVE  /\ StepsAreList'
         /\ solved = {} => Given' = Given \cup MapRunes(pairs)
         /\ solved # {} => Given' = Given
  <1> DEFINE e == [solved |-> solved, conclusions |-> MapOf(pairs)]
  <1>1. steps' = Append(steps, e)
    BY DEF commit_step
  <1>2. PICK T : steps \in Seq(T)
    BY DEF StepsAreList
  <1>3. steps \in Seq(T \cup {e})
    BY <1>2
  <1>4. /\ steps' \in Seq(T \cup {e}) /\ Len(steps') = Len(steps) + 1
        /\ DOMAIN steps' = DOMAIN steps \cup {Len(steps) + 1}
        /\ \A k \in DOMAIN steps : steps'[k] = steps[k] /\ k # Len(steps) + 1
        /\ steps'[Len(steps) + 1] = e
    BY <1>1, <1>3
  <1> HIDE DEF e
  <1>5. StepsAreList'
    BY <1>4 DEF StepsAreList
  <1>6. e.solved = solved /\ DOMAIN e.conclusions = MapRunes(pairs)
    BY DEF e, MapOf
  <1>7. CASE solved = {}
    <2>1. { k \in DOMAIN steps' : steps'[k].solved = {} }
            = { k \in DOMAIN steps : steps[k].solved = {} } \cup {Len(steps) + 1}
      BY <1>4, <1>6, <1>7
    <2>2. Given' = Given \cup MapRunes(pairs)
      BY <1>4, <1>6, <2>1 DEF Given
    <2>3. QED  BY <1>5, <1>7, <2>2
  <1>8. CASE solved # {}
    <2>1. { k \in DOMAIN steps' : steps'[k].solved = {} } = { k \in DOMAIN steps : steps[k].solved = {} }
      BY <1>4, <1>6, <1>8
    <2>2. Given' = Given
      BY <1>4, <2>1 DEF Given
    <2>3. QED  BY <1>5, <1>8, <2>2
  <1>9. QED  BY <1>7, <1>8

LEMMA ExactInit == Init => Exact
  <1> SUFFICES ASSUME NEW p \in Programs, prog = p,
                      make_solver_state(p.rules, PuzzlesOf(p.rules), p.knowns, p.runes)
               PROVE  Exact
    BY DEF Init
  <1>1. steps = << [solved |-> {}, conclusions |-> p.knowns] >> /\ conclusions = p.knowns
    BY DEF make_solver_state
  <1>2. Len(steps) = 1 /\ DOMAIN steps = 1..1 /\ steps \in Seq({ [solved |-> {}, conclusions |-> p.knowns] })
        /\ steps[1].conclusions = p.knowns /\ steps[1].solved = {}
    BY <1>1
  <1>3. StepsAreList
    BY <1>2 DEF StepsAreList
  <1>4. Given = DOMAIN p.knowns
    <2>1. { k \in DOMAIN steps : steps[k].solved = {} } = {1}
      BY <1>2
    <2>2. QED  BY <1>2, <2>1 DEF Given
  <1>5. Covered
    <2>1. p.rules \in Seq(Rule)
      BY ProgramsAssumption DEF SolveInput
    <2>2. \A i \in DOMAIN p.rules : PuzzlesOf(p.rules)[i] # {}
      BY <2>1, PuzzlesAreOfRunes DEF PuzzlesOf
    <2>3. DOMAIN rules \subseteq DOMAIN open_rules
      BY <2>2 DEF make_solver_state, PuzzlesOf
    <2>4. QED  BY <2>3 DEF Covered, rule_is_solved
  <1>6. QED  BY <1>1, <1>3, <1>4, <1>5 DEF Exact, GivenIsKnown, OnlyDerived

\* A commit that closes no rule leaves the closed ones filled.
LEMMA CommitKeepsCovered ==
  ASSUME Covered, StateOK,
         NEW pairs, NEW newRules \in Seq(Rule), NEW newRunes, NEW solved,
         DOMAIN pairs \subseteq Nat,
         solved = {} \/ Conflicts(pairs) # {},
         commit_step(solved, pairs, newRules, PuzzlesOf(newRules), newRunes)
  PROVE  Covered'
  <1>1. Extends(conclusions', conclusions)
    BY CommitExtends
  <1>2. ASSUME NEW i \in DOMAIN rules', i \notin DOMAIN open_rules'
        PROVE  i \in DOMAIN rules /\ rules'[i] = rules[i] /\ i \notin DOMAIN open_rules
    BY <1>2, CommitClosesNone
  <1>3. \A i \in DOMAIN rules : rules[i] \in Rule
    BY DEF StateOK
  <1>4. ASSUME NEW i \in DOMAIN rules', i \notin DOMAIN open_rules'
        PROVE  Filled(rules'[i], conclusions')
    BY <1>1, <1>2, <1>3, <1>4, StaysFilled DEF Covered, rule_is_solved
  <1>5. QED  BY <1>4 DEF Covered, rule_is_solved, Filled, PartsFit, RunesOf, IsFromTemplate

\* A commit that gives what it concludes derives nothing else.
LEMMA CommitKeepsDerived ==
  ASSUME Exact, StateOK,
         NEW pairs, NEW newRules \in Seq(Rule), NEW newPuzzles, NEW newRunes,
         Conflicts(pairs) = {},
         commit_step({}, pairs, newRules, newPuzzles, newRunes)
  PROVE  StepsAreList' /\ GivenIsKnown' /\ OnlyDerived'
  <1>1. StepsAreList' /\ Given' = Given \cup MapRunes(pairs)
    BY CommitGives DEF Exact
  <1>2. DOMAIN conclusions' = DOMAIN conclusions \cup MapRunes(pairs)
    BY DEF commit_step, WithInserted, Inserted
  <1>3. \A i \in DOMAIN rules : i \in DOMAIN rules' /\ rules'[i] = rules[i]
    BY CommitKeepsRules
  <1>4. ASSUME NEW S \in SUBSET Rune, Given' \subseteq S, ClosedUnder(rules', S)
        PROVE  DOMAIN conclusions' \subseteq S
    <2>1. ClosedUnder(rules, S)
      BY <1>3, <1>4 DEF ClosedUnder
    <2>2. QED  BY <1>1, <1>2, <1>4, <2>1 DEF Exact, OnlyDerived
  <1>5. QED  BY <1>1, <1>2, <1>4 DEF Exact, GivenIsKnown, OnlyDerived

LEMMA ExactNext == Exact /\ TypeOK /\ [Next]_vars => Exact'
  <1> SUFFICES ASSUME Exact, TypeOK, [Next]_vars
               PROVE  Exact'
    OBVIOUS
  <1>0. StateOK /\ SolveInput(prog) /\ <<>> \in Seq(Rule) /\ <<>> = PuzzlesOf(<<>>)
    BY DEF TypeOK, StateOK, PuzzlesOf
  <1>1. CASE SolveRule
    <2> DEFINE i == get_next_solvable
               rule == rules[i]
               pairs == Concluded(rule)
    <2>1. /\ i \in DOMAIN rules /\ rule \in Rule
          /\ \E puzzle \in get_puzzles(rule) : puzzle \subseteq DOMAIN conclusions
      BY <1>0, <1>1, NextSolvable DEF SolveRule
    <2>2. DOMAIN pairs \subseteq Nat
      BY <2>1, ConcludedIndices
    <2>3. commit_step({i}, pairs, <<>>, PuzzlesOf(<<>>), {}) /\ ~RuleError(rule) /\ ~RulePanics(rule)
      BY <1>0, <1>1 DEF SolveRule
    <2>4. StepsAreList' /\ Given' = Given
      BY <2>3, CommitGives DEF Exact
    <2>5. rules' = rules
      BY <1>0, <2>3 DEF commit_step, StateOK
    <2>6. Extends(conclusions', conclusions)
      BY <2>2, <2>3, CommitExtends
    <2>7. GivenIsKnown'
      BY <2>4, <2>6 DEF Exact, GivenIsKnown, Extends
    <2>8. ASSUME NEW S \in SUBSET Rune, Given \subseteq S, ClosedUnder(rules, S)
          PROVE  DOMAIN conclusions' \subseteq S
      <3>1. DOMAIN conclusions \subseteq S
        BY <2>8 DEF Exact, OnlyDerived
      <3>2. RunesOf(rule) \subseteq S
        BY <2>1, <2>8, <3>1 DEF ClosedUnder
      <3>3. DOMAIN conclusions' \subseteq DOMAIN conclusions \cup RunesOf(rule)
        BY <2>1, <2>3, ConcludesOwnRunes DEF commit_step, WithInserted, Inserted
      <3>4. QED  BY <3>1, <3>2, <3>3
    <2>9. OnlyDerived'
      BY <2>4, <2>5, <2>8 DEF OnlyDerived, ClosedUnder
    <2>10. Covered'
      <3>1. CASE Conflicts(pairs) # {}
        BY <1>0, <2>2, <2>3, <3>1, CommitKeepsCovered DEF Exact
      <3>2. CASE Conflicts(pairs) = {}
        <4>1. conclusions' = WithInserted(pairs) /\ open_rules' = Reopened({i}, PuzzlesOf(<<>>))
          BY <2>3, <3>2 DEF commit_step
        <4>2. DOMAIN open_rules \ {i} \subseteq DOMAIN open_rules'
          BY <4>1 DEF Reopened
        <4>3. Filled(rule, conclusions')
          BY <2>1, <2>2, <2>3, <3>2, <4>1, FiringFills
        <4>4. ASSUME NEW j \in DOMAIN rules', j \notin DOMAIN open_rules'
              PROVE  Filled(rules'[j], conclusions')
          <5>1. CASE j = i
            BY <2>5, <4>3, <5>1
          <5>2. CASE j # i
            <6>1. Filled(rules[j], conclusions) /\ rules[j] \in Rule
              BY <1>0, <2>5, <4>2, <4>4, <5>2 DEF Exact, Covered, rule_is_solved, StateOK
            <6>2. QED  BY <2>5, <2>6, <6>1, StaysFilled
          <5>3. QED  BY <5>1, <5>2
        <4>5. QED  BY <4>4 DEF Covered, rule_is_solved
      <3>3. QED  BY <3>1, <3>2
    <2>11. QED  BY <2>4, <2>7, <2>9, <2>10 DEF Exact
  <1>2. CASE AddDefault
    <2> DEFINE default == FirstUnsolved.default
    <2>1. default.rules \in Seq(Rule) /\ DOMAIN <<>> \subseteq Nat
      BY <1>0, <1>2, FirstDefault, RunesOfNone DEF AddDefault
    <2>2. commit_step({}, <<>>, default.rules, PuzzlesOf(default.rules), {default.result})
      BY <1>2 DEF AddDefault
    <2>3. Conflicts(<<>>) = {}
      BY RunesOfNone DEF Conflicts
    <2>4. Covered'
      BY <1>0, <2>1, <2>2, CommitKeepsCovered DEF Exact
    <2>5. QED  BY <1>0, <2>1, <2>2, <2>3, <2>4, CommitKeepsDerived DEF Exact
  <1>3. CASE AddPlaceholder
    <2> DEFINE r == FirstUnsolved.rune
               pairs == << <<r, Placeholder(r)>> >>
    <2>1. commit_step({}, pairs, <<>>, PuzzlesOf(<<>>), {})
      BY <1>0, <1>3 DEF AddPlaceholder
    <2>2. DOMAIN pairs \subseteq Nat
      OBVIOUS
    <2>3. Conflicts(pairs) = {}
      BY <1>0, <1>3, RunesOfOne, FirstUnsolvedIsGeneric DEF AddPlaceholder, Conflicts, Known
    <2>4. Covered'
      BY <1>0, <2>1, <2>2, CommitKeepsCovered DEF Exact
    <2>5. QED  BY <1>0, <2>1, <2>3, <2>4, CommitKeepsDerived DEF Exact
  <1>4. CASE UNCHANGED stateVars
    <2>1. Given' = Given
      BY <1>4 DEF stateVars, Given
    <2>2. QED
      BY <1>4, <2>1 DEF stateVars, Exact, StepsAreList, Covered, rule_is_solved, GivenIsKnown,
                        OnlyDerived, ClosedUnder
  <1>5. QED
    BY <1>1, <1>2, <1>3, <1>4
       DEF Next, RejectRule, StopContinuing, GiveUp, Panic, interpret_results, vars

LEMMA AlwaysExact == Spec => []Exact
  BY ExactInit, ExactNext, TypeCorrect, PTL DEF Spec

\* Every rule that takes something apart finds a part for each rune it writes.
RulesFit == \A i \in DOMAIN rules : PartsFit(rules[i], conclusions)

\* Once nothing can fire, what is known is closed under the rules.
LEMMA StoppedIsClosed ==
  ASSUME TypeOK, Covered, RulesFit, Solvable = {}
  PROVE  ClosedUnder(rules, DOMAIN conclusions)
  <1> SUFFICES ASSUME NEW i \in DOMAIN rules,
                      \E puzzle \in get_puzzles(rules[i]) : puzzle \subseteq DOMAIN conclusions
               PROVE  RunesOf(rules[i]) \subseteq DOMAIN conclusions
    BY DEF ClosedUnder
  <1>1. i \notin DOMAIN open_rules
    BY DEF TypeOK, Solvable
  <1>2. QED  BY <1>1 DEF Covered, RulesFit, Filled, rule_is_solved

LEMMA StoppedIsDerivable ==
  ASSUME TypeOK, Declared, Exact, RulesFit, Solvable = {}
  PROVE  DOMAIN conclusions = Derivable(rules, Given)
  <1>1. all_runes \subseteq Rune /\ DOMAIN conclusions \subseteq all_runes
    BY DEF TypeOK, Declared
  <1>2. \A S \in SUBSET all_runes :
          Given \subseteq S /\ ClosedUnder(rules, S) => DOMAIN conclusions \subseteq S
    BY <1>1 DEF Exact, OnlyDerived
  <1>3. ClosedUnder(rules, DOMAIN conclusions) /\ Given \subseteq DOMAIN conclusions
    BY StoppedIsClosed DEF Exact, GivenIsKnown
  <1>4. QED  BY <1>1, <1>2, <1>3 DEF Derivable

\* Firing in index order loses nothing: when the loop stops, exactly the runes
\* are concluded that the rules give in any order, as long as no rule writes
\* more parts than what it takes apart has (advance_infer, get_next_solvable).
THEOREM StopsWhenNothingFollows == Spec => [](RulesFit => StopsAtClosure)
  <1>1. TypeOK /\ Declared /\ Exact /\ Quiet => (RulesFit => StopsAtClosure)
    BY StoppedIsDerivable DEF Quiet, StopsAtClosure
  <1>2. QED
    BY <1>1, TypeCorrect, AlwaysDeclared, AlwaysExact, AlwaysQuiet, PTL

\* A default or a placeholder is committed only for a parameter that the rules
\* do not determine in any order (the on_incomplete_solve callbacks).
THEOREM FillsAreLastResort == Spec /\ []RulesFit => FillsOnlyUnderivable
  <1>1. TypeOK /\ Declared /\ Exact /\ Quiet /\ RulesFit /\ [Next]_vars =>
          [AddDefault \/ AddPlaceholder => FirstUnsolved.rune \notin Derivable(rules, Given)]_vars
    <2> SUFFICES ASSUME TypeOK, Declared, Exact, Quiet, RulesFit, AddDefault \/ AddPlaceholder
                 PROVE  FirstUnsolved.rune \notin Derivable(rules, Given)
      OBVIOUS
    <2>1. phase = "stalled" /\ UnsolvedGenerics # {}
      BY DEF AddDefault, AddPlaceholder
    <2>2. DOMAIN conclusions = Derivable(rules, Given)
      BY <2>1, StoppedIsDerivable DEF Quiet
    <2>3. ~Known(FirstUnsolved.rune)
      BY <2>1, FirstUnsolvedIsGeneric DEF TypeOK
    <2>4. QED  BY <2>2, <2>3 DEF Known
  <1>2. QED
    BY <1>1, TypeCorrect, AlwaysDeclared, AlwaysExact, AlwaysQuiet, PTL DEF Spec, FillsOnlyUnderivable

-----------------------------------------------------------------------------
(* The loop check of the solve *)

\* The panic is that of a rule's own assertions.
RuleAsserts == Solvable # {} /\ RulePanics(rules[get_next_solvable])

LEMMA AssertsStay ==
  ASSUME UNCHANGED <<rules, open_rules, conclusions, prog>>
  PROVE  RuleAsserts' <=> RuleAsserts
  <1>1. ASSUME NEW rule
        PROVE  RulePanics(rule)' <=> RulePanics(rule)
    BY DEF RulePanics, RefPanics, KindListPanics, CallPanics, FuncPanics, MayBeApplied, ValuesOf,
           KnownKind, Known, IsKind, TypeOf
  <1>2. Solvable' = Solvable
    BY DEF Solvable
  <1>3. get_next_solvable' = get_next_solvable
    BY <1>2 DEF get_next_solvable
  <1>4. QED  BY <1>1, <1>2, <1>3 DEF RuleAsserts

\* The default of the parameter was added and the earlier parameters are known.
DefaultAdded(g) ==
  /\ HasDefault(prog.generics[g])
  /\ Range(prog.generics[g].default.rules) \subseteq Range(rules)
  /\ \A h \in 1..(g - 1) : Known(prog.generics[h].rune)

\* A callback for each unsolved parameter and a last one.
Enough(unsolved, callbacks) == Cardinality(unsolved) + 1 <= callbacks

\* The default that was added last may still give its parameter.
DefaultPending ==
  /\ phase = "continuing"
  /\ \E g \in DOMAIN prog.generics : DefaultAdded(g) /\ Enough(UnsolvedGenerics \ {g}, loop_check)

\* It did not, and nothing can be concluded any more.
DefaultFailed ==
  /\ ClosedUnder(rules, DOMAIN conclusions)
  /\ \E g \in UnsolvedGenerics : DefaultAdded(g)

LoopInv ==
  RulesFit =>
    /\ prog.checked /\ phase \in {"continuing", "stalled"} =>
         Enough(UnsolvedGenerics, loop_check) \/ DefaultPending \/ DefaultFailed
    /\ phase = "panicked" => DefaultFailed \/ RuleAsserts

\* There are finitely many parameters to wait for.
LEMMA UnsolvedIsFinite ==
  ASSUME SolveInput(prog)
  PROVE  /\ UnsolvedGenerics \subseteq DOMAIN prog.generics
         /\ IsFiniteSet(UnsolvedGenerics)
         /\ Cardinality(UnsolvedGenerics) \in Nat
         /\ Cardinality(UnsolvedGenerics) <= Len(prog.generics)
  <1>1. DOMAIN prog.generics = 1..Len(prog.generics) /\ Len(prog.generics) \in Nat
    BY DEF SolveInput
  <1>2. UnsolvedGenerics \subseteq DOMAIN prog.generics
    BY DEF UnsolvedGenerics
  <1>3. IsFiniteSet(1..Len(prog.generics)) /\ Cardinality(1..Len(prog.generics)) = Len(prog.generics)
    BY <1>1, FS_Interval
  <1>4. /\ IsFiniteSet(UnsolvedGenerics)
        /\ Cardinality(UnsolvedGenerics) <= Cardinality(1..Len(prog.generics))
    BY <1>1, <1>2, <1>3, FS_Subset
  <1>5. QED  BY <1>2, <1>3, <1>4, FS_CardinalityType

\* The parameter whose turn it is comes before the others that are unsolved.
LEMMA FirstUnsolvedIsFirst ==
  ASSUME SolveInput(prog), UnsolvedGenerics # {}
  PROVE  /\ get_first_unsolved_identifying_rune \in UnsolvedGenerics
         /\ \A g \in UnsolvedGenerics : get_first_unsolved_identifying_rune <= g
  <1>1. UnsolvedGenerics \subseteq Nat
    BY DEF UnsolvedGenerics, SolveInput
  <1>2. \E g \in UnsolvedGenerics : \A h \in UnsolvedGenerics : g <= h
    BY <1>1, SmallestIndex
  <1>3. QED  BY <1>2 DEF get_first_unsolved_identifying_rune

\* It is the only one that has the earlier parameters known.
LEMMA TurnIsUnique ==
  ASSUME SolveInput(prog), NEW g \in UnsolvedGenerics, DefaultAdded(g)
  PROVE  g = get_first_unsolved_identifying_rune
  <1> DEFINE f == get_first_unsolved_identifying_rune
  <1>1. f \in UnsolvedGenerics /\ f <= g
    BY FirstUnsolvedIsFirst
  <1>2. f \in Nat /\ g \in Nat /\ 1 <= f /\ ~Known(prog.generics[f].rune)
    BY <1>1 DEF UnsolvedGenerics, SolveInput
  <1>3. ~(f < g)
    BY <1>1, <1>2 DEF DefaultAdded
  <1>4. QED  BY <1>1, <1>2, <1>3

\* Where a default failed, the known runes are the set it does not suffice for.
LEMMA FailedMeansStuck ==
  ASSUME TypeOK, DefaultFailed
  PROVE  StuckAtDefault
  <1>1. SolveInput(prog)
    BY DEF TypeOK
  <1>2. PICK g \in UnsolvedGenerics : DefaultAdded(g)
    BY DEF DefaultFailed
  <1>3. g = get_first_unsolved_identifying_rune
    BY <1>1, <1>2, TurnIsUnique
  <1> DEFINE default == prog.generics[g].default
             runes == prog.runes \cup {default.result}
             S == DOMAIN conclusions \cap runes
  <1>4. g \in DOMAIN prog.generics /\ HasDefault(prog.generics[g]) /\ prog.generics[g].rune \notin S
    BY <1>2 DEF UnsolvedGenerics, Known, DefaultAdded
  <1>5. EarlierParameters(g) \subseteq S
    <2>1. \A h \in 1..(g - 1) : h \in DOMAIN prog.generics
      BY <1>1, <1>4 DEF SolveInput
    <2>2. \A h \in 1..(g - 1) : prog.generics[h].rune \in DOMAIN conclusions
      BY <1>2 DEF DefaultAdded, Known
    <2>3. \A h \in 1..(g - 1) : prog.generics[h].rune \in prog.runes
      BY <1>1, <2>1 DEF SolveInput
    <2>4. QED  BY <2>2, <2>3 DEF EarlierParameters
  <1>6. ClosedUnder(default.rules, S)
    <2> SUFFICES ASSUME NEW k \in DOMAIN default.rules,
                        NEW puzzle \in get_puzzles(default.rules[k]), puzzle \subseteq S
                 PROVE  RunesOf(default.rules[k]) \subseteq S
      BY DEF ClosedUnder
    <2>1. RunesOf(default.rules[k]) \subseteq runes
      BY <1>1, <1>4 DEF SolveInput
    <2>2. default.rules[k] \in Range(rules)
      BY <1>2 DEF DefaultAdded, Range
    <2>3. PICK i \in DOMAIN rules : rules[i] = default.rules[k]
      BY <2>2 DEF Range
    <2>4. RunesOf(default.rules[k]) \subseteq DOMAIN conclusions
      BY <2>3 DEF DefaultFailed, ClosedUnder
    <2>5. QED  BY <2>1, <2>4
  <1>7. ~DefaultSuffices(g)
    BY <1>4, <1>5, <1>6 DEF DefaultSuffices
  <1>8. QED  BY <1>2, <1>3, <1>4, <1>7 DEF StuckAtDefault, FirstUnsolved

\* What fits after a step fitted before it.
LEMMA FittedBefore ==
  ASSUME Extends(conclusions', conclusions), RulesFit',
         \A i \in DOMAIN rules : i \in DOMAIN rules' /\ rules'[i] = rules[i]
  PROVE  RulesFit
  <1>1. \A i \in DOMAIN rules' : PartsFit(rules'[i], conclusions')
    BY DEF RulesFit, PartsFit, IsFromTemplate
  <1>2. ASSUME NEW i \in DOMAIN rules
        PROVE  PartsFit(rules[i], conclusions)
    <2>1. PartsFit(rules[i], conclusions')
      BY <1>1
    <2>2. QED  BY <2>1 DEF PartsFit, Extends
  <1>3. QED  BY <1>2 DEF RulesFit

\* What is known and the rules grow, so a parameter keeps its default's rules.
LEMMA StaysAdded ==
  ASSUME Extends(conclusions', conclusions), prog' = prog,
         \A i \in DOMAIN rules : i \in DOMAIN rules' /\ rules'[i] = rules[i],
         NEW g, DefaultAdded(g)
  PROVE  DefaultAdded(g)'
  <1>1. Range(rules) \subseteq Range(rules')
    BY DEF Range
  <1>2. QED  BY <1>1 DEF DefaultAdded, Known, Extends

\* With fewer parameters to wait for, the callbacks that were enough still are.
LEMMA StaysEnough ==
  ASSUME NEW U, NEW V, NEW n \in Nat, IsFiniteSet(U), V \subseteq U, Enough(U, n)
  PROVE  Enough(V, n)
  <1>1. Cardinality(V) <= Cardinality(U) /\ IsFiniteSet(V)
    BY FS_Subset
  <1>2. Cardinality(V) \in Nat /\ Cardinality(U) \in Nat
    BY <1>1, FS_CardinalityType
  <1>3. QED  BY <1>1, <1>2 DEF Enough

LEMMA RangeOfConcat ==
  ASSUME NEW T, NEW s \in Seq(T), NEW t \in Seq(T)
  PROVE  Range(s \o t) = Range(s) \cup Range(t)
  <1> DEFINE u == s \o t
  <1>1. /\ DOMAIN u = 1..(Len(s) + Len(t))
        /\ \A i \in 1..Len(s) : u[i] = s[i]
        /\ \A i \in 1..Len(t) : u[Len(s) + i] = t[i]
    OBVIOUS
  <1>2. ASSUME NEW x \in Range(u)
        PROVE  x \in Range(s) \cup Range(t)
    <2>1. PICK i \in DOMAIN u : u[i] = x
      BY <1>2 DEF Range
    <2>2. CASE i \in 1..Len(s)
      BY <1>1, <2>1, <2>2 DEF Range
    <2>3. CASE i \notin 1..Len(s)
      <3>1. i - Len(s) \in 1..Len(t) /\ i = Len(s) + (i - Len(s))
        BY <1>1, <2>1, <2>3
      <3>2. t[i - Len(s)] = x
        BY <1>1, <2>1, <3>1
      <3>3. QED  BY <3>1, <3>2 DEF Range
    <2>4. QED  BY <2>2, <2>3
  <1>3. ASSUME NEW x \in Range(s) \cup Range(t)
        PROVE  x \in Range(u)
    <2>1. CASE x \in Range(s)
      <3>1. PICK i \in 1..Len(s) : s[i] = x
        BY <2>1 DEF Range
      <3>2. i \in DOMAIN u /\ u[i] = x
        BY <1>1, <3>1
      <3>3. QED  BY <3>2 DEF Range
    <2>2. CASE x \in Range(t)
      <3>1. PICK i \in 1..Len(t) : t[i] = x
        BY <2>2 DEF Range
      <3>2. Len(s) + i \in DOMAIN u /\ u[Len(s) + i] = x
        BY <1>1, <3>1
      <3>3. QED  BY <3>2 DEF Range
    <2>3. QED  BY <1>3, <2>1, <2>2
  <1>4. QED  BY <1>2, <1>3

LEMMA LoopInit == Init => LoopInv
  <1> SUFFICES ASSUME NEW p \in Programs, prog = p, phase = "continuing",
                      loop_check = Len(p.generics) + 1
               PROVE  LoopInv
    BY DEF Init
  <1>1. Cardinality(UnsolvedGenerics) <= Len(prog.generics) /\ Cardinality(UnsolvedGenerics) \in Nat
    BY ProgramsAssumption, UnsolvedIsFinite
  <1>2. Len(prog.generics) \in Nat
    BY ProgramsAssumption DEF SolveInput
  <1>3. Enough(UnsolvedGenerics, loop_check)
    BY <1>1, <1>2 DEF Enough
  <1>4. QED  BY <1>3 DEF LoopInv

\* Firing a rule spends no callback; where a default failed it concludes nothing.
LEMMA FiringKeepsLoop ==
  ASSUME LoopInv, TypeOK, SolveRule
  PROVE  LoopInv'
  <1> DEFINE rule == rules[get_next_solvable]
             pairs == Concluded(rule)
  <1>0. StateOK /\ SolveInput(prog) /\ loop_check \in Nat
    BY DEF TypeOK, StateOK
  <1>1. rule \in Rule /\ \E puzzle \in get_puzzles(rule) : puzzle \subseteq DOMAIN conclusions
    BY <1>0, NextSolvable DEF SolveRule
  <1>2. commit_step({get_next_solvable}, pairs, <<>>, <<>>, {})
    BY DEF SolveRule
  <1>3. Extends(conclusions', conclusions)
    BY <1>1, <1>2, ConcludedIndices, CommitExtends
  <1>4. rules' = rules /\ prog' = prog /\ loop_check' = loop_check
    BY <1>0, <1>2 DEF SolveRule, commit_step, StateOK
  <1>5. phase = "continuing" /\ phase' \in {"continuing", "failed"}
    BY DEF SolveRule, Fail
  <1> SUFFICES ASSUME RulesFit', prog.checked, phase' = "continuing"
               PROVE  Enough(UnsolvedGenerics', loop_check') \/ DefaultPending' \/ DefaultFailed'
    BY <1>4, <1>5 DEF LoopInv
  <1>6. RulesFit
    BY <1>3, <1>4, FittedBefore
  <1>7. UnsolvedGenerics' \subseteq UnsolvedGenerics /\ IsFiniteSet(UnsolvedGenerics)
    BY <1>0, <1>3, <1>4, UnsolvedIsFinite DEF UnsolvedGenerics, Known, Extends
  <1>8. CASE Enough(UnsolvedGenerics, loop_check)
    BY <1>0, <1>4, <1>7, <1>8, StaysEnough
  <1>9. CASE DefaultPending
    <2>1. PICK g \in DOMAIN prog.generics : DefaultAdded(g) /\ Enough(UnsolvedGenerics \ {g}, loop_check)
      BY <1>9 DEF DefaultPending
    <2>2. DefaultAdded(g)'
      BY <1>3, <1>4, <2>1, StaysAdded
    <2>3. IsFiniteSet(UnsolvedGenerics \ {g})
      BY <1>7, FS_Subset
    <2>4. UnsolvedGenerics' \ {g} \subseteq UnsolvedGenerics \ {g}
      BY <1>7
    <2>5. Enough(UnsolvedGenerics' \ {g}, loop_check')
      BY <1>0, <1>4, <2>1, <2>3, <2>4, StaysEnough
    <2>6. QED  BY <1>4, <1>5, <2>2, <2>5 DEF DefaultPending
  <1>10. CASE DefaultFailed
    <2>1. get_next_solvable \in DOMAIN rules
      BY <1>0, NextSolvable DEF SolveRule
    <2>2. RunesOf(rule) \subseteq DOMAIN conclusions
      BY <1>1, <1>10, <2>1 DEF DefaultFailed, ClosedUnder
    <2>3. MapRunes(pairs) \subseteq DOMAIN conclusions
      BY <1>1, <2>2, ConcludesOwnRunes
    <2>4. DOMAIN conclusions' = DOMAIN conclusions
      BY <1>2, <2>3 DEF commit_step, WithInserted, Inserted
    <2>5. UnsolvedGenerics' = UnsolvedGenerics
      BY <1>4, <2>4 DEF UnsolvedGenerics, Known
    <2>6. PICK g \in UnsolvedGenerics : DefaultAdded(g)
      BY <1>10 DEF DefaultFailed
    <2>7. DefaultAdded(g)'
      BY <1>3, <1>4, <2>6, StaysAdded
    <2>8. ClosedUnder(rules', DOMAIN conclusions')
      BY <1>4, <1>10, <2>4 DEF DefaultFailed
    <2>9. QED  BY <2>5, <2>7, <2>8 DEF DefaultFailed, ClosedUnder
  <1>11. QED
    BY <1>5, <1>6, <1>8, <1>9, <1>10 DEF LoopInv

\* When nothing can fire, the pending default has given its parameter, or failed.
LEMMA StoppingKeepsLoop ==
  ASSUME LoopInv, TypeOK, Covered, StopContinuing
  PROVE  LoopInv'
  <1>0. SolveInput(prog) /\ loop_check \in Nat
    BY DEF TypeOK
  <1>1. /\ phase = "continuing" /\ Solvable = {} /\ phase' \in {"stalled", "finished"}
        /\ UNCHANGED <<stateVars, prog, loop_check>>
    BY DEF StopContinuing
  <1>2. RulesFit' <=> RulesFit
    BY <1>1 DEF stateVars, RulesFit, PartsFit, IsFromTemplate
  <1>3. UnsolvedGenerics' = UnsolvedGenerics
    BY <1>1 DEF stateVars, UnsolvedGenerics, Known
  <1>4. DefaultFailed => DefaultFailed'
    BY <1>1, <1>3 DEF stateVars, DefaultFailed, DefaultAdded, HasDefault, ClosedUnder, Known
  <1> SUFFICES ASSUME RulesFit, prog.checked
               PROVE  Enough(UnsolvedGenerics, loop_check) \/ DefaultFailed
    BY <1>1, <1>2, <1>3, <1>4 DEF LoopInv, Enough
  <1>5. ASSUME DefaultPending
        PROVE  Enough(UnsolvedGenerics, loop_check) \/ DefaultFailed
    <2>1. PICK g \in DOMAIN prog.generics : DefaultAdded(g) /\ Enough(UnsolvedGenerics \ {g}, loop_check)
      BY <1>5 DEF DefaultPending
    <2>2. CASE g \in UnsolvedGenerics
      <3>1. ClosedUnder(rules, DOMAIN conclusions)
        BY <1>1, StoppedIsClosed
      <3>2. QED  BY <2>1, <2>2, <3>1 DEF DefaultFailed
    <2>3. CASE g \notin UnsolvedGenerics
      <3>1. UnsolvedGenerics \ {g} = UnsolvedGenerics
        BY <2>3
      <3>2. QED  BY <2>1, <3>1
    <2>4. QED  BY <2>2, <2>3
  <1>6. QED  BY <1>1, <1>5 DEF LoopInv

\* A default spends a callback, and is pending; one that failed is added again
\* and changes nothing.
LEMMA DefaultKeepsLoop ==
  ASSUME LoopInv, TypeOK, AddDefault
  PROVE  LoopInv'
  <1> DEFINE default == FirstUnsolved.default
             n == Cardinality(UnsolvedGenerics)
  <1>0. StateOK /\ SolveInput(prog) /\ loop_check \in Nat
    BY DEF TypeOK, StateOK
  <1>1. /\ phase = "stalled" /\ UnsolvedGenerics # {} /\ HasDefault(FirstUnsolved)
        /\ phase' = "continuing" /\ prog' = prog /\ SpendLoopCheck /\ ~LoopCheckSpent
    BY DEF AddDefault
  <1>2. commit_step({}, <<>>, default.rules, PuzzlesOf(default.rules), {default.result})
    BY DEF AddDefault
  <1>a. PICK f \in UnsolvedGenerics :
          f = get_first_unsolved_identifying_rune /\ \A g \in UnsolvedGenerics : f <= g
    BY <1>0, <1>1, FirstUnsolvedIsFirst
  <1>3. default.rules \in Seq(Rule) /\ FirstUnsolved = prog.generics[f]
    BY <1>0, <1>1, <1>a, FirstDefault DEF FirstUnsolved
  <1>4. f \in DOMAIN prog.generics /\ f \in Nat
    BY <1>0 DEF UnsolvedGenerics, SolveInput
  <1>5. Extends(conclusions', conclusions) /\ DOMAIN conclusions' = DOMAIN conclusions
    BY <1>2, RunesOfNone, CommitExtends DEF commit_step, WithInserted, Inserted
  <1>6. rules' = rules \o default.rules
    BY <1>2, RunesOfNone DEF commit_step, Conflicts
  <1>7. \A i \in DOMAIN rules : i \in DOMAIN rules' /\ rules'[i] = rules[i]
    BY <1>0, <1>2, <1>3, CommitKeepsRules
  <1>8. Range(rules') = Range(rules) \cup Range(default.rules)
    BY <1>0, <1>3, <1>6, RangeOfConcat DEF StateOK
  <1>9. UnsolvedGenerics' = UnsolvedGenerics
    BY <1>1, <1>5 DEF UnsolvedGenerics, Known
  <1> SUFFICES ASSUME RulesFit', prog.checked
               PROVE  Enough(UnsolvedGenerics', loop_check') \/ DefaultPending' \/ DefaultFailed'
    BY <1>1 DEF LoopInv
  <1>10. RulesFit
    BY <1>5, <1>7, FittedBefore
  <1>11. loop_check' = loop_check - 1 /\ loop_check # 0
    BY <1>1 DEF SpendLoopCheck, LoopCheckSpent
  <1>12. CASE Enough(UnsolvedGenerics, loop_check)
    <2>1. IsFiniteSet(UnsolvedGenerics) /\ n \in Nat
      BY <1>0, UnsolvedIsFinite
    <2>2. Cardinality(UnsolvedGenerics \ {f}) = n - 1
      BY <1>a, <2>1, FS_RemoveElement
    <2>3. Cardinality(UnsolvedGenerics \ {f}) + 1 <= loop_check'
      BY <1>0, <1>11, <1>12, <2>1, <2>2 DEF Enough
    <2>4. Enough(UnsolvedGenerics' \ {f}, loop_check')
      BY <1>9, <2>3 DEF Enough
    <2>5. \A h \in 1..(f - 1) : prog.generics[h].rune \in DOMAIN conclusions
      <3> SUFFICES ASSUME NEW h \in 1..(f - 1), h \in UnsolvedGenerics
                   PROVE  FALSE
        BY <1>0, <1>4 DEF UnsolvedGenerics, Known, SolveInput
      <3>1. QED  BY <1>4, <1>a
    <2>6. Range(prog.generics[f].default.rules) \subseteq Range(rules')
      BY <1>3, <1>8
    <2>7. HasDefault(prog'.generics[f])
      BY <1>1, <1>3
    <2>8. DefaultAdded(f)'
      BY <1>1, <1>5, <2>5, <2>6, <2>7 DEF DefaultAdded, HasDefault, Known
    <2>9. QED  BY <1>1, <1>4, <2>4, <2>8 DEF DefaultPending
  <1>13. CASE DefaultFailed
    <2>1. PICK g \in UnsolvedGenerics : DefaultAdded(g)
      BY <1>13 DEF DefaultFailed
    <2>2. g = f
      BY <1>0, <1>a, <2>1, TurnIsUnique
    <2>3. Range(rules') = Range(rules)
      BY <1>3, <1>8, <2>1, <2>2 DEF DefaultAdded
    <2>4. ClosedUnder(rules', DOMAIN conclusions')
      <3> SUFFICES ASSUME NEW i \in DOMAIN rules',
                          NEW puzzle \in get_puzzles(rules'[i]), puzzle \subseteq DOMAIN conclusions
                   PROVE  RunesOf(rules'[i]) \subseteq DOMAIN conclusions
        BY <1>5 DEF ClosedUnder
      <3>1. rules'[i] \in Range(rules)
        BY <2>3 DEF Range
      <3>2. PICK j \in DOMAIN rules : rules[j] = rules'[i]
        BY <3>1 DEF Range
      <3>3. QED  BY <1>13, <3>2 DEF DefaultFailed, ClosedUnder
    <2>5. DefaultAdded(g)'
      BY <1>1, <1>5, <1>7, <2>1, StaysAdded
    <2>6. QED  BY <1>9, <2>4, <2>5 DEF DefaultFailed, ClosedUnder
  <1>14. QED
    BY <1>1, <1>10, <1>12, <1>13 DEF LoopInv, DefaultPending

\* The loop check is spent where a default failed; an added rule's runes are
\* always declared.
LEMMA PanickingKeepsLoop ==
  ASSUME LoopInv, TypeOK, Declared, Panic
  PROVE  LoopInv'
  <1>0. SolveInput(prog) /\ loop_check \in Nat
    BY DEF TypeOK
  <1>1. phase' = "panicked" /\ UNCHANGED <<stateVars, prog, loop_check>> /\ Panics
    BY DEF Panic
  <1>2. RulesFit' <=> RulesFit
    BY <1>1 DEF stateVars, RulesFit, PartsFit, IsFromTemplate
  <1>3. DefaultFailed => DefaultFailed'
    BY <1>1 DEF stateVars, DefaultFailed, UnsolvedGenerics, DefaultAdded, HasDefault, ClosedUnder, Known
  <1>4. RuleAsserts => RuleAsserts'
    BY <1>1, AssertsStay DEF stateVars
  <1> SUFFICES ASSUME RulesFit
               PROVE  DefaultFailed \/ RuleAsserts
    BY <1>1, <1>2, <1>3, <1>4 DEF LoopInv
  <1>5. CASE phase = "continuing"
    BY <1>1, <1>5 DEF Panics, RuleAsserts
  <1>6. CASE phase = "stalled" /\ LoopCheckSpent
    <2>1. prog.checked /\ loop_check = 0
      BY <1>6 DEF LoopCheckSpent
    <2>2. ~Enough(UnsolvedGenerics, loop_check)
      BY <1>0, <2>1, UnsolvedIsFinite DEF Enough
    <2>3. QED  BY <1>6, <2>1, <2>2 DEF LoopInv, DefaultPending
  <1>7. ASSUME UnsolvedGenerics # {}, HasDefault(FirstUnsolved),
               ~PuzzlesDeclared(PuzzlesOf(FirstUnsolved.default.rules), {FirstUnsolved.default.result})
        PROVE  FALSE
    <2> DEFINE default == FirstUnsolved.default
    <2>1. /\ default.rules \in Seq(Rule)
          /\ \A k \in DOMAIN default.rules :
               RunesOf(default.rules[k]) \subseteq all_runes \cup {default.result}
      BY <1>0, <1>7, FirstDefault DEF Declared
    <2>2. \A k \in DOMAIN default.rules : default.rules[k] \in Rule
      BY <2>1
    <2>3. \A k \in DOMAIN default.rules : \A puzzle \in get_puzzles(default.rules[k]) :
            puzzle \subseteq all_runes \cup {default.result}
      BY <2>1, <2>2, PuzzlesAreOfRunes
    <2>4. QED  BY <1>7, <2>3 DEF PuzzlesDeclared, PuzzlesOf
  <1>8. QED  BY <1>1, <1>5, <1>6, <1>7 DEF Panics

LEMMA LoopNext ==
  LoopInv /\ TypeOK /\ Declared /\ Covered /\ [Next]_vars => LoopInv'
  <1> SUFFICES ASSUME LoopInv, TypeOK, Declared, Covered, [Next]_vars
               PROVE  LoopInv'
    OBVIOUS
  <1>1. CASE SolveRule
    BY <1>1, FiringKeepsLoop
  <1>2. CASE StopContinuing
    BY <1>2, StoppingKeepsLoop
  <1>3. CASE AddDefault
    BY <1>3, DefaultKeepsLoop
  <1>4. CASE Panic
    BY <1>4, PanickingKeepsLoop
  <1>5. CASE AddPlaceholder
    <2>1. ~prog.checked /\ prog' = prog /\ phase' = "continuing"
      BY <1>5 DEF AddPlaceholder, TypeOK, SolveInput
    <2>2. QED  BY <2>1 DEF LoopInv
  <1>6. CASE RejectRule \/ GiveUp \/ interpret_results
    <2>1. phase' \in {"failed", "finished", "solved"}
      BY <1>6 DEF RejectRule, GiveUp, interpret_results, Fail
    <2>2. QED  BY <2>1 DEF LoopInv
  <1>7. CASE UNCHANGED vars
    <2>1. UNCHANGED <<stateVars, prog, phase, loop_check>>
      BY <1>7 DEF vars
    <2>2. RulesFit' <=> RulesFit
      BY <2>1 DEF stateVars, RulesFit, PartsFit, IsFromTemplate
    <2>3. UnsolvedGenerics' = UnsolvedGenerics
      BY <2>1 DEF stateVars, UnsolvedGenerics, Known
    <2>4. \A g : DefaultAdded(g)' <=> DefaultAdded(g)
      BY <2>1 DEF stateVars, DefaultAdded, HasDefault, Known
    <2>5. DefaultFailed' <=> DefaultFailed
      BY <2>1, <2>3, <2>4 DEF stateVars, DefaultFailed, ClosedUnder
    <2>6. DefaultPending' <=> DefaultPending
      BY <2>1, <2>3, <2>4 DEF DefaultPending, Enough
    <2>7. RuleAsserts' <=> RuleAsserts
      BY <2>1, AssertsStay DEF stateVars
    <2>8. QED  BY <2>1, <2>2, <2>3, <2>5, <2>6, <2>7 DEF LoopInv, Enough
  <1>8. QED
    BY <1>1, <1>2, <1>3, <1>4, <1>5, <1>6, <1>7 DEF Next

\* The loop check trips, and the asserts on an added rule, only where the default
\* of the parameter whose turn it is does not suffice; and with one callback for
\* each parameter and a last one, no default that suffices ever runs into it
\* (evaluate_generic_function_from_call). What remains are the assertions within
\* a rule.
LEMMA StuckOrAsserts ==
  Spec => [](RulesFit => (phase = "panicked" => StuckAtDefault \/ RuleAsserts))
  <1>1. Init => LoopInv
    BY LoopInit
  <1>2. LoopInv /\ TypeOK /\ Declared /\ Exact /\ [Next]_vars => LoopInv'
    BY LoopNext DEF Exact
  <1>3. TypeOK /\ LoopInv => (RulesFit => (phase = "panicked" => StuckAtDefault \/ RuleAsserts))
    BY FailedMeansStuck DEF LoopInv
  <1>4. QED
    BY <1>1, <1>2, <1>3, TypeCorrect, AlwaysDeclared, AlwaysExact, PTL DEF Spec
=============================================================================
