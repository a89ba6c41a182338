--------------------------- MODULE CompilerSolver ---------------------------
(***************************************************************************)
(* The typing pass's use of the solver: what each rule concludes           *)
(* (typing/infer/compiler_solver.rs), the loop that fires rules until none *)
(* can fire, and the incremental solve around it that fills in a default   *)
(* or a placeholder when the loop stalls (typing/infer_compiler.rs and its *)
(* two kinds of callback).                                                 *)
(*                                                                         *)
(* A templata is a term: a primitive or placeholder kind, a template, a    *)
(* citizen (template applied to arguments), a reference, a kind list or a  *)
(* prototype.  A rule is a record whose "op" names its variant.            *)
(***************************************************************************)
EXTENDS SimpleSolverState, Functions

CONSTANTS
  Rune,             \* the runes
  Rule,             \* the rules the postparser can emit over them
  Programs,         \* the solves to run: see SolveInput
  ArrayTemplates,   \* template names whose argument count solve_call_rule checks
  TemplateParams,   \* the types of a template's parameters, by its name
  Overloads,        \* find_function: [params |-> return kind], partial
  Assignments       \* total functions [Rune -> term] the solve is compared with

VARIABLES
  prog,        \* the input of this solve, never changed
  phase,       \* where the solve is: continuing, stalled, finished, or its result
  loop_check,  \* callbacks left before the "infinite loop" panic
  failure      \* the ISolverError of a failed solve

-----------------------------------------------------------------------------
(* Templatas *)

Kind(n)        == [tag |-> "kind", name |-> n]
Placeholder(r) == [tag |-> "placeholder", rune |-> r]
Template(n)    == [tag |-> "template", name |-> n]
Citizen(n, as) == [tag |-> "citizen", name |-> n, args |-> as]
RefTo(o, k)    == [tag |-> o, inner |-> k]
KindListOf(ks) == [tag |-> "list", kinds |-> ks]
Prototype(ks, k) == [tag |-> "prototype", params |-> ks, return |-> k]

NotFound == [tag |-> "notfound"]       \* what a Lookup of an unknown name yields

\* Applying a template: predict_struct, predict_interface and the array twins,
\* which read an argument for each parameter and no more; a finished kind is
\* itself, whatever it is applied to.
Applied(t, args) ==
  IF t.tag = "template"
  THEN Citizen(t.name, [j \in DOMAIN args \cap DOMAIN TemplateParams[t.name] |-> args[j]])
  ELSE t

-----------------------------------------------------------------------------
(* Rules: rune_usages and get_puzzles.  The leaf rules need nothing known:  *)
(* a name or literal, and a lookup in the caller's environment, which the  *)
(* callers of the solver are to have replaced by an initial known.         *)

LeafOps == {"Lookup", "Literal", "RuneParentEnvLookup"}
RefOps == {"BorrowRef", "WeakRef", "OwnRef"}

RunesOf(rule) ==
  CASE rule.op \in LeafOps   -> {rule.result}
    [] rule.op = "Equals"    -> {rule.left, rule.right}
    [] rule.op \in RefOps    -> {rule.result, rule.inner}
    [] rule.op = "KindList"  -> {rule.result} \cup Range(rule.members)
    [] rule.op = "Call"      -> {rule.result, rule.template} \cup Range(rule.args)
    [] OTHER                 -> {rule.result, rule.params, rule.return}

get_puzzles(rule) ==
  CASE rule.op \in LeafOps         -> {{}}
    [] rule.op = "Equals"          -> {{rule.left}, {rule.right}}
    [] rule.op \in RefOps          -> {{rule.inner}, {rule.result}}
    [] rule.op = "KindList"        -> {{rule.result}, Range(rule.members)}
    [] rule.op = "Call"            -> { {rule.template} \cup Range(rule.args),
                                        {rule.result, rule.template} }
    [] rule.op = "CallSiteFunc"    -> {{rule.result}}
    [] rule.op = "DefinitionFunc"  -> {{rule.params, rule.return}}
    [] OTHER                       -> {{rule.params, rule.return}, {rule.params}}

PuzzlesOf(rs) == [k \in DOMAIN rs |-> get_puzzles(rs[k])]

-----------------------------------------------------------------------------
(* Types: ITemplataType, and ITemplataT::tyype.                            *)

Plain(t) == [type |-> t, params |-> <<>>]
KindType      == Plain("kind")
IntegerType   == Plain("integer")
PackType      == Plain("pack")
PrototypeType == Plain("prototype")
TemplateOf(params) == [type |-> "template", params |-> params]

\* A placeholder has the type of the generic parameter it stands for.  The code
\* panics when asked for the type of a kind list or a prototype: only a known and
\* a template's argument are asked for theirs, and neither is one of these.
TypeAmong(types, t) ==
  CASE t.tag = "template"    -> TemplateOf(TemplateParams[t.name])
    [] t.tag = "placeholder" -> types[t.rune]
    [] t.tag = "integer"     -> IntegerType
    [] t.tag = "list"        -> PackType
    [] t.tag = "prototype"   -> PrototypeType
    [] OTHER                 -> KindType

TypeOf(t) == TypeAmong(prog.types, t)
IsKind(t) == TypeOf(t) = KindType

-----------------------------------------------------------------------------
(* solve_rule: the error, the panic or the conclusions of a rule whose     *)
(* puzzle is met.                                                          *)

Known(r) == r \in DOMAIN conclusions
KnownKind(r) == Known(r) /\ IsKind(conclusions[r])

ValuesOf(runes) == [j \in DOMAIN runes |-> conclusions[runes[j]]]

\* solve_call_rule with a known result: only a citizen of that very template.
IsFromTemplate(result, template) ==
  /\ result.tag = "citizen" /\ template.tag = "template"
  /\ result.name = template.name

CallMismatch(rule) ==
  LET result == conclusions[rule.result] IN
  ~ /\ IsFromTemplate(result, conclusions[rule.template])
    /\ result.name \in ArrayTemplates => Len(rule.args) = Len(result.args)

RuleError(rule) ==
  \/ rule.op = "Lookup" /\ rule.value = NotFound
  \/ /\ rule.op \in RefOps
     /\ KnownKind(rule.result)
     /\ conclusions[rule.result].tag # rule.op
  \/ /\ rule.op = "Call"
     /\ KnownKind(rule.result)
     /\ CallMismatch(rule)
  \/ rule.op = "CallSiteFunc" /\ conclusions[rule.result].tag # "prototype"
  \/ /\ rule.op = "Resolve"
     /\ ~Known(rule.return)
     /\ conclusions[rule.params].tag = "list"
     /\ conclusions[rule.params].kinds \notin DOMAIN Overloads

\* A reference is to a kind and is one itself.
RefPanics(rule) == ~KnownKind(rule.result) /\ ~KnownKind(rule.inner)

\* A known result is a list as long as the members, or these are kinds.
KindListPanics(rule) ==
  IF Known(rule.result)
  THEN \/ conclusions[rule.result].tag # "list"
       \/ DOMAIN conclusions[rule.result].kinds # DOMAIN rule.members
  ELSE \E j \in DOMAIN rule.members : ~IsKind(conclusions[rule.members[j]])

\* A template wants an argument of its type for each parameter: the array arms
\* look at theirs, and predict_struct and predict_interface make a solver state
\* of them, which must then give each parameter (no template here has a default
\* for one of its own).
MayBeApplied(t, args) ==
  IF t.tag = "template"
  THEN \A j \in DOMAIN TemplateParams[t.name] :
         j \in DOMAIN args /\ TypeOf(args[j]) = TemplateParams[t.name][j]
  ELSE IsKind(t)

CallPanics(rule) ==
  IF Known(rule.result)
  THEN ~IsKind(conclusions[rule.result])
  ELSE ~MayBeApplied(conclusions[rule.template], ValuesOf(rule.args))

\* DefinitionFunc and Resolve: the parameters are a list, and a known return a kind.
FuncPanics(rule) ==
  \/ conclusions[rule.params].tag # "list"
  \/ Known(rule.return) /\ ~IsKind(conclusions[rule.return])

\* The panics, asserts and unreachable! of the arms; RuneParentEnvLookup should
\* never have reached the solver.
RulePanics(rule) ==
  \/ rule.op = "RuneParentEnvLookup"
  \/ rule.op \in RefOps /\ RefPanics(rule)
  \/ rule.op = "KindList" /\ KindListPanics(rule)
  \/ rule.op = "Call" /\ CallPanics(rule)
  \/ rule.op \in {"DefinitionFunc", "Resolve"} /\ FuncPanics(rule)

\* Mutant of ZipPairs: one of the sequences is walked backwards.
ZipPairsReversed(runes, ts) ==
  [j \in DOMAIN runes \cap DOMAIN ts |-> <<runes[j], ts[Len(ts) + 1 - j]>>]

\* Rune-by-rune pairs of two sequences, as long as the shorter: Iterator::zip.
ZipPairs(runes, ts) ==
  [j \in DOMAIN runes \cap DOMAIN ts |-> <<runes[j], ts[j]>>]

\* The Equals arm: the known side decides the other.
EqualsConcluded(rule) ==
  IF Known(rule.left) THEN << <<rule.right, conclusions[rule.left]>> >>
                      ELSE << <<rule.left, conclusions[rule.right]>> >>

\* Mutant of RefConcluded: the known reference is not unwrapped.
RefConcludedWhole(rule) ==
  IF KnownKind(rule.result)
  THEN << <<rule.inner, conclusions[rule.result]>> >>
  ELSE << <<rule.result, RefTo(rule.op, conclusions[rule.inner])>> >>

\* The BorrowRef, WeakRef and OwnRef arms: unwrap a known reference, or wrap (a
\* known result of another type is then a conflict).
RefConcluded(rule) ==
  IF KnownKind(rule.result)
  THEN << <<rule.inner, conclusions[rule.result].inner>> >>
  ELSE << <<rule.result, RefTo(rule.op, conclusions[rule.inner])>> >>

KindListConcluded(rule) ==
  IF Known(rule.result)
  THEN ZipPairs(rule.members, conclusions[rule.result].kinds)
  ELSE << <<rule.result, KindListOf(ValuesOf(rule.members))>> >>

\* solve_call_rule: take a known citizen apart, or apply the template.
CallConcluded(rule) ==
  IF Known(rule.result)
  THEN ZipPairs(rule.args, conclusions[rule.result].args)
  ELSE << <<rule.result, Applied(conclusions[rule.template], ValuesOf(rule.args))>> >>

\* CallSiteFunc: the parts of the prototype that the caller passed.
CallSiteFuncConcluded(rule) ==
  << <<rule.params, KindListOf(conclusions[rule.result].params)>>,
     <<rule.return, conclusions[rule.result].return>> >>

\* DefinitionFunc, and Resolve when it predicts: assemble a prototype.
Predicted(rule) ==
  << <<rule.result, Prototype(conclusions[rule.params].kinds, conclusions[rule.return])>> >>

\* Resolve: predict when the return kind is known; else find_function decides it.
Resolved(rule) ==
  LET params == conclusions[rule.params].kinds IN
  IF Known(rule.return)
  THEN Predicted(rule)
  ELSE << <<rule.result, Prototype(params, Overloads[params])>>,
          <<rule.return, Overloads[params]>> >>

Concluded(rule) ==
  CASE rule.op \in LeafOps        -> << <<rule.result, rule.value>> >>
    [] rule.op = "Equals"         -> EqualsConcluded(rule)
    [] rule.op \in RefOps         -> RefConcluded(rule)
    [] rule.op = "KindList"       -> KindListConcluded(rule)
    [] rule.op = "Call"           -> CallConcluded(rule)
    [] rule.op = "CallSiteFunc"   -> CallSiteFuncConcluded(rule)
    [] rule.op = "DefinitionFunc" -> Predicted(rule)
    [] OTHER                      -> Resolved(rule)

-----------------------------------------------------------------------------
(* A solve's input.  runes is rune_to_type's key set, types the types its  *)
(* caller gives, those of the generic parameters among them.  fill says    *)
(* what the on_incomplete_solve callback does: nothing (a plain continue), *)
(* commit the default rules of a generic parameter, or commit a            *)
(* placeholder for it.  checked is the loop_check of                       *)
(* evaluate_generic_function_from_call.                                    *)

NoDefault == [rules |-> <<>>, result |-> "none"]
HasDefault(g) == g.default # NoDefault

\* What make_solver_state_solver asserts of the rules and the knowns, and what
\* the postparser keeps in a default: rules over its result rune and runes of
\* the denizen.
SolveInput(p) ==
  /\ p.rules \in Seq(Rule)
  /\ p.runes \subseteq Rune
  /\ IsFiniteSet(p.runes)
  /\ \A i \in DOMAIN p.rules : RunesOf(p.rules[i]) \subseteq p.runes
  /\ p.knowns = [r \in DOMAIN p.knowns |-> p.knowns[r]]
  /\ DOMAIN p.knowns \subseteq p.runes
  /\ \A i \in DOMAIN p.generics :
       /\ p.generics[i].rune \in p.runes
       /\ HasDefault(p.generics[i]) =>
            LET default == p.generics[i].default IN
            /\ default.rules \in Seq(Rule)
            /\ default.result \in Rune
            /\ \A k \in DOMAIN default.rules :
                 RunesOf(default.rules[k]) \subseteq p.runes \cup {default.result}
  /\ p.generics \in Seq(Range(p.generics))
  /\ p.fill \in {"none", "default", "placeholder"}
  /\ p.checked \in BOOLEAN
  /\ p.checked => p.fill = "default"

\* The runes of a rule are runes, and those of a function rule have different
\* types: a kind list, a kind and a prototype.
ASSUME RulesAssumption ==
  \A rule \in Rule :
    /\ rule.op \in LeafOps \cup RefOps \cup
                     {"Equals", "KindList", "Call", "CallSiteFunc", "DefinitionFunc", "Resolve"}
    /\ RunesOf(rule) \subseteq Rune
    /\ rule.op = "KindList" => rule.members \in Seq(Rune)
    /\ rule.op = "Call" => rule.args \in Seq(Rune)
    /\ rule.op \in {"CallSiteFunc", "DefinitionFunc", "Resolve"} =>
         rule.return \notin {rule.params, rule.result}

ASSUME ProgramsAssumption == \A p \in Programs : SolveInput(p)

vars == <<stateVars, prog, phase, loop_check, failure>>

Phases == {"continuing", "stalled", "finished", "solved", "failed", "panicked"}
Failures == {"none", "SolverConflict", "RuleError", "SolveIncomplete"}
Over == phase \in {"solved", "failed", "panicked"}

Init ==
  \E p \in Programs :
    /\ prog = p
    /\ make_solver_state(p.rules, PuzzlesOf(p.rules), p.knowns, p.runes)
    /\ phase = "continuing"
    /\ loop_check = Len(p.generics) + 1
    /\ failure = "none"

-----------------------------------------------------------------------------
(* continue_solver: advance_infer until nothing is solvable. *)

Fail(error) == phase' = "failed" /\ failure' = error

\* advance_infer on a rule that commits; a conflict is the solve's failure.
SolveRule ==
  /\ phase = "continuing"
  /\ Solvable # {}
  /\ LET i == get_next_solvable
         pairs == Concluded(rules[i])
     IN /\ ~RuleError(rules[i])
        /\ ~RulePanics(rules[i])
        /\ commit_step({i}, pairs, <<>>, <<>>, {})
        /\ IF Conflicts(pairs) = {} THEN UNCHANGED <<phase, failure>>
                                    ELSE Fail("SolverConflict")
  /\ UNCHANGED <<prog, loop_check>>

\* advance_infer on a rule that is refused before it commits anything.
RejectRule ==
  /\ phase = "continuing"
  /\ Solvable # {}
  /\ RuleError(rules[get_next_solvable])
  /\ Fail("RuleError")
  /\ UNCHANGED <<stateVars, prog, loop_check>>

\* Mutant of StopContinuing: the callback is asked while rules can still fire.
StopContinuingEarly ==
  /\ phase = "continuing"
  /\ phase' = IF prog.fill = "none" \/ is_complete THEN "finished" ELSE "stalled"
  /\ UNCHANGED <<stateVars, prog, loop_check, failure>>

\* The loop ends; incrementally_solve then asks is_complete.
StopContinuing ==
  /\ phase = "continuing"
  /\ Solvable = {}
  /\ phase' = IF prog.fill = "none" \/ is_complete THEN "finished" ELSE "stalled"
  /\ UNCHANGED <<stateVars, prog, loop_check, failure>>

-----------------------------------------------------------------------------
(* The on_incomplete_solve callbacks *)

UnsolvedGenerics == { g \in DOMAIN prog.generics : ~Known(prog.generics[g].rune) }

get_first_unsolved_identifying_rune ==
  CHOOSE g \in UnsolvedGenerics : \A h \in UnsolvedGenerics : g <= h

FirstUnsolved == prog.generics[get_first_unsolved_identifying_rune]

LoopCheckSpent == prog.checked /\ loop_check = 0

SpendLoopCheck ==
  loop_check' = IF prog.checked THEN loop_check - 1 ELSE loop_check

\* solve_for_resolving and evaluate_generic_function_from_call: the first
\* unsolved parameter's default rules join the solve.
AddDefault ==
  /\ phase = "stalled" /\ prog.fill = "default" /\ ~LoopCheckSpent
  /\ UnsolvedGenerics # {}
  /\ HasDefault(FirstUnsolved)
  /\ LET default == FirstUnsolved.default
         puzzles == PuzzlesOf(default.rules)
     IN /\ PuzzlesDeclared(puzzles, {default.result})
        /\ commit_step({}, <<>>, default.rules, puzzles, {default.result})
  /\ phase' = "continuing"
  /\ SpendLoopCheck
  /\ UNCHANGED <<prog, failure>>

\* The definition-side callback: a placeholder for the first unsolved parameter.
AddPlaceholder ==
  /\ phase = "stalled" /\ prog.fill = "placeholder"
  /\ UnsolvedGenerics # {}
  /\ LET r == FirstUnsolved.rune
     IN commit_step({}, << <<r, Placeholder(r)>> >>, <<>>, <<>>, {})
  /\ phase' = "continuing"
  /\ UNCHANGED <<prog, loop_check, failure>>

\* Mutant of GiveUp: the callback claims progress without committing anything.
GiveUpAndContinue ==
  /\ phase = "stalled" /\ ~LoopCheckSpent
  /\ \/ UnsolvedGenerics = {}
     \/ UnsolvedGenerics # {} /\ prog.fill = "default" /\ ~HasDefault(FirstUnsolved)
  /\ phase' = "continuing"
  /\ SpendLoopCheck
  /\ UNCHANGED <<stateVars, prog, failure>>

\* The callback has nothing to offer: incrementally_solve returns Ok(false).
GiveUp ==
  /\ phase = "stalled" /\ ~LoopCheckSpent
  /\ \/ UnsolvedGenerics = {}
     \/ UnsolvedGenerics # {} /\ prog.fill = "default" /\ ~HasDefault(FirstUnsolved)
  /\ phase' = "finished"
  /\ SpendLoopCheck
  /\ UNCHANGED <<stateVars, prog, failure>>

-----------------------------------------------------------------------------
(* The panics: those of a rule, the assert on an added rule's runes, and   *)
(* "Infinite loop detected in incremental call solve!".                    *)

Panics ==
  \/ /\ phase = "continuing"
     /\ Solvable # {}
     /\ RulePanics(rules[get_next_solvable])
  \/ phase = "stalled" /\ LoopCheckSpent
  \/ /\ phase = "stalled" /\ prog.fill = "default"
     /\ UnsolvedGenerics # {}
     /\ HasDefault(FirstUnsolved)
     /\ ~PuzzlesDeclared(PuzzlesOf(FirstUnsolved.default.rules),
                         {FirstUnsolved.default.result})

Panic ==
  /\ Panics
  /\ phase' = "panicked"
  /\ UNCHANGED <<stateVars, prog, loop_check, failure>>

-----------------------------------------------------------------------------
(* interpret_results, and the same test in                                 *)
(* check_resolving_conclusions_and_resolve.                                *)

\* Mutant of interpret_results: only the generic parameters are looked at.
interpret_results_of_generics ==
  /\ phase = "finished"
  /\ IF { prog.generics[g].rune : g \in DOMAIN prog.generics } \subseteq DOMAIN conclusions
     THEN phase' = "solved" /\ UNCHANGED failure
     ELSE Fail("SolveIncomplete")
  /\ UNCHANGED <<stateVars, prog, loop_check>>

interpret_results ==
  /\ phase = "finished"
  /\ IF prog.runes \cup all_runes \subseteq DOMAIN conclusions
     THEN phase' = "solved" /\ UNCHANGED failure
     ELSE Fail("SolveIncomplete")
  /\ UNCHANGED <<stateVars, prog, loop_check>>

Next ==
  \/ SolveRule
  \/ RejectRule
  \/ StopContinuing
  \/ AddDefault
  \/ AddPlaceholder
  \/ GiveUp
  \/ Panic
  \/ interpret_results

Spec == Init /\ [][Next]_vars

\* The solve is one thread running one loop: it does not stop half way.
FairSpec == Spec /\ WF_vars(Next)

-----------------------------------------------------------------------------
(* What a rule means, independently of how the solver fires it.            *)

\* A template call is taken apart or put together argument by argument; it may
\* write fewer arguments than the result has, and says nothing of the others.
Zipped(runes, ts, A) == \A j \in DOMAIN runes \cap DOMAIN ts : A[runes[j]] = ts[j]

CallHolds(rule, A) ==
  IF A[rule.template].tag = "template"
  THEN /\ IsFromTemplate(A[rule.result], A[rule.template])
       /\ Zipped(rule.args, A[rule.result].args, A)
  ELSE A[rule.result] = A[rule.template]

FuncHolds(rule, A) ==
  /\ A[rule.params].kinds = A[rule.result].params
  /\ A[rule.return] = A[rule.result].return

Holds(rule, A) ==
  CASE rule.op \in {"Lookup", "Literal"} -> A[rule.result] = rule.value
    [] rule.op = "RuneParentEnvLookup" -> TRUE
    [] rule.op = "Equals"   -> A[rule.left] = A[rule.right]
    [] rule.op \in RefOps   -> /\ A[rule.result].tag = rule.op
                               /\ A[rule.result].inner = A[rule.inner]
    [] rule.op = "KindList" -> /\ DOMAIN A[rule.result].kinds = DOMAIN rule.members
                               /\ Zipped(rule.members, A[rule.result].kinds, A)
    [] rule.op = "Call"     -> CallHolds(rule, A)
    [] OTHER                -> FuncHolds(rule, A)

\* The full meaning, for an assignment to all runes: what has parts is made of
\* them, a Call writes every argument and an array's none more, and a call-site
\* bound is one find_function knows.
FullyHolds(rule, A) ==
  /\ Holds(rule, A)
  /\ rule.op = "Lookup" => rule.value # NotFound
  /\ rule.op \in RefOps => A[rule.result] = RefTo(rule.op, A[rule.inner])
  /\ rule.op = "KindList" =>
       A[rule.result] = KindListOf([j \in DOMAIN rule.members |-> A[rule.members[j]]])
  /\ rule.op = "Call" =>
       /\ A[rule.result] = Applied(A[rule.template], [j \in DOMAIN rule.args |-> A[rule.args[j]]])
       /\ A[rule.template].tag = "template" /\ A[rule.template].name \in ArrayTemplates =>
            Len(rule.args) = Len(A[rule.result].args)
  /\ rule.op \in {"CallSiteFunc", "DefinitionFunc", "Resolve"} =>
       /\ A[rule.params] = KindListOf(A[rule.params].kinds)
       /\ A[rule.result] = Prototype(A[rule.params].kinds, A[rule.return])
  /\ rule.op = "Resolve" => /\ A[rule.params].kinds \in DOMAIN Overloads
                            /\ A[rule.return] = Overloads[A[rule.params].kinds]

\* A rune used twice among the members or arguments of one rule collects to
\* one IndexMap entry, the last: only rules without that are compared.
Injective(s) == \A i, j \in DOMAIN s : s[i] = s[j] => i = j
RunesDistinct(rule) ==
  /\ rule.op = "KindList" => Injective(rule.members)
  /\ rule.op = "Call" => Injective(rule.args)

-----------------------------------------------------------------------------
(* Properties *)

TypeOK ==
  /\ SolveInput(prog)
  /\ rules \in Seq(Rule)
  /\ all_runes \subseteq Rune
  /\ DOMAIN conclusions \subseteq Rune
  /\ DOMAIN open_rules \subseteq DOMAIN rules
  /\ \A i \in DOMAIN open_rules : open_rules[i] = get_puzzles(rules[i])
  /\ phase \in Phases
  /\ failure \in Failures
  /\ loop_check \in Nat

\* A rule leaves the open set only when the conclusions satisfy it, and later
\* conclusions never unsatisfy it: whichever of its puzzles fired it, whatever
\* was already known of its other runes, and whether or not the solve failed
\* since (advance_infer's "only true after simple solve").
ClosedRulesHold ==
  \A i \in DOMAIN rules :
    rule_is_solved(i) /\ RunesDistinct(rules[i]) => Holds(rules[i], conclusions)

\* A rune never changes its conclusion, and open rules and runes never
\* disappear except by being solved (commit_step).
ConclusionsAreFinal ==
  [][ /\ DOMAIN conclusions \subseteq DOMAIN conclusions'
      /\ \A r \in DOMAIN conclusions : conclusions'[r] = conclusions[r]
      /\ all_runes \subseteq all_runes' ]_vars

Satisfies(A) ==
  /\ \A r \in DOMAIN prog.knowns : A[r] = prog.knowns[r]
  /\ \A i \in DOMAIN rules : FullyHolds(rules[i], A)

\* Nothing is guessed: without placeholders, every conclusion is forced by the
\* rules and the initial knowns -- each assignment that satisfies them agrees
\* with the solver on all it has concluded (solve_rule).
ConclusionsForced ==
  prog.fill # "placeholder" =>
    \A A \in Assignments :
      Satisfies(A) => \A r \in DOMAIN conclusions : A[r] = conclusions[r]

\* A type error is a real one: when the solver reports a conflict or a rule
\* error, no assignment satisfies the rules.
FailuresJustified ==
  phase = "failed" /\ failure \in {"SolverConflict", "RuleError"} /\ prog.fill # "placeholder" =>
    ~ \E A \in Assignments : Satisfies(A)

\* A solve that is reported as solved has an answer for every rune, leaves no
\* rule unfired and satisfies all of them (interpret_results looks only at the
\* conclusions).
SolvedIsSolution ==
  phase = "solved" =>
    /\ \A i \in DOMAIN rules : RunesOf(rules[i]) \subseteq DOMAIN conclusions
    /\ DOMAIN open_rules = {}
    /\ \A i \in DOMAIN rules : RunesDistinct(rules[i]) => Holds(rules[i], conclusions)

\* is_complete compares two counts; it is right only while no conclusion is
\* about a rune outside all_runes.
CompleteMeansAll == is_complete <=> all_runes \subseteq DOMAIN conclusions

\* What the rules give from a set of known runes, in any order: the least set
\* that contains all the runes of a rule as soon as it contains a puzzle of it.
ClosedUnder(rs, S) ==
  \A i \in DOMAIN rs :
    (\E puzzle \in get_puzzles(rs[i]) : puzzle \subseteq S) => RunesOf(rs[i]) \subseteq S

Derivable(rs, known) ==
  { r \in all_runes : \A S \in SUBSET all_runes :
      known \subseteq S /\ ClosedUnder(rs, S) => r \in S }

\* The runes given from outside: the initial knowns and the placeholders.
Given == UNION { DOMAIN steps[k].conclusions : k \in { k \in DOMAIN steps : steps[k].solved = {} } }

\* Firing in index order loses nothing: when the loop stops, the runes
\* concluded are exactly those derivable in any order.
StopsAtClosure ==
  phase \in {"stalled", "finished", "solved"} =>
    DOMAIN conclusions = Derivable(rules, Given)

\* A default or placeholder is a last resort: it is committed only for a
\* parameter the rules so far cannot determine, and it never meets a conflict.
FillsOnlyUnderivable ==
  [][ AddDefault \/ AddPlaceholder =>
        FirstUnsolved.rune \notin Derivable(rules, Given) ]_vars

EarlierParameters(g) == { prog.generics[h].rune : h \in 1..(g - 1) }

\* The rules of a parameter's default give it, once the earlier ones are known.
DefaultSuffices(g) ==
  LET default == prog.generics[g].default IN
  \A S \in SUBSET (prog.runes \cup {default.result}) :
    EarlierParameters(g) \subseteq S /\ ClosedUnder(default.rules, S) => prog.generics[g].rune \in S

\* The parameter whose turn it is has a default that cannot give it, such as one
\* that mentions a later parameter.
StuckAtDefault ==
  /\ UnsolvedGenerics # {}
  /\ HasDefault(FirstUnsolved)
  /\ ~DefaultSuffices(get_first_unsolved_identifying_rune)

\* Every solve ends.
Terminates == <>Over
=============================================================================
