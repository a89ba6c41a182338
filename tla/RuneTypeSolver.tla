--------------------------- MODULE RuneTypeSolver ---------------------------
(***************************************************************************)
(* Rune typing and the solve that trusts it.  Before the typing pass solves*)
(* a denizen's rules it derives the type of every rune they mention -- a   *)
(* kind, an integer, a kind list, a prototype or a template of such -- with*)
(* a second instance of the same solver state                              *)
(* (typing/rune_typing/rune_type_solver.rs, derive.rs); then it solves a   *)
(* part of those rules, with a few more, among the runes so typed.  The two*)
(* have separate tables of what a rule says: this module is about whether  *)
(* they agree.                                                             *)
(*                                                                         *)
(* A program has, besides what CompilerSolver reads, the header (the rules *)
(* that are typed), types (the types its caller gives) and senders (runes  *)
(* the caller adds, as kinds, once the header is typed).                   *)
(***************************************************************************)
EXTENDS CompilerSolver, SequencesExt

CONSTANT
  Givens   \* what a solve is given: its knowns, what names and literals stand for,
           \* what functions return; and the parts of these

VARIABLES
  rune_to_type,       \* the typing's conclusions
  open_type_rules,    \* the header's rules that have not fired, with their puzzles
  type_steps,         \* the typing's audit trail
  typing              \* where the typing is

typingVars == <<rune_to_type, open_type_rules, type_steps, typing>>
typedVars == <<vars, typingVars>>

-----------------------------------------------------------------------------
(* What the callers of the two solvers ask of them.  A generic parameter   *)
(* has a declared type.                                                    *)

GenericRunes(generics) == { generics[g].rune : g \in DOMAIN generics }

GenericTypes(generics) ==
  [r \in GenericRunes(generics) |->
     generics[CHOOSE g \in DOMAIN generics : generics[g].rune = r].type]

include_rule_in_call_site_solve(rule) == rule.op # "DefinitionFunc"
include_rule_in_definition_solve(rule) == rule.op \notin {"CallSiteFunc", "Resolve"}

HeaderRunes(header) == UNION { RunesOf(header[i]) : i \in DOMAIN header }

\* A call: the explicit arguments are known, and each argument's kind is sent
\* to the rune of its parameter.
CallSiteSolve(header, generics, explicit, sends) ==
  LET senders == { sends[i].sender : i \in DOMAIN sends }
      given   == { generics[g].rune : g \in DOMAIN generics \cap DOMAIN explicit }
  IN
  [ header   |-> header,
    types    |-> GenericTypes(generics),
    senders  |-> senders,
    rules    |-> SelectSeq(header, include_rule_in_call_site_solve)
                   \o [i \in DOMAIN sends |->
                         [op |-> "Equals", left |-> sends[i].sender, right |-> sends[i].receiver]],
    knowns   |-> [ r \in given \cup senders |->
                     IF r \in senders
                     THEN sends[CHOOSE i \in DOMAIN sends : sends[i].sender = r].kind
                     ELSE explicit[CHOOSE g \in DOMAIN generics : generics[g].rune = r] ],
    runes    |-> HeaderRunes(header) \cup GenericRunes(generics) \cup senders,
    generics |-> generics,
    fill     |-> "default",
    checked  |-> TRUE ]

\* A definition: nothing is known, and placeholders stand for the parameters.
DefinitionSolve(header, generics) ==
  [ header   |-> header,
    types    |-> GenericTypes(generics),
    senders  |-> {},
    rules    |-> SelectSeq(header, include_rule_in_definition_solve),
    knowns   |-> [r \in {} |-> KindType],
    runes    |-> HeaderRunes(header) \cup GenericRunes(generics),
    generics |-> generics,
    fill     |-> "placeholder",
    checked  |-> FALSE ]

IsInherited(rule) == rule.op = "RuneParentEnvLookup"
IsOwn(rule) == ~IsInherited(rule)

\* The template arguments written at a call, or the type of a pattern: runes of
\* the function around it are looked up there and known to the solve.
InheritingSolve(header, types, fill) ==
  LET inherited == { i \in DOMAIN header : IsInherited(header[i]) } IN
  [ header   |-> header,
    types    |-> types,
    senders  |-> {},
    rules    |-> SelectSeq(header, IsOwn),
    knowns   |-> [ r \in { header[i].result : i \in inherited } |->
                     header[CHOOSE i \in inherited : header[i].result = r].value ],
    runes    |-> HeaderRunes(header) \cup DOMAIN types,
    generics |-> <<>>,
    fill     |-> fill,
    checked  |-> FALSE ]

\* What the callers give: a template's parameters are kinds and integers, and so
\* are a generic's; a header names templates that exist; the solve is about the
\* runes that have a type; a sender's rune is its own; and the rules solved are
\* the header's own, besides what a call sends.
IsType(t) ==
  \/ t \in {KindType, IntegerType, PackType, PrototypeType}
  \/ t.params \in Seq({KindType, IntegerType}) /\ t = TemplateOf(t.params)

HeaderInput(p) ==
  /\ p.header \in Seq(Rule)
  /\ \A i \in DOMAIN p.header : p.header[i].op \in {"Lookup", "Literal"} =>
       /\ p.header[i].value.tag # "placeholder"
       /\ p.header[i].value.tag = "template" => p.header[i].value.name \in DOMAIN TemplateParams
  /\ \A r \in DOMAIN p.types : IsType(p.types[r])
  /\ \A g \in DOMAIN p.generics :
       /\ p.generics[g].rune \in DOMAIN p.types
       /\ p.types[p.generics[g].rune] \in {KindType, IntegerType}
  /\ p.runes = HeaderRunes(p.header) \cup DOMAIN p.types \cup p.senders
  /\ p.senders \cap (HeaderRunes(p.header) \cup DOMAIN p.types) = {}
  /\ \A i \in DOMAIN p.rules :
       IsOwn(p.rules[i]) /\ (p.rules[i] \in Range(p.header) \/ p.rules[i].op = "Equals")
  /\ \A g \in DOMAIN p.generics : \A k \in DOMAIN p.generics[g].default.rules :
       IsOwn(p.generics[g].default.rules[k])

ASSUME TemplatesAssumption ==
  \A n \in DOMAIN TemplateParams : TemplateParams[n] \in Seq({KindType, IntegerType})
ASSUME HeadersAssumption == \A p \in Programs : HeaderInput(p)

KindsIn(W, types) == { k \in W : TypeAmong(types, k) = KindType }

\* The parts of t are in W, and of the types that their places demand; a
\* placeholder stands for a kind or an integer.
MadeOf(t, W, types) ==
  /\ t.tag \in RefOps => t.inner \in KindsIn(W, types)
  /\ t.tag = "list" => Range(t.kinds) \subseteq KindsIn(W, types)
  /\ t.tag = "prototype" => Range(t.params) \cup {t.return} \subseteq KindsIn(W, types)
  /\ t.tag \in {"template", "citizen"} => t.name \in DOMAIN TemplateParams
  /\ t.tag = "citizen" =>
       \A j \in DOMAIN t.args :
         /\ j \in DOMAIN TemplateParams[t.name]
         /\ t.args[j] \in W /\ TypeAmong(types, t.args[j]) = TemplateParams[t.name][j]
  /\ t.tag = "placeholder" => types[t.rune] \in {KindType, IntegerType}

WellMade(W, types) == \A t \in W : MadeOf(t, W, types)

\* Every templata from outside is well made, and none is a list or a prototype;
\* a function returns a kind.
ASSUME GivensAssumption ==
  /\ \A t \in Givens : t.tag \notin {"list", "prototype"}
  /\ \A p \in Programs :
       /\ WellMade(Givens, p.types)
       /\ Range(p.knowns) \subseteq Givens
       /\ \A ks \in DOMAIN Overloads :
            Overloads[ks] \in Givens /\ TypeAmong(p.types, Overloads[ks]) = KindType
  /\ \A rule \in Rule : rule.op \in LeafOps => rule.value \in Givens

-----------------------------------------------------------------------------
(* The typing's rules: get_rune_typing_puzzles and solve_rule.             *)

get_rune_typing_puzzles(rule) ==
  CASE rule.op = "Equals"              -> {{rule.left}, {rule.right}}
    [] rule.op \in RefOps              -> {{rule.result}, {rule.inner}}
    [] rule.op = "Call"                -> {{rule.template}}
    [] rule.op = "RuneParentEnvLookup" -> {{rule.result}}
    [] OTHER                           -> {{}}

TypingPuzzlesOf(rs) == [k \in DOMAIN rs |-> get_rune_typing_puzzles(rs[k])]

TypedRunes == HeaderRunes(prog.header) \cup DOMAIN prog.types

Typer ==
  INSTANCE SimpleSolverState
    WITH rules <- prog.header, all_runes <- TypedRunes, open_rules <- open_type_rules,
         conclusions <- rune_to_type, steps <- type_steps

Typed(r) == r \in DOMAIN rune_to_type

\* Mutant of EqualsTypes: two types that are known are not compared.
EqualsTypesOnce(rule) ==
  IF ~Typed(rule.left)  THEN << <<rule.left, rune_to_type[rule.right]>> >> ELSE
  IF ~Typed(rule.right) THEN << <<rule.right, rune_to_type[rule.left]>> >> ELSE <<>>

EqualsTypes(rule) ==
  IF Typed(rule.left) THEN << <<rule.right, rune_to_type[rule.left]>> >>
                      ELSE << <<rule.left, rune_to_type[rule.right]>> >>

\* Mutant of CallTypes: the arguments are not held to the template's parameters.
CallTypesOfResult(rule) == << <<rule.result, KindType>> >>

\* The arguments have the types of the template's parameters and the result is
\* a kind; so it is when a finished kind is applied to nothing.
CallTypes(rule) ==
  ZipPairs(rule.args, rune_to_type[rule.template].params) \o << <<rule.result, KindType>> >>

TypesConcluded(rule) ==
  CASE rule.op \in {"Lookup", "Literal"}   -> << <<rule.result, TypeOf(rule.value)>> >>
    [] rule.op = "RuneParentEnvLookup"     -> <<>>
    [] rule.op = "Equals"                  -> EqualsTypes(rule)
    [] rule.op \in RefOps                  -> << <<rule.result, KindType>>, <<rule.inner, KindType>> >>
    [] rule.op = "KindList"                -> [j \in DOMAIN rule.members |-> <<rule.members[j], KindType>>]
                                                \o << <<rule.result, PackType>> >>
    [] rule.op = "Call"                    -> CallTypes(rule)
    [] OTHER                               -> << <<rule.result, PrototypeType>>,
                                                 <<rule.params, PackType>>, <<rule.return, KindType>> >>

\* What a Call may apply, and when lookup_rune_type lets a rune be inherited.
MayApply(t, args) == t.type = "template" \/ (t = KindType /\ args = <<>>)
MayInherit(actual, expected) ==
  actual = expected \/ (actual = TemplateOf(<<>>) /\ expected = KindType)

\* "Bad template call", "unexpected template type" and the error paths of
\* lookup_rune_type are panics.
TypingPanics(rule) ==
  \/ rule.op = "Call" /\ ~MayApply(rune_to_type[rule.template], rule.args)
  \/ rule.op = "RuneParentEnvLookup" /\ ~MayInherit(TypeOf(rule.value), rune_to_type[rule.result])

-----------------------------------------------------------------------------
(* solve_rune_types                                                        *)

HasUnknownName == \E i \in DOMAIN prog.header :
  prog.header[i].op = "Lookup" /\ prog.header[i].value = NotFound

\* A looked-up name with generic parameters has its type before any rule fires.
IsGenericLookup(rule) ==
  /\ rule.op = "Lookup"
  /\ rule.value # NotFound
  /\ TypeOf(rule.value) \notin {KindType, TemplateOf(<<>>)}

InitiallyKnownTypes ==
  LET lookups == { i \in DOMAIN prog.header : IsGenericLookup(prog.header[i]) } IN
  [ r \in { prog.header[i].result : i \in lookups } \cup DOMAIN prog.types |->
      IF r \in DOMAIN prog.types
      THEN prog.types[r]
      ELSE TypeOf(prog.header[CHOOSE i \in lookups :
             /\ prog.header[i].result = r
             /\ \A j \in lookups : prog.header[j].result = r => j <= i].value) ]

TypedInit ==
  /\ Init
  /\ typing = IF HasUnknownName THEN "failed" ELSE "running"
  /\ Typer!make_solver_state(prog.header, TypingPuzzlesOf(prog.header), InitiallyKnownTypes, TypedRunes)

NextToType == prog.header[Typer!get_next_solvable]

\* A rule commits the types it says, and may conflict with one on file.
SolveTypeRule ==
  /\ typing = "running"
  /\ UNCHANGED vars
  /\ Typer!Solvable # {}
  /\ ~TypingPanics(NextToType)
  /\ \E pairs \in {TypesConcluded(NextToType)} :
       /\ Typer!commit_step({Typer!get_next_solvable}, pairs, <<>>, <<>>, {})
       /\ typing' = IF Typer!Conflicts(pairs) = {} THEN "running" ELSE "failed"

PanicTyping ==
  /\ typing = "running"
  /\ Typer!Solvable # {}
  /\ TypingPanics(NextToType)
  /\ typing' = "panicked"
  /\ UNCHANGED <<vars, rune_to_type, open_type_rules, type_steps>>

\* The assert of make_solver_state_solver on the types of the knowns.
KnownsFit(types) == \A r \in DOMAIN prog.knowns : TypeOf(prog.knowns[r]) = types[r]

\* Every rune must be typed; the senders then join as kinds, and the solver is
\* made.
FinishTyping ==
  /\ typing = "running"
  /\ Typer!Solvable = {}
  /\ IF Typer!get_unsolved_runes # {}
     THEN typing' = "failed" /\ UNCHANGED rune_to_type
     ELSE /\ rune_to_type' = [ r \in DOMAIN rune_to_type \cup prog.senders |->
                                 IF r \in prog.senders THEN KindType ELSE rune_to_type[r] ]
          /\ typing' = IF KnownsFit(rune_to_type') THEN "typed" ELSE "panicked"
  /\ UNCHANGED <<vars, open_type_rules, type_steps>>

TypingNext == SolveTypeRule \/ PanicTyping \/ FinishTyping

\* The typed rules are solved.
SolvingNext == typing = "typed" /\ Next /\ UNCHANGED typingVars

TypedNext == TypingNext \/ SolvingNext

TypedSpec == TypedInit /\ [][TypedNext]_typedVars

\* One thread runs the two loops, one after the other.
TypedFairSpec == TypedSpec /\ WF_typedVars(TypedNext)

-----------------------------------------------------------------------------
(* The types the header demands of its runes, as a relation and in no      *)
(* order: the least one that has what each rule says of what it has.       *)

DemandedBy(rule, D) ==
  CASE rule.op \in {"Lookup", "Literal"} -> { <<rule.result, TypeOf(rule.value)>> }
    [] rule.op = "RuneParentEnvLookup" -> {}
    [] rule.op = "Equals" ->
         UNION { { <<rule.left, d[2]>>, <<rule.right, d[2]>> } :
                   d \in { d \in D : d[1] \in {rule.left, rule.right} } }
    [] rule.op \in RefOps -> { <<rule.result, KindType>>, <<rule.inner, KindType>> }
    [] rule.op = "KindList" ->
         { <<m, KindType>> : m \in Range(rule.members) } \cup { <<rule.result, PackType>> }
    [] rule.op = "Call" ->
         UNION { { <<rule.result, KindType>> }
                   \cup { <<rule.args[j], d[2].params[j]>> :
                            j \in DOMAIN rule.args \cap DOMAIN d[2].params } :
                   d \in { d \in D : d[1] = rule.template } }
    [] OTHER -> { <<rule.result, PrototypeType>>, <<rule.params, PackType>>, <<rule.return, KindType>> }

\* A header this size demands nothing new after a round per rune and rule.
Demands ==
  LET start == { <<r, prog.types[r]>> : r \in DOMAIN prog.types }
      round[n \in Nat] ==
        IF n = 0 THEN start
        ELSE LET D == round[n - 1]
             IN  D \cup UNION { DemandedBy(prog.header[i], D) : i \in DOMAIN prog.header }
  IN round[Cardinality(TypedRunes) + Len(prog.header)]

WellTyped(D) ==
  /\ ~HasUnknownName
  /\ \A r \in TypedRunes : \E d \in D : d[1] = r
  /\ \A d, e \in D : d[1] = e[1] => d = e
  /\ \A i \in DOMAIN prog.header : \A d \in D :
       LET rule == prog.header[i] IN
       /\ rule.op = "Call" /\ d[1] = rule.template => MayApply(d[2], rule.args)
       /\ rule.op = "RuneParentEnvLookup" /\ d[1] = rule.result =>
            MayInherit(TypeOf(rule.value), d[2])

-----------------------------------------------------------------------------
(* Properties *)

\* The typing's verdict does not depend on the order in which rules fire: a
\* header is accepted exactly when the types it demands of its runes are one
\* each, and it is these the runes get (solve_rune_types).
TypingIsReference ==
  typing # "running" =>
    \E D \in {IF HasUnknownName THEN {} ELSE Demands} :
      /\ typing = "typed" <=> WellTyped(D)
      /\ typing = "typed" => \A d \in D : rune_to_type[d[1]] = d[2]

\* A default's type: that of the rune it names or of the literal it is.
DefaultType(default) ==
  IF default.result \in DOMAIN prog.types
  THEN prog.types[default.result]
  ELSE TypeOf(default.rules[CHOOSE i \in DOMAIN default.rules : default.rules[i].op = "Literal"].value)

\* A default of another type than its parameter, once the solve has taken it:
\* the rules of a default are typed nowhere.
TookIllTypedDefault ==
  \E g \in DOMAIN prog.generics :
    /\ HasDefault(prog.generics[g])
    /\ DefaultType(prog.generics[g].default) # prog.generics[g].type
    /\ \E k \in DOMAIN prog.generics[g].default.rules :
         \E i \in DOMAIN rules : i > Len(prog.rules) /\ rules[i] = prog.generics[g].default.rules[k]

\* The two solvers agree: whatever the solve concludes of a rune, through
\* defaults, placeholders, sent arguments and functions found on the way, has
\* the type the rune was given beforehand (ill-typed defaults aside).
ConclusionsHaveTheirTypes ==
  typing = "typed" /\ ~TookIllTypedDefault =>
    \A r \in DOMAIN conclusions \cap DOMAIN rune_to_type : TypeOf(conclusions[r]) = rune_to_type[r]

\* A rune the next rule reads has another type than it was given.
ReadsIllTyped ==
  /\ Solvable # {}
  /\ \E r \in RunesOf(rules[get_next_solvable]) \cap DOMAIN conclusions \cap DOMAIN rune_to_type :
       TypeOf(conclusions[r]) # rune_to_type[r]

\* The next rule applies a template and writes fewer arguments than it has
\* parameters: neither solver counts them.
AppliesTooFew ==
  /\ Solvable # {}
  /\ LET rule == rules[get_next_solvable] IN
     /\ rule.op = "Call"
     /\ Known(rule.template)
     /\ conclusions[rule.template].tag = "template"
     /\ Len(rule.args) < Len(TemplateParams[conclusions[rule.template].name])

\* The solver's panics -- the arms' "expected a kind", the length of a kind list,
\* the assert on an added rule's runes, "Infinite loop detected" -- have three
\* causes: a default that cannot give its parameter, a default of the wrong type
\* that a rule then reads, and a template with too few arguments.
PanicsHaveCauses ==
  phase = "panicked" => StuckAtDefault \/ ReadsIllTyped \/ AppliesTooFew

\* Every typing ends, and the solve after it.
Ends == <>(Over \/ typing \in {"failed", "panicked"})
=============================================================================
