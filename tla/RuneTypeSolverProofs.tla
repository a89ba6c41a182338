------------------------ MODULE RuneTypeSolverProofs ------------------------
(***************************************************************************)
(* Theorems about RuneTypeSolver, for every header and every solve.  What  *)
(* CompilerSolverProofs says of a solve holds of it after its typing; a    *)
(* typing that succeeds satisfies the rules, one by one, and gives no type *)
(* that it could have chosen; and the solve concludes nothing but what has *)
(* the types so given.                                                     *)
(***************************************************************************)
EXTENDS RuneTypeSolver, CompilerSolverProofs

-----------------------------------------------------------------------------
(* The solve is the one CompilerSolver describes. *)

LEMMA TypedInitIsInit == TypedInit => Init
  BY DEF TypedInit

LEMMA TypedNextIsNext == [TypedNext]_typedVars => [Next]_vars
  BY DEF TypedNext, TypingNext, SolveTypeRule, PanicTyping, FinishTyping, SolvingNext, typedVars

\* A solve whose rules were typed first is a solve: all that is proved of one
\* holds of the whole (solve_rune_types, then incrementally_solve).
THEOREM TypedIsSolve == TypedSpec => Spec
  BY TypedInitIsInit, TypedNextIsNext, PTL DEF TypedSpec, Spec

\* So whatever the typing let through, closed rules hold and a success is a
\* solution.
THEOREM TypedSolvesAreSolutions == TypedSpec => [](ClosedRulesHold /\ SolvedIsSolution)
  BY TypedIsSolve, ClosedRulesAlwaysHold, SolvedMeansSolved, PTL

-----------------------------------------------------------------------------
(* What a rule says of types *)

HasType(T, r, t) == r \in DOMAIN T /\ T[r] = t

\* All the rule is about has a type, and these fit; types are those of the
\* generic parameters.
RuleTyped(rule, T, types) ==
  CASE rule.op \in {"Lookup", "Literal"} -> HasType(T, rule.result, TypeAmong(types, rule.value))
    [] rule.op = "RuneParentEnvLookup" ->
         rule.result \in DOMAIN T /\ MayInherit(TypeAmong(types, rule.value), T[rule.result])
    [] rule.op = "Equals" -> rule.left \in DOMAIN T /\ HasType(T, rule.right, T[rule.left])
    [] rule.op \in RefOps -> HasType(T, rule.result, KindType) /\ HasType(T, rule.inner, KindType)
    [] rule.op = "KindList" ->
         /\ HasType(T, rule.result, PackType)
         /\ \A j \in DOMAIN rule.members : HasType(T, rule.members[j], KindType)
    [] rule.op = "Call" ->
         /\ rule.template \in DOMAIN T /\ MayApply(T[rule.template], rule.args)
         /\ HasType(T, rule.result, KindType)
         /\ \A j \in DOMAIN rule.args \cap DOMAIN T[rule.template].params :
              HasType(T, rule.args[j], T[rule.template].params[j])
    [] OTHER ->
         /\ HasType(T, rule.result, PrototypeType)
         /\ HasType(T, rule.params, PackType)
         /\ HasType(T, rule.return, KindType)

\* A rune a rule names twice collects to one IndexMap entry, the last.
NamesOnce(rule) ==
  /\ rule.op \in RefOps => rule.result # rule.inner
  /\ rule.op = "KindList" => Injective(rule.members) /\ rule.result \notin Range(rule.members)
  /\ rule.op = "Call" => Injective(rule.args) /\ rule.result \notin Range(rule.args)
  /\ rule.op \in {"CallSiteFunc", "DefinitionFunc", "Resolve"} => rule.result # rule.params

-----------------------------------------------------------------------------
(* The solver state, as the typing instantiates it *)

LEMMA TypePuzzlesAreOfRunes ==
  ASSUME NEW rule \in Rule
  PROVE  /\ get_rune_typing_puzzles(rule) # {}
         /\ \A puzzle \in get_rune_typing_puzzles(rule) : puzzle \subseteq RunesOf(rule)
  BY RulesAssumption DEF get_rune_typing_puzzles, RunesOf, LeafOps, RefOps

\* What a step without a conflict leaves on file.
LEMMA TypesInsertAll ==
  ASSUME NEW pairs, DOMAIN pairs \subseteq Nat, Typer!Conflicts(pairs) = {}
  PROVE  /\ Extends(Typer!WithInserted(pairs), rune_to_type)
         /\ DOMAIN Typer!WithInserted(pairs) = DOMAIN rune_to_type \cup Typer!MapRunes(pairs)
         /\ \A r \in Typer!MapRunes(pairs) : Typer!WithInserted(pairs)[r] = Typer!MapValue(pairs, r)
         /\ \A i \in DOMAIN pairs :
              (\A j \in DOMAIN pairs : pairs[j][1] = pairs[i][1] => j = i) =>
                HasType(Typer!WithInserted(pairs), pairs[i][1], pairs[i][2])
  <1>1. Typer!Inserted(pairs) = Typer!MapRunes(pairs)
    BY DEF Typer!Inserted
  <1>2. Extends(Typer!WithInserted(pairs), rune_to_type)
    BY <1>1 DEF Typer!Conflicts, Typer!WithInserted, Extends
  <1>3. ASSUME NEW i \in DOMAIN pairs,
               \A j \in DOMAIN pairs : pairs[j][1] = pairs[i][1] => j = i
        PROVE  HasType(Typer!WithInserted(pairs), pairs[i][1], pairs[i][2])
    <2>1. pairs[i][1] \in Typer!MapRunes(pairs)
      BY DEF Typer!MapRunes
    <2>2. Typer!MapValue(pairs, pairs[i][1]) = pairs[i][2]
      BY <1>3, i <= i DEF Typer!MapValue, Typer!IsLast
    <2>3. QED  BY <1>1, <2>1, <2>2 DEF Typer!WithInserted, HasType
  <1>4. QED  BY <1>1, <1>2, <1>3 DEF Typer!WithInserted

\* The same for a step that names no rune twice.
LEMMA TypesInsertEach ==
  ASSUME NEW pairs, DOMAIN pairs \subseteq Nat, Typer!Conflicts(pairs) = {},
         \A i, j \in DOMAIN pairs : pairs[i][1] = pairs[j][1] => i = j
  PROVE  /\ Extends(Typer!WithInserted(pairs), rune_to_type)
         /\ \A i \in DOMAIN pairs : HasType(Typer!WithInserted(pairs), pairs[i][1], pairs[i][2])
  BY TypesInsertAll

\* What a rule says of its own runes is not undone by what others get.
Keeps(rule, B, A) == \A r \in RunesOf(rule) \cap DOMAIN A : r \in DOMAIN B /\ B[r] = A[r]

LEMMA StaysTyped ==
  ASSUME NEW rule \in Rule, NEW A, NEW B, NEW types, Keeps(rule, B, A), RuleTyped(rule, A, types)
  PROVE  RuleTyped(rule, B, types)
  <1>1. CASE rule.op \in {"Lookup", "Literal"}
    BY <1>1 DEF RuleTyped, HasType, Keeps, RunesOf, LeafOps, RefOps
  <1>2. CASE rule.op = "RuneParentEnvLookup"
    BY <1>2 DEF RuleTyped, HasType, Keeps, RunesOf, LeafOps, RefOps
  <1>3. CASE rule.op = "Equals"
    BY <1>3 DEF RuleTyped, HasType, Keeps, RunesOf, LeafOps, RefOps
  <1>4. CASE rule.op \in RefOps
    BY <1>4 DEF RuleTyped, HasType, Keeps, RunesOf, LeafOps, RefOps
  <1>5. CASE rule.op = "KindList"
    <2>1. \A j \in DOMAIN rule.members : rule.members[j] \in RunesOf(rule)
      BY <1>5 DEF RunesOf, LeafOps, RefOps, Range
    <2>2. rule.result \in RunesOf(rule)
      BY <1>5 DEF RunesOf, LeafOps, RefOps
    <2>3. QED  BY <1>5, <2>1, <2>2 DEF RuleTyped, HasType, Keeps, RefOps
  <1>6. CASE rule.op = "Call"
    <2>1. /\ rule.template \in RunesOf(rule) /\ rule.result \in RunesOf(rule)
          /\ \A j \in DOMAIN rule.args : rule.args[j] \in RunesOf(rule)
      BY <1>6 DEF RunesOf, LeafOps, RefOps, Range
    <2>2. A[rule.template] = B[rule.template] /\ rule.template \in DOMAIN B
      BY <1>6, <2>1 DEF RuleTyped, Keeps, RefOps
    <2>3. QED  BY <1>6, <2>1, <2>2 DEF RuleTyped, HasType, Keeps, RefOps
  <1>7. CASE rule.op \in {"CallSiteFunc", "DefinitionFunc", "Resolve"}
    BY <1>7 DEF RuleTyped, HasType, Keeps, RunesOf, LeafOps, RefOps
  <1>8. QED
    BY <1>1, <1>2, <1>3, <1>4, <1>5, <1>6, <1>7, RulesAssumption DEF LeafOps

-----------------------------------------------------------------------------
(* A rule that fires without a panic or a conflict holds *)

WellFormedTypes == \A r \in DOMAIN rune_to_type : IsType(rune_to_type[r])

\* The parameters of a type are a list of plain types.
LEMMA ParamsOfTypes ==
  ASSUME NEW t, IsType(t)
  PROVE  t.params \in Seq({KindType, IntegerType})
  <1>1. \A u \in {KindType, IntegerType, PackType, PrototypeType} : u.params = <<>>
    BY DEF KindType, IntegerType, PackType, PrototypeType, Plain
  <1>2. <<>> \in Seq({KindType, IntegerType})
    OBVIOUS
  <1>3. QED  BY <1>1, <1>2 DEF IsType

LEMMA ZipIsList ==
  ASSUME NEW runes \in Seq(Rune), NEW ts \in Seq({KindType, IntegerType})
  PROVE  /\ ZipPairs(runes, ts) \in Seq(Rune \X {KindType, IntegerType})
         /\ DOMAIN ZipPairs(runes, ts) = DOMAIN runes \cap DOMAIN ts
         /\ \A j \in DOMAIN ZipPairs(runes, ts) : ZipPairs(runes, ts)[j] = <<runes[j], ts[j]>>
  <1> DEFINE zip == ZipPairs(runes, ts)
  <1>1. DOMAIN runes = 1..Len(runes) /\ DOMAIN ts = 1..Len(ts) /\ Len(runes) \in Nat /\ Len(ts) \in Nat
    OBVIOUS
  <1>2. CASE Len(runes) <= Len(ts)
    <2>1. DOMAIN runes \cap DOMAIN ts = 1..Len(runes)
      BY <1>1, <1>2
    <2>2. zip = [j \in 1..Len(runes) |-> <<runes[j], ts[j]>>]
      BY <2>1 DEF ZipPairs
    <2>3. QED  BY <1>1, <1>2, <2>1, <2>2
  <1>3. CASE Len(ts) < Len(runes)
    <2>1. DOMAIN runes \cap DOMAIN ts = 1..Len(ts)
      BY <1>1, <1>3
    <2>2. zip = [j \in 1..Len(ts) |-> <<runes[j], ts[j]>>]
      BY <2>1 DEF ZipPairs
    <2>3. QED  BY <1>1, <1>3, <2>1, <2>2
  <1>4. QED  BY <1>1, <1>2, <1>3

\* The list of a KindList or a Call: the members or arguments, then the result.
LEMMA ListThenResult ==
  ASSUME NEW runes \in Seq(Rune), NEW ts, ts \in Seq({KindType, IntegerType}),
         NEW r, NEW t, Injective(runes), r \notin Range(runes),
         NEW pairs, pairs = ZipPairs(runes, ts) \o << <<r, t>> >>,
         Typer!Conflicts(pairs) = {}
  PROVE  LET W == Typer!WithInserted(pairs)
         IN /\ HasType(W, r, t)
            /\ \A j \in DOMAIN runes \cap DOMAIN ts : HasType(W, runes[j], ts[j])
            /\ Extends(W, rune_to_type)
  <1> DEFINE zip == ZipPairs(runes, ts)
             n == Len(zip)
  <1>1. /\ zip \in Seq(Rune \X {KindType, IntegerType})
        /\ DOMAIN zip = DOMAIN runes \cap DOMAIN ts
        /\ \A j \in DOMAIN zip : zip[j] = <<runes[j], ts[j]>>
    BY ZipIsList
  <1>2. /\ n \in Nat /\ DOMAIN zip = 1..n /\ DOMAIN pairs = 1..(n + 1)
        /\ \A j \in 1..n : pairs[j] = zip[j]
        /\ pairs[n + 1] = <<r, t>>
    BY <1>1
  <1>3. \A j \in 1..n : pairs[j][1] = runes[j] /\ pairs[j][2] = ts[j] /\ j \in DOMAIN runes
    <2> SUFFICES ASSUME NEW j \in 1..n
                 PROVE  pairs[j][1] = runes[j] /\ pairs[j][2] = ts[j] /\ j \in DOMAIN runes
      OBVIOUS
    <2>1. pairs[j] = zip[j] /\ j \in DOMAIN zip
      BY <1>2
    <2>2. zip[j] = <<runes[j], ts[j]>> /\ j \in DOMAIN runes
      BY <1>1, <2>1
    <2>3. QED  BY <2>1, <2>2
  <1>4. pairs[n + 1][1] = r /\ pairs[n + 1][2] = t
    BY <1>2
  <1>5. ASSUME NEW i \in DOMAIN pairs, NEW j \in DOMAIN pairs, pairs[i][1] = pairs[j][1]
        PROVE  i = j
    <2>1. CASE i \in 1..n /\ j \in 1..n
      BY <1>3, <1>5, <2>1 DEF Injective
    <2>2. CASE i = n + 1 /\ j \in 1..n
      BY <1>3, <1>4, <1>5, <2>2 DEF Range
    <2>3. CASE j = n + 1 /\ i \in 1..n
      BY <1>3, <1>4, <1>5, <2>3 DEF Range
    <2>4. QED  BY <1>2, <2>1, <2>2, <2>3
  <1>6. /\ Extends(Typer!WithInserted(pairs), rune_to_type)
        /\ \A i \in DOMAIN pairs : HasType(Typer!WithInserted(pairs), pairs[i][1], pairs[i][2])
    <2>1. DOMAIN pairs \subseteq Nat
      BY <1>2
    <2>2. QED  BY <1>5, <2>1, TypesInsertEach
  <1>7. QED  BY <1>1, <1>2, <1>3, <1>4, <1>6

LEMMA FiringTypes ==
  ASSUME NEW rule \in Rule, NamesOnce(rule), WellFormedTypes,
         \E puzzle \in get_rune_typing_puzzles(rule) : puzzle \subseteq DOMAIN rune_to_type,
         ~TypingPanics(rule),
         Typer!Conflicts(TypesConcluded(rule)) = {}
  PROVE  /\ RuleTyped(rule, Typer!WithInserted(TypesConcluded(rule)), prog.types)
         /\ Extends(Typer!WithInserted(TypesConcluded(rule)), rune_to_type)
  <1> DEFINE pairs == TypesConcluded(rule)
             W == Typer!WithInserted(pairs)
  <1>1. CASE rule.op \in {"Lookup", "Literal"}
    <2>1. pairs = << <<rule.result, TypeAmong(prog.types, rule.value)>> >>
      BY <1>1 DEF TypesConcluded, TypeOf, RefOps
    <2>2. DOMAIN pairs = {1} /\ pairs[1] = <<rule.result, TypeAmong(prog.types, rule.value)>>
      BY <2>1
    <2>3. HasType(W, rule.result, TypeAmong(prog.types, rule.value)) /\ Extends(W, rune_to_type)
      BY <2>2, TypesInsertEach
    <2>4. QED  BY <1>1, <2>3 DEF RuleTyped, RefOps
  <1>2. CASE rule.op = "RuneParentEnvLookup"
    <2>1. rule.result \in DOMAIN rune_to_type /\ MayInherit(TypeAmong(prog.types, rule.value), rune_to_type[rule.result])
      BY <1>2 DEF TypingPanics, get_rune_typing_puzzles, TypeOf, RefOps
    <2>2. pairs = <<>>
      BY <1>2 DEF TypesConcluded, RefOps
    <2>3. DOMAIN pairs = {}
      BY <2>2
    <2>4. Extends(W, rune_to_type)
      BY <2>3, TypesInsertEach
    <2>5. QED  BY <1>2, <2>1, <2>4 DEF RuleTyped, Extends, RefOps
  <1>3. CASE rule.op = "Equals"
    <2>1. pairs = EqualsTypes(rule)
      BY <1>3 DEF TypesConcluded, RefOps
    <2>2. rule.left \in DOMAIN rune_to_type \/ rule.right \in DOMAIN rune_to_type
      BY <1>3 DEF get_rune_typing_puzzles, RefOps
    <2>3. CASE rule.left \in DOMAIN rune_to_type
      <3>1. DOMAIN pairs = {1} /\ pairs[1] = <<rule.right, rune_to_type[rule.left]>>
        BY <2>1, <2>3 DEF EqualsTypes, Typed
      <3>2. HasType(W, rule.right, rune_to_type[rule.left]) /\ Extends(W, rune_to_type)
        BY <3>1, TypesInsertEach
      <3>3. QED  BY <1>3, <2>3, <3>2 DEF RuleTyped, HasType, Extends, RefOps
    <2>4. CASE rule.left \notin DOMAIN rune_to_type
      <3>1. DOMAIN pairs = {1} /\ pairs[1] = <<rule.left, rune_to_type[rule.right]>>
        BY <2>1, <2>4 DEF EqualsTypes, Typed
      <3>2. HasType(W, rule.left, rune_to_type[rule.right]) /\ Extends(W, rune_to_type)
        BY <3>1, TypesInsertEach
      <3>3. QED  BY <1>3, <2>2, <2>4, <3>2 DEF RuleTyped, HasType, Extends, RefOps
    <2>5. QED  BY <2>3, <2>4
  <1>4. CASE rule.op \in RefOps
    <2>1. pairs = << <<rule.result, KindType>>, <<rule.inner, KindType>> >> /\ rule.result # rule.inner
      BY <1>4 DEF TypesConcluded, NamesOnce, RefOps
    <2>2. DOMAIN pairs = {1, 2} /\ pairs[1] = <<rule.result, KindType>> /\ pairs[2] = <<rule.inner, KindType>>
      BY <2>1
    <2>3. DOMAIN pairs \subseteq Nat /\ \A i, j \in DOMAIN pairs : pairs[i][1] = pairs[j][1] => i = j
      BY <2>1, <2>2
    <2>4. \A i \in DOMAIN pairs : HasType(W, pairs[i][1], pairs[i][2])
      BY <2>3, TypesInsertEach
    <2>5. Extends(W, rune_to_type)
      BY <2>3, TypesInsertEach
    <2>6. HasType(W, rule.result, KindType) /\ HasType(W, rule.inner, KindType)
      BY <2>2, <2>4
    <2>7. QED  BY <1>4, <2>5, <2>6 DEF RuleTyped, RefOps
  <1>5. CASE rule.op = "KindList"
    <2> DEFINE kinds == [j \in DOMAIN rule.members |-> KindType]
    <2>1. /\ pairs = [j \in DOMAIN rule.members |-> <<rule.members[j], KindType>>] \o << <<rule.result, PackType>> >>
          /\ Injective(rule.members) /\ rule.result \notin Range(rule.members)
          /\ rule.members \in Seq(Rune)
      BY <1>5, RulesAssumption DEF TypesConcluded, NamesOnce, RefOps
    <2>2. kinds \in Seq({KindType, IntegerType}) /\ DOMAIN kinds = DOMAIN rule.members
      BY <2>1
    <2>3. ZipPairs(rule.members, kinds) = [j \in DOMAIN rule.members |-> <<rule.members[j], KindType>>]
      BY <2>2 DEF ZipPairs
    <2>4. pairs = ZipPairs(rule.members, kinds) \o << <<rule.result, PackType>> >>
      BY <2>1, <2>3
    <2> HIDE DEF kinds, pairs
    <2>6. /\ HasType(W, rule.result, PackType)
          /\ \A j \in DOMAIN rule.members \cap DOMAIN kinds : HasType(W, rule.members[j], kinds[j])
          /\ Extends(W, rune_to_type)
      BY <2>1, <2>2, <2>4, ListThenResult DEF pairs
    <2>7. \A j \in DOMAIN rule.members : HasType(W, rule.members[j], KindType)
      BY <2>2, <2>6 DEF kinds
    <2>8. QED  BY <1>5, <2>6, <2>7 DEF RuleTyped, RefOps, pairs
  <1>6. CASE rule.op = "Call"
    <2> DEFINE params == rune_to_type[rule.template].params
    <2>1. /\ rule.template \in DOMAIN rune_to_type /\ MayApply(rune_to_type[rule.template], rule.args)
          /\ pairs = ZipPairs(rule.args, params) \o << <<rule.result, KindType>> >>
          /\ Injective(rule.args) /\ rule.result \notin Range(rule.args)
          /\ rule.args \in Seq(Rune)
      BY <1>6, RulesAssumption
         DEF TypesConcluded, CallTypes, TypingPanics, get_rune_typing_puzzles, NamesOnce, RefOps
    <2>2. params \in Seq({KindType, IntegerType})
      BY <2>1, ParamsOfTypes DEF WellFormedTypes
    <2>3. /\ HasType(W, rule.result, KindType) /\ Extends(W, rune_to_type)
          /\ \A j \in DOMAIN rule.args \cap DOMAIN params : HasType(W, rule.args[j], params[j])
      BY <2>1, <2>2, ListThenResult
    <2>4. rule.template \in DOMAIN W /\ W[rule.template] = rune_to_type[rule.template]
      BY <2>1, <2>3 DEF Extends
    <2>5. QED  BY <1>6, <2>1, <2>3, <2>4 DEF RuleTyped, RefOps
  <1>7. CASE rule.op \in {"CallSiteFunc", "DefinitionFunc", "Resolve"}
    <2>1. /\ pairs = << <<rule.result, PrototypeType>>, <<rule.params, PackType>>, <<rule.return, KindType>> >>
          /\ rule.result # rule.params /\ rule.return # rule.params /\ rule.return # rule.result
      BY <1>7, RulesAssumption DEF TypesConcluded, NamesOnce, RefOps
    <2>2. /\ DOMAIN pairs = {1, 2, 3} /\ pairs[1] = <<rule.result, PrototypeType>>
          /\ pairs[2] = <<rule.params, PackType>> /\ pairs[3] = <<rule.return, KindType>>
      BY <2>1
    <2>3. DOMAIN pairs \subseteq Nat /\ \A i, j \in DOMAIN pairs : pairs[i][1] = pairs[j][1] => i = j
      BY <2>1, <2>2
    <2>4. \A i \in DOMAIN pairs : HasType(W, pairs[i][1], pairs[i][2])
      BY <2>3, TypesInsertEach
    <2>5. Extends(W, rune_to_type)
      BY <2>3, TypesInsertEach
    <2>6. /\ HasType(W, rule.result, PrototypeType) /\ HasType(W, rule.params, PackType)
          /\ HasType(W, rule.return, KindType)
      BY <2>2, <2>4
    <2>7. QED  BY <1>7, <2>5, <2>6 DEF RuleTyped, RefOps
  <1>8. QED
    BY <1>1, <1>2, <1>3, <1>4, <1>5, <1>6, <1>7, RulesAssumption DEF LeafOps
-----------------------------------------------------------------------------
(* What is concluded is a type *)

\* A step concludes values of its list.
LEMMA ValueIsListed ==
  ASSUME NEW pairs, NEW n \in Nat, DOMAIN pairs = 1..n, NEW r \in Typer!MapRunes(pairs)
  PROVE  \E i \in DOMAIN pairs : pairs[i][1] = r /\ Typer!MapValue(pairs, r) = pairs[i][2]
  <1> DEFINE S == { i \in DOMAIN pairs : pairs[i][1] = r }
  <1>1. S \in SUBSET (1..n) /\ S # {}
    BY DEF Typer!MapRunes
  <1>2. PICK i \in S : \A j \in S : j <= i
    BY <1>1, LargestIndex
  <1>3. pairs[i][1] = r /\ Typer!IsLast(pairs, i)
    BY <1>2 DEF Typer!IsLast
  <1>4. QED  BY <1>3 DEF Typer!MapValue

LEMMA PlainTypes ==
  /\ IsType(KindType) /\ IsType(IntegerType) /\ IsType(PackType) /\ IsType(PrototypeType)
  /\ \A params \in Seq({KindType, IntegerType}) : IsType(TemplateOf(params))
  BY DEF IsType, TemplateOf

\* Names and literals of a header have types.
LEMMA NamedTypes ==
  ASSUME prog \in Programs, NEW i \in DOMAIN prog.header,
         prog.header[i].op \in {"Lookup", "Literal"}
  PROVE  IsType(TypeOf(prog.header[i].value))
  <1> DEFINE v == prog.header[i].value
  <1>1. v.tag # "placeholder" /\ (v.tag = "template" => v.name \in DOMAIN TemplateParams)
    BY HeadersAssumption DEF HeaderInput
  <1>2. CASE v.tag = "template"
    BY <1>1, <1>2, TemplatesAssumption, PlainTypes DEF TypeOf, TypeAmong
  <1>3. CASE v.tag # "template"
    <2>1. TypeOf(v) \in {IntegerType, PackType, PrototypeType, KindType}
      BY <1>1, <1>3 DEF TypeOf, TypeAmong
    <2>2. QED  BY <2>1, PlainTypes
  <1>4. QED  BY <1>2, <1>3

\* Every list of conclusions is a list of types.
LEMMA ConcludedAreTypes ==
  ASSUME prog \in Programs, NEW i \in DOMAIN prog.header, WellFormedTypes,
         \E puzzle \in get_rune_typing_puzzles(prog.header[i]) : puzzle \subseteq DOMAIN rune_to_type
  PROVE  \E n \in Nat :
           /\ DOMAIN TypesConcluded(prog.header[i]) = 1..n
           /\ \A k \in 1..n : IsType(TypesConcluded(prog.header[i])[k][2])
  <1> DEFINE rule == prog.header[i]
             pairs == TypesConcluded(rule)
             Goal == \E n \in Nat : DOMAIN pairs = 1..n /\ \A k \in 1..n : IsType(pairs[k][2])
  <1>0. rule \in Rule
    BY HeadersAssumption DEF HeaderInput
  <1> SUFFICES Goal
    OBVIOUS
  <1>a. ASSUME NEW r, NEW t, IsType(t), pairs = << <<r, t>> >>
        PROVE  Goal
    <2>1. DOMAIN pairs = 1..1 /\ \A k \in 1..1 : pairs[k][2] = t
      BY <1>a
    <2>2. QED  BY <1>a, <2>1
  <1>b. ASSUME NEW zip \in Seq(Rune \X {KindType, IntegerType}), NEW r, NEW t, IsType(t),
               pairs = zip \o << <<r, t>> >>
        PROVE  Goal
    <2>1. /\ Len(zip) \in Nat /\ DOMAIN pairs = 1..(Len(zip) + 1)
          /\ \A k \in 1..Len(zip) : pairs[k] = zip[k] /\ zip[k][2] \in {KindType, IntegerType}
          /\ pairs[Len(zip) + 1][2] = t
      BY <1>b
    <2>2. \A k \in 1..(Len(zip) + 1) : IsType(pairs[k][2])
      BY <1>b, <2>1, PlainTypes
    <2>3. QED  BY <2>1, <2>2
  <1>1. CASE rule.op \in {"Lookup", "Literal"}
    <2>1. pairs = << <<rule.result, TypeOf(rule.value)>> >>
      BY <1>1 DEF TypesConcluded, RefOps
    <2>2. QED  BY <1>a, <1>1, <2>1, NamedTypes
  <1>2. CASE rule.op = "RuneParentEnvLookup"
    <2>1. pairs = <<>>
      BY <1>2 DEF TypesConcluded, RefOps
    <2>2. DOMAIN pairs = 1..0
      BY <2>1
    <2>3. QED  BY <2>2
  <1>3. CASE rule.op = "Equals"
    <2>1. pairs = EqualsTypes(rule)
      BY <1>3 DEF TypesConcluded, RefOps
    <2>2. rule.left \in DOMAIN rune_to_type \/ rule.right \in DOMAIN rune_to_type
      BY <1>3 DEF get_rune_typing_puzzles, RefOps
    <2>3. QED  BY <1>a, <2>1, <2>2 DEF EqualsTypes, Typed, WellFormedTypes
  <1>4. CASE rule.op \in RefOps
    <2>1. pairs = << <<rule.result, KindType>>, <<rule.inner, KindType>> >>
      BY <1>4 DEF TypesConcluded, RefOps
    <2>2. DOMAIN pairs = 1..2 /\ \A k \in 1..2 : pairs[k][2] = KindType
      BY <2>1
    <2>3. QED  BY <2>2, PlainTypes
  <1>5. CASE rule.op = "KindList"
    <2> DEFINE kinds == [j \in DOMAIN rule.members |-> <<rule.members[j], KindType>>]
    <2>1. pairs = kinds \o << <<rule.result, PackType>> >> /\ rule.members \in Seq(Rune)
      BY <1>0, <1>5, RulesAssumption DEF TypesConcluded, RefOps
    <2>2. kinds \in Seq(Rune \X {KindType, IntegerType})
      <3> DEFINE T == Rune \X {KindType, IntegerType}
                 m == Len(rule.members)
      <3>1. m \in Nat /\ DOMAIN rule.members = 1..m /\ \A j \in 1..m : rule.members[j] \in Rune
        BY <2>1
      <3>2. \A j \in 1..m : <<rule.members[j], KindType>> \in T
        BY <3>1
      <3>3. kinds = [j \in 1..m |-> <<rule.members[j], KindType>>]
        BY <3>1
      <3> HIDE DEF T, m, kinds
      <3>4. kinds \in [1..m -> T]
        BY <3>2, <3>3
      <3>5. QED  BY <3>1, <3>4 DEF T
    <2>3. QED  BY <1>b, <2>1, <2>2, PlainTypes
  <1>6. CASE rule.op = "Call"
    <2> DEFINE params == rune_to_type[rule.template].params
    <2>1. /\ rule.template \in DOMAIN rune_to_type
          /\ pairs = ZipPairs(rule.args, params) \o << <<rule.result, KindType>> >>
          /\ rule.args \in Seq(Rune)
      BY <1>0, <1>6, RulesAssumption
         DEF TypesConcluded, CallTypes, get_rune_typing_puzzles, RefOps
    <2>2. params \in Seq({KindType, IntegerType})
      BY <2>1, ParamsOfTypes DEF WellFormedTypes
    <2>3. ZipPairs(rule.args, params) \in Seq(Rune \X {KindType, IntegerType})
      BY <2>1, <2>2, ZipIsList
    <2>4. QED  BY <1>b, <2>1, <2>3, PlainTypes
  <1>7. CASE rule.op \in {"CallSiteFunc", "DefinitionFunc", "Resolve"}
    <2>1. pairs = << <<rule.result, PrototypeType>>, <<rule.params, PackType>>, <<rule.return, KindType>> >>
      BY <1>7 DEF TypesConcluded, RefOps
    <2>2. DOMAIN pairs = 1..3 /\ \A k \in 1..3 : pairs[k][2] \in {PrototypeType, PackType, KindType}
      BY <2>1
    <2>3. QED  BY <2>2, PlainTypes
  <1>8. QED
    BY <1>0, <1>1, <1>2, <1>3, <1>4, <1>5, <1>6, <1>7, RulesAssumption DEF LeafOps

-----------------------------------------------------------------------------
(* The invariant of the typing *)

PuzzlesOfHeader ==
  /\ DOMAIN open_type_rules \subseteq DOMAIN prog.header
  /\ \A i \in DOMAIN open_type_rules : open_type_rules[i] = get_rune_typing_puzzles(prog.header[i])

FiredAreTyped ==
  \A i \in DOMAIN prog.header \ DOMAIN open_type_rules :
    NamesOnce(prog.header[i]) => RuleTyped(prog.header[i], rune_to_type, prog.types)

\* A rule that has fired holds until a conflict ends the typing, and it ends
\* well only when every rule has fired.
TypedInv ==
  /\ prog \in Programs
  /\ WellFormedTypes
  /\ PuzzlesOfHeader
  /\ typing \in {"running", "typed"} => FiredAreTyped
  /\ typing = "typed" => DOMAIN open_type_rules = {}

LEMMA HeaderFacts ==
  ASSUME prog \in Programs
  PROVE  /\ prog.header \in Seq(Rule)
         /\ \A i \in DOMAIN prog.header : prog.header[i] \in Rule
         /\ DOMAIN prog.header \subseteq Nat
         /\ \A r \in DOMAIN prog.types : IsType(prog.types[r])
         /\ prog.senders \cap TypedRunes = {}
  <1>1. HeaderInput(prog)
    BY HeadersAssumption
  <1>2. /\ prog.header \in Seq(Rule)
        /\ \A r \in DOMAIN prog.types : IsType(prog.types[r])
        /\ prog.senders \cap TypedRunes = {}
    BY <1>1 DEF HeaderInput, TypedRunes
  <1>3. QED  BY <1>2

\* Of the generic lookups of a rune, the last gives its type.
LEMMA InitialLookup ==
  ASSUME prog \in Programs, NEW r \in DOMAIN InitiallyKnownTypes, r \notin DOMAIN prog.types
  PROVE  \E i \in DOMAIN prog.header :
           /\ IsGenericLookup(prog.header[i]) /\ prog.header[i].result = r
           /\ InitiallyKnownTypes[r] = TypeOf(prog.header[i].value)
  <1> DEFINE lookups == { i \in DOMAIN prog.header : IsGenericLookup(prog.header[i]) }
             LastNamed(i) == /\ prog.header[i].result = r
                             /\ \A j \in lookups : prog.header[j].result = r => j <= i
             S == { i \in lookups : prog.header[i].result = r }
             last == CHOOSE i \in lookups : LastNamed(i)
  <1>1. r \in { prog.header[i].result : i \in lookups }
    BY DEF InitiallyKnownTypes
  <1>2. prog.header \in Seq(Rule)
    BY HeaderFacts
  <1>3. Len(prog.header) \in Nat /\ S \in SUBSET (1..Len(prog.header)) /\ S # {}
    BY <1>1, <1>2
  <1>4. \E i \in S : \A j \in S : j <= i
    BY <1>3, LargestIndex
  <1>5. last \in lookups /\ LastNamed(last)
    BY <1>4
  <1>6. InitiallyKnownTypes[r] = TypeOf(prog.header[last].value)
    BY <1>1 DEF InitiallyKnownTypes
  <1>7. QED  BY <1>5, <1>6

LEMMA InitialTypes ==
  ASSUME prog \in Programs
  PROVE  \A r \in DOMAIN InitiallyKnownTypes : IsType(InitiallyKnownTypes[r])
  <1>1. ASSUME NEW r \in DOMAIN InitiallyKnownTypes
        PROVE  IsType(InitiallyKnownTypes[r])
    <2>1. CASE r \in DOMAIN prog.types
      BY <2>1, HeaderFacts DEF InitiallyKnownTypes
    <2>2. CASE r \notin DOMAIN prog.types
      BY <2>2, InitialLookup, NamedTypes DEF IsGenericLookup
    <2>3. QED  BY <2>1, <2>2
  <1>2. QED  BY <1>1

\* The next rule to fire is an open one with a met puzzle.
LEMMA NextTypeRule ==
  ASSUME TypedInv, Typer!Solvable # {}
  PROVE  /\ Typer!get_next_solvable \in DOMAIN open_type_rules
         /\ Typer!get_next_solvable \in DOMAIN prog.header
         /\ NextToType \in Rule
         /\ \E puzzle \in get_rune_typing_puzzles(NextToType) : puzzle \subseteq DOMAIN rune_to_type
  <1>1. Typer!Solvable \in SUBSET Nat
    BY HeaderFacts DEF TypedInv, PuzzlesOfHeader, Typer!Solvable
  <1>2. Typer!get_next_solvable \in Typer!Solvable
    <2>1. \E i \in Typer!Solvable : \A j \in Typer!Solvable : i <= j
      BY <1>1, SmallestIndex
    <2>2. QED  BY <2>1 DEF Typer!get_next_solvable
  <1>3. QED
    BY <1>2, HeaderFacts DEF TypedInv, PuzzlesOfHeader, Typer!Solvable, NextToType

LEMMA TypedInvInit == TypedInit => TypedInv
  <1> SUFFICES ASSUME TypedInit  PROVE TypedInv
    OBVIOUS
  <1> DEFINE puzzles == TypingPuzzlesOf(prog.header)
  <1>1. prog \in Programs
    BY DEF TypedInit, Init
  <1>2. /\ rune_to_type = InitiallyKnownTypes
        /\ open_type_rules = [i \in { k \in DOMAIN puzzles : puzzles[k] # {} } |-> puzzles[i]]
        /\ typing \in {"failed", "running"}
    BY DEF TypedInit, Typer!make_solver_state
  <1>3. WellFormedTypes
    BY <1>1, <1>2, InitialTypes DEF WellFormedTypes
  <1>4. /\ DOMAIN puzzles = DOMAIN prog.header
        /\ \A i \in DOMAIN prog.header :
             puzzles[i] = get_rune_typing_puzzles(prog.header[i]) /\ puzzles[i] # {}
    BY <1>1, HeaderFacts, TypePuzzlesAreOfRunes DEF TypingPuzzlesOf
  <1>5. /\ DOMAIN open_type_rules = DOMAIN prog.header
        /\ \A i \in DOMAIN prog.header : open_type_rules[i] = puzzles[i]
    BY <1>2, <1>4
  <1>6. PuzzlesOfHeader /\ FiredAreTyped
    BY <1>4, <1>5 DEF PuzzlesOfHeader, FiredAreTyped
  <1>7. QED  BY <1>1, <1>2, <1>3, <1>6 DEF TypedInv

LEMMA SolveTypeRuleKeeps == TypedInv /\ SolveTypeRule => TypedInv'
  <1> SUFFICES ASSUME TypedInv, SolveTypeRule  PROVE TypedInv'
    OBVIOUS
  <1> DEFINE next  == Typer!get_next_solvable
             pairs == TypesConcluded(NextToType)
  <1>1. /\ typing = "running" /\ prog' = prog /\ Typer!Solvable # {} /\ ~TypingPanics(NextToType)
        /\ rune_to_type' = Typer!WithInserted(pairs)
        /\ typing' = IF Typer!Conflicts(pairs) = {} THEN "running" ELSE "failed"
        /\ IF Typer!Conflicts(pairs) = {}
           THEN open_type_rules' = Typer!Reopened({next}, <<>>)
           ELSE UNCHANGED open_type_rules
    BY DEF SolveTypeRule, vars, Typer!commit_step
  <1>2. /\ next \in DOMAIN open_type_rules /\ next \in DOMAIN prog.header
        /\ NextToType = prog.header[next] /\ NextToType \in Rule
        /\ \E puzzle \in get_rune_typing_puzzles(NextToType) : puzzle \subseteq DOMAIN rune_to_type
    BY <1>1, NextTypeRule DEF NextToType
  <1>3. prog \in Programs /\ WellFormedTypes /\ PuzzlesOfHeader /\ FiredAreTyped
    BY <1>1 DEF TypedInv
  <1>4. WellFormedTypes'
    <2>1. PICK n \in Nat : DOMAIN pairs = 1..n /\ \A k \in 1..n : IsType(pairs[k][2])
      BY <1>2, <1>3, ConcludedAreTypes
    <2>2. \A r \in Typer!MapRunes(pairs) : IsType(Typer!MapValue(pairs, r))
      BY <2>1, ValueIsListed
    <2>3. \A r \in DOMAIN Typer!WithInserted(pairs) : IsType(Typer!WithInserted(pairs)[r])
      BY <1>3, <2>2 DEF Typer!WithInserted, Typer!Inserted, WellFormedTypes
    <2>4. QED  BY <1>1, <2>3 DEF WellFormedTypes
  <1>5. CASE Typer!Conflicts(pairs) # {}
    <2>1. typing' = "failed" /\ open_type_rules' = open_type_rules
      BY <1>1, <1>5
    <2>2. PuzzlesOfHeader'
      BY <1>1, <1>3, <2>1 DEF PuzzlesOfHeader
    <2>3. QED  BY <1>1, <1>3, <1>4, <2>1, <2>2 DEF TypedInv
  <1>6. CASE Typer!Conflicts(pairs) = {}
    <2>1. /\ DOMAIN open_type_rules' = DOMAIN open_type_rules \ {next}
          /\ \A i \in DOMAIN open_type_rules' : open_type_rules'[i] = open_type_rules[i]
      BY <1>1, <1>6 DEF Typer!Reopened
    <2>2. PuzzlesOfHeader'
      BY <1>1, <1>3, <2>1 DEF PuzzlesOfHeader
    <2>3. ASSUME NEW i \in DOMAIN prog.header \ DOMAIN open_type_rules', NamesOnce(prog.header[i])
          PROVE  RuleTyped(prog.header[i], rune_to_type', prog.types)
      <3>1. prog.header[i] \in Rule
        BY <1>3, HeaderFacts
      <3>2. CASE i = next
        BY <1>1, <1>2, <1>3, <1>6, <2>3, <3>2, FiringTypes
      <3>3. CASE i # next
        <4>1. RuleTyped(prog.header[i], rune_to_type, prog.types)
          BY <1>3, <2>1, <2>3, <3>3 DEF FiredAreTyped
        <4>2. Keeps(prog.header[i], rune_to_type', rune_to_type)
          BY <1>1, <1>6 DEF Keeps, Typer!WithInserted, Typer!Inserted, Typer!Conflicts
        <4>3. QED  BY <3>1, <4>1, <4>2, StaysTyped
      <3>4. QED  BY <3>2, <3>3
    <2>4. FiredAreTyped'
      BY <1>1, <2>3 DEF FiredAreTyped
    <2>5. typing' = "running"
      BY <1>1, <1>6
    <2>6. QED  BY <1>1, <1>3, <1>4, <2>2, <2>4, <2>5 DEF TypedInv
  <1>7. QED  BY <1>5, <1>6

\* With every rune typed and no rule able to fire, no rule is open; the senders
\* are no runes of the header.
LEMMA FinishTypingKeeps == TypedInv /\ FinishTyping => TypedInv'
  <1> SUFFICES ASSUME TypedInv, FinishTyping  PROVE TypedInv'
    OBVIOUS
  <1>1. /\ typing = "running" /\ prog' = prog /\ open_type_rules' = open_type_rules
        /\ Typer!Solvable = {}
    BY DEF FinishTyping, vars
  <1>2. prog \in Programs /\ WellFormedTypes /\ PuzzlesOfHeader /\ FiredAreTyped
    BY <1>1 DEF TypedInv
  <1>3. PuzzlesOfHeader'
    BY <1>1, <1>2 DEF PuzzlesOfHeader
  <1>4. CASE Typer!get_unsolved_runes # {}
    <2>1. typing' = "failed" /\ rune_to_type' = rune_to_type
      BY <1>4 DEF FinishTyping
    <2>2. WellFormedTypes'
      BY <1>2, <2>1 DEF WellFormedTypes
    <2>3. QED  BY <1>1, <1>2, <1>3, <2>1, <2>2 DEF TypedInv
  <1>5. CASE Typer!get_unsolved_runes = {}
    <2>1. rune_to_type' = [ r \in DOMAIN rune_to_type \cup prog.senders |->
                              IF r \in prog.senders THEN KindType ELSE rune_to_type[r] ]
      BY <1>5 DEF FinishTyping
    <2>2. WellFormedTypes'
      BY <1>2, <2>1, PlainTypes DEF WellFormedTypes
    <2>3. TypedRunes \subseteq DOMAIN rune_to_type
      BY <1>5 DEF Typer!get_unsolved_runes
    <2>4. ASSUME NEW i \in DOMAIN prog.header
          PROVE  prog.header[i] \in Rule /\ RunesOf(prog.header[i]) \subseteq TypedRunes
      BY <1>2, HeaderFacts DEF TypedRunes, HeaderRunes
    <2>5. DOMAIN open_type_rules = {}
      <3> SUFFICES ASSUME NEW i \in DOMAIN open_type_rules  PROVE FALSE
        OBVIOUS
      <3>1. i \in DOMAIN prog.header /\ open_type_rules[i] = get_rune_typing_puzzles(prog.header[i])
        BY <1>2 DEF PuzzlesOfHeader
      <3>2. PICK puzzle \in open_type_rules[i] : puzzle \subseteq RunesOf(prog.header[i])
        BY <2>4, <3>1, TypePuzzlesAreOfRunes
      <3>3. puzzle \subseteq DOMAIN rune_to_type
        BY <2>3, <2>4, <3>1, <3>2
      <3>4. QED  BY <1>1, <3>2, <3>3 DEF Typer!Solvable
    <2>6. ASSUME NEW i \in DOMAIN prog.header, NamesOnce(prog.header[i])
          PROVE  RuleTyped(prog.header[i], rune_to_type', prog.types)
      <3>1. RuleTyped(prog.header[i], rune_to_type, prog.types)
        BY <1>2, <2>5, <2>6 DEF FiredAreTyped
      <3>2. Keeps(prog.header[i], rune_to_type', rune_to_type)
        BY <1>2, <2>1, <2>4, HeaderFacts DEF Keeps
      <3>3. QED  BY <2>4, <3>1, <3>2, StaysTyped
    <2>7. FiredAreTyped'
      BY <1>1, <2>6 DEF FiredAreTyped
    <2>8. QED  BY <1>1, <1>2, <1>3, <2>2, <2>5, <2>7 DEF TypedInv
  <1>6. QED  BY <1>4, <1>5

LEMMA ProgramIsFixed == Next => prog' = prog
  BY DEF Next, SolveRule, RejectRule, StopContinuing, AddDefault, AddPlaceholder, GiveUp, Panic,
         interpret_results

LEMMA TypedInvStep == TypedInv /\ [TypedNext]_typedVars => TypedInv'
  <1> SUFFICES ASSUME TypedInv, [TypedNext]_typedVars  PROVE TypedInv'
    OBVIOUS
  <1>1. CASE PanicTyping
    BY <1>1 DEF TypedInv, PanicTyping, vars, WellFormedTypes, PuzzlesOfHeader, FiredAreTyped
  <1>2. CASE SolvingNext
    <2>1. prog' = prog
      BY <1>2, ProgramIsFixed DEF SolvingNext
    <2>2. QED
      BY <1>2, <2>1 DEF TypedInv, SolvingNext, typingVars, WellFormedTypes, PuzzlesOfHeader, FiredAreTyped
  <1>3. CASE UNCHANGED typedVars
    BY <1>3 DEF TypedInv, typedVars, typingVars, vars, WellFormedTypes, PuzzlesOfHeader, FiredAreTyped
  <1>4. QED
    BY <1>1, <1>2, <1>3, SolveTypeRuleKeeps, FinishTypingKeeps DEF TypedNext, TypingNext

\* A typing that ends well has the types right, rule by rule and whatever the
\* order in which the rules fired: each argument is of its parameter's type,
\* what a rule equates is of one type, a function's runes are a prototype, a
\* kind list and a kind (solve_rule, the check of the unsolved runes).
THEOREM TypedMeansWellTyped ==
  TypedSpec =>
    [](typing = "typed" =>
         \A i \in DOMAIN prog.header :
           NamesOnce(prog.header[i]) => RuleTyped(prog.header[i], rune_to_type, prog.types))
  <1>1. TypedInv => (typing = "typed" =>
          \A i \in DOMAIN prog.header :
            NamesOnce(prog.header[i]) => RuleTyped(prog.header[i], rune_to_type, prog.types))
    BY DEF TypedInv, FiredAreTyped
  <1>2. QED  BY <1>1, TypedInvInit, TypedInvStep, PTL DEF TypedSpec

-----------------------------------------------------------------------------
(* What a type says of a templata *)

LEMMA TypesDiffer ==
  /\ KindType # IntegerType /\ KindType # PackType /\ KindType # PrototypeType
  /\ IntegerType # PackType /\ IntegerType # PrototypeType /\ PackType # PrototypeType
  /\ \A ts : TemplateOf(ts) \notin {KindType, IntegerType, PackType, PrototypeType}
  /\ \A ts : TemplateOf(ts).type = "template" /\ TemplateOf(ts).params = ts
  /\ \A t \in {KindType, IntegerType, PackType, PrototypeType} : t.type # "template"
  BY DEF KindType, IntegerType, PackType, PrototypeType, Plain, TemplateOf

\* Only a list has a list's type, and so on: a well-made placeholder stands for
\* neither.
LEMMA TypeTells ==
  ASSUME NEW t, NEW W, NEW types, MadeOf(t, W, types)
  PROVE  /\ TypeAmong(types, t) = PackType => t.tag = "list"
         /\ TypeAmong(types, t) = PrototypeType => t.tag = "prototype"
         /\ TypeAmong(types, t).type = "template" =>
              t.tag = "template" /\ TypeAmong(types, t).params = TemplateParams[t.name]
  <1>1. t.tag = "placeholder" => types[t.rune] \in {KindType, IntegerType}
    BY DEF MadeOf
  <1>2. CASE t.tag = "template"
    <2>1. TypeAmong(types, t) = TemplateOf(TemplateParams[t.name])
      BY <1>2 DEF TypeAmong
    <2>2. QED  BY <1>2, <2>1, TypesDiffer
  <1>3. CASE t.tag = "placeholder"
    <2>1. TypeAmong(types, t) \in {KindType, IntegerType}
      BY <1>1, <1>3 DEF TypeAmong
    <2>2. QED  BY <2>1, TypesDiffer
  <1>4. CASE t.tag = "integer"
    <2>1. TypeAmong(types, t) = IntegerType
      BY <1>4 DEF TypeAmong
    <2>2. QED  BY <2>1, TypesDiffer
  <1>5. CASE t.tag = "list"
    <2>1. TypeAmong(types, t) = PackType
      BY <1>5 DEF TypeAmong
    <2>2. QED  BY <1>5, <2>1, TypesDiffer
  <1>6. CASE t.tag = "prototype"
    <2>1. TypeAmong(types, t) = PrototypeType
      BY <1>6 DEF TypeAmong
    <2>2. QED  BY <1>6, <2>1, TypesDiffer
  <1>7. CASE t.tag \notin {"template", "placeholder", "integer", "list", "prototype"}
    <2>1. TypeAmong(types, t) = KindType
      BY <1>7 DEF TypeAmong
    <2>2. QED  BY <2>1, TypesDiffer
  <1>8. QED  BY <1>2, <1>3, <1>4, <1>5, <1>6, <1>7

\* What is made of parts of W stays so with more of them, and can join them.
LEMMA StaysMade ==
  ASSUME NEW t, NEW W, NEW V, NEW types, W \subseteq V, MadeOf(t, W, types)
  PROVE  MadeOf(t, V, types)
  BY DEF MadeOf, KindsIn

LEMMA JoinsMade ==
  ASSUME NEW t, NEW W, NEW types, WellMade(W, types), MadeOf(t, W, types)
  PROVE  WellMade(W \cup {t}, types)
  BY StaysMade DEF WellMade

LEMMA PartsOfList ==
  ASSUME NEW W, NEW types, WellMade(W, types), NEW t \in W, t.tag = "list"
  PROVE  \A j \in DOMAIN t.kinds : t.kinds[j] \in KindsIn(W, types)
  <1>1. Range(t.kinds) \subseteq KindsIn(W, types)
    BY DEF WellMade, MadeOf, KindsIn
  <1>2. QED  BY <1>1 DEF Range

LEMMA PartsOfPrototype ==
  ASSUME NEW W, NEW types, WellMade(W, types), NEW t \in W, t.tag = "prototype"
  PROVE  /\ \A j \in DOMAIN t.params : t.params[j] \in KindsIn(W, types)
         /\ t.return \in KindsIn(W, types)
  <1>1. Range(t.params) \cup {t.return} \subseteq KindsIn(W, types)
    BY DEF WellMade, MadeOf, KindsIn
  <1>2. QED  BY <1>1 DEF Range

\* A kind or an integer is no list and no prototype.
LEMMA PlainIsNoList ==
  ASSUME NEW t, NEW types, TypeAmong(types, t) \in {KindType, IntegerType}
  PROVE  t.tag \notin {"list", "prototype"}
  <1>1. t.tag = "list" => TypeAmong(types, t) = PackType
    BY DEF TypeAmong
  <1>2. t.tag = "prototype" => TypeAmong(types, t) = PrototypeType
    BY DEF TypeAmong
  <1>3. QED  BY <1>1, <1>2, TypesDiffer

\* What the rules put together is made of its parts.
LEMMA MakesRef ==
  ASSUME NEW o \in RefOps, NEW W, NEW types, NEW k \in KindsIn(W, types)
  PROVE  MadeOf(RefTo(o, k), W, types) /\ TypeAmong(types, RefTo(o, k)) = KindType
  <1>1. RefTo(o, k).tag = o /\ RefTo(o, k).inner = k
    BY DEF RefTo
  <1>2. o \notin {"template", "placeholder", "integer", "list", "prototype", "citizen"}
    BY DEF RefOps
  <1>3. TypeAmong(types, RefTo(o, k)) = KindType
    BY <1>1, <1>2 DEF TypeAmong
  <1>4. MadeOf(RefTo(o, k), W, types)
    BY <1>1, <1>2 DEF MadeOf, KindsIn
  <1>5. QED  BY <1>3, <1>4

LEMMA MakesList ==
  ASSUME NEW ks, NEW W, NEW types, \A j \in DOMAIN ks : ks[j] \in KindsIn(W, types)
  PROVE  MadeOf(KindListOf(ks), W, types) /\ TypeAmong(types, KindListOf(ks)) = PackType
  <1>1. KindListOf(ks).tag = "list" /\ KindListOf(ks).kinds = ks
    BY DEF KindListOf
  <1>2. TypeAmong(types, KindListOf(ks)) = PackType
    BY <1>1 DEF TypeAmong
  <1>3. Range(ks) \subseteq KindsIn(W, types)
    BY DEF Range
  <1>4. MadeOf(KindListOf(ks), W, types)
    BY <1>1, <1>3 DEF MadeOf, KindsIn, RefOps
  <1>5. QED  BY <1>2, <1>4

LEMMA MakesPrototype ==
  ASSUME NEW ks, NEW W, NEW types, \A j \in DOMAIN ks : ks[j] \in KindsIn(W, types),
         NEW k \in KindsIn(W, types)
  PROVE  MadeOf(Prototype(ks, k), W, types) /\ TypeAmong(types, Prototype(ks, k)) = PrototypeType
  <1>1. /\ Prototype(ks, k).tag = "prototype" /\ Prototype(ks, k).params = ks
        /\ Prototype(ks, k).return = k
    BY DEF Prototype
  <1>2. TypeAmong(types, Prototype(ks, k)) = PrototypeType
    BY <1>1 DEF TypeAmong
  <1>3. Range(ks) \cup {k} \subseteq KindsIn(W, types)
    BY DEF Range
  <1>4. MadeOf(Prototype(ks, k), W, types)
    BY <1>1, <1>3 DEF MadeOf, KindsIn, RefOps
  <1>5. QED  BY <1>2, <1>4

LEMMA MakesCitizen ==
  ASSUME NEW n \in DOMAIN TemplateParams, NEW as, NEW W, NEW types,
         \A j \in DOMAIN as :
           /\ j \in DOMAIN TemplateParams[n]
           /\ as[j] \in W /\ TypeAmong(types, as[j]) = TemplateParams[n][j]
  PROVE  MadeOf(Citizen(n, as), W, types) /\ TypeAmong(types, Citizen(n, as)) = KindType
  <1>1. Citizen(n, as).tag = "citizen" /\ Citizen(n, as).name = n /\ Citizen(n, as).args = as
    BY DEF Citizen
  <1>2. TypeAmong(types, Citizen(n, as)) = KindType
    BY <1>1 DEF TypeAmong
  <1>3. MadeOf(Citizen(n, as), W, types)
    BY <1>1 DEF MadeOf, RefOps
  <1>4. QED  BY <1>2, <1>3

-----------------------------------------------------------------------------
(* What a rule concludes of a rune                                         *)

\* The pairs of Concluded(rule), one at a time.
Concludes(rule, r, v) ==
  CASE rule.op \in LeafOps -> r = rule.result /\ v = rule.value
    [] rule.op = "Equals" ->
         IF Known(rule.left) THEN r = rule.right /\ v = conclusions[rule.left]
                             ELSE r = rule.left /\ v = conclusions[rule.right]
    [] rule.op \in RefOps ->
         IF KnownKind(rule.result)
         THEN r = rule.inner /\ v = conclusions[rule.result].inner
         ELSE r = rule.result /\ v = RefTo(rule.op, conclusions[rule.inner])
    [] rule.op = "KindList" ->
         IF Known(rule.result)
         THEN \E j \in DOMAIN rule.members \cap DOMAIN conclusions[rule.result].kinds :
                r = rule.members[j] /\ v = conclusions[rule.result].kinds[j]
         ELSE r = rule.result /\ v = KindListOf(ValuesOf(rule.members))
    [] rule.op = "Call" ->
         IF Known(rule.result)
         THEN \E j \in DOMAIN rule.args \cap DOMAIN conclusions[rule.result].args :
                r = rule.args[j] /\ v = conclusions[rule.result].args[j]
         ELSE r = rule.result /\ v = Applied(conclusions[rule.template], ValuesOf(rule.args))
    [] rule.op = "CallSiteFunc" ->
         \/ r = rule.params /\ v = KindListOf(conclusions[rule.result].params)
         \/ r = rule.return /\ v = conclusions[rule.result].return
    [] OTHER ->
         LET ps == conclusions[rule.params].kinds IN
         IF rule.op = "DefinitionFunc" \/ Known(rule.return)
         THEN r = rule.result /\ v = Prototype(ps, conclusions[rule.return])
         ELSE \/ r = rule.result /\ v = Prototype(ps, Overloads[ps])
              \/ r = rule.return /\ v = Overloads[ps]

LEMMA ListOfOne ==
  ASSUME NEW a, NEW v
  PROVE  LET pairs == << <<a, v>> >> IN
         /\ \E n \in Nat : DOMAIN pairs \subseteq 1..n
         /\ \A i \in DOMAIN pairs : pairs[i][1] = a /\ pairs[i][2] = v
  <1> DEFINE pairs == << <<a, v>> >>
  <1>1. DOMAIN pairs = 1..1 /\ pairs[1] = <<a, v>>
    OBVIOUS
  <1>2. QED  BY <1>1

LEMMA ListOfTwo ==
  ASSUME NEW a, NEW v, NEW b, NEW w
  PROVE  LET pairs == << <<a, v>>, <<b, w>> >> IN
         /\ \E n \in Nat : DOMAIN pairs \subseteq 1..n
         /\ \A i \in DOMAIN pairs : \/ pairs[i][1] = a /\ pairs[i][2] = v
                                    \/ pairs[i][1] = b /\ pairs[i][2] = w
  <1> DEFINE pairs == << <<a, v>>, <<b, w>> >>
  <1>1. DOMAIN pairs = 1..2 /\ pairs[1] = <<a, v>> /\ pairs[2] = <<b, w>>
    OBVIOUS
  <1>2. QED  BY <1>1

LEMMA ListOfZip ==
  ASSUME NEW runes \in Seq(Rune), NEW ts
  PROVE  LET pairs == ZipPairs(runes, ts) IN
         /\ \E n \in Nat : DOMAIN pairs \subseteq 1..n
         /\ \A i \in DOMAIN pairs : /\ i \in DOMAIN runes \cap DOMAIN ts
                                    /\ pairs[i][1] = runes[i] /\ pairs[i][2] = ts[i]
  <1> DEFINE pairs == ZipPairs(runes, ts)
  <1>1. /\ DOMAIN pairs = DOMAIN runes \cap DOMAIN ts
        /\ \A i \in DOMAIN pairs : pairs[i] = <<runes[i], ts[i]>>
    BY DEF ZipPairs
  <1>2. DOMAIN pairs \subseteq 1..Len(runes) /\ Len(runes) \in Nat
    BY <1>1
  <1>3. QED  BY <1>1, <1>2

LEMMA ConcludedPairs ==
  ASSUME NEW rule \in Rule
  PROVE  /\ \E n \in Nat : DOMAIN Concluded(rule) \subseteq 1..n
         /\ \A i \in DOMAIN Concluded(rule) :
              Concludes(rule, Concluded(rule)[i][1], Concluded(rule)[i][2])
  <1> DEFINE pairs == Concluded(rule)
  <1>1. CASE rule.op \in LeafOps
    <2>1. pairs = << <<rule.result, rule.value>> >>
      BY <1>1 DEF Concluded, LeafOps, RefOps
    <2>2. QED  BY <1>1, <2>1, ListOfOne DEF Concludes, LeafOps, RefOps
  <1>2. CASE rule.op = "Equals"
    <2>1. pairs = EqualsConcluded(rule)
      BY <1>2 DEF Concluded, LeafOps, RefOps
    <2>2. QED  BY <1>2, <2>1, ListOfOne DEF EqualsConcluded, Concludes, LeafOps, RefOps
  <1>3. CASE rule.op \in RefOps
    <2>1. pairs = RefConcluded(rule)
      BY <1>3 DEF Concluded, LeafOps, RefOps
    <2>2. QED  BY <1>3, <2>1, ListOfOne DEF RefConcluded, Concludes, LeafOps, RefOps
  <1>4. CASE rule.op = "KindList"
    <2>1. pairs = KindListConcluded(rule) /\ rule.members \in Seq(Rune)
      BY <1>4, RulesAssumption DEF Concluded, LeafOps, RefOps
    <2>2. CASE Known(rule.result)
      <3>1. pairs = ZipPairs(rule.members, conclusions[rule.result].kinds)
        BY <2>1, <2>2 DEF KindListConcluded
      <3>2. QED  BY <1>4, <2>1, <2>2, <3>1, ListOfZip DEF Concludes, LeafOps, RefOps
    <2>3. CASE ~Known(rule.result)
      BY <1>4, <2>1, <2>3, ListOfOne DEF KindListConcluded, Concludes, LeafOps, RefOps
    <2>4. QED  BY <2>2, <2>3
  <1>5. CASE rule.op = "Call"
    <2>1. pairs = CallConcluded(rule) /\ rule.args \in Seq(Rune)
      BY <1>5, RulesAssumption DEF Concluded, LeafOps, RefOps
    <2>2. CASE Known(rule.result)
      <3>1. pairs = ZipPairs(rule.args, conclusions[rule.result].args)
        BY <2>1, <2>2 DEF CallConcluded
      <3>2. QED  BY <1>5, <2>1, <2>2, <3>1, ListOfZip DEF Concludes, LeafOps, RefOps
    <2>3. CASE ~Known(rule.result)
      BY <1>5, <2>1, <2>3, ListOfOne DEF CallConcluded, Concludes, LeafOps, RefOps
    <2>4. QED  BY <2>2, <2>3
  <1>6. CASE rule.op = "CallSiteFunc"
    <2>1. pairs = CallSiteFuncConcluded(rule)
      BY <1>6 DEF Concluded, LeafOps, RefOps
    <2>2. QED  BY <1>6, <2>1, ListOfTwo DEF CallSiteFuncConcluded, Concludes, LeafOps, RefOps
  <1>7. CASE rule.op \in {"DefinitionFunc", "Resolve"}
    <2> DEFINE ps == conclusions[rule.params].kinds
    <2>0. rule.op \notin LeafOps \cup RefOps \cup {"Equals", "KindList", "Call", "CallSiteFunc"}
      BY <1>7 DEF LeafOps, RefOps
    <2>1. CASE rule.op = "DefinitionFunc" \/ Known(rule.return)
      <3>1. pairs = << <<rule.result, Prototype(ps, conclusions[rule.return])>> >>
        BY <1>7, <2>1 DEF Concluded, Resolved, Predicted, LeafOps, RefOps
      <3>2. \A i \in DOMAIN pairs :
              pairs[i][1] = rule.result /\ pairs[i][2] = Prototype(ps, conclusions[rule.return])
        BY <3>1, ListOfOne
      <3>3. \E n \in Nat : DOMAIN pairs \subseteq 1..n
        BY <3>1, ListOfOne
      <3> HIDE DEF pairs
      <3>4. \A i \in DOMAIN pairs : Concludes(rule, pairs[i][1], pairs[i][2])
        BY <2>0, <2>1, <3>2 DEF Concludes
      <3>5. QED  BY <3>3, <3>4 DEF pairs
    <2>2. CASE rule.op = "Resolve" /\ ~Known(rule.return)
      <3>1. pairs = << <<rule.result, Prototype(ps, Overloads[ps])>>, <<rule.return, Overloads[ps]>> >>
        BY <2>2 DEF Concluded, Resolved, LeafOps, RefOps
      <3>2. \A i \in DOMAIN pairs :
              \/ pairs[i][1] = rule.result /\ pairs[i][2] = Prototype(ps, Overloads[ps])
              \/ pairs[i][1] = rule.return /\ pairs[i][2] = Overloads[ps]
        BY <3>1, ListOfTwo
      <3>3. \E n \in Nat : DOMAIN pairs \subseteq 1..n
        BY <3>1, ListOfTwo
      <3> HIDE DEF pairs
      <3>4. \A i \in DOMAIN pairs : Concludes(rule, pairs[i][1], pairs[i][2])
        BY <2>0, <2>2, <3>2 DEF Concludes
      <3>5. QED  BY <3>3, <3>4 DEF pairs
    <2>3. QED  BY <1>7, <2>1, <2>2
  <1>8. QED
    BY <1>1, <1>2, <1>3, <1>4, <1>5, <1>6, <1>7, RulesAssumption

\* W is well made and has what was given and what was concluded.
Founded(W) == Givens \subseteq W /\ WellMade(W, prog.types) /\ Range(conclusions) \subseteq W

LEMMA FoundedOn ==
  ASSUME NEW W, Founded(W), NEW r, Known(r)
  PROVE  /\ conclusions[r] \in W
         /\ MadeOf(conclusions[r], W, prog.types)
         /\ IsKind(conclusions[r]) => conclusions[r] \in KindsIn(W, prog.types)
  BY DEF Founded, Known, IsKind, TypeOf, KindsIn, WellMade, Range

\* A rule that may fire: one of its puzzles is met, and its arm neither refuses
\* nor panics.
MayFire(rule) ==
  /\ \E puzzle \in get_puzzles(rule) : puzzle \subseteq DOMAIN conclusions
  /\ ~RuleError(rule) /\ ~RulePanics(rule)

\* What the arms have checked of what they take apart and put together.
LEMMA ArmsCheck ==
  ASSUME NEW rule \in Rule, MayFire(rule)
  PROVE  /\ rule.op \in LeafOps => rule.op \in {"Lookup", "Literal"}
         /\ rule.op = "Equals" => Known(rule.left) \/ Known(rule.right)
         /\ rule.op \in RefOps =>
              IF KnownKind(rule.result) THEN conclusions[rule.result].tag = rule.op
                                        ELSE KnownKind(rule.inner)
         /\ rule.op = "KindList" =>
              IF Known(rule.result)
              THEN /\ conclusions[rule.result].tag = "list"
                   /\ DOMAIN conclusions[rule.result].kinds = DOMAIN rule.members
              ELSE \A j \in DOMAIN rule.members : KnownKind(rule.members[j])
         /\ rule.op = "Call" =>
              /\ Known(rule.template)
              /\ IF Known(rule.result)
                 THEN IsFromTemplate(conclusions[rule.result], conclusions[rule.template])
                 ELSE /\ \A j \in DOMAIN rule.args : Known(rule.args[j])
                      /\ MayBeApplied(conclusions[rule.template], ValuesOf(rule.args))
         /\ rule.op = "CallSiteFunc" =>
              Known(rule.result) /\ conclusions[rule.result].tag = "prototype"
         /\ rule.op \in {"DefinitionFunc", "Resolve"} =>
              /\ Known(rule.params) /\ conclusions[rule.params].tag = "list"
              /\ \/ KnownKind(rule.return)
                 \/ /\ rule.op = "Resolve" /\ ~Known(rule.return)
                    /\ conclusions[rule.params].kinds \in DOMAIN Overloads
  <1>1. CASE rule.op \in LeafOps
    BY <1>1 DEF MayFire, RulePanics, LeafOps, RefOps
  <1>2. CASE rule.op = "Equals"
    BY <1>2 DEF MayFire, get_puzzles, Known, LeafOps, RefOps
  <1>3. CASE rule.op \in RefOps
    BY <1>3 DEF MayFire, RuleError, RulePanics, RefPanics, LeafOps, RefOps
  <1>4. CASE rule.op = "KindList"
    <2>1. ~KindListPanics(rule)
      BY <1>4 DEF MayFire, RulePanics
    <2>2. ASSUME ~Known(rule.result), NEW j \in DOMAIN rule.members
          PROVE  KnownKind(rule.members[j])
      <3>1. Range(rule.members) \subseteq DOMAIN conclusions
        BY <1>4, <2>2 DEF MayFire, get_puzzles, Known, LeafOps, RefOps
      <3>2. QED  BY <2>1, <2>2, <3>1 DEF KindListPanics, KnownKind, Known, Range
    <2>3. QED  BY <1>4, <2>1, <2>2 DEF KindListPanics, LeafOps, RefOps
  <1>5. CASE rule.op = "Call"
    <2>1. ~CallPanics(rule)
      BY <1>5 DEF MayFire, RulePanics
    <2>2. Known(rule.template)
      BY <1>5 DEF MayFire, get_puzzles, Known, LeafOps, RefOps
    <2>3. ASSUME Known(rule.result)
          PROVE  IsFromTemplate(conclusions[rule.result], conclusions[rule.template])
      BY <1>5, <2>1, <2>3 DEF MayFire, CallPanics, RuleError, KnownKind, CallMismatch
    <2>4. ASSUME ~Known(rule.result)
          PROVE  /\ \A j \in DOMAIN rule.args : Known(rule.args[j])
                 /\ MayBeApplied(conclusions[rule.template], ValuesOf(rule.args))
      <3>1. Range(rule.args) \subseteq DOMAIN conclusions
        BY <1>5, <2>4 DEF MayFire, get_puzzles, Known, LeafOps, RefOps
      <3>2. QED  BY <2>1, <2>4, <3>1 DEF CallPanics, Known, Range
    <2>5. QED  BY <1>5, <2>2, <2>3, <2>4 DEF LeafOps, RefOps
  <1>6. CASE rule.op = "CallSiteFunc"
    BY <1>6 DEF MayFire, RuleError, get_puzzles, Known, LeafOps, RefOps
  <1>7. CASE rule.op \in {"DefinitionFunc", "Resolve"}
    <2>1. Known(rule.params)
      BY <1>7 DEF MayFire, get_puzzles, Known, LeafOps, RefOps
    <2>2. conclusions[rule.params].tag = "list" /\ (Known(rule.return) => KnownKind(rule.return))
      BY <1>7 DEF MayFire, RulePanics, FuncPanics, KnownKind
    <2>3. ASSUME ~Known(rule.return)
          PROVE  rule.op = "Resolve" /\ conclusions[rule.params].kinds \in DOMAIN Overloads
      <3>1. rule.op = "Resolve"
        BY <1>7, <2>3 DEF MayFire, get_puzzles, Known, LeafOps, RefOps
      <3>2. QED  BY <2>2, <2>3, <3>1 DEF MayFire, RuleError
    <2>4. QED  BY <1>7, <2>1, <2>2, <2>3 DEF LeafOps, RefOps
  <1>8. QED
    BY <1>1, <1>2, <1>3, <1>4, <1>5, <1>6, <1>7, RulesAssumption

-----------------------------------------------------------------------------
(* A conclusion is well made, of its rune's type and of its length         *)

\* What a rule puts together is made of what there was, whether or not it has
\* the type its rune was given.
LEMMA ConclusionIsMade ==
  ASSUME prog \in Programs, NEW rule \in Rule, NEW W, Founded(W), MayFire(rule),
         NEW r, NEW v, Concludes(rule, r, v)
  PROVE  MadeOf(v, W, prog.types)
  <1> DEFINE types == prog.types
             kinds == KindsIn(W, types)
  <1>a. /\ Givens \subseteq W /\ WellMade(W, types)
        /\ \A t \in W : MadeOf(t, W, types)
        /\ \A k \in kinds : k \in W
    BY DEF Founded, WellMade, KindsIn
  <1>b. \A q : KnownKind(q) => conclusions[q] \in kinds
    BY FoundedOn DEF KnownKind
  <1>c. \A q : Known(q) => conclusions[q] \in W
    BY FoundedOn
  <1> HIDE DEF kinds
  <1>1. CASE rule.op \in LeafOps
    <2>1. v = rule.value /\ rule.value \in Givens
      BY <1>1, GivensAssumption DEF Concludes, LeafOps, RefOps
    <2>2. QED  BY <1>a, <2>1
  <1>2. CASE rule.op = "Equals"
    <2>1. Known(rule.left) \/ Known(rule.right)
      BY <1>2, ArmsCheck
    <2>2. v \in W
      BY <1>2, <1>c, <2>1 DEF Concludes, LeafOps, RefOps
    <2>3. QED  BY <1>a, <2>2
  <1>3. CASE rule.op \in RefOps
    <2>1. CASE KnownKind(rule.result)
      <3> DEFINE t == conclusions[rule.result]
      <3>1. t.tag = rule.op /\ t \in W
        BY <1>3, <1>c, <2>1, ArmsCheck DEF KnownKind
      <3>2. t.inner \in kinds
        BY <1>3, <1>a, <3>1 DEF MadeOf, kinds
      <3>3. v = t.inner
        BY <1>3, <2>1 DEF Concludes, LeafOps, RefOps
      <3>4. QED  BY <1>a, <3>2, <3>3
    <2>2. CASE ~KnownKind(rule.result)
      <3>1. conclusions[rule.inner] \in kinds
        BY <1>3, <1>b, <2>2, ArmsCheck
      <3>2. v = RefTo(rule.op, conclusions[rule.inner])
        BY <1>3, <2>2 DEF Concludes, LeafOps, RefOps
      <3>3. QED  BY <1>3, <3>1, <3>2, MakesRef DEF kinds
    <2>3. QED  BY <2>1, <2>2
  <1>4. CASE rule.op = "KindList"
    <2>1. CASE Known(rule.result)
      <3> DEFINE t == conclusions[rule.result]
      <3>1. t \in W /\ t.tag = "list"
        BY <1>4, <1>c, <2>1, ArmsCheck
      <3>2. \A j \in DOMAIN t.kinds : t.kinds[j] \in kinds
        BY <1>a, <3>1, PartsOfList DEF kinds
      <3>3. \E j \in DOMAIN t.kinds : v = t.kinds[j]
        BY <1>4, <2>1 DEF Concludes, LeafOps, RefOps
      <3>4. QED  BY <1>a, <3>2, <3>3
    <2>2. CASE ~Known(rule.result)
      <3>1. \A j \in DOMAIN rule.members : conclusions[rule.members[j]] \in kinds
        BY <1>4, <1>b, <2>2, ArmsCheck
      <3>2. \A j \in DOMAIN ValuesOf(rule.members) : ValuesOf(rule.members)[j] \in kinds
        BY <3>1 DEF ValuesOf
      <3>3. v = KindListOf(ValuesOf(rule.members))
        BY <1>4, <2>2 DEF Concludes, LeafOps, RefOps
      <3>4. QED  BY <3>2, <3>3, MakesList DEF kinds
    <2>3. QED  BY <2>1, <2>2
  <1>5. CASE rule.op = "Call"
    <2> DEFINE template == conclusions[rule.template]
    <2>1. template \in W
      BY <1>5, <1>c, ArmsCheck
    <2>2. CASE Known(rule.result)
      <3> DEFINE t == conclusions[rule.result]
      <3>1. t \in W /\ t.tag = "citizen"
        BY <1>5, <1>c, <2>2, ArmsCheck DEF IsFromTemplate
      <3>2. \E j \in DOMAIN t.args : v = t.args[j]
        BY <1>5, <2>2 DEF Concludes, LeafOps, RefOps
      <3>3. \A j \in DOMAIN t.args : t.args[j] \in W
        BY <1>a, <3>1 DEF MadeOf
      <3>4. QED  BY <1>a, <3>2, <3>3
    <2>3. CASE ~Known(rule.result)
      <3> DEFINE values == ValuesOf(rule.args)
      <3>1. v = Applied(template, values)
        BY <1>5, <2>3 DEF Concludes, LeafOps, RefOps
      <3>2. MayBeApplied(template, values) /\ \A j \in DOMAIN rule.args : Known(rule.args[j])
        BY <1>5, <2>3, ArmsCheck
      <3>3. CASE template.tag # "template"
        BY <1>a, <2>1, <3>1, <3>3 DEF Applied
      <3>4. CASE template.tag = "template"
        <4> DEFINE n == template.name
                   as == [j \in DOMAIN values \cap DOMAIN TemplateParams[n] |-> values[j]]
        <4>1. v = Citizen(n, as)
          BY <3>1, <3>4 DEF Applied
        <4>2. n \in DOMAIN TemplateParams
          BY <1>a, <2>1, <3>4 DEF MadeOf
        <4>3. \A j \in DOMAIN values : values[j] \in W
          BY <1>c, <3>2 DEF ValuesOf
        <4>4. \A j \in DOMAIN TemplateParams[n] : TypeAmong(types, values[j]) = TemplateParams[n][j]
          BY <3>2, <3>4 DEF MayBeApplied, TypeOf
        <4>5. \A j \in DOMAIN as :
                /\ j \in DOMAIN TemplateParams[n]
                /\ as[j] \in W /\ TypeAmong(types, as[j]) = TemplateParams[n][j]
          BY <4>3, <4>4
        <4> HIDE DEF n, as
        <4>6. QED  BY <4>1, <4>2, <4>5, MakesCitizen
      <3>5. QED  BY <3>3, <3>4
    <2>4. QED  BY <2>2, <2>3
  <1>6. CASE rule.op = "CallSiteFunc"
    <2> DEFINE f == conclusions[rule.result]
    <2>1. f \in W /\ f.tag = "prototype"
      BY <1>6, <1>c, ArmsCheck
    <2>2. (\A j \in DOMAIN f.params : f.params[j] \in kinds) /\ f.return \in kinds
      BY <1>a, <2>1, PartsOfPrototype DEF kinds
    <2>3. v = KindListOf(f.params) \/ v = f.return
      BY <1>6 DEF Concludes, LeafOps, RefOps
    <2>4. QED  BY <1>a, <2>2, <2>3, MakesList DEF kinds
  <1>7. CASE rule.op \in {"DefinitionFunc", "Resolve"}
    <2> DEFINE ps == conclusions[rule.params].kinds
               k == IF rule.op = "DefinitionFunc" \/ Known(rule.return)
                    THEN conclusions[rule.return] ELSE Overloads[ps]
    <2>1. \A j \in DOMAIN ps : ps[j] \in kinds
      BY <1>7, <1>a, <1>c, ArmsCheck, PartsOfList DEF kinds
    <2>2. k \in kinds
      <3>1. CASE KnownKind(rule.return)
        BY <1>b, <3>1 DEF KnownKind
      <3>2. CASE rule.op = "Resolve" /\ ~Known(rule.return) /\ ps \in DOMAIN Overloads
        BY <1>a, <3>2, GivensAssumption DEF kinds, KindsIn
      <3>3. QED  BY <1>7, <3>1, <3>2, ArmsCheck
    <2>3. v = Prototype(ps, k) \/ v = k
      BY <1>7 DEF Concludes, LeafOps, RefOps
    <2>4. QED  BY <1>a, <2>1, <2>2, <2>3, MakesPrototype DEF kinds
  <1>8. QED
    BY <1>1, <1>2, <1>3, <1>4, <1>5, <1>6, <1>7, RulesAssumption

AgreesWith(T) == \A r \in DOMAIN conclusions \cap DOMAIN T : TypeOf(conclusions[r]) = T[r]

\* A rule that is typed concludes what is of its runes' types.
LEMMA ConclusionIsTyped ==
  ASSUME prog \in Programs, NEW rule \in Rule, NEW W, Founded(W), MayFire(rule),
         NEW r, NEW v, Concludes(rule, r, v),
         NEW T, AgreesWith(T), RuleTyped(rule, T, prog.types)
  PROVE  HasType(T, r, TypeAmong(prog.types, v))
  <1> DEFINE types == prog.types
             kinds == KindsIn(W, types)
  <1>a. WellMade(W, types) /\ \A t \in W : MadeOf(t, W, types)
    BY DEF Founded, WellMade
  <1>b. \A k \in kinds : TypeAmong(types, k) = KindType
    BY DEF KindsIn
  <1>c. \A q : Known(q) => conclusions[q] \in W
    BY FoundedOn
  <1>d. \A q \in DOMAIN T : Known(q) => TypeAmong(types, conclusions[q]) = T[q]
    BY DEF AgreesWith, Known, TypeOf
  <1> HIDE DEF kinds
  <1>1. CASE rule.op \in LeafOps
    <2>1. rule.op \in {"Lookup", "Literal"}
      BY <1>1, ArmsCheck
    <2>2. QED  BY <1>1, <2>1 DEF Concludes, RuleTyped, RefOps
  <1>2. CASE rule.op = "Equals"
    <2>1. Known(rule.left) \/ Known(rule.right)
      BY <1>2, ArmsCheck
    <2>2. rule.left \in DOMAIN T /\ HasType(T, rule.right, T[rule.left])
      BY <1>2 DEF RuleTyped, RefOps
    <2>3. QED  BY <1>2, <1>d, <2>1, <2>2 DEF Concludes, HasType, LeafOps, RefOps
  <1>3. CASE rule.op \in RefOps
    <2>1. HasType(T, rule.result, KindType) /\ HasType(T, rule.inner, KindType)
      BY <1>3 DEF RuleTyped, RefOps
    <2>2. CASE KnownKind(rule.result)
      <3> DEFINE t == conclusions[rule.result]
      <3>1. t.tag = rule.op /\ t \in W
        BY <1>3, <1>c, <2>2, ArmsCheck DEF KnownKind
      <3>2. t.inner \in kinds
        BY <1>3, <1>a, <3>1 DEF MadeOf, kinds
      <3>3. r = rule.inner /\ v = t.inner
        BY <1>3, <2>2 DEF Concludes, LeafOps, RefOps
      <3>4. QED  BY <1>b, <2>1, <3>2, <3>3
    <2>3. CASE ~KnownKind(rule.result)
      <3>1. conclusions[rule.inner] \in kinds
        BY <1>3, <2>3, ArmsCheck, FoundedOn DEF KnownKind, kinds
      <3>2. r = rule.result /\ v = RefTo(rule.op, conclusions[rule.inner])
        BY <1>3, <2>3 DEF Concludes, LeafOps, RefOps
      <3>3. TypeAmong(types, v) = KindType
        BY <1>3, <3>1, <3>2, MakesRef DEF kinds
      <3>4. QED  BY <2>1, <3>2, <3>3
    <2>4. QED  BY <2>2, <2>3
  <1>4. CASE rule.op = "KindList"
    <2>1. /\ HasType(T, rule.result, PackType)
          /\ \A j \in DOMAIN rule.members : HasType(T, rule.members[j], KindType)
      BY <1>4 DEF RuleTyped, RefOps
    <2>2. CASE Known(rule.result)
      <3> DEFINE t == conclusions[rule.result]
      <3>1. t \in W /\ t.tag = "list"
        BY <1>4, <1>c, <2>2, ArmsCheck
      <3>2. \A j \in DOMAIN t.kinds : t.kinds[j] \in kinds
        BY <1>a, <3>1, PartsOfList DEF kinds
      <3>3. \E j \in DOMAIN rule.members \cap DOMAIN t.kinds : r = rule.members[j] /\ v = t.kinds[j]
        BY <1>4, <2>2 DEF Concludes, LeafOps, RefOps
      <3>4. QED  BY <1>b, <2>1, <3>2, <3>3
    <2>3. CASE ~Known(rule.result)
      <3>1. r = rule.result /\ v = KindListOf(ValuesOf(rule.members))
        BY <1>4, <2>3 DEF Concludes, LeafOps, RefOps
      <3>2. v.tag = "list"
        BY <3>1 DEF KindListOf
      <3>3. QED  BY <2>1, <3>1, <3>2 DEF TypeAmong
    <2>4. QED  BY <2>2, <2>3
  <1>5. CASE rule.op = "Call"
    <2> DEFINE ts == T[rule.template].params
               template == conclusions[rule.template]
    <2>1. /\ rule.template \in DOMAIN T /\ HasType(T, rule.result, KindType)
          /\ \A j \in DOMAIN rule.args \cap DOMAIN ts : HasType(T, rule.args[j], ts[j])
      BY <1>5 DEF RuleTyped, RefOps
    <2>2. template \in W /\ TypeAmong(types, template) = T[rule.template]
      BY <1>5, <1>c, <1>d, <2>1, ArmsCheck
    <2>3. template.tag = "template" => ts = TemplateParams[template.name]
      <3>1. template.tag = "template" => TypeAmong(types, template) = TemplateOf(TemplateParams[template.name])
        BY DEF TypeAmong
      <3>2. QED  BY <2>2, <3>1, TypesDiffer
    <2>4. CASE Known(rule.result)
      <3> DEFINE t == conclusions[rule.result]
      <3>1. t \in W /\ IsFromTemplate(t, template)
        BY <1>5, <1>c, <2>4, ArmsCheck
      <3>2. t.tag = "citizen" /\ template.tag = "template" /\ t.name = template.name
        BY <3>1 DEF IsFromTemplate
      <3>3. \A j \in DOMAIN t.args : j \in DOMAIN ts /\ TypeAmong(types, t.args[j]) = ts[j]
        BY <1>a, <2>3, <3>1, <3>2 DEF MadeOf
      <3>4. \E j \in DOMAIN rule.args \cap DOMAIN t.args : r = rule.args[j] /\ v = t.args[j]
        BY <1>5, <2>4 DEF Concludes, LeafOps, RefOps
      <3>5. QED  BY <2>1, <3>3, <3>4
    <2>5. CASE ~Known(rule.result)
      <3> DEFINE values == ValuesOf(rule.args)
      <3>1. r = rule.result /\ v = Applied(template, values)
        BY <1>5, <2>5 DEF Concludes, LeafOps, RefOps
      <3>2. MayBeApplied(template, values)
        BY <1>5, <2>5, ArmsCheck
      <3>3. CASE template.tag # "template"
        BY <2>1, <3>1, <3>2, <3>3 DEF Applied, MayBeApplied, IsKind, TypeOf
      <3>4. CASE template.tag = "template"
        <4>1. v.tag = "citizen"
          BY <3>1, <3>4 DEF Applied, Citizen
        <4>2. QED  BY <2>1, <3>1, <4>1 DEF TypeAmong
      <3>5. QED  BY <3>3, <3>4
    <2>6. QED  BY <2>4, <2>5
  <1>6. CASE rule.op \in {"CallSiteFunc", "DefinitionFunc", "Resolve"}
    <2>1. /\ HasType(T, rule.result, PrototypeType) /\ HasType(T, rule.params, PackType)
          /\ HasType(T, rule.return, KindType)
      BY <1>6 DEF RuleTyped, RefOps
    <2>2. CASE rule.op = "CallSiteFunc"
      <3> DEFINE f == conclusions[rule.result]
      <3>1. f \in W /\ f.tag = "prototype"
        BY <1>c, <2>2, ArmsCheck
      <3>2. f.return \in kinds
        BY <1>a, <3>1, PartsOfPrototype DEF kinds
      <3>3. \/ r = rule.params /\ v = KindListOf(f.params)
            \/ r = rule.return /\ v = f.return
        BY <2>2 DEF Concludes, LeafOps, RefOps
      <3>4. TypeAmong(types, KindListOf(f.params)) = PackType
        BY DEF KindListOf, TypeAmong
      <3>5. QED  BY <1>b, <2>1, <3>2, <3>3, <3>4
    <2>3. CASE rule.op \in {"DefinitionFunc", "Resolve"}
      <3> DEFINE ps == conclusions[rule.params].kinds
      <3>1. \A k : TypeAmong(types, Prototype(ps, k)) = PrototypeType
        BY DEF Prototype, TypeAmong
      <3>2. CASE r = rule.result /\ \E k : v = Prototype(ps, k)
        BY <2>1, <3>1, <3>2
      <3>3. CASE r = rule.return /\ v = Overloads[ps] /\ rule.op = "Resolve" /\ ~Known(rule.return)
        <4>1. ps \in DOMAIN Overloads
          BY <2>3, <3>3, ArmsCheck DEF KnownKind
        <4>2. TypeAmong(types, v) = KindType
          BY <3>3, <4>1, GivensAssumption
        <4>3. QED  BY <2>1, <3>3, <4>2
      <3>4. QED  BY <2>3, <3>2, <3>3 DEF Concludes, LeafOps, RefOps
    <2>4. QED  BY <1>6, <2>2, <2>3
  <1>7. QED
    BY <1>1, <1>2, <1>3, <1>4, <1>5, <1>6, RulesAssumption

\* A list's or a prototype's length, as the set of its indexes.
OfLength(t, n) == /\ t.tag = "list" => DOMAIN t.kinds = n
                  /\ t.tag = "prototype" => DOMAIN t.params = n

\* N gives the runes of lists and prototypes a length, as the rules want them: a
\* list has its members, and a prototype a parameter for each kind of its list.
RuleMeasured(rule, N) ==
  /\ rule.op = "Equals" => N[rule.left] = N[rule.right]
  /\ rule.op = "KindList" => N[rule.result] = DOMAIN rule.members
  /\ rule.op \in {"CallSiteFunc", "DefinitionFunc", "Resolve"} => N[rule.params] = N[rule.result]

Measures(N) == \A i \in DOMAIN rules : RuleMeasured(rules[i], N)

LengthsAgree(N) == \A r \in DOMAIN conclusions : OfLength(conclusions[r], N[r])

LEMMA ConclusionIsMeasured ==
  ASSUME prog \in Programs, NEW rule \in Rule, NEW W, Founded(W), MayFire(rule),
         NEW r, NEW v, Concludes(rule, r, v),
         NEW N, LengthsAgree(N), RuleMeasured(rule, N)
  PROVE  OfLength(v, N[r])
  <1> DEFINE types == prog.types
             kinds == KindsIn(W, types)
  <1>a. WellMade(W, types) /\ \A t \in W : MadeOf(t, W, types)
    BY DEF Founded, WellMade
  <1>b. \A t : t.tag \notin {"list", "prototype"} => OfLength(t, N[r])
    BY DEF OfLength
  <1>c. \A t : TypeAmong(types, t) \in {KindType, IntegerType} => OfLength(t, N[r])
    BY <1>b, PlainIsNoList
  <1>d. \A k \in kinds : OfLength(k, N[r])
    BY <1>c DEF KindsIn
  <1>e. \A q : Known(q) => conclusions[q] \in W
    BY FoundedOn
  <1> HIDE DEF kinds
  <1>1. CASE rule.op \in LeafOps
    <2>1. v = rule.value /\ rule.value \in Givens
      BY <1>1, GivensAssumption DEF Concludes, LeafOps, RefOps
    <2>2. QED  BY <1>b, <2>1, GivensAssumption
  <1>2. CASE rule.op = "Equals"
    <2>1. Known(rule.left) \/ Known(rule.right)
      BY <1>2, ArmsCheck
    <2>2. N[rule.left] = N[rule.right]
      BY <1>2 DEF RuleMeasured
    <2>3. QED  BY <1>2, <2>1, <2>2 DEF Concludes, LengthsAgree, Known, LeafOps, RefOps
  <1>3. CASE rule.op \in RefOps
    <2>1. CASE KnownKind(rule.result)
      <3> DEFINE t == conclusions[rule.result]
      <3>1. t.tag = rule.op /\ t \in W
        BY <1>3, <1>e, <2>1, ArmsCheck DEF KnownKind
      <3>2. t.inner \in kinds
        BY <1>3, <1>a, <3>1 DEF MadeOf, kinds
      <3>3. v = t.inner
        BY <1>3, <2>1 DEF Concludes, LeafOps, RefOps
      <3>4. QED  BY <1>d, <3>2, <3>3
    <2>2. CASE ~KnownKind(rule.result)
      <3>1. v.tag \in RefOps
        BY <1>3, <2>2 DEF Concludes, RefTo, LeafOps, RefOps
      <3>2. QED  BY <1>b, <3>1 DEF RefOps
    <2>3. QED  BY <2>1, <2>2
  <1>4. CASE rule.op = "KindList"
    <2>1. CASE Known(rule.result)
      <3> DEFINE t == conclusions[rule.result]
      <3>1. t \in W /\ t.tag = "list"
        BY <1>4, <1>e, <2>1, ArmsCheck
      <3>2. \A j \in DOMAIN t.kinds : t.kinds[j] \in kinds
        BY <1>a, <3>1, PartsOfList DEF kinds
      <3>3. \E j \in DOMAIN t.kinds : v = t.kinds[j]
        BY <1>4, <2>1 DEF Concludes, LeafOps, RefOps
      <3>4. QED  BY <1>d, <3>2, <3>3
    <2>2. CASE ~Known(rule.result)
      <3>1. r = rule.result /\ v = KindListOf(ValuesOf(rule.members))
        BY <1>4, <2>2 DEF Concludes, LeafOps, RefOps
      <3>2. DOMAIN ValuesOf(rule.members) = DOMAIN rule.members
        BY DEF ValuesOf
      <3>3. QED  BY <1>4, <3>1, <3>2 DEF OfLength, KindListOf, RuleMeasured
    <2>3. QED  BY <2>1, <2>2
  <1>5. CASE rule.op = "Call"
    <2> DEFINE template == conclusions[rule.template]
    <2>1. CASE Known(rule.result)
      <3> DEFINE t == conclusions[rule.result]
      <3>1. t \in W /\ t.tag = "citizen"
        BY <1>5, <1>e, <2>1, ArmsCheck DEF IsFromTemplate
      <3>2. t.name \in DOMAIN TemplateParams /\ TemplateParams[t.name] \in Seq({KindType, IntegerType})
        BY <1>a, <3>1, TemplatesAssumption DEF MadeOf
      <3>3. \A j \in DOMAIN TemplateParams[t.name] : TemplateParams[t.name][j] \in {KindType, IntegerType}
        BY <3>2
      <3>4. \A j \in DOMAIN t.args : TypeAmong(types, t.args[j]) \in {KindType, IntegerType}
        BY <1>a, <3>1, <3>3 DEF MadeOf
      <3>5. \E j \in DOMAIN t.args : v = t.args[j]
        BY <1>5, <2>1 DEF Concludes, LeafOps, RefOps
      <3>6. QED  BY <1>c, <3>4, <3>5
    <2>2. CASE ~Known(rule.result)
      <3> DEFINE values == ValuesOf(rule.args)
      <3>1. v = Applied(template, values)
        BY <1>5, <2>2 DEF Concludes, LeafOps, RefOps
      <3>2. MayBeApplied(template, values)
        BY <1>5, <2>2, ArmsCheck
      <3>3. CASE template.tag # "template"
        BY <1>c, <3>1, <3>2, <3>3 DEF Applied, MayBeApplied, IsKind, TypeOf
      <3>4. CASE template.tag = "template"
        <4>1. v.tag = "citizen"
          BY <3>1, <3>4 DEF Applied, Citizen
        <4>2. QED  BY <1>b, <4>1
      <3>5. QED  BY <3>3, <3>4
    <2>3. QED  BY <2>1, <2>2
  <1>6. CASE rule.op = "CallSiteFunc"
    <2> DEFINE f == conclusions[rule.result]
    <2>1. f \in W /\ f.tag = "prototype" /\ Known(rule.result)
      BY <1>6, <1>e, ArmsCheck
    <2>2. f.return \in kinds
      BY <1>a, <2>1, PartsOfPrototype DEF kinds
    <2>3. DOMAIN f.params = N[rule.result] /\ N[rule.params] = N[rule.result]
      BY <1>6, <2>1 DEF LengthsAgree, OfLength, RuleMeasured, Known
    <2>4. CASE r = rule.params /\ v = KindListOf(f.params)
      BY <2>3, <2>4 DEF OfLength, KindListOf
    <2>5. CASE v = f.return
      BY <1>d, <2>2, <2>5
    <2>6. QED  BY <1>6, <2>4, <2>5 DEF Concludes, LeafOps, RefOps
  <1>7. CASE rule.op \in {"DefinitionFunc", "Resolve"}
    <2> DEFINE ps == conclusions[rule.params].kinds
    <2>1. Known(rule.params) /\ conclusions[rule.params].tag = "list"
      BY <1>7, ArmsCheck
    <2>2. DOMAIN ps = N[rule.result]
      BY <1>7, <2>1 DEF LengthsAgree, OfLength, RuleMeasured, Known
    <2>3. CASE r = rule.result /\ \E k : v = Prototype(ps, k)
      BY <2>2, <2>3 DEF OfLength, Prototype
    <2>4. CASE v = Overloads[ps] /\ rule.op = "Resolve" /\ ~Known(rule.return)
      <3>1. ps \in DOMAIN Overloads
        BY <1>7, <2>4, ArmsCheck DEF KnownKind
      <3>2. QED  BY <1>c, <2>4, <3>1, GivensAssumption
    <2>5. QED  BY <1>7, <2>3, <2>4 DEF Concludes, LeafOps, RefOps
  <1>8. QED
    BY <1>1, <1>2, <1>3, <1>4, <1>5, <1>6, <1>7, RulesAssumption

-----------------------------------------------------------------------------
(* Every conclusion has the type its rune was given *)

\* What is on file after a step was there before or is of its list, also when the
\* step conflicts.
LEMMA FiledByCommit ==
  ASSUME NEW solved, NEW pairs, NEW newRules, NEW newPuzzles, NEW newRunes,
         commit_step(solved, pairs, newRules, newPuzzles, newRunes),
         NEW n \in Nat, DOMAIN pairs \subseteq 1..n, NEW r \in DOMAIN conclusions'
  PROVE  \/ Known(r) /\ conclusions'[r] = conclusions[r]
         \/ \E i \in DOMAIN pairs : pairs[i][1] = r /\ pairs[i][2] = conclusions'[r]
  <1>1. CASE r \in Inserted(pairs)
    <2>1. conclusions'[r] = MapValue(pairs, r) /\ r \in MapRunes(pairs)
      BY <1>1 DEF commit_step, WithInserted, Inserted
    <2>2. QED  BY <2>1, ValueIsOfList
  <1>2. CASE r \notin Inserted(pairs)
    BY <1>2 DEF commit_step, WithInserted, Known
  <1>3. QED  BY <1>1, <1>2

\* T has a type for each rune of a rule the typing did not see, those of a
\* default and those a call sends, and the rule is typed; a rule it saw names no
\* rune twice.
RuleGranted(rule, T) ==
  IF rule \in Range(prog.header) THEN NamesOnce(rule) ELSE RuleTyped(rule, T, prog.types)

Granted(T) ==
  /\ Extends(T, rune_to_type)
  /\ \A i \in DOMAIN rules : RuleGranted(rules[i], T)

\* Until the typing is over the solve has not begun.  All that is ever concluded
\* is well made, and of the types of any T that is granted and the lengths of any
\* N that measures the rules.
TypesAgree ==
  /\ typing \in {"running", "typed"} =>
       \A r \in DOMAIN prog.types : HasType(rune_to_type, r, prog.types[r])
  /\ typing # "typed" => conclusions = prog.knowns /\ phase = "continuing"
  /\ \E W : Founded(W)
  /\ typing = "typed" => \A T : Granted(T) => AgreesWith(T)
  /\ \A N : Measures(N) => LengthsAgree(N)

\* The parts of what is concluded may join what there is.
LEMMA StaysFounded ==
  ASSUME prog' = prog, NEW W, Founded(W),
         \A r \in DOMAIN conclusions' :
           \/ Known(r) /\ conclusions'[r] = conclusions[r]
           \/ MadeOf(conclusions'[r], W, prog.types)
  PROVE  \E V : Founded(V)'
  <1>1. PICK V : V = W \cup Range(conclusions')
    OBVIOUS
  <1>2. Givens \subseteq V /\ Range(conclusions') \subseteq V
    BY <1>1 DEF Founded
  <1>3. ASSUME NEW t \in V
        PROVE  MadeOf(t, V, prog.types)
    <2>1. MadeOf(t, W, prog.types)
      BY <1>1, <1>3, FoundedOn DEF Range, Founded, WellMade
    <2>2. QED  BY <1>1, <2>1, StaysMade
  <1>4. WellMade(V, prog.types)
    BY <1>3 DEF WellMade
  <1>5. Founded(V)'
    BY <1>2, <1>4 DEF Founded
  <1>6. QED  BY <1>5

LEMMA GrantedBefore ==
  ASSUME prog' = prog, rune_to_type' = rune_to_type,
         \A i \in DOMAIN rules : i \in DOMAIN rules' /\ rules'[i] = rules[i],
         NEW T, Granted(T)'
  PROVE  Granted(T)
  <1>1. Extends(T, rune_to_type)
    BY DEF Granted, Extends
  <1>2. \A i \in DOMAIN rules' : RuleGranted(rules'[i], T)
    BY DEF Granted, RuleGranted, NamesOnce, Injective, RuleTyped, HasType
  <1>3. QED  BY <1>1, <1>2 DEF Granted

LEMMA MeasuredBefore ==
  ASSUME \A i \in DOMAIN rules : i \in DOMAIN rules' /\ rules'[i] = rules[i],
         NEW N, Measures(N)'
  PROVE  Measures(N)
  BY DEF Measures, RuleMeasured

LEMMA TypesAgreeInit == TypedInit => TypesAgree
  <1> SUFFICES ASSUME TypedInit  PROVE TypesAgree
    OBVIOUS
  <1>1. /\ conclusions = prog.knowns /\ rune_to_type = InitiallyKnownTypes
        /\ typing \in {"failed", "running"} /\ phase = "continuing" /\ prog \in Programs
    BY DEF TypedInit, Init, make_solver_state, Typer!make_solver_state
  <1>2. \A r \in DOMAIN prog.types : HasType(rune_to_type, r, prog.types[r])
    BY <1>1 DEF InitiallyKnownTypes, HasType
  <1>3. Founded(Givens)
    BY <1>1, GivensAssumption DEF Founded
  <1>4. ASSUME NEW N
        PROVE  LengthsAgree(N)
    <2>1. \A r \in DOMAIN conclusions : conclusions[r] \in Givens
      BY <1>3, <1>1, GivensAssumption DEF Range
    <2>2. QED  BY <2>1, GivensAssumption DEF LengthsAgree, OfLength
  <1>5. QED  BY <1>1, <1>2, <1>3, <1>4 DEF TypesAgree

\* What a typing step leaves alone.
LEMMA SolveUntouched ==
  ASSUME TypesAgree, UNCHANGED vars
  PROVE  /\ \E W : Founded(W)'
         /\ \A N : Measures(N)' => LengthsAgree(N)'
  <1>1. prog' = prog /\ conclusions' = conclusions /\ rules' = rules
    BY DEF vars, stateVars
  <1>2. PICK W : Founded(W)
    BY DEF TypesAgree
  <1>3. Founded(W)'
    BY <1>1, <1>2 DEF Founded
  <1>4. ASSUME NEW N, Measures(N)'
        PROVE  LengthsAgree(N)'
    BY <1>1, <1>4 DEF TypesAgree, Measures, RuleMeasured, LengthsAgree, OfLength
  <1>5. QED  BY <1>3, <1>4

LEMMA SolveTypeRuleAgrees == TypedInv /\ TypesAgree /\ SolveTypeRule => TypesAgree'
  <1> SUFFICES ASSUME TypedInv, TypesAgree, SolveTypeRule  PROVE TypesAgree'
    OBVIOUS
  <1> DEFINE pairs == TypesConcluded(NextToType)
  <1>1. /\ typing = "running" /\ prog' = prog /\ conclusions' = conclusions /\ phase' = phase
        /\ UNCHANGED vars
        /\ Typer!Solvable # {}
        /\ rune_to_type' = Typer!WithInserted(pairs)
        /\ typing' = IF Typer!Conflicts(pairs) = {} THEN "running" ELSE "failed"
    BY DEF SolveTypeRule, vars, stateVars, Typer!commit_step
  <1>2. /\ \E W : Founded(W)'
        /\ \A N : Measures(N)' => LengthsAgree(N)'
    BY <1>1, SolveUntouched
  <1>3. CASE Typer!Conflicts(pairs) # {}
    BY <1>1, <1>2, <1>3 DEF TypesAgree
  <1>4. CASE Typer!Conflicts(pairs) = {}
    <2>1. /\ Typer!get_next_solvable \in DOMAIN prog.header
          /\ \E puzzle \in get_rune_typing_puzzles(NextToType) : puzzle \subseteq DOMAIN rune_to_type
      BY <1>1, NextTypeRule
    <2>2. DOMAIN pairs \subseteq Nat
      BY <2>1, ConcludedAreTypes DEF TypedInv, NextToType
    <2>3. Extends(rune_to_type', rune_to_type)
      BY <1>1, <1>4, <2>2, TypesInsertAll
    <2>4. \A r \in DOMAIN prog.types : HasType(rune_to_type', r, prog.types[r])
      BY <1>1, <2>3 DEF TypesAgree, HasType, Extends
    <2>5. QED  BY <1>1, <1>2, <1>4, <2>4 DEF TypesAgree, HasType
  <1>5. QED  BY <1>3, <1>4

\* The assert on the types of the knowns is what the solve starts from.
LEMMA FinishTypingAgrees == TypedInv /\ TypeOK /\ TypesAgree /\ FinishTyping => TypesAgree'
  <1> SUFFICES ASSUME TypedInv, TypeOK, TypesAgree, FinishTyping  PROVE TypesAgree'
    OBVIOUS
  <1>1. /\ typing = "running" /\ prog' = prog /\ conclusions' = conclusions /\ rules' = rules
        /\ conclusions = prog.knowns /\ phase = "continuing" /\ phase' = phase /\ UNCHANGED vars
    BY DEF FinishTyping, vars, stateVars, TypesAgree
  <1>2. /\ \E W : Founded(W)'
        /\ \A N : Measures(N)' => LengthsAgree(N)'
    BY <1>1, SolveUntouched
  <1>3. CASE typing' # "typed"
    <2>1. typing' \in {"failed", "panicked"}
      BY <1>3 DEF FinishTyping
    <2>2. QED  BY <1>1, <1>2, <2>1 DEF TypesAgree
  <1>4. CASE typing' = "typed"
    <2>1. /\ Typer!get_unsolved_runes = {} /\ KnownsFit(rune_to_type')
          /\ rune_to_type' = [ r \in DOMAIN rune_to_type \cup prog.senders |->
                                 IF r \in prog.senders THEN KindType ELSE rune_to_type[r] ]
      BY <1>4 DEF FinishTyping
    <2>2. prog \in Programs /\ HeaderInput(prog)
      BY HeadersAssumption DEF TypedInv
    <2>3. \A r \in DOMAIN prog.types : HasType(rune_to_type', r, prog.types[r])
      BY <1>1, <2>1, <2>2 DEF TypesAgree, HasType, HeaderInput
    <2>4. TypedRunes \subseteq DOMAIN rune_to_type
      BY <2>1 DEF Typer!get_unsolved_runes
    <2>5. DOMAIN prog.knowns \subseteq DOMAIN rune_to_type'
      BY <2>1, <2>2, <2>4 DEF HeaderInput, TypedRunes, TypeOK, SolveInput
    <2>6. ASSUME NEW T, Granted(T)'
          PROVE  AgreesWith(T)'
      <3>1. Extends(T, rune_to_type')
        BY <2>6 DEF Granted, Extends
      <3>2. \A r \in DOMAIN prog.knowns : TypeOf(prog.knowns[r]) = rune_to_type'[r]
        BY <2>1 DEF KnownsFit
      <3>3. \A r \in DOMAIN prog.knowns : TypeOf(prog.knowns[r]) = T[r]
        BY <2>5, <3>1, <3>2 DEF Extends
      <3>4. QED  BY <1>1, <3>3 DEF AgreesWith, TypeOf
    <2>7. QED  BY <1>1, <1>2, <1>4, <2>3, <2>6 DEF TypesAgree, HasType
  <1>5. QED  BY <1>3, <1>4

\* Rules only join the solve.
LEMMA RulesStay ==
  ASSUME TypeOK, SolveRule \/ AddDefault \/ AddPlaceholder
  PROVE  /\ prog' = prog
         /\ \A i \in DOMAIN rules : i \in DOMAIN rules' /\ rules'[i] = rules[i]
  <1>0. StateOK /\ SolveInput(prog) /\ <<>> \in Seq(Rule)
    BY DEF TypeOK, StateOK
  <1>1. CASE SolveRule
    BY <1>0, <1>1, CommitKeepsRules DEF SolveRule
  <1>2. CASE AddDefault
    BY <1>0, <1>2, CommitKeepsRules, FirstDefault DEF AddDefault
  <1>3. CASE AddPlaceholder
    BY <1>0, <1>3, CommitKeepsRules DEF AddPlaceholder
  <1>4. QED  BY <1>1, <1>2, <1>3

\* What is on file after a rule has fired was there before or is a conclusion of
\* the rule.
LEMMA SolveRuleGives ==
  ASSUME TypeOK, SolveRule
  PROVE  /\ get_next_solvable \in DOMAIN rules
         /\ rules[get_next_solvable] \in Rule /\ MayFire(rules[get_next_solvable])
         /\ \A r \in DOMAIN conclusions' :
              \/ Known(r) /\ conclusions'[r] = conclusions[r]
              \/ Concludes(rules[get_next_solvable], r, conclusions'[r])
  <1> DEFINE rule == rules[get_next_solvable]
  <1>0. StateOK
    BY DEF TypeOK, StateOK
  <1>1. /\ Solvable # {} /\ ~RuleError(rule) /\ ~RulePanics(rule)
        /\ commit_step({get_next_solvable}, Concluded(rule), <<>>, <<>>, {})
    BY DEF SolveRule
  <1>2. /\ get_next_solvable \in DOMAIN rules /\ rule \in Rule
        /\ \E puzzle \in get_puzzles(rule) : puzzle \subseteq DOMAIN conclusions
    BY <1>0, <1>1, NextSolvable
  <1>3. MayFire(rule)
    BY <1>1, <1>2 DEF MayFire
  <1>4. PICK n \in Nat : DOMAIN Concluded(rule) \subseteq 1..n
    BY <1>2, ConcludedPairs
  <1>5. ASSUME NEW r \in DOMAIN conclusions'
        PROVE  \/ Known(r) /\ conclusions'[r] = conclusions[r]
               \/ Concludes(rule, r, conclusions'[r])
    <2>1. CASE Known(r) /\ conclusions'[r] = conclusions[r]
      BY <2>1
    <2>2. CASE \E i \in DOMAIN Concluded(rule) :
                 Concluded(rule)[i][1] = r /\ Concluded(rule)[i][2] = conclusions'[r]
      BY <1>2, <2>2, ConcludedPairs
    <2>3. QED  BY <1>1, <1>4, <2>1, <2>2, FiledByCommit
  <1>6. QED  BY <1>2, <1>3, <1>5

\* A default concludes nothing itself.
LEMMA DefaultGives ==
  ASSUME AddDefault
  PROVE  \A r \in DOMAIN conclusions' : Known(r) /\ conclusions'[r] = conclusions[r]
  <1>1. DOMAIN <<>> \subseteq 1..0 /\ DOMAIN <<>> = {}
    OBVIOUS
  <1>2. QED  BY <1>1, FiledByCommit DEF AddDefault

\* A placeholder stands for a parameter, of the type declared for it.
LEMMA PlaceholderGives ==
  ASSUME TypeOK, TypedInv, AddPlaceholder
  PROVE  LET r == FirstUnsolved.rune IN
         /\ r \in DOMAIN prog.types /\ prog.types[r] \in {KindType, IntegerType}
         /\ TypeOf(Placeholder(r)) = prog.types[r]
         /\ \A W : MadeOf(Placeholder(r), W, prog.types)
         /\ \A n : OfLength(Placeholder(r), n)
         /\ \A q \in DOMAIN conclusions' : \/ Known(q) /\ conclusions'[q] = conclusions[q]
                                           \/ q = r /\ conclusions'[q] = Placeholder(r)
  <1> DEFINE r == FirstUnsolved.rune
             t == Placeholder(r)
             pairs == << <<r, t>> >>
  <1>1. SolveInput(prog) /\ HeaderInput(prog)
    BY HeadersAssumption DEF TypeOK, TypedInv
  <1>2. r \in DOMAIN prog.types /\ prog.types[r] \in {KindType, IntegerType}
    BY <1>1, FirstUnsolvedIsGeneric DEF AddPlaceholder, HeaderInput
  <1>3. t.tag = "placeholder" /\ t.rune = r
    BY DEF Placeholder
  <1>4. TypeOf(t) = prog.types[r]
    BY <1>3 DEF TypeOf, TypeAmong
  <1>5. \A W : MadeOf(t, W, prog.types)
    BY <1>2, <1>3 DEF MadeOf, RefOps
  <1>6. \A n : OfLength(t, n)
    BY <1>3 DEF OfLength
  <1>7. commit_step({}, pairs, <<>>, <<>>, {})
    BY DEF AddPlaceholder
  <1>8. (\E n \in Nat : DOMAIN pairs \subseteq 1..n)
        /\ \A i \in DOMAIN pairs : pairs[i][1] = r /\ pairs[i][2] = t
    BY ListOfOne
  <1> HIDE DEF pairs
  <1>9. \A q \in DOMAIN conclusions' : \/ Known(q) /\ conclusions'[q] = conclusions[q]
                                       \/ q = r /\ conclusions'[q] = t
    BY <1>7, <1>8, FiledByCommit
  <1>10. QED  BY <1>2, <1>4, <1>5, <1>6, <1>9

\* The rule that fires is typed: its runes were typed as the header says, or it
\* was granted to be.
LEMMA FiringIsGranted ==
  ASSUME TypedInv, typing = "typed", NEW T, Granted(T), NEW i \in DOMAIN rules, rules[i] \in Rule
  PROVE  RuleTyped(rules[i], T, prog.types)
  <1>1. RuleGranted(rules[i], T) /\ Extends(T, rune_to_type)
    BY DEF Granted
  <1>2. CASE rules[i] \in Range(prog.header)
    <2>1. PICK k \in DOMAIN prog.header : prog.header[k] = rules[i]
      BY <1>2 DEF Range
    <2>2. NamesOnce(rules[i])
      BY <1>1, <1>2 DEF RuleGranted
    <2>3. RuleTyped(rules[i], rune_to_type, prog.types)
      BY <2>1, <2>2 DEF TypedInv, FiredAreTyped
    <2>4. Keeps(rules[i], T, rune_to_type)
      BY <1>1 DEF Keeps, Extends
    <2>5. QED  BY <2>3, <2>4, StaysTyped
  <1>3. CASE rules[i] \notin Range(prog.header)
    BY <1>1, <1>3 DEF RuleGranted
  <1>4. QED  BY <1>2, <1>3

LEMMA SolvingKeepsFounded ==
  ASSUME TypedInv, TypeOK, TypesAgree, SolveRule \/ AddDefault \/ AddPlaceholder
  PROVE  \E V : Founded(V)'
  <1>1. PICK W : Founded(W)
    BY DEF TypesAgree
  <1>2. prog' = prog /\ prog \in Programs
    BY RulesStay DEF TypedInv
  <1>3. ASSUME NEW r \in DOMAIN conclusions'
        PROVE  \/ Known(r) /\ conclusions'[r] = conclusions[r]
               \/ MadeOf(conclusions'[r], W, prog.types)
    <2>1. CASE SolveRule
      BY <1>1, <1>2, <2>1, SolveRuleGives, ConclusionIsMade
    <2>2. CASE AddDefault
      BY <2>2, DefaultGives
    <2>3. CASE AddPlaceholder
      BY <2>3, PlaceholderGives
    <2>4. QED  BY <2>1, <2>2, <2>3
  <1>4. QED  BY <1>1, <1>2, <1>3, StaysFounded

LEMMA SolvingKeepsTypes ==
  ASSUME TypedInv, TypeOK, TypesAgree, typing = "typed", rune_to_type' = rune_to_type,
         SolveRule \/ AddDefault \/ AddPlaceholder, NEW T, Granted(T)'
  PROVE  AgreesWith(T)'
  <1>1. PICK W : Founded(W)
    BY DEF TypesAgree
  <1>2. prog' = prog /\ prog \in Programs
    BY RulesStay DEF TypedInv
  <1>3. Granted(T)
    BY RulesStay, GrantedBefore
  <1>4. AgreesWith(T)
    BY <1>3 DEF TypesAgree
  <1>5. ASSUME NEW r \in DOMAIN conclusions', r \in DOMAIN T
        PROVE  TypeOf(conclusions'[r]) = T[r]
    <2>1. CASE Known(r) /\ conclusions'[r] = conclusions[r]
      BY <1>4, <1>5, <2>1 DEF AgreesWith, Known
    <2>2. CASE SolveRule
      <3>1. CASE Concludes(rules[get_next_solvable], r, conclusions'[r])
        <4>1. RuleTyped(rules[get_next_solvable], T, prog.types)
          BY <1>3, <2>2, SolveRuleGives, FiringIsGranted
        <4>2. HasType(T, r, TypeAmong(prog.types, conclusions'[r]))
          BY <1>1, <1>2, <1>4, <2>2, <3>1, <4>1, SolveRuleGives, ConclusionIsTyped
        <4>3. QED  BY <4>2 DEF HasType, TypeOf
      <3>2. QED  BY <2>1, <2>2, <3>1, SolveRuleGives
    <2>3. CASE AddDefault
      BY <2>1, <2>3, DefaultGives
    <2>4. CASE AddPlaceholder
      <3>1. CASE r = FirstUnsolved.rune /\ conclusions'[r] = Placeholder(r)
        <4>1. r \in DOMAIN prog.types /\ TypeOf(conclusions'[r]) = prog.types[r]
          BY <2>4, <3>1, PlaceholderGives
        <4>2. HasType(T, r, prog.types[r])
          BY <1>3, <4>1 DEF TypesAgree, Granted, Extends, HasType
        <4>3. QED  BY <4>1, <4>2 DEF HasType
      <3>2. QED  BY <2>1, <2>4, <3>1, PlaceholderGives
    <2>5. QED  BY <2>2, <2>3, <2>4
  <1>6. QED  BY <1>2, <1>5 DEF AgreesWith, TypeOf

LEMMA SolvingKeepsLengths ==
  ASSUME TypedInv, TypeOK, TypesAgree, SolveRule \/ AddDefault \/ AddPlaceholder,
         NEW N, Measures(N)'
  PROVE  LengthsAgree(N)'
  <1>1. PICK W : Founded(W)
    BY DEF TypesAgree
  <1>2. prog \in Programs
    BY DEF TypedInv
  <1>3. Measures(N) /\ LengthsAgree(N)
    BY RulesStay, MeasuredBefore DEF TypesAgree
  <1>4. ASSUME NEW r \in DOMAIN conclusions'
        PROVE  OfLength(conclusions'[r], N[r])
    <2>1. CASE Known(r) /\ conclusions'[r] = conclusions[r]
      BY <1>3, <2>1 DEF LengthsAgree, Known
    <2>2. CASE SolveRule
      <3>1. CASE Concludes(rules[get_next_solvable], r, conclusions'[r])
        <4>1. RuleMeasured(rules[get_next_solvable], N)
          BY <1>3, <2>2, SolveRuleGives DEF Measures
        <4>2. QED
          BY <1>1, <1>2, <1>3, <2>2, <3>1, <4>1, SolveRuleGives, ConclusionIsMeasured
      <3>2. QED  BY <2>1, <2>2, <3>1, SolveRuleGives
    <2>3. CASE AddDefault
      BY <2>1, <2>3, DefaultGives
    <2>4. CASE AddPlaceholder
      BY <2>1, <2>4, PlaceholderGives
    <2>5. QED  BY <2>2, <2>3, <2>4
  <1>5. QED  BY <1>4 DEF LengthsAgree, OfLength

LEMMA TypesAgreeStep == TypedInv /\ TypeOK /\ TypesAgree /\ [TypedNext]_typedVars => TypesAgree'
  <1> SUFFICES ASSUME TypedInv, TypeOK, TypesAgree, [TypedNext]_typedVars  PROVE TypesAgree'
    OBVIOUS
  <1>1. CASE PanicTyping
    <2>1. /\ typing' = "panicked" /\ prog' = prog /\ conclusions' = conclusions /\ phase' = phase
          /\ typing = "running" /\ UNCHANGED vars
      BY <1>1 DEF PanicTyping, vars, stateVars
    <2>2. QED  BY <2>1, SolveUntouched DEF TypesAgree
  <1>2. CASE UNCHANGED typedVars
    <2>1. /\ prog' = prog /\ conclusions' = conclusions /\ phase' = phase /\ rules' = rules
          /\ typing' = typing /\ rune_to_type' = rune_to_type /\ UNCHANGED vars
      BY <1>2 DEF typedVars, vars, stateVars, typingVars
    <2>2. ASSUME NEW T, typing = "typed", Granted(T)'
          PROVE  AgreesWith(T)'
      BY <2>1, <2>2, GrantedBefore DEF TypesAgree, AgreesWith, TypeOf
    <2>3. QED  BY <2>1, <2>2, SolveUntouched DEF TypesAgree, HasType
  <1>3. CASE SolvingNext
    <2>1. /\ typing = "typed" /\ typing' = "typed" /\ rune_to_type' = rune_to_type
          /\ prog' = prog /\ Next
      BY <1>3, ProgramIsFixed DEF SolvingNext, typingVars
    <2>2. \A r \in DOMAIN prog.types : HasType(rune_to_type, r, prog.types[r])
      BY <2>1 DEF TypesAgree
    <2>3. CASE SolveRule \/ AddDefault \/ AddPlaceholder
      <3>1. \E W : Founded(W)'
        BY <2>3, SolvingKeepsFounded
      <3>2. \A T : Granted(T)' => AgreesWith(T)'
        BY <2>1, <2>3, SolvingKeepsTypes
      <3>3. \A N : Measures(N)' => LengthsAgree(N)'
        BY <2>3, SolvingKeepsLengths
      <3>4. QED  BY <2>1, <2>2, <3>1, <3>2, <3>3 DEF TypesAgree, HasType
    <2>4. CASE RejectRule \/ StopContinuing \/ GiveUp \/ Panic \/ interpret_results
      <3>1. rules' = rules /\ conclusions' = conclusions
        BY <2>4 DEF RejectRule, StopContinuing, GiveUp, Panic, interpret_results, stateVars
      <3>2. PICK W : Founded(W)
        BY DEF TypesAgree
      <3>3. Founded(W)'
        BY <2>1, <3>1, <3>2 DEF Founded
      <3>4. ASSUME NEW T, Granted(T)'
            PROVE  AgreesWith(T)'
        BY <2>1, <3>1, <3>4, GrantedBefore DEF TypesAgree, AgreesWith, TypeOf
      <3>5. ASSUME NEW N, Measures(N)'
            PROVE  LengthsAgree(N)'
        BY <3>1, <3>5, MeasuredBefore DEF TypesAgree, LengthsAgree, OfLength
      <3>6. QED  BY <2>1, <2>2, <3>3, <3>4, <3>5 DEF TypesAgree, HasType
    <2>5. QED  BY <2>1, <2>3, <2>4 DEF Next
  <1>4. QED
    BY <1>1, <1>2, <1>3, SolveTypeRuleAgrees, FinishTypingAgrees DEF TypedNext, TypingNext

LEMMA TypesAlwaysAgree == TypedSpec => [](TypedInv /\ TypeOK /\ TypesAgree)
  <1>1. TypedSpec => []TypeOK
    BY TypedIsSolve, TypeCorrect, PTL
  <1>2. QED
    BY <1>1, TypedInvInit, TypedInvStep, TypesAgreeInit, TypesAgreeStep, PTL DEF TypedSpec

\* The two solvers agree, for every header and every solve: wherever the rules
\* that were typed name no rune twice and the others -- a default's, a sent
\* argument's -- can be typed in line with the header, all that the solve
\* concludes has the type that solve_rune_types gave its rune.
THEOREM TypesArePreserved ==
  TypedSpec => []((\E T : Granted(T)) => ConclusionsHaveTheirTypes)
  <1>1. ASSUME TypesAgree, NEW T, Granted(T)
        PROVE  ConclusionsHaveTheirTypes
    <2>1. Extends(T, rune_to_type)
      BY <1>1 DEF Granted
    <2>2. typing = "typed" => AgreesWith(T)
      BY <1>1 DEF TypesAgree
    <2>3. QED  BY <2>1, <2>2 DEF AgreesWith, Extends, ConclusionsHaveTheirTypes
  <1>2. TypesAgree => ((\E T : Granted(T)) => ConclusionsHaveTheirTypes)
    BY <1>1
  <1>3. QED  BY <1>2, TypesAlwaysAgree, PTL

-----------------------------------------------------------------------------
(* What makes a rule panic *)

\* The header's rules name no rune twice, the others -- what a default or a sent
\* argument brings -- are names, literals and equalities, and each list of kinds
\* and each prototype has one length.
Orderly ==
  /\ \A i \in DOMAIN rules :
       IF rules[i] \in Range(prog.header) THEN NamesOnce(rules[i])
                                          ELSE rules[i].op \in {"Lookup", "Literal", "Equals"}
  /\ \E N : Measures(N)

\* A rule that is typed, and knows nothing of another type than its rune's, finds
\* what it expects: kinds, lists as long as they should be, prototypes, and an
\* argument of its type for each parameter.
LEMMA TypedRuleIsSafe ==
  ASSUME TypedInv, TypesAgree, NEW rule \in Rule, NamesOnce(rule),
         RuleTyped(rule, rune_to_type, prog.types),
         \E puzzle \in get_puzzles(rule) : puzzle \subseteq DOMAIN conclusions,
         \A r \in RunesOf(rule) \cap DOMAIN conclusions \cap DOMAIN rune_to_type :
           TypeOf(conclusions[r]) = rune_to_type[r],
         NEW N, LengthsAgree(N), RuleMeasured(rule, N),
         rule.op # "RuneParentEnvLookup",
         ~ /\ rule.op = "Call" /\ Known(rule.template)
           /\ conclusions[rule.template].tag = "template"
           /\ Len(rule.args) < Len(TemplateParams[conclusions[rule.template].name])
  PROVE  ~RulePanics(rule)
  <1> DEFINE types == prog.types
             T == rune_to_type
  <1>1. PICK W : Founded(W)
    BY DEF TypesAgree
  <1>2. \A r \in RunesOf(rule) : \A t : Known(r) /\ HasType(T, r, t) =>
          TypeOf(conclusions[r]) = t /\ MadeOf(conclusions[r], W, types)
    BY <1>1, FoundedOn DEF Known, HasType
  <1>3. CASE rule.op \in LeafOps
    BY <1>3 DEF RulePanics, LeafOps, RefOps
  <1>4. CASE rule.op = "Equals"
    BY <1>4 DEF RulePanics, RefOps
  <1>5. CASE rule.op \in RefOps
    <2>1. HasType(T, rule.result, KindType) /\ HasType(T, rule.inner, KindType)
      BY <1>5 DEF RuleTyped, RefOps
    <2>2. {rule.result, rule.inner} \subseteq RunesOf(rule) /\ (Known(rule.result) \/ Known(rule.inner))
      BY <1>5 DEF RunesOf, get_puzzles, Known, LeafOps, RefOps
    <2>3. KnownKind(rule.result) \/ KnownKind(rule.inner)
      BY <1>2, <2>1, <2>2 DEF KnownKind, IsKind
    <2>4. QED  BY <1>5, <2>3 DEF RulePanics, RefPanics, RefOps
  <1>6. CASE rule.op = "KindList"
    <2>1. /\ HasType(T, rule.result, PackType)
          /\ \A j \in DOMAIN rule.members : HasType(T, rule.members[j], KindType)
      BY <1>6 DEF RuleTyped, RefOps
    <2>2. rule.result \in RunesOf(rule) /\ \A j \in DOMAIN rule.members : rule.members[j] \in RunesOf(rule)
      BY <1>6 DEF RunesOf, LeafOps, RefOps, Range
    <2>3. CASE Known(rule.result)
      <3> DEFINE t == conclusions[rule.result]
      <3>1. t.tag = "list"
        BY <1>2, <2>1, <2>2, <2>3, TypeTells DEF TypeOf
      <3>2. DOMAIN t.kinds = DOMAIN rule.members
        BY <1>6, <2>3, <3>1 DEF LengthsAgree, OfLength, RuleMeasured, Known
      <3>3. QED  BY <1>6, <2>3, <3>1, <3>2 DEF RulePanics, KindListPanics, RefOps
    <2>4. CASE ~Known(rule.result)
      <3>1. \A j \in DOMAIN rule.members : Known(rule.members[j])
        BY <1>6, <2>4 DEF get_puzzles, Known, LeafOps, RefOps, Range
      <3>2. \A j \in DOMAIN rule.members : IsKind(conclusions[rule.members[j]])
        BY <1>2, <2>1, <2>2, <3>1 DEF IsKind
      <3>3. QED  BY <1>6, <2>4, <3>2 DEF RulePanics, KindListPanics, RefOps
    <2>5. QED  BY <2>3, <2>4
  <1>7. CASE rule.op = "Call"
    <2> DEFINE ts == T[rule.template].params
               template == conclusions[rule.template]
    <2>1. /\ rule.template \in DOMAIN T /\ MayApply(T[rule.template], rule.args)
          /\ HasType(T, rule.result, KindType)
          /\ \A j \in DOMAIN rule.args \cap DOMAIN ts : HasType(T, rule.args[j], ts[j])
      BY <1>7 DEF RuleTyped, RefOps
    <2>2. /\ {rule.result, rule.template} \subseteq RunesOf(rule) /\ Known(rule.template)
          /\ \A j \in DOMAIN rule.args : rule.args[j] \in RunesOf(rule)
      BY <1>7 DEF RunesOf, get_puzzles, Known, LeafOps, RefOps, Range
    <2>3. TypeOf(template) = T[rule.template] /\ MadeOf(template, W, types)
      BY <1>2, <2>1, <2>2 DEF HasType
    <2>4. CASE Known(rule.result)
      BY <1>2, <1>7, <2>1, <2>2, <2>4 DEF RulePanics, CallPanics, IsKind, RefOps
    <2>5. CASE ~Known(rule.result)
      <3> DEFINE values == ValuesOf(rule.args)
      <3>1. \A j \in DOMAIN rule.args : Known(rule.args[j])
        BY <1>7, <2>5 DEF get_puzzles, Known, LeafOps, RefOps, Range
      <3>2. CASE template.tag = "template"
        <4> DEFINE params == TemplateParams[template.name]
        <4>1. ts = params
          <5>1. TypeOf(template) = TemplateOf(params)
            BY <3>2 DEF TypeOf, TypeAmong
          <5>2. QED  BY <2>3, <5>1, TypesDiffer
        <4>2. params \in Seq({KindType, IntegerType})
          BY <2>3, <3>2, TemplatesAssumption DEF MadeOf
        <4>3. rule.args \in Seq(Rune)
          BY <1>7, RulesAssumption
        <4>4. Len(params) <= Len(rule.args)
          BY <1>7, <2>2, <3>2, <4>2, <4>3
        <4>5. DOMAIN params \subseteq DOMAIN rule.args
          BY <4>2, <4>3, <4>4
        <4>6. ASSUME NEW j \in DOMAIN params
              PROVE  j \in DOMAIN values /\ TypeOf(values[j]) = params[j]
          <5>1. j \in DOMAIN rule.args /\ j \in DOMAIN ts
            BY <4>1, <4>5, <4>6
          <5>2. HasType(T, rule.args[j], ts[j])
            BY <2>1, <5>1
          <5>3. TypeOf(conclusions[rule.args[j]]) = ts[j]
            BY <1>2, <2>2, <3>1, <5>1, <5>2
          <5>4. QED  BY <4>1, <5>1, <5>3 DEF ValuesOf
        <4>7. MayBeApplied(template, values)
          BY <3>2, <4>6 DEF MayBeApplied
        <4>8. QED  BY <1>7, <2>5, <4>7 DEF RulePanics, CallPanics, RefOps
      <3>3. CASE template.tag # "template"
        <4>1. T[rule.template].type # "template"
          BY <2>3, <3>3, TypeTells DEF TypeOf
        <4>2. IsKind(template)
          BY <2>1, <2>3, <4>1 DEF MayApply, IsKind
        <4>3. QED  BY <1>7, <2>5, <3>3, <4>2 DEF RulePanics, CallPanics, MayBeApplied, RefOps
      <3>4. QED  BY <3>2, <3>3
    <2>6. QED  BY <2>4, <2>5
  <1>8. CASE rule.op = "CallSiteFunc"
    BY <1>8 DEF RulePanics, RefOps
  <1>9. CASE rule.op \in {"DefinitionFunc", "Resolve"}
    <2>1. HasType(T, rule.params, PackType) /\ HasType(T, rule.return, KindType)
      BY <1>9 DEF RuleTyped, RefOps
    <2>2. {rule.params, rule.return} \subseteq RunesOf(rule) /\ Known(rule.params)
      BY <1>9 DEF RunesOf, get_puzzles, Known, LeafOps, RefOps
    <2>3. conclusions[rule.params].tag = "list"
      BY <1>2, <2>1, <2>2, TypeTells DEF TypeOf
    <2>4. Known(rule.return) => IsKind(conclusions[rule.return])
      BY <1>2, <2>1, <2>2 DEF IsKind
    <2>5. QED  BY <1>9, <2>3, <2>4 DEF RulePanics, FuncPanics, RefOps
  <1>10. QED
    BY <1>3, <1>4, <1>5, <1>6, <1>7, <1>8, <1>9, RulesAssumption

\* No rule in the solve reads the caller's environment: neither the rules that are
\* solved nor those of a default do.
OwnRules == \A i \in DOMAIN rules : IsOwn(rules[i])

LEMMA OwnRulesStep ==
  ASSUME TypedInv, TypeOK, OwnRules, [Next]_vars
  PROVE  OwnRules'
  <1>0. StateOK /\ SolveInput(prog) /\ HeaderInput(prog)
    BY HeadersAssumption DEF TypeOK, StateOK, TypedInv
  <1>1. ASSUME NEW solved, NEW pairs, NEW newRules \in Seq(Rule), NEW newPuzzles, NEW newRunes,
               commit_step(solved, pairs, newRules, newPuzzles, newRunes),
               \A k \in DOMAIN newRules : IsOwn(newRules[k])
        PROVE  OwnRules'
    <2>1. CASE rules' = rules
      BY <2>1 DEF OwnRules, IsOwn, IsInherited
    <2>2. CASE rules' = rules \o newRules
      <3>1. rules \in Seq(Rule) /\ rules' \in Seq(Rule)
        BY <1>0, <1>1, <2>2 DEF StateOK
      <3>2. ASSUME NEW i \in DOMAIN rules'
            PROVE  \/ i \in DOMAIN rules /\ rules'[i] = rules[i]
                   \/ \E k \in DOMAIN newRules : rules'[i] = newRules[k]
        <4>1. i \in 1..(Len(rules) + Len(newRules))
          BY <1>1, <2>2, <3>1, <3>2
        <4>2. CASE i <= Len(rules)
          BY <1>1, <2>2, <3>1, <4>1, <4>2
        <4>3. CASE i > Len(rules)
          <5>1. i - Len(rules) \in DOMAIN newRules /\ rules'[i] = newRules[i - Len(rules)]
            BY <1>1, <2>2, <3>1, <4>1, <4>3
          <5>2. QED  BY <5>1
        <4>4. QED  BY <3>1, <4>1, <4>2, <4>3
      <3>3. QED  BY <1>1, <3>2 DEF OwnRules, IsOwn, IsInherited
    <2>3. QED  BY <1>1, <2>1, <2>2 DEF commit_step
  <1>2. <<>> \in Seq(Rule) /\ DOMAIN <<>> = {}
    OBVIOUS
  <1>3. CASE SolveRule
    BY <1>1, <1>2, <1>3 DEF SolveRule
  <1>4. CASE AddDefault
    <2> DEFINE default == FirstUnsolved.default
    <2>1. default.rules \in Seq(Rule)
      BY <1>0, <1>4, FirstDefault DEF AddDefault
    <2>2. \A k \in DOMAIN default.rules : IsOwn(default.rules[k])
      BY <1>0, <1>4, FirstUnsolvedIsGeneric DEF AddDefault, HeaderInput
    <2>3. commit_step({}, <<>>, default.rules, PuzzlesOf(default.rules), {default.result})
      BY <1>4 DEF AddDefault
    <2>4. QED  BY <1>1, <2>1, <2>2, <2>3
  <1>5. CASE AddPlaceholder
    BY <1>1, <1>2, <1>5 DEF AddPlaceholder
  <1>6. CASE RejectRule \/ StopContinuing \/ GiveUp \/ Panic \/ interpret_results \/ UNCHANGED vars
    <2>1. rules' = rules
      BY <1>6 DEF RejectRule, StopContinuing, GiveUp, Panic, interpret_results, vars, stateVars
    <2>2. QED  BY <2>1 DEF OwnRules, IsOwn, IsInherited
  <1>7. QED  BY <1>3, <1>4, <1>5, <1>6 DEF Next

LEMMA RulesAreOwn == TypedSpec => []OwnRules
  <1>1. TypedInit => OwnRules
    BY HeadersAssumption DEF TypedInit, Init, make_solver_state, OwnRules, HeaderInput
  <1>2. TypedInv /\ TypeOK /\ OwnRules /\ [TypedNext]_typedVars => OwnRules'
    BY OwnRulesStep, TypedNextIsNext
  <1>3. QED  BY <1>1, <1>2, TypesAlwaysAgree, PTL DEF TypedSpec

LEMMA AssertsHaveCauses ==
  ASSUME TypedInv, TypeOK, TypesAgree, OwnRules, Orderly, typing = "typed", RuleAsserts
  PROVE  ReadsIllTyped \/ AppliesTooFew
  <1> DEFINE rule == rules[get_next_solvable]
  <1> SUFFICES ASSUME ~ReadsIllTyped, ~AppliesTooFew  PROVE FALSE
    OBVIOUS
  <1>0. StateOK
    BY DEF TypeOK, StateOK
  <1>1. Solvable # {} /\ RulePanics(rule)
    BY DEF RuleAsserts
  <1>2. /\ get_next_solvable \in DOMAIN rules /\ rule \in Rule
        /\ \E puzzle \in get_puzzles(rule) : puzzle \subseteq DOMAIN conclusions
    BY <1>0, <1>1, NextSolvable
  <1>3. CASE rule \notin Range(prog.header)
    <2>1. rule.op \in {"Lookup", "Literal", "Equals"}
      BY <1>2, <1>3 DEF Orderly
    <2>2. QED  BY <1>1, <2>1 DEF RulePanics, RefOps
  <1>4. CASE rule \in Range(prog.header)
    <2>1. PICK k \in DOMAIN prog.header : prog.header[k] = rule
      BY <1>4 DEF Range
    <2>2. NamesOnce(rule)
      BY <1>2, <1>4 DEF Orderly
    <2>3. RuleTyped(rule, rune_to_type, prog.types)
      BY <2>1, <2>2 DEF TypedInv, FiredAreTyped
    <2>4. PICK N : Measures(N)
      BY DEF Orderly
    <2>5. LengthsAgree(N) /\ RuleMeasured(rule, N)
      BY <1>2, <2>4 DEF TypesAgree, Measures
    <2>6. rule.op # "RuneParentEnvLookup"
      BY <1>2 DEF OwnRules, IsOwn, IsInherited
    <2>7. \A r \in RunesOf(rule) \cap DOMAIN conclusions \cap DOMAIN rune_to_type :
            TypeOf(conclusions[r]) = rune_to_type[r]
      BY <1>1 DEF ReadsIllTyped
    <2>8. ~ /\ rule.op = "Call" /\ Known(rule.template)
            /\ conclusions[rule.template].tag = "template"
            /\ Len(rule.args) < Len(TemplateParams[conclusions[rule.template].name])
      BY <1>1 DEF AppliesTooFew
    <2> HIDE DEF rule
    <2>9. QED  BY <1>1, <1>2, <2>2, <2>3, <2>5, <2>6, <2>7, <2>8, TypedRuleIsSafe
  <1>5. QED  BY <1>3, <1>4

\* Whatever panics has one of three causes, for every header and every solve: a
\* default that cannot give its parameter, so that the loop check or the assert on
\* an added rule trips; a rule that reads a rune of another type than it was typed
\* with, which only a default can bring about; or a template applied to too few
\* arguments.  No other assertion of an arm -- "expected a kind", the length of a
\* kind list, unreachable! -- is ever met (solve_rule, solve_call_rule,
\* evaluate_generic_function_from_call).
THEOREM PanicsAreExplained ==
  TypedSpec => [](RulesFit /\ Orderly => PanicsHaveCauses)
  <1>1. TypedSpec => [](RulesFit => (phase = "panicked" => StuckAtDefault \/ RuleAsserts))
    BY TypedIsSolve, StuckOrAsserts, PTL
  <1>2. /\ TypedInv /\ TypeOK /\ TypesAgree
        /\ OwnRules
        /\ RulesFit => (phase = "panicked" => StuckAtDefault \/ RuleAsserts)
        => (RulesFit /\ Orderly => PanicsHaveCauses)
    <2> SUFFICES ASSUME TypedInv, TypeOK, TypesAgree, OwnRules, Orderly, phase = "panicked",
                        StuckAtDefault \/ RuleAsserts
                 PROVE  StuckAtDefault \/ ReadsIllTyped \/ AppliesTooFew
      BY DEF PanicsHaveCauses
    <2>1. typing = "typed"
      BY DEF TypesAgree
    <2>2. QED  BY <2>1, AssertsHaveCauses
  <1>3. QED  BY <1>1, <1>2, TypesAlwaysAgree, RulesAreOwn, PTL

-----------------------------------------------------------------------------
(* The typing gives only what it must, and refuses for no other reason *)

\* T types the header: the given types, and every rule of it.
HeaderTyped(T) ==
  /\ \A r \in DOMAIN prog.types : HasType(T, r, prog.types[r])
  /\ \A i \in DOMAIN prog.header : RuleTyped(prog.header[i], T, prog.types)

\* Some rune has no type and no rule can give it one any more.
Undetermined == Typer!get_unsolved_runes # {} /\ Typer!Solvable = {}

\* No typing of the header differs from what is on file, the senders aside, and
\* one that ends badly has a name that is unknown, a rune that no rule can give
\* a type any more, or a known of another type than its rune.
ForcedBy(T) ==
  /\ \A r \in DOMAIN rune_to_type :
       \/ r \in DOMAIN T /\ T[r] = rune_to_type[r]
       \/ r \in prog.senders /\ typing \in {"typed", "panicked"}
  /\ typing = "failed" => HasUnknownName \/ Undetermined
  /\ typing = "panicked" => ~KnownsFit(rune_to_type)

TypesForced == \A T : HeaderTyped(T) => ForcedBy(T)

LEMMA ListIsTyped ==
  ASSUME NEW runes \in Seq(Rune), NEW ts \in Seq({KindType, IntegerType}), NEW r, NEW t, NEW T,
         HasType(T, r, t), \A j \in DOMAIN runes \cap DOMAIN ts : HasType(T, runes[j], ts[j]),
         NEW pairs, pairs = ZipPairs(runes, ts) \o << <<r, t>> >>
  PROVE  \A i \in DOMAIN pairs : HasType(T, pairs[i][1], pairs[i][2])
  <1> DEFINE zip == ZipPairs(runes, ts)
             n == Len(zip)
  <1>1. /\ zip \in Seq(Rune \X {KindType, IntegerType})
        /\ DOMAIN zip = DOMAIN runes \cap DOMAIN ts
        /\ \A j \in DOMAIN zip : zip[j] = <<runes[j], ts[j]>>
    BY ZipIsList
  <1>2. /\ n \in Nat /\ DOMAIN zip = 1..n /\ DOMAIN pairs = 1..(n + 1)
        /\ \A j \in 1..n : pairs[j] = zip[j]
        /\ pairs[n + 1] = <<r, t>>
    BY <1>1
  <1>3. ASSUME NEW i \in 1..n
        PROVE  HasType(T, pairs[i][1], pairs[i][2])
    <2>1. i \in DOMAIN runes \cap DOMAIN ts /\ pairs[i] = <<runes[i], ts[i]>>
      BY <1>1, <1>2
    <2>2. QED  BY <2>1
  <1>4. HasType(T, pairs[n + 1][1], pairs[n + 1][2])
    BY <1>2
  <1>5. QED  BY <1>2, <1>3, <1>4

\* A rule that T types neither panics nor says anything else than T.
LEMMA FiringIsForcedByTypes ==
  ASSUME NEW rule \in Rule, NEW T, RuleTyped(rule, T, prog.types), WellFormedTypes,
         \A r \in DOMAIN rune_to_type : HasType(T, r, rune_to_type[r]),
         \E puzzle \in get_rune_typing_puzzles(rule) : puzzle \subseteq DOMAIN rune_to_type
  PROVE  /\ ~TypingPanics(rule)
         /\ \A i \in DOMAIN TypesConcluded(rule) :
              HasType(T, TypesConcluded(rule)[i][1], TypesConcluded(rule)[i][2])
  <1> DEFINE pairs == TypesConcluded(rule)
             Typing(ps) == \A i \in DOMAIN ps : HasType(T, ps[i][1], ps[i][2])
  <1> SUFFICES ~TypingPanics(rule) /\ Typing(pairs)
    OBVIOUS
  <1>a. \A r, t : HasType(T, r, t) => Typing(<< <<r, t>> >>)
    <2> SUFFICES ASSUME NEW r, NEW t, HasType(T, r, t)
                 PROVE  Typing(<< <<r, t>> >>)
      OBVIOUS
    <2>1. DOMAIN << <<r, t>> >> = {1} /\ << <<r, t>> >>[1] = <<r, t>>
      OBVIOUS
    <2>2. QED  BY <2>1
  <1>1. CASE rule.op \in {"Lookup", "Literal"}
    <2>1. pairs = << <<rule.result, TypeAmong(prog.types, rule.value)>> >>
      BY <1>1 DEF TypesConcluded, TypeOf, RefOps
    <2>2. HasType(T, rule.result, TypeAmong(prog.types, rule.value))
      BY <1>1 DEF RuleTyped, RefOps
    <2>3. ~TypingPanics(rule)
      BY <1>1 DEF TypingPanics
    <2>4. QED  BY <1>a, <2>1, <2>2, <2>3
  <1>2. CASE rule.op = "RuneParentEnvLookup"
    <2>1. DOMAIN pairs = {}
      BY <1>2 DEF TypesConcluded, RefOps
    <2>2. rule.result \in DOMAIN rune_to_type
      BY <1>2 DEF get_rune_typing_puzzles, RefOps
    <2>3. MayInherit(TypeOf(rule.value), T[rule.result]) /\ T[rule.result] = rune_to_type[rule.result]
      BY <1>2, <2>2 DEF RuleTyped, TypeOf, HasType, RefOps
    <2>4. ~TypingPanics(rule)
      BY <1>2, <2>3 DEF TypingPanics
    <2>5. QED  BY <2>1, <2>4
  <1>3. CASE rule.op = "Equals"
    <2>1. pairs = EqualsTypes(rule)
      BY <1>3 DEF TypesConcluded, RefOps
    <2>2. rule.left \in DOMAIN rune_to_type \/ rule.right \in DOMAIN rune_to_type
      BY <1>3 DEF get_rune_typing_puzzles, RefOps
    <2>3. rule.left \in DOMAIN T /\ HasType(T, rule.right, T[rule.left])
      BY <1>3 DEF RuleTyped, RefOps
    <2>4. ~TypingPanics(rule)
      BY <1>3 DEF TypingPanics
    <2>5. CASE rule.left \in DOMAIN rune_to_type
      <3>1. pairs = << <<rule.right, rune_to_type[rule.left]>> >>
        BY <2>1, <2>5 DEF EqualsTypes, Typed
      <3>2. HasType(T, rule.right, rune_to_type[rule.left])
        BY <2>3, <2>5 DEF HasType
      <3>3. QED  BY <1>a, <2>4, <3>1, <3>2
    <2>6. CASE rule.left \notin DOMAIN rune_to_type
      <3>1. pairs = << <<rule.left, rune_to_type[rule.right]>> >>
        BY <2>1, <2>6 DEF EqualsTypes, Typed
      <3>2. HasType(T, rule.left, rune_to_type[rule.right])
        BY <2>2, <2>3, <2>6 DEF HasType
      <3>3. QED  BY <1>a, <2>4, <3>1, <3>2
    <2>7. QED  BY <2>5, <2>6
  <1>4. CASE rule.op \in RefOps
    <2>1. pairs = << <<rule.result, KindType>>, <<rule.inner, KindType>> >>
      BY <1>4 DEF TypesConcluded, RefOps
    <2>2. DOMAIN pairs = {1, 2} /\ pairs[1] = <<rule.result, KindType>> /\ pairs[2] = <<rule.inner, KindType>>
      BY <2>1
    <2>3. HasType(T, rule.result, KindType) /\ HasType(T, rule.inner, KindType)
      BY <1>4 DEF RuleTyped, RefOps
    <2>4. ~TypingPanics(rule)
      BY <1>4 DEF TypingPanics, RefOps
    <2>5. QED  BY <2>2, <2>3, <2>4
  <1>5. CASE rule.op = "KindList"
    <2> DEFINE kinds == [j \in DOMAIN rule.members |-> KindType]
    <2>1. /\ pairs = [j \in DOMAIN rule.members |-> <<rule.members[j], KindType>>] \o << <<rule.result, PackType>> >>
          /\ rule.members \in Seq(Rune)
      BY <1>5, RulesAssumption DEF TypesConcluded, RefOps
    <2>2. kinds \in Seq({KindType, IntegerType}) /\ DOMAIN kinds = DOMAIN rule.members
      BY <2>1
    <2>3. ZipPairs(rule.members, kinds) = [j \in DOMAIN rule.members |-> <<rule.members[j], KindType>>]
      BY <2>2 DEF ZipPairs
    <2>4. pairs = ZipPairs(rule.members, kinds) \o << <<rule.result, PackType>> >>
      BY <2>1, <2>3
    <2>5. /\ HasType(T, rule.result, PackType)
          /\ \A j \in DOMAIN rule.members \cap DOMAIN kinds : HasType(T, rule.members[j], kinds[j])
      BY <1>5 DEF RuleTyped, RefOps
    <2>6. ~TypingPanics(rule)
      BY <1>5 DEF TypingPanics
    <2> HIDE DEF kinds, pairs
    <2>7. \A i \in DOMAIN pairs : HasType(T, pairs[i][1], pairs[i][2])
      BY <2>1, <2>2, <2>4, <2>5, ListIsTyped
    <2>8. QED  BY <2>6, <2>7 DEF pairs
  <1>6. CASE rule.op = "Call"
    <2> DEFINE params == rune_to_type[rule.template].params
    <2>1. /\ rule.template \in DOMAIN rune_to_type
          /\ pairs = ZipPairs(rule.args, params) \o << <<rule.result, KindType>> >>
          /\ rule.args \in Seq(Rune)
      BY <1>6, RulesAssumption DEF TypesConcluded, CallTypes, get_rune_typing_puzzles, RefOps
    <2>2. params \in Seq({KindType, IntegerType})
      BY <2>1, ParamsOfTypes DEF WellFormedTypes
    <2>3. T[rule.template] = rune_to_type[rule.template]
      BY <2>1 DEF HasType
    <2>4. /\ MayApply(rune_to_type[rule.template], rule.args)
          /\ HasType(T, rule.result, KindType)
          /\ \A j \in DOMAIN rule.args \cap DOMAIN params : HasType(T, rule.args[j], params[j])
      BY <1>6, <2>3 DEF RuleTyped, RefOps
    <2>5. ~TypingPanics(rule)
      BY <1>6, <2>4 DEF TypingPanics
    <2> HIDE DEF params, pairs
    <2>6. \A i \in DOMAIN pairs : HasType(T, pairs[i][1], pairs[i][2])
      BY <2>1, <2>2, <2>4, ListIsTyped
    <2>7. QED  BY <2>5, <2>6 DEF pairs
  <1>7. CASE rule.op \in {"CallSiteFunc", "DefinitionFunc", "Resolve"}
    <2>1. pairs = << <<rule.result, PrototypeType>>, <<rule.params, PackType>>, <<rule.return, KindType>> >>
      BY <1>7 DEF TypesConcluded, RefOps
    <2>2. /\ DOMAIN pairs = {1, 2, 3} /\ pairs[1] = <<rule.result, PrototypeType>>
          /\ pairs[2] = <<rule.params, PackType>> /\ pairs[3] = <<rule.return, KindType>>
      BY <2>1
    <2>3. /\ HasType(T, rule.result, PrototypeType) /\ HasType(T, rule.params, PackType)
          /\ HasType(T, rule.return, KindType)
      BY <1>7 DEF RuleTyped, RefOps
    <2>4. ~TypingPanics(rule)
      BY <1>7 DEF TypingPanics
    <2>5. QED  BY <2>2, <2>3, <2>4
  <1>8. QED
    BY <1>1, <1>2, <1>3, <1>4, <1>5, <1>6, <1>7, RulesAssumption DEF LeafOps

LEMMA TypesForcedInit == TypedInit => TypesForced
  <1> SUFFICES ASSUME TypedInit, NEW T, HeaderTyped(T)
               PROVE  /\ \A r \in DOMAIN rune_to_type : HasType(T, r, rune_to_type[r])
                      /\ typing = "failed" => HasUnknownName
                      /\ typing # "panicked"
    BY DEF TypesForced, ForcedBy, HasType
  <1>1. /\ prog \in Programs /\ rune_to_type = InitiallyKnownTypes
        /\ typing = IF HasUnknownName THEN "failed" ELSE "running"
    BY DEF TypedInit, Init, Typer!make_solver_state
  <1>2. ASSUME NEW r \in DOMAIN InitiallyKnownTypes
        PROVE  HasType(T, r, InitiallyKnownTypes[r])
    <2>1. CASE r \in DOMAIN prog.types
      BY <2>1 DEF InitiallyKnownTypes, HeaderTyped
    <2>2. CASE r \notin DOMAIN prog.types
      <3>1. PICK i \in DOMAIN prog.header :
              /\ IsGenericLookup(prog.header[i]) /\ prog.header[i].result = r
              /\ InitiallyKnownTypes[r] = TypeOf(prog.header[i].value)
        BY <1>1, <2>2, InitialLookup
      <3>2. RuleTyped(prog.header[i], T, prog.types) /\ prog.header[i].op = "Lookup"
        BY <3>1 DEF HeaderTyped, IsGenericLookup
      <3>3. QED  BY <3>1, <3>2 DEF RuleTyped, TypeOf, RefOps
    <2>3. QED  BY <2>1, <2>2
  <1>3. QED  BY <1>1, <1>2

LEMMA HeaderTypedBefore ==
  ASSUME prog' = prog, NEW T, HeaderTyped(T)'
  PROVE  HeaderTyped(T)
  <1>1. \A i \in DOMAIN prog.header : RuleTyped(prog'.header[i], T, prog'.types)
    BY DEF HeaderTyped
  <1>2. \A r \in DOMAIN prog'.types : HasType(T, r, prog'.types[r])
    BY DEF HeaderTyped, HasType
  <1>3. QED  BY <1>1, <1>2 DEF HeaderTyped

LEMMA TypesForcedStep == TypedInv /\ TypesForced /\ [TypedNext]_typedVars => TypesForced'
  <1> SUFFICES ASSUME TypedInv, TypesForced, [TypedNext]_typedVars, NEW T, HeaderTyped(T)'
               PROVE  ForcedBy(T)'
    BY DEF TypesForced
  <1> SUFFICES /\ \A r \in DOMAIN rune_to_type' :
                    \/ r \in DOMAIN T /\ T[r] = rune_to_type'[r]
                    \/ r \in prog'.senders /\ typing' \in {"typed", "panicked"}
               /\ typing' = "failed" => HasUnknownName' \/ Undetermined'
               /\ typing' = "panicked" => ~KnownsFit(rune_to_type)'
    BY DEF ForcedBy
  <1>1. prog' = prog
    BY ProgramIsFixed
       DEF TypedNext, TypingNext, SolveTypeRule, PanicTyping, FinishTyping, SolvingNext, typedVars, vars
  <1>2. HeaderTyped(T)
    BY <1>1, HeaderTypedBefore
  <1>3. /\ \A r \in DOMAIN rune_to_type :
             \/ HasType(T, r, rune_to_type[r])
             \/ r \in prog.senders /\ typing \in {"typed", "panicked"}
        /\ typing = "failed" => HasUnknownName \/ Undetermined
        /\ typing = "panicked" => ~KnownsFit(rune_to_type)
    BY <1>2 DEF TypesForced, ForcedBy, HasType
  <1> DEFINE pairs == TypesConcluded(NextToType)
  <1>4. ASSUME typing = "running", Typer!Solvable # {}
        PROVE  /\ ~TypingPanics(NextToType)
               /\ \A r \in Typer!MapRunes(pairs) : HasType(T, r, Typer!MapValue(pairs, r))
               /\ Typer!Conflicts(pairs) = {}
    <2>1. /\ Typer!get_next_solvable \in DOMAIN prog.header /\ NextToType \in Rule
          /\ NextToType = prog.header[Typer!get_next_solvable]
          /\ \E puzzle \in get_rune_typing_puzzles(NextToType) : puzzle \subseteq DOMAIN rune_to_type
      BY <1>4, NextTypeRule DEF NextToType
    <2>2. RuleTyped(NextToType, T, prog.types)
      BY <1>2, <2>1 DEF HeaderTyped
    <2>3. WellFormedTypes /\ prog \in Programs
      BY DEF TypedInv
    <2>4. \A r \in DOMAIN rune_to_type : HasType(T, r, rune_to_type[r])
      BY <1>3, <1>4
    <2>5. ~TypingPanics(NextToType) /\ \A i \in DOMAIN pairs : HasType(T, pairs[i][1], pairs[i][2])
      BY <2>1, <2>2, <2>3, <2>4, FiringIsForcedByTypes
    <2>6. PICK n \in Nat : DOMAIN pairs = 1..n
      BY <2>1, <2>3, ConcludedAreTypes
    <2>7. \A r \in Typer!MapRunes(pairs) : HasType(T, r, Typer!MapValue(pairs, r))
      BY <2>5, <2>6, ValueIsListed
    <2>8. Typer!Conflicts(pairs) = {}
      BY <2>4, <2>7 DEF Typer!Conflicts, HasType
    <2>9. QED  BY <2>5, <2>7, <2>8
  <1>5. CASE SolveTypeRule
    <2>1. /\ typing = "running" /\ Typer!Solvable # {}
          /\ rune_to_type' = Typer!WithInserted(pairs)
          /\ typing' = IF Typer!Conflicts(pairs) = {} THEN "running" ELSE "failed"
      BY <1>5 DEF SolveTypeRule, Typer!commit_step
    <2>2. \A r \in DOMAIN rune_to_type' : HasType(T, r, rune_to_type'[r])
      BY <1>3, <1>4, <2>1 DEF Typer!WithInserted, Typer!Inserted
    <2>3. typing' = "running"
      BY <1>4, <2>1
    <2>4. QED  BY <2>2, <2>3 DEF HasType
  <1>6. CASE PanicTyping
    BY <1>4, <1>6 DEF PanicTyping
  <1>7. CASE FinishTyping
    <2>1. /\ typing = "running" /\ Typer!Solvable = {} /\ open_type_rules' = open_type_rules
      BY <1>7 DEF FinishTyping
    <2>2. CASE Typer!get_unsolved_runes # {}
      <3>1. typing' = "failed" /\ rune_to_type' = rune_to_type
        BY <1>7, <2>2 DEF FinishTyping
      <3>2. Undetermined'
        BY <1>1, <2>1, <2>2, <3>1
           DEF Undetermined, Typer!get_unsolved_runes, Typer!Solvable, TypedRunes, HeaderRunes
      <3>3. QED  BY <1>3, <2>1, <3>1, <3>2 DEF HasType
    <2>3. CASE Typer!get_unsolved_runes = {}
      <3>1. /\ rune_to_type' = [ r \in DOMAIN rune_to_type \cup prog.senders |->
                                   IF r \in prog.senders THEN KindType ELSE rune_to_type[r] ]
            /\ typing' = IF KnownsFit(rune_to_type') THEN "typed" ELSE "panicked"
        BY <1>7, <2>3 DEF FinishTyping
      <3>2. typing' = "panicked" => ~KnownsFit(rune_to_type)'
        BY <1>1, <3>1 DEF KnownsFit, TypeOf
      <3>3. ASSUME NEW r \in DOMAIN rune_to_type'
            PROVE  HasType(T, r, rune_to_type'[r]) \/ r \in prog'.senders
        BY <1>1, <1>3, <2>1, <3>1, <3>3
      <3>4. QED  BY <3>1, <3>2, <3>3 DEF HasType
    <2>4. QED  BY <2>2, <2>3
  <1>8. CASE SolvingNext \/ UNCHANGED typedVars
    <2>1. UNCHANGED typingVars
      BY <1>8 DEF SolvingNext, typedVars
    <2>2. UNCHANGED <<rune_to_type, open_type_rules, typing>>
      BY <2>1 DEF typingVars
    <2>3. (Undetermined => Undetermined') /\ (HasUnknownName => HasUnknownName')
      BY <1>1, <2>2
         DEF Undetermined, Typer!get_unsolved_runes, Typer!Solvable, TypedRunes, HeaderRunes, HasUnknownName
    <2>4. ~KnownsFit(rune_to_type) => ~KnownsFit(rune_to_type)'
      BY <1>1, <2>2 DEF KnownsFit, TypeOf
    <2>5. QED  BY <1>1, <1>3, <2>2, <2>3, <2>4 DEF HasType
  <1>9. QED
    BY <1>5, <1>6, <1>7, <1>8 DEF TypedNext, TypingNext

\* A header that can be typed at all is typed in that one way, whatever the order
\* in which its rules fire, and refused only for an unknown name or a rune whose
\* type its rules do not give; no conflict of types is reported and no rule
\* panics (solve_rune_types).
THEOREM TypesAreForced ==
  TypedSpec =>
    [](\A T : HeaderTyped(T) =>
         /\ \A r \in DOMAIN rune_to_type \ prog.senders : HasType(T, r, rune_to_type[r])
         /\ typing = "failed" => HasUnknownName \/ Undetermined
         /\ typing = "panicked" => ~KnownsFit(rune_to_type))
  <1>1. TypesForced =>
          \A T : HeaderTyped(T) =>
            /\ \A r \in DOMAIN rune_to_type \ prog.senders : HasType(T, r, rune_to_type[r])
            /\ typing = "failed" => HasUnknownName \/ Undetermined
            /\ typing = "panicked" => ~KnownsFit(rune_to_type)
    BY DEF TypesForced, ForcedBy, HasType
  <1>2. QED
    BY <1>1, TypedInvInit, TypedInvStep, TypesForcedInit, TypesForcedStep, PTL DEF TypedSpec
=============================================================================
