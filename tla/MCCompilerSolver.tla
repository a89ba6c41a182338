-------------------------- MODULE MCCompilerSolver --------------------------
(***************************************************************************)
(* Bounded instances of RuneTypeSolver.  The runes a, b, c hold kinds (or  *)
(* integers), m a template (what a Lookup names), p a kind list, f a       *)
(* prototype, d and e the runes of the defaults' literals, s what a call   *)
(* sends.                                                                  *)
(***************************************************************************)
EXTENDS RuneTypeSolver

MCRune == {"a", "b", "c", "m", "p", "f", "d", "e", "s"}
KindRunes == {"a", "b", "c"}

int == Kind("int")
str == Kind("str")
Opt == Template("Opt")
OptInt == Citizen("Opt", <<int>>)

Lookup(r, v)    == [op |-> "Lookup", result |-> r, value |-> v]
Literal(r, v)   == [op |-> "Literal", result |-> r, value |-> v]
Equals(l, r)    == [op |-> "Equals", left |-> l, right |-> r]
Borrow(r, i)    == [op |-> "BorrowRef", result |-> r, inner |-> i]
Weak(r, i)      == [op |-> "WeakRef", result |-> r, inner |-> i]
KindList(r, ms) == [op |-> "KindList", result |-> r, members |-> ms]
Call(r, t, as)  == [op |-> "Call", result |-> r, template |-> t, args |-> as]
Func(o, f, p, r) == [op |-> o, result |-> f, params |-> p, return |-> r]

-----------------------------------------------------------------------------
(* Every list of up to three of the core rules, in every order, from every *)
(* choice of knowns: what where-clauses and parameter types produce.       *)

CorePool ==
  { Equals("a", "b"), Borrow("a", "b"), Borrow("c", "a"), Weak("b", "c"),
    Lookup("m", Opt), Lookup("m", int), Lookup("m", NotFound),
    Call("a", "m", <<"b">>), Call("c", "m", <<>>),
    KindList("p", <<"c", "a">>), KindList("p", <<"a">>),
    Func("Resolve", "f", "p", "c"), Func("DefinitionFunc", "f", "p", "b"),
    Func("CallSiteFunc", "f", "p", "c") }

CoreKnowns ==
  { [r \in {} |-> int],
    [r \in {"a"} |-> RefTo("BorrowRef", int)], [r \in {"a"} |-> OptInt],
    [r \in {"b", "c"} |-> IF r = "b" THEN int ELSE str],
    [r \in {"a", "b"} |-> IF r = "a" THEN str ELSE int] }

\* @SROACSD: definition-side and call-site function rules are never together.
Separated(rs) ==
  ~ /\ \E i \in DOMAIN rs : rs[i].op = "DefinitionFunc"
    /\ \E i \in DOMAIN rs : rs[i].op \in {"Resolve", "CallSiteFunc"}

\* @TNLTZACZ: a type name is a Lookup and, next, a Call whose result nothing
\* before it mentions.  A finished kind is applied only that way, and a
\* template is never applied to nothing.
NamesFirst(rs, knowns) ==
  \A i \in DOMAIN rs : rs[i].op = "Call" =>
    \E j \in 1..(i - 1) :
      /\ rs[j].op = "Lookup"
      /\ \A k \in DOMAIN rs : rs[k].op = "Lookup" => k = j
      /\ rs[j].value.tag = "template" <=> rs[i].args # <<>>
      /\ rs[i].args = <<>> =>
           /\ rs[i].result \notin DOMAIN knowns
           /\ \A k \in 1..(i - 1) : rs[i].result \notin RunesOf(rs[k])

TypeNamesOnly(rs) ==
  \A i \in DOMAIN rs : \A j \in DOMAIN rs :
    rs[i].op = "Lookup" /\ rs[j].op = "Lookup" => i = j

\* A solve whose rules are all typed, given the types of its generic parameters;
\* its knowns and other parameters are kinds.
Solve(rs, knowns, generics, fill, checked) ==
  LET ruleRunes == HeaderRunes(rs)
      types == [ r \in DOMAIN knowns \cup GenericRunes(generics) \cup (KindRunes \cap ruleRunes) |->
                   IF r \in GenericRunes(generics) THEN GenericTypes(generics)[r] ELSE KindType ]
  IN
  [ header |-> rs, types |-> types, senders |-> {},
    rules |-> rs, knowns |-> knowns, runes |-> ruleRunes \cup DOMAIN types,
    generics |-> generics, fill |-> fill, checked |-> checked ]

\* A candidate of another arity is refused before its parameter list is solved
\* (overload_resolver.rs), so the kind lists of a solve have one length.
OneArity(rs) ==
  \A i, j \in DOMAIN rs :
    rs[i].op = "KindList" /\ rs[j].op = "KindList" => Len(rs[i].members) = Len(rs[j].members)

CoreLists ==
  { rs \in [1..3 -> CorePool] : Injective(rs) /\ Separated(rs) /\ TypeNamesOnly(rs) }

CorePrograms ==
  UNION { { Solve(rs, knowns, <<>>, "none", FALSE) :
              rs \in { rs \in CoreLists : NamesFirst(rs, knowns) /\ OneArity(rs) } } : knowns \in CoreKnowns }

-----------------------------------------------------------------------------
(* Solves with generic parameters a and b, with and without defaults: two  *)
(* integer parameters, and a citizen type c that takes them as arguments.  *)

Vec == Template("Vec")
VecOf(x, y) == Citizen("Vec", <<x, y>>)
Number(n) == [tag |-> "integer", value |-> n]
five == Number("5")
seven == Number("7")

IntDefault(g, r) == [rules |-> <<Literal(r, five), Equals(g, r)>>, result |-> r]
RuneDefault(g, h) == [rules |-> <<Equals(g, h)>>, result |-> h]
TypedParam(g, type, default) == [rune |-> g, type |-> type, default |-> default]
Param(g, default) == TypedParam(g, IntegerType, default)
KindParam(g) == TypedParam(g, KindType, NoDefault)

DefaultPool == { Equals("a", "b"), Lookup("m", Vec), Call("c", "m", <<"a", "b">>) }
DefaultRules == { <<>> } \cup [1..1 -> DefaultPool] \cup [1..2 -> DefaultPool]
DefaultKnowns ==
  { [r \in {} |-> five], [r \in {"a"} |-> seven], [r \in {"b"} |-> seven],
    [r \in {"c"} |-> VecOf(seven, seven)], [r \in {"c"} |-> VecOf(five, seven)],
    [r \in {"a", "c"} |-> IF r = "a" THEN five ELSE VecOf(five, seven)] }

\* Defaults that refer to nothing, or to an earlier parameter.
BackwardGenerics ==
  { <<Param("a", x), Param("b", y)>> :
      x \in { NoDefault, IntDefault("a", "d") },
      y \in { NoDefault, IntDefault("b", "e"), RuneDefault("b", "a") } }

DefaultSolves(rss, generics) ==
  { Solve(x[1], x[2], x[3], "default", x[4]) :
      x \in { x \in rss \X DefaultKnowns \X generics \X BOOLEAN :
                TypeNamesOnly(x[1]) /\ NamesFirst(x[1], x[2]) } }

DefaultPrograms == DefaultSolves(DefaultRules, BackwardGenerics)

\* func foo<N Int = M, M Int = 5>(): a default that refers to a later parameter.
ForwardPrograms ==
  { Solve(<<>>, [r \in {} |-> five],
          <<Param("a", RuneDefault("a", "b")), Param("b", IntDefault("b", "e"))>>,
          "default", TRUE) }

-----------------------------------------------------------------------------
(* Definitions: generic parameters a and b are filled with placeholders.   *)

PlaceholderPool ==
  { Equals("a", "b"), Borrow("a", "b"), Borrow("c", "a"), Weak("c", "b"),
    Lookup("m", Opt), Call("b", "m", <<"c">>), KindList("p", <<"a", "b">>),
    Func("DefinitionFunc", "f", "p", "c") }

PlaceholderPrograms ==
  { Solve(rs, [r \in {} |-> int], <<KindParam("a"), KindParam("b")>>,
          "placeholder", FALSE) :
      rs \in { rs \in [1..3 -> PlaceholderPool] :
                 TypeNamesOnly(rs) /\ NamesFirst(rs, [r \in {} |-> int]) } }

\* Every solve that fills unsolved generic parameters.
GenericsPrograms == DefaultPrograms \cup PlaceholderPrograms

-----------------------------------------------------------------------------
(* Functions, called and compiled: generic parameters a and b, where-clauses *)
(* and bounds, and a parameter of type c to which a call sends a kind.      *)

Arr == Template("Arr")
ArrOf(n, x) == Citizen("Arr", <<n, x>>)

Name(r, t, args) == <<Lookup("m", t), Call(r, "m", args)>>
Bound == << KindList("p", <<"a", "b">>), Func("CallSiteFunc", "f", "p", "b"),
            Func("DefinitionFunc", "f", "p", "b"), Func("Resolve", "f", "p", "b") >>

WherePieces ==
  { <<>>, <<Equals("a", "b")>>, <<Borrow("a", "b")>>, Bound,
    <<Equals("a", "b")>> \o Bound, Bound \o <<Equals("a", "b")>> }

\* int<b> and an unknown name are for the typing to refuse; Pair<b> lacks an
\* argument.
TypePieces ==
  { <<Borrow("c", "a")>>, <<Borrow("c", "b")>>, Name("c", Opt, <<"b">>), Name("c", int, <<>>), Name("c", int, <<"b">>),
    Name("c", Arr, <<"b", "a">>), Name("c", Template("Pair"), <<"b">>), Name("c", NotFound, <<>>) }

Headers == { w \o t : w \in WherePieces, t \in TypePieces }

OfType(type) == IF type = KindType THEN int ELSE five

Signatures ==
  { <<TypedParam("a", x, NoDefault), TypedParam("b", y, d)>> :
      x \in {KindType, IntegerType}, y \in {KindType, IntegerType},
      d \in {NoDefault, IntDefault("b", "e"), RuneDefault("b", "a")} }

Send(k) == [sender |-> "s", receiver |-> "c", kind |-> k]
SendPool ==
  { <<>> } \cup { <<Send(k)>> : k \in {int, OptInt, RefTo("BorrowRef", int), ArrOf(five, int)} }

CallPrograms ==
  { CallSiteSolve(header, generics, <<>>, sends) :
      header \in Headers, generics \in Signatures, sends \in SendPool }
  \cup
  { CallSiteSolve(header, generics, <<OfType(generics[1].type)>>, <<>>) :
      header \in Headers, generics \in Signatures }

DefinitionPrograms ==
  { DefinitionSolve(header, generics) : header \in Headers, generics \in Signatures }

-----------------------------------------------------------------------------
(* Template arguments written at a call, and types of patterns: b and c are *)
(* parameters of the function around them.                                  *)

Inherit(r, v) == [op |-> "RuneParentEnvLookup", result |-> r, value |-> v]

\* An argument too many has no type, an argument of another type and an argument
\* of a finished kind panic.
WrittenTypes ==
  { <<Literal("a", five)>>, Name("a", int, <<>>), Name("a", NotFound, <<>>) }
  \cup UNION { { <<Inherit("a", v)>>, <<Inherit("b", v), Borrow("a", "b")>>,
                 <<Lookup("m", Opt), Inherit("b", v), Call("a", "m", <<"b">>)>>,
                 <<Lookup("m", int), Inherit("b", v), Call("a", "m", <<"b">>)>>,
                 <<Lookup("m", Opt), Inherit("b", v), Inherit("c", v), Call("a", "m", <<"b", "c">>)>> } :
               v \in {int, five} }
  \cup { <<Lookup("m", Arr), Inherit("b", v), Literal("c", n), Call("a", "m", <<"c", "b">>)>> :
          v \in {int, five}, n \in {five, seven} }

InheritingPrograms ==
  { InheritingSolve(header, [r \in {"a"} |-> type], fill) :
      header \in WrittenTypes, type \in {KindType, IntegerType}, fill \in {"default"} }
  \cup { InheritingSolve(header, [r \in {"a"} |-> KindType], "none") : header \in WrittenTypes \cup {<<>>} }

-----------------------------------------------------------------------------
(* Assignments: kinds for a, b, c; the list is of two of them or the known *)
(* prototype's, and the prototype is made of it or is the known one.       *)

KindTerms == { int, str, RefTo("BorrowRef", int), OptInt }

MCAssignments ==
  { [ r \in MCRune |->
        CASE r \in KindRunes -> k[r]
          [] r = "m" -> t
          [] r = "p" -> KindListOf(CASE l = 1 -> <<k["a"], k["b"]>>
                                     [] l = 2 -> <<k["c"], k["a"]>>
                                     [] OTHER -> <<int, int>>)
          [] r = "f" -> Prototype(CASE l = 1 -> <<k["a"], k["b"]>>
                                    [] l = 2 -> <<k["c"], k["a"]>>
                                    [] OTHER -> <<int, int>>, k[q])
          [] r = "s" -> k["c"]
          [] OTHER -> five ] :
      k \in [KindRunes -> KindTerms], t \in {Opt, int}, l \in 1..3, q \in {"b", "c"} }

DefaultAssignments ==
  { [ r \in MCRune |->
        CASE r = "m" -> Vec [] r = "c" -> VecOf(k["a"], k["b"])
          [] r = "p" -> KindListOf(<<k["a"], k["b"]>>)
          [] r = "s" -> VecOf(k["a"], k["b"])
          [] r = "f" -> Prototype(<<k["a"], k["b"]>>, five)
          [] OTHER -> k[r] ] : k \in [{"a", "b", "d", "e"} -> {five, seven}] }

\* A parameter that is an array: of a size and an element kind.
ArrAssignments ==
  { [ r \in MCRune |->
        CASE r = "m" -> Arr [] r \in {"c", "s"} -> ArrOf(n, x) [] r = "a" -> x [] r = "b" -> n
          [] r = "p" -> KindListOf(<<x, n>>) [] r = "f" -> Prototype(<<x, n>>, x)
          [] OTHER -> five ] : x \in {int, str}, n \in {five, seven} }

\* Core solves and solves that fill parameters, each judged by the assignments
\* it could have.
SolverPrograms ==
  CorePrograms \cup GenericsPrograms \cup ForwardPrograms
    \cup CallPrograms \cup DefinitionPrograms \cup InheritingPrograms
SolverAssignments == MCAssignments \cup DefaultAssignments \cup ArrAssignments

NoAssignments == {}

MCRule ==
  CorePool \cup DefaultPool \cup PlaceholderPool
    \cup UNION { Range(header) : header \in Headers \cup WrittenTypes } \cup { Equals("s", "c") }
    \cup { Lookup("m", Template("Pair")), Call("c", "m", <<"a", "a">>) }
    \cup { Literal(r, five) : r \in {"d", "e"} }
    \cup { Equals(x, y) : x, y \in {"a", "b", "d", "e"} }

MCTemplateParams ==
  [n \in {"Opt", "Vec", "Pair", "Arr"} |->
     CASE n = "Opt" -> <<KindType>> [] n = "Vec" -> <<IntegerType, IntegerType>>
       [] n = "Pair" -> <<KindType, KindType>> [] OTHER -> <<IntegerType, KindType>>]

MCGivens ==
  { int, str, Opt, Vec, Arr, Template("Pair"), NotFound, five, seven, OptInt, RefTo("BorrowRef", int),
    ArrOf(five, int) } \cup { VecOf(x, y) : x, y \in {five, seven} }

MCOverloads == (<<int, int>> :> str) @@ (<<str, int>> :> int)
=============================================================================
