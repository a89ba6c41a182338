------------------------- MODULE OverloadResolution -------------------------
(***************************************************************************)
(* Which function a call means (typing/overload_resolver.rs): look for     *)
(* functions of the name in the calling environment, in those of the       *)
(* arguments' types and of the interfaces a placeholder argument has by a  *)
(* bound; try each on the arguments; narrow down the ones that fit; and,   *)
(* for a call the user wrote, convert the arguments (evaluate_call in      *)
(* typing/expression/call_compiler.rs).                                    *)
(*                                                                         *)
(* A callee is a function template, or a bound of the denizen the call is  *)
(* in.  All have the called name.  A parameter is some borrows around a    *)
(* slot, which is a kind without template arguments or a rune of the       *)
(* callee; where clauses are the kinds a callee's runes may stand for.     *)
(* Lambdas, Rust imports, default runes and return types are left out.     *)
(***************************************************************************)
EXTENDS Conversions, FiniteSets, TLC

CONSTANTS
  Callee,
  Decl,     \* callee -> [home, method, path, runes, params, allowed]
  Calls     \* [args, explicit, exact, program]; exact: the compiler resolves a bound, an
            \* override or a drop; program: the callees there are

\* home: the denizen's bounds, the functions of a package, or a citizen's, then either
\* a method, declared in the citizen, or a function generated beside it.  path: the
\* denizens around a bound.  allowed: what the runes may stand for.
Homes == {"bound", "package"} \cup Struct \cup Interface

ASSUME CalleesAreDeclared ==
  /\ {"bound", "calling"} \cap (Struct \cup Interface) = {}
  /\ \A c \in Callee :
       /\ Decl[c].home \in Homes
       /\ Decl[c].method => Decl[c].home \in Struct \cup Interface
       /\ Decl[c].home = "bound" => Decl[c].runes = <<>>
       /\ Decl[c].runes \in Seq(STRING)
       /\ \A i \in DOMAIN Decl[c].runes :
            /\ Decl[c].runes[i] \notin Kind
            /\ \E j \in DOMAIN Decl[c].params : Decl[c].params[j].slot = Decl[c].runes[i]
       /\ Decl[c].params \in
            Seq([refs : Nat,
                 slot : (Kind \ {"never"}) \cup { Decl[c].runes[i] : i \in DOMAIN Decl[c].runes }])

\* The denizens around a call are around each other.
ASSUME BoundsNest ==
  \A c, d \in { e \in Callee : Decl[e].home = "bound" } :
    /\ Decl[c].path \in Seq(STRING)
    /\ IsPrefix(Decl[c].path, Decl[d].path) \/ IsPrefix(Decl[d].path, Decl[c].path)

\* Borrows around a kind, of which the innermost may be of a shared instance; nothing
\* refers to what never is.
Argument ==
  {Bare("never")} \cup
  { type \in [refs : Seq({"&", "@"}), kind : Kind \ {"never"}] :
      \A i \in 1..(Len(type.refs) - 1) : type.refs[i] = "&" }

ASSUME CallsAreTyped ==
  \A c \in Calls :
    c.args \in Seq(Argument) /\ c.explicit \in Seq(Argument) /\ c.program \subseteq Callee

VARIABLES
  call,       \* [args, explicit, exact, program]
  toSearch,   \* environments still to be searched
  found,      \* candidates: callees and the environment each was found in
  tried,      \* candidates that were attempted
  successes,  \* the candidates that fit, each with its prototype
  phase,      \* "searching", "attempting", "converting" or "done"
  verdict     \* [kind, banners]

vars == <<call, toSearch, found, tried, successes, phase, verdict>>

Pending == [kind |-> "none", banners |-> {}]
Verdict(kind, banners) == [kind |-> kind, banners |-> banners]

Args == call.args
Runes(c) == { Decl[c].runes[i] : i \in DOMAIN Decl[c].runes }
IsBound(c) == Decl[c].home = "bound"

-----------------------------------------------------------------------------
(* Where to look.                                                          *)

\* Mutant of ParamEnvironments: references are peeled in every mode.
ParamEnvironmentsPeeled ==
  { k \in Struct \cup Interface \cup Placeholder : \E i \in DOMAIN Args : Args[i].kind = k }

\* An exact search looks in the argument's own type, so in none when that is a
\* reference; a call the user wrote looks behind the references.
ParamEnvironments ==
  LET types == { IF call.exact THEN Args[i] ELSE PeelAll(Args[i]) : i \in DOMAIN Args }
  IN { t.kind : t \in { u \in types : IsBare(u) /\ u.kind \in Struct \cup Interface \cup Placeholder } }

\* The interfaces that a placeholder among the arguments implements by a bound.
PlaceholderExtraEnvironments ==
  { k \in Interface : \E i \in DOMAIN Args :
      Args[i].kind \in Placeholder /\ <<Args[i].kind, k>> \in Implements }

Environments == {"calling"} \cup ParamEnvironments \cup PlaceholderExtraEnvironments

\* A citizen's environment has its methods, which are nowhere else, and once more the
\* functions generated beside it.
CitizenEntries(env) ==
  { [of |-> c, from |-> env] :
      c \in { d \in call.program : env \in Struct \cup Interface /\ Decl[d].home = env } }

\* The bounds are in the calling environment, which a placeholder's is a child of.
BoundEntries(env) ==
  { [of |-> c, from |-> "calling"] :
      c \in { d \in call.program : env \in {"calling"} \cup Placeholder /\ IsBound(d) } }

\* Mutant of PackageEntries: the packages' functions of every name.
PackageEntriesOfAnyName ==
  { [of |-> c, from |-> "package"] :
      c \in { d \in Callee : ~ IsBound(d) /\ ~ Decl[d].method } }

\* Every environment ends in the table of all packages.
PackageEntries ==
  { [of |-> c, from |-> "package"] :
      c \in { d \in call.program : ~ IsBound(d) /\ ~ Decl[d].method } }

\* lookup_all_with_imprecise_name.
Lookup(env) == CitizenEntries(env) \cup BoundEntries(env) \cup PackageEntries

\* get_candidate_banners.
Search(env) ==
  /\ phase = "searching"
  /\ env \in toSearch
  /\ found' = found \cup Lookup(env)
  /\ toSearch' = toSearch \ {env}
  /\ phase' = IF toSearch' = {} THEN "attempting" ELSE "searching"
  /\ UNCHANGED <<call, tried, successes, verdict>>

-----------------------------------------------------------------------------
(* Trying a candidate.                                                     *)

\* assemble_initial_sends_from_args: what the argument says the slot is.  Around a
\* rune only the references the parameter spells out are peeled, around a kind all.
PeeledArg(arg, param) ==
  IF param.slot \in Interface \cup Struct \cup Primitive \cup Text \cup Placeholder
       \/ Len(arg.refs) < param.refs
    THEN PeelAll(arg)
    ELSE Peel(arg, param.refs)

\* compute_upcast_coerced_arg: a kind that implements the interface sends the interface.
Send(arg, param) ==
  LET peeled == PeeledArg(arg, param) IN
  IF IsSub(peeled) /\ param.slot \in Interface /\ <<peeled.kind, param.slot>> \in Implements
    THEN Bare(param.slot) ELSE peeled

\* What the runes are said to be: by the explicit template arguments and by the sends.
Sends(c) ==
  { <<Decl[c].params[i].slot, Send(Args[i], Decl[c].params[i])>> :
      i \in DOMAIN Args \cap DOMAIN Decl[c].params }
Explicits(c) ==
  { <<Decl[c].runes[i], call.explicit[i]>> : i \in DOMAIN call.explicit }
Knowns(c) == Sends(c) \cup Explicits(c)

\* The solve: a kind is sent what it is, each rune one type, and the where clause holds.
Solves(c) ==
  /\ Len(call.explicit) <= Len(Decl[c].runes)
  /\ \A s \in Sends(c) : s[1] \in Runes(c) \/ s[2] = Bare(s[1])
  /\ \A r \in Runes(c) : Cardinality({ k[2] : k \in { s \in Knowns(c) : s[1] = r } }) = 1
  /\ \A k \in Knowns(c) : k[1] \in Runes(c) => k[2] \in Decl[c].allowed

Conclusion(c, rune) == CHOOSE type \in { k[2] : k \in Knowns(c) } : <<rune, type>> \in Knowns(c)

ParamType(param, type) == Wrap([i \in 1..param.refs |-> "&"], type)

ParamTypes(c) ==
  [i \in DOMAIN Decl[c].params |->
     LET param == Decl[c].params[i] IN
     ParamType(param, IF param.slot \in Runes(c) THEN Conclusion(c, param.slot) ELSE Bare(param.slot))]

\* params_match stops at the first argument that is refused, and panics at the first
\* it does not know.
Fits(arg, type) == IF call.exact THEN arg = type ELSE Convertible(arg, type)
Baffles(arg, type) == ~ call.exact /\ Unknown(arg, type)

ParamsMatch(types) ==
  Len(Args) = Len(types) /\ \A i \in DOMAIN types : Fits(Args[i], types[i])

ParamsBaffle(types) ==
  /\ Len(Args) = Len(types)
  /\ \E i \in DOMAIN types : Baffles(Args[i], types[i]) /\ \A j \in 1..(i - 1) : Fits(Args[j], types[j])

\* A bound has no runes to solve: its parameters are compared at once.
Compares(c) == IsBound(c) \/ Solves(c)

Banner(c) == [of |-> c, types |-> ParamTypes(c)]

\* attempt_candidate_banner.
Attempt(candidate) ==
  /\ phase = "attempting"
  /\ candidate \in found \ tried
  /\ tried' = tried \cup {candidate}
  /\ \/ /\ Compares(candidate.of) /\ ParamsBaffle(ParamTypes(candidate.of))
        /\ verdict' = Verdict("panic", {})
        /\ phase' = "done"
        /\ UNCHANGED successes
     \/ /\ Compares(candidate.of) /\ ParamsMatch(ParamTypes(candidate.of))
        /\ successes' = successes \cup {[candidate |-> candidate, banner |-> Banner(candidate.of)]}
        /\ UNCHANGED <<phase, verdict>>
     \/ /\ Compares(candidate.of) =>
             ~ ParamsMatch(ParamTypes(candidate.of)) /\ ~ ParamsBaffle(ParamTypes(candidate.of))
        /\ UNCHANGED <<successes, phase, verdict>>
  /\ UNCHANGED <<call, toSearch, found>>

-----------------------------------------------------------------------------
(* Narrowing down.                                                         *)

\* One function found in two environments is one banner.
Banners == { s.banner : s \in successes }

IsExact(banner, i) == banner.types[i] = Args[i]

\* Where some banner takes an argument as it is, those that convert it are out.
Survivors(banners) ==
  { b \in banners : \A i \in DOMAIN Args : (\E o \in banners : IsExact(o, i)) => IsExact(b, i) }

Normals(banners) == { b \in banners : ~ IsBound(b.of) }
Bounds(banners) == { b \in banners : IsBound(b.of) }

\* The bound of the outermost denizen; which, if there are several, is up to the order
\* of a hash map whose keys are addresses.
Outermost(banners) ==
  { b \in banners : \A o \in banners : Len(Decl[b.of].path) <= Len(Decl[o.of].path) }
Enclose(b, banners) == \A o \in banners : IsPrefix(Decl[b.of].path, Decl[o.of].path)

Give(kind, banners) == verdict' = Verdict(kind, banners) /\ phase' = "done"
Choose(b) ==
  IF call.exact THEN Give("chosen", {b})
  ELSE verdict' = Verdict("chosen", {b}) /\ phase' = "converting"

\* narrow_down_callable_overloads.
NarrowDown(banners, normals, bounds) ==
  \/ Cardinality(normals) > 1 /\ Give("ambiguous", normals)
  \/ \E b \in normals : normals = {b} /\ Choose(b)
  \/ /\ normals = {}
     /\ \E b \in Outermost(bounds) :
          IF Enclose(b, bounds) THEN Choose(b) ELSE Give("panic", {})
  \/ banners # {} /\ normals = {} /\ bounds = {} /\ Give("panic", {})

Narrow ==
  /\ phase = "attempting"
  /\ tried = found
  /\ \/ Banners = {} /\ Give("missing", {})
     \/ \E banners \in {Banners} : \E surviving \in {Survivors(banners)} :
          NarrowDown(banners, Normals(surviving), Bounds(surviving))
  /\ UNCHANGED <<call, toSearch, found, tried, successes>>

-----------------------------------------------------------------------------
(* The arguments of a call.                                                *)

\* convert_exprs: the first argument that does not become what the parameter wants
\* decides.  An implicit_clone of the user's is there or it is not.
ArgumentOutcomes(banner, i) ==
  LET outcome == Convert(Args[i], banner.types[i])
  IN IF outcome = "clone" THEN {"ok", "error"} ELSE {outcome}

ConvertArguments ==
  /\ phase = "converting"
  /\ \E b \in verdict.banners : \E outcomes \in {[i \in DOMAIN Args |-> ArgumentOutcomes(b, i)]} :
       \/ (\A i \in DOMAIN Args : "ok" \in outcomes[i]) /\ Give("called", verdict.banners)
       \/ \E i \in DOMAIN Args :
            /\ \A j \in 1..(i - 1) : "ok" \in outcomes[j]
            /\ \E outcome \in outcomes[i] \ {"ok"} :
                 Give(IF outcome = "error" THEN "misfit" ELSE "panic", verdict.banners)
  /\ UNCHANGED <<call, toSearch, found, tried, successes>>

-----------------------------------------------------------------------------
Init ==
  /\ call \in Calls
  /\ toSearch = Environments
  /\ found = {}
  /\ tried = {}
  /\ successes = {}
  /\ phase = "searching"
  /\ verdict = Pending

Next ==
  \/ \E env \in toSearch : Search(env)
  \/ \E candidate \in found : Attempt(candidate)
  \/ Narrow
  \/ ConvertArguments

Spec == Init /\ [][Next]_vars

-----------------------------------------------------------------------------
\* Candidates are functions of the program; those that fit were tried; a verdict is
\* about banners that fit.
TypeOK ==
  /\ toSearch \subseteq Environments
  /\ \A candidate \in found : candidate.of \in call.program
  /\ tried \subseteq found
  /\ \A s \in successes : s.candidate \in tried /\ s.banner.of = s.candidate.of
  /\ phase \in {"searching", "attempting", "converting", "done"}
  /\ verdict.kind \in {"none", "missing", "ambiguous", "chosen", "called", "misfit", "panic"}
  /\ verdict.banners \subseteq Banners

-----------------------------------------------------------------------------
(* What a call means, said of the functions of the program.                *)

\* A method is seen through an argument of its interface, or of a placeholder that is
\* bounded by it; everything else is seen from everywhere.
Visible(c) ==
  Decl[c].method =>
    \E i \in DOMAIN Args :
      \/ Args[i].kind = Decl[c].home /\ (call.exact => IsBare(Args[i]))
      \/ Args[i].kind \in Placeholder /\ <<Args[i].kind, Decl[c].home>> \in Implements

\* What an assignment of types to runes makes of a slot.
SlotType(param, assignment) ==
  IF param.slot \in DOMAIN assignment THEN assignment[param.slot] ELSE Bare(param.slot)

\* What is inside the arguments, and the types written in the call.
TypeParts ==
  UNION { { Peel(Args[i], n) : n \in 0..Len(Args[i].refs) } : i \in DOMAIN Args }
    \cup { call.explicit[i] : i \in DOMAIN call.explicit }

\* The prototypes the call makes of a callee.
Prototypes(c) ==
  { [of |-> c, types |-> [i \in DOMAIN Decl[c].params |->
       ParamType(Decl[c].params[i], SlotType(Decl[c].params[i], a))]] :
      a \in { a \in [Runes(c) -> TypeParts] :
        IsBound(c) \/
        /\ Len(call.explicit) <= Len(Decl[c].runes)
        /\ \A i \in DOMAIN call.explicit : a[Decl[c].runes[i]] = call.explicit[i]
        /\ \A r \in Runes(c) : a[r] \in Decl[c].allowed
        /\ \A i \in DOMAIN Args \cap DOMAIN Decl[c].params :
             SlotType(Decl[c].params[i], a) = Send(Args[i], Decl[c].params[i]) } }

Seen == UNION { Prototypes(c) : c \in { x \in call.program : Visible(x) } }
Fitting == { p \in Seen : ParamsMatch(p.types) }

\* As exact as every other that fits, at every argument.
Best(fitting) ==
  { b \in fitting : \A o \in fitting : { i \in DOMAIN Args : IsExact(o, i) }
                                         \subseteq { i \in DOMAIN Args : IsExact(b, i) } }

\* An ordinary function that is best is called, two are an ambiguity, and a bound is
\* called only for want of one.
IsReference(given, fitting, best) ==
  LET functions == { b \in best : ~ IsBound(b.of) } IN
  CASE given.banners = {} /\ given.kind = "missing" -> fitting = {}
    [] given.banners = {} /\ given.kind = "panic" -> fitting # {} /\ best = {}
    [] given.kind = "ambiguous" -> Cardinality(functions) > 1 /\ given.banners = functions
    [] OTHER ->
         \E b \in best :
           /\ given.banners = {b}
           /\ \/ functions = {b}
              \/ /\ functions = {}
                 /\ \A o \in best : IsPrefix(Decl[b.of].path, Decl[o.of].path)

\* Whatever the order of the environments and of the candidates, and however often a
\* function is found, the verdict is the one the visible functions call for.  The
\* compiler panics over a conversion nobody thought of, or where each of the functions
\* that fit is beaten by another at some argument.
VerdictIsReference ==
  phase \in {"converting", "done"} =>
    \E seen \in {Seen} : \E fitting \in {Fitting} : \E best \in {Best(fitting)} :
      IF \E p \in seen : ParamsBaffle(p.types) THEN verdict = Verdict("panic", {})
      ELSE IsReference(verdict, fitting, best)

\* convert makes every argument fit that is_type_convertible said would, unless one is
\* a borrow of a borrow: those are refused, and only then.
AcceptedArgsConvert ==
  /\ verdict.kind = "panic" => verdict.banners = {}
  /\ verdict.kind = "misfit" => \E i \in DOMAIN Args : Len(Args[i].refs) >= 2
=============================================================================
