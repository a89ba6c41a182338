---------------------------- MODULE Conversions -----------------------------
(***************************************************************************)
(* Which argument types a parameter takes.  Two functions answer: overload *)
(* resolution asks is_type_convertible (typing/templata_compiler.rs), and  *)
(* once a function is chosen convert (typing/convert_helper.rs) makes the  *)
(* argument fit.  They are written apart and case by case.                 *)
(*                                                                         *)
(* A type is the references around a kind, outermost first: &Ship is       *)
(* [refs |-> <<"&">>, kind |-> "Ship"].  Regions, weak and owning          *)
(* references, arrays and template arguments are left out.                 *)
(***************************************************************************)
EXTENDS Naturals, Sequences, SequencesExt

CONSTANTS
  Primitive,    \* int, bool, ...: copied out of a borrow
  Text,         \* str, which is copied like one
  Struct, Interface, Placeholder,
  Shared,       \* the citizens whose instances are reference counted
  Implements           \* pairs: the first implements the second

ASSUME KindsAreDisjoint ==
  /\ LET kinds == <<Primitive, Text, Struct, Interface, Placeholder, {"never"}>>
     IN \A i, j \in 1..6 : i # j => kinds[i] \cap kinds[j] = {}
  /\ Shared \subseteq Struct \cup Interface
  /\ Implements \subseteq (Struct \cup Interface \cup Placeholder) \X (Interface \cup Placeholder)

Kind == Primitive \cup Text \cup Struct \cup Interface \cup Placeholder \cup {"never"}

Bare(kind) == [refs |-> <<>>, kind |-> kind]
Wrap(refs, type) == [type EXCEPT !.refs = refs \o @]
Borrow(type) == Wrap(<<"&">>, type)

IsBare(type) == type.refs = <<>>
IsBorrow(type) == type.refs # <<>> /\ Head(type.refs) = "&"
IsShare(type) == type.refs # <<>> /\ Head(type.refs) = "@"

\* peel_one_reference, peel_n_references (defined where there are that many) and
\* peel_all_references.
Inner(type) == [type EXCEPT !.refs = Tail(@)]
Peel(type, n) == [type EXCEPT !.refs = SubSeq(@, n + 1, Len(@))]
PeelAll(type) == Bare(type.kind)

\* `sub` is the inside of `type`.
IsInside(sub, type) == type.refs # <<>> /\ Inner(type) = sub

ImplicitlyCloneable(type) ==
  IsBare(type) /\ type.kind \in Primitive \cup Text \cup Shared \cup {"never"}

IsNever(type) == type = Bare("never")
IsSub(type) == IsBare(type) /\ type.kind \in Struct \cup Interface \cup Placeholder
IsSuper(type) == IsBare(type) /\ type.kind \in Interface \cup Placeholder

-----------------------------------------------------------------------------
(* is_type_convertible.                                                    *)

\* Borrow under borrow and share under share compare what they refer to.
SharedWraps(s, t) == Len(LongestCommonPrefix({s.refs, t.refs}))

\* Mutant of Taken: a value is taken where a reference to it is wanted.
TakenLendingBareValues(s, t) ==
  \/ IsBorrow(s) /\ IsInside(t, s) /\ ImplicitlyCloneable(t)
  \/ IsShare(s) /\ IsInside(t, s)
  \/ IsInside(s, t)
  \/ IsNever(s) \/ s = t
  \/ IsSub(s) /\ IsSuper(t) /\ <<s.kind, t.kind>> \in Implements

\* Between types that do not start with the same reference: taken, refused or, for
\* the pairs nobody thought of, a panic.
Taken(s, t) ==
  \/ IsBorrow(s) /\ IsInside(t, s) /\ ImplicitlyCloneable(t)
  \/ IsShare(s) /\ IsInside(t, s)
  \/ IsShare(t) /\ IsInside(s, t)
  \/ IsShare(s) /\ IsBorrow(t) /\ Inner(s) = Inner(t)
  \/ IsNever(s) /\ ~ (IsBorrow(t) /\ IsInside(s, t))
  \/ s = t
  \/ IsSub(s) /\ IsSuper(t) /\ <<s.kind, t.kind>> \in Implements

Refused(s, t) ==
  /\ ~ Taken(s, t)
  /\ \/ IsBorrow(s) /\ IsInside(t, s)
     \/ IsBorrow(t) /\ IsInside(s, t)
     \/ \E x \in {s, t} : IsBare(x) /\ x.kind \in Primitive \cup Text
     \/ IsBare(t) /\ t.kind \in Struct
     \/ IsSub(s) /\ IsSuper(t)

Convertible(s, t) ==
  LET n == SharedWraps(s, t) IN
  \E from \in {Peel(s, n)}, to \in {Peel(t, n)} : Taken(from, to)

\* "Dont know if we can convert".
Unknown(s, t) ==
  LET n == SharedWraps(s, t) IN
  \E from \in {Peel(s, n)}, to \in {Peel(t, n)} : ~ Taken(from, to) /\ ~ Refused(from, to)

-----------------------------------------------------------------------------
(* convert.                                                                *)

\* convert_via_upcast, on what is inside the references that stay.
Upcast(s, t) == IF IsSub(s) /\ IsSuper(t) /\ <<s.kind, t.kind>> \in Implements THEN "ok" ELSE "error"

\* The argument fits, is refused after all ("error"), is for the user's implicit_clone
\* ("clone"), or the compiler panics.
Convert(s, t) ==
  IF s = t \/ IsNever(s) THEN "ok"
  ELSE IF IsNever(t) THEN "panic"
  ELSE IF IsBorrow(s) /\ IsBorrow(t) THEN
    IF IsShare(Inner(s)) /\ IsInside(Inner(t), Inner(s)) THEN "ok" ELSE Upcast(Inner(s), Inner(t))
  ELSE IF IsInside(s, t) THEN "panic"       \* a temporary to lend: disabled
  ELSE IF IsBorrow(s) /\ IsInside(t, s) THEN
    IF ImplicitlyCloneable(t) THEN "ok" ELSE "clone"
  ELSE IF IsShare(s) /\ (IsInside(t, s) \/ (IsBorrow(t) /\ Inner(s) = Inner(t))) THEN "ok"
  ELSE IF ~ IsBorrow(s) /\ ~ IsBorrow(t) THEN Upcast(s, t)
  ELSE "panic"
=============================================================================
