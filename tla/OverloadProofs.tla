--------------------------- MODULE OverloadProofs ---------------------------
(***************************************************************************)
(* What holds of conversions between types of any depth, of narrowing      *)
(* down, and of the verdict of find_function as a whole, for every         *)
(* hierarchy of types, every program and every call.                       *)
(***************************************************************************)
EXTENDS OverloadResolution, FiniteSetTheorems, SequenceTheorems, TLAPS

-----------------------------------------------------------------------------
(* Types that are a kind behind borrows.                                   *)

BorrowType == [refs : Seq({"&"}), kind : Kind \ {"never"}]

\* Two borrow types are equal when they are as deep and of one kind.
LEMMA BorrowTypesByDepth ==
  ASSUME NEW s \in BorrowType, NEW t \in BorrowType,
         s.kind = t.kind, Len(s.refs) = Len(t.refs)
  PROVE  s = t
<1>1. s.refs = t.refs
  BY DEF BorrowType
<1> QED BY <1>1 DEF BorrowType

\* Peeling some borrows leaves a borrow type that is so much shallower.
LEMMA PeelShortens ==
  ASSUME NEW s \in BorrowType, NEW n \in 0..Len(s.refs)
  PROVE  /\ Peel(s, n) \in BorrowType
         /\ Len(Peel(s, n).refs) = Len(s.refs) - n
         /\ Peel(s, n).kind = s.kind
<1> DEFINE rest == SubSeq(s.refs, n + 1, Len(s.refs))
<1>1. rest \in Seq({"&"}) /\ Len(rest) = Len(s.refs) - n
  BY DEF BorrowType
<1>2. Peel(s, n) = [s EXCEPT !.refs = rest]
  BY DEF Peel
<1> QED BY <1>1, <1>2 DEF BorrowType

\* One borrow less is the inside.
LEMMA InnerShortens ==
  ASSUME NEW s \in BorrowType, s.refs # <<>>
  PROVE  /\ Inner(s) \in BorrowType
         /\ Len(Inner(s).refs) = Len(s.refs) - 1
         /\ Inner(s).kind = s.kind
<1>1. Tail(s.refs) \in Seq({"&"}) /\ Len(Tail(s.refs)) = Len(s.refs) - 1
  BY DEF BorrowType
<1> QED BY <1>1 DEF Inner, BorrowType

\* The tests of a type's shape, as facts about its depth.
LEMMA Shapes ==
  ASSUME NEW s \in BorrowType
  PROVE  /\ Len(s.refs) = 0 => IsBare(s) /\ ~ IsBorrow(s)
         /\ Len(s.refs) >= 1 => ~ IsBare(s) /\ IsBorrow(s) /\ s.refs # <<>>
         /\ IsBare(s) => Len(s.refs) = 0
         /\ ~ IsShare(s)
         /\ ~ IsNever(s)
<1>1. s.refs \in Seq({"&"}) /\ s.kind # "never"
  BY DEF BorrowType
<1>2. IsBare(s) <=> Len(s.refs) = 0
  BY <1>1 DEF IsBare
<1>3. s.refs # <<>> => Head(s.refs) = "&" /\ Len(s.refs) >= 1
  BY <1>1
<1> QED BY <1>1, <1>2, <1>3 DEF IsBorrow, IsShare, IsNever, Bare, IsBare

\* A type is the inside of another of its kind that is one deeper, and of no other.
LEMMA InsideByDepth ==
  ASSUME NEW s \in BorrowType, NEW t \in BorrowType
  PROVE  IsInside(s, t) <=> s.kind = t.kind /\ Len(t.refs) = Len(s.refs) + 1
<1>0. Len(s.refs) \in Nat /\ Len(t.refs) \in Nat /\ (Len(t.refs) = 0 <=> t.refs = <<>>)
  BY DEF BorrowType
<1>1. CASE t.refs = <<>>
  BY <1>0, <1>1 DEF IsInside
<1>2. CASE t.refs # <<>>
  <2>1. Inner(t) \in BorrowType /\ Len(Inner(t).refs) = Len(t.refs) - 1 /\ Inner(t).kind = t.kind
    BY <1>2, InnerShortens
  <2>2. Inner(t) = s <=> Inner(t).kind = s.kind /\ Len(Inner(t).refs) = Len(s.refs)
    BY <2>1, BorrowTypesByDepth
  <2> QED BY <1>0, <1>2, <2>1, <2>2 DEF IsInside
<1> QED BY <1>1, <1>2

\* is_type_convertible strips the borrows of the shallower type from both.
LEMMA SharedWrapsIsLesser ==
  ASSUME NEW s \in BorrowType, NEW t \in BorrowType
  PROVE  SharedWraps(s, t) = IF Len(s.refs) <= Len(t.refs) THEN Len(s.refs) ELSE Len(t.refs)
<1> DEFINE S == {s.refs, t.refs}
           shorter == IF Len(s.refs) <= Len(t.refs) THEN s.refs ELSE t.refs
<1>1. /\ s.refs \in Seq({"&"}) /\ t.refs \in Seq({"&"})
      /\ shorter \in S /\ shorter \in Seq({"&"})
      /\ Len(shorter) <= Len(s.refs) /\ Len(shorter) <= Len(t.refs)
  BY DEF BorrowType
<1>2. shorter \in CommonPrefixes(S)
  <2>1. shorter = SubSeq(shorter, 1, Len(shorter)) /\ Len(shorter) \in 0..Len(shorter)
    BY <1>1
  <2>2. shorter \in Prefixes(shorter)
    BY <2>1 DEF Prefixes
  <2>3. \A u \in S : IsPrefix(shorter, u)
    <3>1. SUFFICES ASSUME NEW u \in S PROVE IsPrefix(shorter, u)
      OBVIOUS
    <3>2. u \in Seq({"&"}) /\ Len(shorter) <= Len(u)
      BY <1>1
    <3>3. SubSeq(shorter, 1, Len(shorter)) = SubSeq(u, 1, Len(shorter))
      BY <1>1, <3>2
    <3> QED BY <3>2, <3>3 DEF IsPrefix
  <2> QED BY <1>1, <2>2, <2>3 DEF CommonPrefixes
<1>3. ASSUME NEW p \in CommonPrefixes(S) PROVE Len(p) <= Len(shorter) /\ Len(p) \in Nat
  <2>1. IsPrefix(p, shorter)
    BY <1>1, <1>3 DEF CommonPrefixes
  <2>2. \E u \in S : \E l \in 0..Len(u) : p = SubSeq(u, 1, l)
    BY <1>3 DEF CommonPrefixes, Prefixes
  <2>3. p \in Seq({"&"})
    BY <1>1, <2>2
  <2> QED BY <2>1, <2>3 DEF IsPrefix
<1>4. \E l \in CommonPrefixes(S) : \A o \in CommonPrefixes(S) : Len(o) <= Len(l)
  BY <1>2, <1>3
<1>5. /\ LongestCommonPrefix(S) \in CommonPrefixes(S)
      /\ \A o \in CommonPrefixes(S) : Len(o) <= Len(LongestCommonPrefix(S))
  BY <1>4 DEF LongestCommonPrefix
<1>6. Len(LongestCommonPrefix(S)) = Len(shorter)
  <2>1. Len(shorter) \in Nat
    BY <1>1
  <2>2. Len(shorter) <= Len(LongestCommonPrefix(S))
    BY <1>2, <1>5
  <2>3. Len(LongestCommonPrefix(S)) <= Len(shorter) /\ Len(LongestCommonPrefix(S)) \in Nat
    BY <1>3, <1>5
  <2> HIDE DEF S, shorter
  <2> QED BY <2>1, <2>2, <2>3
<1>7. SharedWraps(s, t) = Len(shorter)
  BY <1>6 DEF SharedWraps
<1> QED BY <1>7

-----------------------------------------------------------------------------
(* What overload resolution accepts, convert makes fit.                    *)

\* When the argument is no deeper than the parameter, they are equally deep, and of one
\* kind or of a kind and one it implements.
LEMMA TakenAtEqualDepth ==
  ASSUME NEW s \in BorrowType, NEW t \in BorrowType,
         Len(s.refs) <= Len(t.refs), Convertible(s, t)
  PROVE  /\ Len(s.refs) = Len(t.refs)
         /\ \/ s.kind = t.kind
            \/ /\ <<s.kind, t.kind>> \in Implements
               /\ s.kind \in Struct \cup Interface \cup Placeholder
               /\ t.kind \in Interface \cup Placeholder
<1> DEFINE n == SharedWraps(s, t)
           from == Peel(s, n)
           to == Peel(t, n)
<1>1. n = Len(s.refs) /\ n \in 0..Len(s.refs) /\ n \in 0..Len(t.refs)
  BY SharedWrapsIsLesser DEF BorrowType
<1>2. /\ from \in BorrowType /\ Len(from.refs) = 0 /\ from.kind = s.kind
      /\ to \in BorrowType /\ Len(to.refs) = Len(t.refs) - n /\ to.kind = t.kind
  <2>1. /\ from \in BorrowType /\ Len(from.refs) = Len(s.refs) - n /\ from.kind = s.kind
        /\ to \in BorrowType /\ Len(to.refs) = Len(t.refs) - n /\ to.kind = t.kind
    BY <1>1, PeelShortens
  <2>2. Len(s.refs) - n = 0
    BY <1>1 DEF BorrowType
  <2> QED BY <2>1, <2>2
<1>3. Taken(from, to)
  BY DEF Convertible
<1> HIDE DEF n, from, to
<1>4. IsBare(from) /\ ~ IsBorrow(from) /\ ~ IsShare(from) /\ ~ IsNever(from) /\ ~ IsShare(to)
  BY <1>2, Shapes
<1>5. from = to \/ (IsSub(from) /\ IsSuper(to) /\ <<from.kind, to.kind>> \in Implements)
  BY <1>3, <1>4 DEF Taken
<1>6. Len(to.refs) = 0
  BY <1>2, <1>5, Shapes DEF IsSuper
<1>7. Len(s.refs) = Len(t.refs)
  BY <1>1, <1>2, <1>6 DEF BorrowType
<1> QED BY <1>2, <1>5, <1>7 DEF IsSub, IsSuper

\* When it is deeper, it is so by one, and the parameter is of its kind, which is
\* copied out of a borrow if there is but one.
LEMMA TakenOneDeeper ==
  ASSUME NEW s \in BorrowType, NEW t \in BorrowType,
         Len(s.refs) > Len(t.refs), Convertible(s, t)
  PROVE  /\ s.kind = t.kind
         /\ Len(s.refs) = Len(t.refs) + 1
         /\ Len(t.refs) = 0 => ImplicitlyCloneable(t)
<1> DEFINE n == SharedWraps(s, t)
           from == Peel(s, n)
           to == Peel(t, n)
<1>0. Len(s.refs) \in Nat /\ Len(t.refs) \in Nat
  BY DEF BorrowType
<1>1. n = Len(t.refs) /\ n \in 0..Len(s.refs) /\ n \in 0..Len(t.refs)
  BY <1>0, SharedWrapsIsLesser
<1>2. /\ from \in BorrowType /\ Len(from.refs) = Len(s.refs) - n /\ from.kind = s.kind
      /\ to \in BorrowType /\ Len(to.refs) = 0 /\ to.kind = t.kind
  <2>1. /\ from \in BorrowType /\ Len(from.refs) = Len(s.refs) - n /\ from.kind = s.kind
        /\ to \in BorrowType /\ Len(to.refs) = Len(t.refs) - n /\ to.kind = t.kind
    BY <1>1, PeelShortens
  <2>2. Len(t.refs) - n = 0
    BY <1>0, <1>1
  <2> QED BY <2>1, <2>2
<1>3. Taken(from, to)
  BY DEF Convertible
<1>4. Len(t.refs) = 0 => to = t
  BY <1>2, BorrowTypesByDepth
<1> HIDE DEF n, from, to
<1>5. /\ ~ IsBare(from) /\ ~ IsShare(from) /\ ~ IsNever(from) /\ ~ IsShare(to)
      /\ from # to
  <2>1. Len(from.refs) >= 1
    BY <1>0, <1>1, <1>2
  <2>2. ~ IsBare(from) /\ ~ IsShare(from) /\ ~ IsNever(from) /\ ~ IsShare(to) /\ IsBare(to)
    BY <1>2, <2>1, Shapes
  <2> QED BY <2>2
<1>6. IsInside(to, from) /\ ImplicitlyCloneable(to)
  BY <1>3, <1>5 DEF Taken, IsSub
<1>7. to.kind = from.kind /\ Len(from.refs) = Len(to.refs) + 1
  BY <1>2, <1>6, InsideByDepth
<1>8. Len(s.refs) = Len(t.refs) + 1
  <2>1. Len(from.refs) = Len(s.refs) - Len(t.refs) /\ Len(from.refs) = 0 + 1
    BY <1>1, <1>2, <1>7
  <2>2. \A m, k \in Nat : m - k = 0 + 1 => m = k + 1
    OBVIOUS
  <2> QED BY <1>0, <2>1, <2>2
<1>9. Len(t.refs) = 0 => ImplicitlyCloneable(t)
  BY <1>4, <1>6
<1> QED BY <1>2, <1>7, <1>8, <1>9

\* An argument that is_type_convertible accepts for a parameter never makes convert
\* panic, and is refused by it only when it is a borrow of a borrow: for every
\* hierarchy of types, behind any number of borrows.
THEOREM AcceptedTypesConvert ==
  ASSUME NEW s \in BorrowType, NEW t \in BorrowType, Convertible(s, t)
  PROVE  /\ Convert(s, t) \in {"ok", "error"}
         /\ Convert(s, t) = "error" => Len(s.refs) >= 2
<1>0. Len(s.refs) \in Nat /\ Len(t.refs) \in Nat
  BY DEF BorrowType
<1>1. ~ IsNever(s) /\ ~ IsNever(t) /\ ~ IsShare(s) /\ ~ IsShare(t)
  BY Shapes
<1>2. CASE s = t
  BY <1>2, <1>1 DEF Convert
<1>3. CASE s # t /\ Len(s.refs) = Len(t.refs)
  <2>1. /\ <<s.kind, t.kind>> \in Implements
        /\ s.kind \in Struct \cup Interface \cup Placeholder
        /\ t.kind \in Interface \cup Placeholder
    BY <1>0, <1>3, TakenAtEqualDepth, BorrowTypesByDepth
  <2>2. CASE Len(s.refs) = 0
    <3>0. Len(t.refs) = 0 /\ ~ (Len(t.refs) = Len(s.refs) + 1)
      BY <1>3, <2>2
    <3>1. IsBare(s) /\ IsBare(t) /\ ~ IsBorrow(s) /\ ~ IsBorrow(t)
      BY <2>2, <3>0, Shapes
    <3>2. ~ IsInside(s, t)
      BY <3>0, InsideByDepth
    <3>3. Convert(s, t) = Upcast(s, t)
      BY <1>1, <1>3, <3>1, <3>2 DEF Convert
    <3>4. Upcast(s, t) = "ok"
      BY <2>1, <3>1 DEF Upcast, IsSub, IsSuper
    <3> QED BY <3>3, <3>4
  <2>3. CASE Len(s.refs) >= 1
    <3>1. IsBorrow(s) /\ IsBorrow(t) /\ s.refs # <<>> /\ t.refs # <<>>
      BY <1>0, <1>3, <2>3, Shapes DEF IsBorrow
    <3>2. /\ Inner(s) \in BorrowType /\ Inner(s).kind = s.kind /\ Len(Inner(s).refs) = Len(s.refs) - 1
          /\ Inner(t) \in BorrowType /\ Inner(t).kind = t.kind /\ Len(Inner(t).refs) = Len(t.refs) - 1
      BY <3>1, InnerShortens
    <3>3. Convert(s, t) = Upcast(Inner(s), Inner(t))
      BY <1>1, <1>3, <3>1, <3>2, Shapes DEF Convert
    <3>4. Len(s.refs) = 1 => IsBare(Inner(s)) /\ IsBare(Inner(t))
      BY <1>3, <3>2, Shapes
    <3>5. Len(s.refs) = 1 => Upcast(Inner(s), Inner(t)) = "ok"
      BY <2>1, <3>2, <3>4 DEF Upcast, IsSub, IsSuper
    <3>6. Upcast(Inner(s), Inner(t)) \in {"ok", "error"}
      BY DEF Upcast
    <3>7. Len(s.refs) = 1 \/ Len(s.refs) >= 2
      <4>1. \A m \in Nat : m >= 1 => m = 1 \/ m >= 2
        OBVIOUS
      <4> QED BY <1>0, <2>3, <4>1
    <3> QED BY <3>3, <3>5, <3>6, <3>7
  <2> QED BY <1>0, <2>2, <2>3
<1>4. ~ (Len(s.refs) < Len(t.refs))
  <2>1. Len(s.refs) < Len(t.refs) => Len(s.refs) <= Len(t.refs) /\ Len(s.refs) # Len(t.refs)
    BY <1>0
  <2> QED BY <2>1, TakenAtEqualDepth
<1>5. CASE Len(s.refs) > Len(t.refs)
  <2>1. /\ s.kind = t.kind /\ Len(s.refs) = Len(t.refs) + 1
        /\ Len(t.refs) = 0 => ImplicitlyCloneable(t)
    BY <1>5, TakenOneDeeper
  <2>2. IsInside(t, s) /\ ~ IsInside(s, t) /\ IsBorrow(s) /\ s # t
    BY <1>0, <2>1, InsideByDepth, Shapes
  <2>3. CASE Len(t.refs) = 0
    <3>1. ~ IsBorrow(t)
      BY <2>3, Shapes
    <3>2. Convert(s, t) = "ok"
      BY <1>1, <2>1, <2>2, <2>3, <3>1 DEF Convert
    <3> QED BY <3>2
  <2>4. CASE Len(t.refs) >= 1
    <3>1. IsBorrow(t) /\ s.refs # <<>>
      BY <2>2, <2>4, Shapes DEF IsBorrow
    <3>2. ~ IsShare(Inner(s))
      BY <3>1, InnerShortens, Shapes
    <3>3. Convert(s, t) = Upcast(Inner(s), Inner(t))
      BY <1>1, <2>2, <3>1, <3>2 DEF Convert
    <3>4. Upcast(Inner(s), Inner(t)) \in {"ok", "error"}
      BY DEF Upcast
    <3> QED BY <1>0, <2>1, <2>4, <3>3, <3>4
  <2> QED BY <1>0, <2>3, <2>4
<1> QED BY <1>0, <1>2, <1>3, <1>4, <1>5

-----------------------------------------------------------------------------
(* Narrowing down.                                                         *)

ExactAt(banner) == { i \in DOMAIN Args : IsExact(banner, i) }

\* Filtering argument by argument leaves exactly the banners that are as exact as every
\* other at every argument.
THEOREM SurvivorsAreBest ==
  ASSUME NEW banners
  PROVE  Survivors(banners) =
           { b \in banners : \A o \in banners : ExactAt(o) \subseteq ExactAt(b) }
BY DEF Survivors, ExactAt

\* The three kinds of step that give a verdict take it from the survivors.
LEMMA NarrowGivesSurvivors ==
  ASSUME Narrow
  PROVE  verdict'.banners \subseteq Survivors(Banners)
<1>1. CASE Banners = {} /\ Give("missing", {})
  BY <1>1 DEF Give, Verdict
<1>2. CASE NarrowDown(Banners, Normals(Survivors(Banners)), Bounds(Survivors(Banners)))
  <2> DEFINE surviving == Survivors(Banners)
             normals == Normals(surviving)
             bounds == Bounds(surviving)
  <2>1. normals \subseteq surviving /\ bounds \subseteq surviving /\ Outermost(bounds) \subseteq bounds
    BY DEF Normals, Bounds, Outermost
  <2>2. ASSUME NEW b \in surviving, Choose(b) PROVE verdict'.banners \subseteq surviving
    BY <2>2 DEF Choose, Give, Verdict
  <2>3. CASE Cardinality(normals) > 1 /\ Give("ambiguous", normals)
    BY <2>1, <2>3 DEF Give, Verdict
  <2>4. CASE \E b \in normals : normals = {b} /\ Choose(b)
    BY <2>1, <2>2, <2>4
  <2>5. CASE \E b \in Outermost(bounds) :
               IF Enclose(b, bounds) THEN Choose(b) ELSE Give("panic", {})
    <3>1. PICK b \in Outermost(bounds) : Choose(b) \/ Give("panic", {})
      BY <2>5
    <3>2. CASE Choose(b)
      BY <2>1, <2>2, <3>2
    <3>3. CASE Give("panic", {})
      BY <3>3 DEF Give, Verdict
    <3> QED BY <3>1, <3>2, <3>3
  <2>6. CASE Give("panic", {})
    BY <2>6 DEF Give, Verdict
  <2> QED BY <1>2, <2>3, <2>4, <2>5, <2>6 DEF NarrowDown
<1> QED BY <1>1, <1>2 DEF Narrow

-----------------------------------------------------------------------------
(* The invariant: a verdict is about functions that were tried, fit, and   *)
(* are not beaten by another that fits.                                    *)

Unbeaten ==
  /\ phase \in {"searching", "attempting"} => verdict.banners = {}
  /\ verdict.banners \subseteq Survivors(Banners)

FitOnly == \A s \in successes : ParamsMatch(s.banner.types)

IInv == TypeOK /\ Unbeaten /\ FitOnly

\* Narrowing down only removes.
LEMMA SurvivorsAreBanners == \A banners : Survivors(banners) \subseteq banners
BY DEF Survivors

\* Nothing is found, tried or given at first.
LEMMA InitInvariant == Init => IInv
<1> SUFFICES ASSUME Init PROVE IInv
  OBVIOUS
<1>1. successes = {} /\ verdict = [kind |-> "none", banners |-> {}] /\ phase = "searching"
  BY DEF Init, Pending
<1>2. TypeOK
  BY <1>1 DEF Init, TypeOK, Banners
<1> QED BY <1>1, <1>2 DEF IInv, Unbeaten, FitOnly

\* A search adds functions of the program.
LEMMA SearchKeeps ==
  ASSUME IInv, NEW env \in toSearch, Search(env) PROVE IInv'
<1>1. \A candidate \in Lookup(env) : candidate.of \in call.program
  BY DEF Lookup, CitizenEntries, BoundEntries, PackageEntries
<1>2. /\ call' = call /\ tried' = tried /\ successes' = successes /\ verdict' = verdict
      /\ found' = found \cup Lookup(env) /\ toSearch' \subseteq toSearch
      /\ phase = "searching" /\ phase' \in {"searching", "attempting"}
  BY DEF Search
<1>3. Banners' = Banners /\ Survivors(Banners)' = Survivors(Banners) /\ Environments' = Environments
  BY <1>2 DEF Banners, Survivors, IsExact, Environments, ParamEnvironments,
              PlaceholderExtraEnvironments, Args
<1>4. TypeOK'
  BY <1>1, <1>2, <1>3 DEF IInv, TypeOK
<1>5. Unbeaten'
  BY <1>2, <1>3 DEF IInv, Unbeaten
<1>6. FitOnly'
  BY <1>2 DEF IInv, FitOnly, ParamsMatch, Fits, Args
<1> QED BY <1>4, <1>5, <1>6 DEF IInv

\* An attempt adds its candidate, and its banner only when the arguments fit it.
LEMMA AttemptKeeps ==
  ASSUME IInv, NEW candidate \in found, Attempt(candidate) PROVE IInv'
<1>1. /\ call' = call /\ toSearch' = toSearch /\ found' = found /\ phase = "attempting"
      /\ tried' = tried \cup {candidate} /\ verdict.banners = {}
      /\ verdict'.banners = {} /\ phase' \in {"attempting", "done"}
      /\ verdict'.kind \in {verdict.kind, "panic"}
  BY DEF Attempt, Verdict, IInv, Unbeaten
<1>2. \/ successes' = successes
      \/ /\ ParamsMatch(ParamTypes(candidate.of))
         /\ successes' = successes \cup {[candidate |-> candidate, banner |-> Banner(candidate.of)]}
  BY DEF Attempt
<1>3. Environments' = Environments
  BY <1>1 DEF Environments, ParamEnvironments, PlaceholderExtraEnvironments, Args
<1>4. Banner(candidate.of).of = candidate.of /\ Banner(candidate.of).types = ParamTypes(candidate.of)
  BY DEF Banner
<1>5. \A s \in successes' : s.candidate \in tried' /\ s.banner.of = s.candidate.of
  BY <1>1, <1>2, <1>4 DEF IInv, TypeOK
<1>6. TypeOK'
  BY <1>1, <1>3, <1>5 DEF IInv, TypeOK
<1>7. Unbeaten'
  BY <1>1 DEF Unbeaten
<1>8. FitOnly'
  <2>1. \A s \in successes' : ParamsMatch(s.banner.types)
    BY <1>2, <1>4 DEF IInv, FitOnly
  <2> QED BY <1>1, <2>1 DEF FitOnly, ParamsMatch, Fits, Args
<1> QED BY <1>6, <1>7, <1>8 DEF IInv

\* Steps that give a verdict leave what was found and tried alone.
LEMMA VerdictKeeps ==
  ASSUME IInv, UNCHANGED <<call, toSearch, found, tried, successes>>,
         phase' \in {"converting", "done"},
         verdict'.kind \in {"missing", "ambiguous", "chosen", "called", "misfit", "panic"},
         verdict'.banners \subseteq Survivors(Banners)
  PROVE  IInv'
<1>1. Banners' = Banners /\ Survivors(Banners)' = Survivors(Banners) /\ Environments' = Environments
  BY DEF Banners, Survivors, IsExact, Environments, ParamEnvironments,
         PlaceholderExtraEnvironments, Args
<1>2. TypeOK'
  BY <1>1, SurvivorsAreBanners DEF IInv, TypeOK
<1>3. Unbeaten'
  BY <1>1 DEF Unbeaten
<1>4. FitOnly'
  BY DEF IInv, FitOnly, ParamsMatch, Fits, Args
<1> QED BY <1>2, <1>3, <1>4 DEF IInv

\* Every step keeps it.
LEMMA NextInvariant == IInv /\ [Next]_vars => IInv'
<1> SUFFICES ASSUME IInv, [Next]_vars PROVE IInv'
  OBVIOUS
<1>1. CASE \E env \in toSearch : Search(env)
  BY <1>1, SearchKeeps
<1>2. CASE \E candidate \in found : Attempt(candidate)
  BY <1>2, AttemptKeeps
<1>3. CASE Narrow
  <2>1. UNCHANGED <<call, toSearch, found, tried, successes>>
    BY <1>3 DEF Narrow
  <2>2. /\ phase' \in {"converting", "done"}
        /\ verdict'.kind \in {"missing", "ambiguous", "chosen", "panic"}
    BY <1>3 DEF Narrow, NarrowDown, Choose, Give, Verdict
  <2>3. verdict'.banners \subseteq Survivors(Banners)
    BY <1>3, NarrowGivesSurvivors
  <2> QED BY <2>1, <2>2, <2>3, VerdictKeeps
<1>4. CASE ConvertArguments
  <2>1. /\ UNCHANGED <<call, toSearch, found, tried, successes>>
        /\ phase' = "done" /\ verdict'.kind \in {"called", "misfit", "panic"}
        /\ verdict'.banners = verdict.banners
    BY <1>4 DEF ConvertArguments, Give, Verdict
  <2>2. verdict'.banners \subseteq Survivors(Banners)
    BY <2>1 DEF IInv, Unbeaten
  <2> QED BY <2>1, <2>2, VerdictKeeps
<1>5. CASE UNCHANGED vars
  <2>1. Banners' = Banners /\ Survivors(Banners)' = Survivors(Banners) /\ Environments' = Environments
    BY <1>5 DEF vars, Banners, Survivors, IsExact, Environments, ParamEnvironments,
                PlaceholderExtraEnvironments, Args
  <2> QED BY <1>5, <2>1 DEF vars, IInv, TypeOK, Unbeaten, FitOnly, ParamsMatch, Fits, Args
<1> QED BY <1>1, <1>2, <1>3, <1>4, <1>5 DEF Next

\* Candidates are functions of the program, those that fit were tried, and a verdict is
\* about banners that fit.
THEOREM TypeCorrect == Spec => []TypeOK
<1>1. IInv => TypeOK
  BY DEF IInv
<1> QED BY <1>1, InitInvariant, NextInvariant, PTL DEF Spec

\* Whatever a verdict names takes the arguments, and no other function that takes them
\* is exact at an argument where it is not: find_function never picks a worse match,
\* however candidates are found, deduplicated and filtered.
THEOREM GivenIsUnbeaten ==
  Spec => [](\A b \in verdict.banners :
               /\ ParamsMatch(b.types)
               /\ \A o \in Banners : ExactAt(o) \subseteq ExactAt(b))
<1> DEFINE P == \A b \in verdict.banners :
                  /\ ParamsMatch(b.types)
                  /\ \A o \in Banners : ExactAt(o) \subseteq ExactAt(b)
<1>1. IInv => P
  <2> SUFFICES ASSUME IInv, NEW b \in verdict.banners
               PROVE /\ ParamsMatch(b.types)
                     /\ \A o \in Banners : ExactAt(o) \subseteq ExactAt(b)
    OBVIOUS
  <2>1. b \in Survivors(Banners)
    BY DEF IInv, Unbeaten
  <2>2. \A o \in Banners : ExactAt(o) \subseteq ExactAt(b)
    BY <2>1, SurvivorsAreBest
  <2>3. \E s \in successes : b = s.banner
    BY <2>1 DEF Survivors, Banners
  <2> QED BY <2>2, <2>3 DEF IInv, FitOnly
<1>2. Spec => []IInv
  BY InitInvariant, NextInvariant, PTL DEF Spec
<1> HIDE DEF P
<1>3. Spec => []P
  BY <1>1, <1>2, PTL
<1> QED BY <1>3 DEF P

-----------------------------------------------------------------------------
(* Arguments whose innermost reference is to a shared instance.            *)

\* A type whose innermost reference is to a shared instance.
CountedType ==
  { type \in [refs : Seq({"&", "@"}), kind : Kind \ {"never"}] :
      /\ Len(type.refs) >= 1
      /\ type.refs[Len(type.refs)] = "@"
      /\ \A i \in 1..(Len(type.refs) - 1) : type.refs[i] = "&" }

\* An argument is a type of what never is, a borrow type or a counted one.
LEMMA ArgumentsByShape == Argument = {Bare("never")} \cup BorrowType \cup CountedType
<1>1. ASSUME NEW s \in Argument, s \notin BorrowType, s \notin CountedType PROVE s = Bare("never")
  <2>1. SUFFICES ASSUME s \in [refs : Seq({"&", "@"}), kind : Kind \ {"never"}],
                        \A i \in 1..(Len(s.refs) - 1) : s.refs[i] = "&"
                 PROVE FALSE
    BY <1>1 DEF Argument
  <2> DEFINE n == Len(s.refs)
  <2>2. n \in Nat /\ s.refs \in [1..n -> {"&", "@"}]
    BY <2>1
  <2>3. CASE n = 0 \/ s.refs[n] = "&"
    <3>1. \A i \in 1..n : s.refs[i] = "&"
      BY <2>1, <2>2, <2>3
    <3>2. s.refs \in Seq({"&"})
      BY <2>1, <2>2, <3>1
    <3> QED BY <1>1, <2>1, <3>2 DEF BorrowType
  <2>4. CASE n >= 1 /\ s.refs[n] = "@"
    BY <1>1, <2>1, <2>4 DEF CountedType
  <2> QED BY <2>2, <2>3, <2>4
<1>2. BorrowType \subseteq Argument
  <2>1. SUFFICES ASSUME NEW s \in BorrowType PROVE s \in Argument
    OBVIOUS
  <2>2. s \in [refs : Seq({"&"}), kind : Kind \ {"never"}]
    BY DEF BorrowType
  <2>3. s.refs \in Seq({"&", "@"}) /\ \A i \in 1..Len(s.refs) : s.refs[i] = "&"
    BY <2>2
  <2>4. s \in [refs : Seq({"&", "@"}), kind : Kind \ {"never"}]
    BY <2>2, <2>3
  <2> QED BY <2>2, <2>3, <2>4 DEF Argument
<1>3. CountedType \subseteq Argument
  BY DEF CountedType, Argument
<1>4. Bare("never") \in Argument
  BY DEF Argument
<1> QED BY <1>1, <1>2, <1>3, <1>4

\* The tests of a counted type's shape, and its inside.
LEMMA CountedShapes ==
  ASSUME NEW s \in CountedType
  PROVE  /\ ~ IsBare(s) /\ ~ IsNever(s) /\ s.refs # <<>>
         /\ Len(s.refs) \in Nat
         /\ Len(s.refs) = 1 => IsShare(s) /\ ~ IsBorrow(s) /\ Inner(s) = Bare(s.kind)
         /\ Len(s.refs) >= 2 => IsBorrow(s) /\ ~ IsShare(s)
<1>1. /\ s = [refs |-> s.refs, kind |-> s.kind] /\ s.refs \in Seq({"&", "@"}) /\ Len(s.refs) >= 1
      /\ s.refs[Len(s.refs)] = "@" /\ \A i \in 1..(Len(s.refs) - 1) : s.refs[i] = "&"
      /\ s.kind # "never"
  BY DEF CountedType
<1>2. Len(s.refs) \in Nat /\ s.refs # <<>> /\ Head(s.refs) = s.refs[1]
  BY <1>1
<1>3. Len(s.refs) = 1 => s.refs[1] = "@"
  <2>1. Len(s.refs) = 1 => s.refs[Len(s.refs)] = s.refs[1]
    OBVIOUS
  <2> QED BY <1>1, <2>1
<1>4. Len(s.refs) >= 2 => s.refs[1] = "&"
  <2>1. Len(s.refs) >= 2 => 1 \in 1..(Len(s.refs) - 1)
    BY <1>2
  <2> QED BY <1>1, <2>1
<1>5. Len(s.refs) = 1 => Tail(s.refs) = <<>>
  <2>1. SUFFICES ASSUME Len(s.refs) = 1 PROVE Tail(s.refs) = <<>>
    OBVIOUS
  <2>2. Tail(s.refs) \in Seq({"&", "@"}) /\ Len(Tail(s.refs)) = 0
    BY <1>1, <1>2, <2>1
  <2>3. \A q \in Seq({"&", "@"}) : Len(q) = 0 => q = <<>>
    OBVIOUS
  <2> QED BY <2>2, <2>3
<1>6. Len(s.refs) = 1 => Inner(s) = Bare(s.kind)
  BY <1>1, <1>5 DEF Inner, Bare
<1> QED BY <1>1, <1>2, <1>3, <1>4, <1>6 DEF IsBare, IsNever, Bare, IsShare, IsBorrow

\* What two sequences share is as long as their longest common beginning.
LEMMA LongestOfTwo ==
  ASSUME NEW S, NEW u \in Seq(S), NEW v \in Seq(S), NEW w \in Seq(S),
         IsPrefix(w, u), IsPrefix(w, v),
         \A q \in Seq(S) : IsPrefix(q, u) /\ IsPrefix(q, v) => Len(q) <= Len(w)
  PROVE  Len(LongestCommonPrefix({u, v})) = Len(w)
<1> DEFINE T == {u, v}
<1>1. w \in CommonPrefixes(T)
  <2>0. w = SubSeq(w, 1, Len(w)) /\ Len(w) \in Nat
    OBVIOUS
  <2>1. w = SubSeq(u, 1, Len(w)) /\ Len(w) \in 0..Len(u)
    BY <2>0 DEF IsPrefix
  <2>2. w \in Prefixes(u)
    BY <2>1 DEF Prefixes
  <2>3. w \in UNION { Prefixes(x) : x \in T } /\ \A x \in T : IsPrefix(w, x)
    BY <2>2
  <2> QED BY <2>3 DEF CommonPrefixes
<1>2. ASSUME NEW p \in CommonPrefixes(T) PROVE Len(p) <= Len(w) /\ Len(p) \in Nat
  <2>1. IsPrefix(p, u) /\ IsPrefix(p, v)
    BY <1>2 DEF CommonPrefixes
  <2>2. \E x \in T : \E l \in 0..Len(x) : p = SubSeq(x, 1, l)
    BY <1>2 DEF CommonPrefixes, Prefixes
  <2>3. p \in Seq(S)
    BY <2>2
  <2> QED BY <2>1, <2>3
<1>3. \E l \in CommonPrefixes(T) : \A o \in CommonPrefixes(T) : Len(o) <= Len(l)
  BY <1>1, <1>2
<1>4. /\ LongestCommonPrefix(T) \in CommonPrefixes(T)
      /\ \A o \in CommonPrefixes(T) : Len(o) <= Len(LongestCommonPrefix(T))
  BY <1>3 DEF LongestCommonPrefix
<1>5. Len(w) \in Nat
  OBVIOUS
<1>8. Len(w) <= Len(LongestCommonPrefix(T))
  BY <1>1, <1>4
<1>6. Len(LongestCommonPrefix(T)) <= Len(w) /\ Len(LongestCommonPrefix(T)) \in Nat
  BY <1>2, <1>4
<1> HIDE DEF T
<1>7. Len(LongestCommonPrefix(T)) = Len(w)
  BY <1>5, <1>6, <1>8
<1> QED BY <1>7 DEF T

\* A counted type and a borrow type share their borrows.
LEMMA SharedWrapsOfCounted ==
  ASSUME NEW s \in CountedType, NEW t \in BorrowType
  PROVE  SharedWraps(s, t) = IF Len(t.refs) < Len(s.refs) THEN Len(t.refs) ELSE Len(s.refs) - 1
<1>1. /\ s.refs \in Seq({"&", "@"}) /\ Len(s.refs) >= 1
      /\ s.refs[Len(s.refs)] = "@" /\ \A i \in 1..(Len(s.refs) - 1) : s.refs[i] = "&"
  BY DEF CountedType
<1>2. t.refs \in Seq({"&", "@"}) /\ \A i \in 1..Len(t.refs) : t.refs[i] = "&"
  <2>1. t.refs \in Seq({"&"})
    BY DEF BorrowType
  <2> QED BY <2>1
<1> DEFINE n == IF Len(t.refs) < Len(s.refs) THEN Len(t.refs) ELSE Len(s.refs) - 1
           w == SubSeq(t.refs, 1, n)
<1>3. n \in 0..Len(t.refs) /\ n \in 0..(Len(s.refs) - 1)
  BY <1>1, <1>2
<1>4. w \in Seq({"&", "@"}) /\ Len(w) = n /\ \A i \in 1..n : w[i] = "&"
  BY <1>2, <1>3
<1>5. IsPrefix(w, t.refs)
  <2>1. SubSeq(w, 1, Len(w)) = SubSeq(t.refs, 1, Len(w))
    BY <1>2, <1>3, <1>4
  <2> QED BY <1>3, <1>4, <2>1 DEF IsPrefix
<1>6. IsPrefix(w, s.refs)
  <2>1. SubSeq(w, 1, Len(w)) = SubSeq(s.refs, 1, Len(w))
    <3> DEFINE x == SubSeq(w, 1, Len(w))
               y == SubSeq(s.refs, 1, Len(w))
    <3>1. x \in Seq({"&", "@"}) /\ Len(x) = n /\ \A i \in 1..n : x[i] = "&"
      BY <1>3, <1>4
    <3>2. y \in Seq({"&", "@"}) /\ Len(y) = n /\ \A i \in 1..n : y[i] = "&"
      BY <1>1, <1>3, <1>4
    <3> HIDE DEF x, y, n, w
    <3>3. x = y
      BY <3>1, <3>2
    <3> QED BY <3>3 DEF x, y
  <2> QED BY <1>1, <1>3, <1>4, <2>1 DEF IsPrefix
<1>7. ASSUME NEW q \in Seq({"&", "@"}), IsPrefix(q, s.refs), IsPrefix(q, t.refs) PROVE Len(q) <= Len(w)
  <2>1. Len(q) <= Len(s.refs) /\ Len(q) <= Len(t.refs)
    BY <1>7 DEF IsPrefix
  <2>2. CASE Len(t.refs) < Len(s.refs)
    BY <1>4, <2>1, <2>2
  <2>3. CASE ~ (Len(t.refs) < Len(s.refs))
    <3>1. SUFFICES ASSUME Len(q) = Len(s.refs) PROVE FALSE
      BY <1>1, <1>4, <2>1, <2>3
    <3> DEFINE k == Len(q)
    <3>2. SubSeq(s.refs, 1, k) = SubSeq(t.refs, 1, k)
      BY <1>7 DEF IsPrefix
    <3>3. SubSeq(s.refs, 1, k)[k] = s.refs[k] /\ SubSeq(t.refs, 1, k)[k] = t.refs[k]
      BY <1>1, <1>2, <2>1, <3>1
    <3> QED BY <1>1, <1>2, <2>1, <3>1, <3>2, <3>3
  <2> QED BY <2>2, <2>3
<1> HIDE DEF n, w
<1>8. Len(LongestCommonPrefix({s.refs, t.refs})) = Len(w)
  <2> DEFINE T == {"&", "@"}
             u == s.refs
             v == t.refs
  <2>1. u \in Seq(T) /\ v \in Seq(T) /\ w \in Seq(T)
    BY <1>1, <1>2, <1>4
  <2>2. IsPrefix(w, u) /\ IsPrefix(w, v)
    BY <1>5, <1>6
  <2>3. \A q \in Seq(T) : IsPrefix(q, u) /\ IsPrefix(q, v) => Len(q) <= Len(w)
    BY <1>7
  <2> HIDE DEF T, u, v
  <2>4. Len(LongestCommonPrefix({u, v})) = Len(w)
    BY <2>1, <2>2, <2>3, LongestOfTwo
  <2> QED BY <2>4 DEF u, v
<1>9. SharedWraps(s, t) = n
  BY <1>4, <1>8 DEF SharedWraps
<1> QED BY <1>9 DEF n

\* Peeling borrows off a counted type leaves a counted type.
LEMMA PeelCounted ==
  ASSUME NEW s \in CountedType, NEW n \in 0..(Len(s.refs) - 1)
  PROVE  Peel(s, n) \in CountedType /\ Len(Peel(s, n).refs) = Len(s.refs) - n /\ Peel(s, n).kind = s.kind
<1> DEFINE rest == SubSeq(s.refs, n + 1, Len(s.refs))
           m == Len(s.refs)
<1>1. /\ s \in [refs : Seq({"&", "@"}), kind : Kind \ {"never"}]
      /\ m >= 1 /\ s.refs[m] = "@" /\ \A i \in 1..(m - 1) : s.refs[i] = "&"
  BY DEF CountedType
<1>2. s.refs \in Seq({"&", "@"}) /\ m \in Nat /\ n \in Nat
  BY <1>1
<1>3. rest \in Seq({"&", "@"}) /\ Len(rest) = m - n
  BY <1>2
<1>4. \A i \in 1..(m - n) : rest[i] = s.refs[n + i]
  BY <1>2
<1>5. rest[m - n] = "@"
  <2>1. m - n \in 1..(m - n) /\ n + (m - n) = m
    BY <1>2
  <2> QED BY <1>1, <1>4, <2>1
<1>6. \A i \in 1..(m - n - 1) : rest[i] = "&"
  <2>1. \A i \in 1..(m - n - 1) : i \in 1..(m - n) /\ n + i \in 1..(m - 1)
    BY <1>2
  <2> QED BY <1>1, <1>4, <2>1
<1> HIDE DEF rest
<1>7. [s EXCEPT !.refs = rest] \in CountedType
  <2>1. m - n >= 1
    BY <1>2
  <2> QED BY <1>1, <1>3, <1>5, <1>6, <2>1 DEF CountedType
<1>8. Peel(s, n) = [s EXCEPT !.refs = rest]
  BY DEF Peel, rest
<1> QED BY <1>1, <1>3, <1>7, <1>8

\* A borrow type without borrows is a kind.
LEMMA DepthZero == ASSUME NEW t \in BorrowType, Len(t.refs) = 0 PROVE t = Bare(t.kind)
<1>1. t.refs \in Seq({"&"}) /\ t = [refs |-> t.refs, kind |-> t.kind]
  BY DEF BorrowType
<1>2. t.refs = <<>>
  BY <1>1
<1> QED BY <1>1, <1>2 DEF Bare

\* A counted argument is taken for what it counts, behind as many borrows, or for a
\* borrow in the place of the count; and convert agrees, save behind a borrow.
LEMMA CountedConverts ==
  ASSUME NEW s \in CountedType, NEW t \in BorrowType, Convertible(s, t)
  PROVE  /\ Convert(s, t) \in {"ok", "error"}
         /\ Convert(s, t) = "error" => Len(s.refs) >= 2
<1> DEFINE n == SharedWraps(s, t)
           from == Peel(s, n)
           to == Peel(t, n)
<1>0. Len(s.refs) \in Nat /\ Len(t.refs) \in Nat /\ Len(s.refs) >= 1
  BY DEF BorrowType, CountedType
<1>1. n = IF Len(t.refs) < Len(s.refs) THEN Len(t.refs) ELSE Len(s.refs) - 1
  BY SharedWrapsOfCounted
<1>2. n \in 0..Len(t.refs) /\ n \in 0..(Len(s.refs) - 1)
  BY <1>0, <1>1
<1>3. /\ from \in CountedType /\ Len(from.refs) = Len(s.refs) - n /\ from.kind = s.kind
      /\ to \in BorrowType /\ Len(to.refs) = Len(t.refs) - n /\ to.kind = t.kind
  BY <1>2, PeelShortens, PeelCounted
<1>4. Taken(from, to)
  BY DEF Convertible
<1> HIDE DEF n, from, to
<1>5. ~ IsNever(from) /\ ~ IsBare(from) /\ ~ IsShare(to) /\ from # to
  BY <1>3, CountedShapes, Shapes DEF CountedType, BorrowType
<1>6. ~ (IsBorrow(from) /\ IsInside(to, from))
  <2>1. SUFFICES ASSUME IsBorrow(from), IsInside(to, from) PROVE FALSE
    OBVIOUS
  <2>2. Len(from.refs) >= 2
    <3>1. Len(from.refs) # 1 /\ Len(from.refs) \in Nat /\ Len(from.refs) >= 1
      BY <1>3, <2>1, CountedShapes DEF CountedType
    <3>2. \A m \in Nat : m # 1 /\ m >= 1 => m >= 2
      OBVIOUS
    <3> QED BY <3>1, <3>2
  <2>3. Len(to.refs) = 0 \/ Len(s.refs) - n = 1
    BY <1>0, <1>1, <1>3
  <2>4. Len(to.refs) = Len(from.refs) - 1
    <3>1. Inner(from) = to /\ from.refs \in Seq({"&", "@"}) /\ from.refs # <<>>
      BY <2>1, <1>3 DEF IsInside, CountedType
    <3>2. Inner(from).refs = Tail(from.refs)
      BY <1>3 DEF Inner, CountedType
    <3>3. Len(Tail(from.refs)) = Len(from.refs) - 1
      BY <3>1
    <3> QED BY <3>1, <3>2, <3>3
  <2>5. Len(to.refs) >= 1 /\ Len(from.refs) # 1
    BY <1>3, <2>2, <2>4 DEF CountedType
  <2> QED BY <1>3, <2>2, <2>3, <2>5
<1>7. IsShare(from) /\ (IsInside(to, from) \/ (IsBorrow(to) /\ Inner(from) = Inner(to)))
  BY <1>4, <1>5, <1>6 DEF Taken, IsSub
<1>8. Len(from.refs) = 1 /\ Inner(from) = Bare(from.kind)
  <2>1. ~ (Len(from.refs) >= 2)
    BY <1>3, <1>7, CountedShapes
  <2>2. Len(from.refs) = 1
    <3>1. Len(from.refs) \in Nat /\ Len(from.refs) >= 1
      BY <1>3 DEF CountedType
    <3>2. \A m \in Nat : m >= 1 /\ ~ (m >= 2) => m = 1
      OBVIOUS
    <3> QED BY <2>1, <3>1, <3>2
  <2> QED BY <1>3, <2>2, CountedShapes
<1>9. n = Len(s.refs) - 1
  <2>0. n \in Nat
    BY <1>0, <1>2
  <2>1. Len(s.refs) - n = 1
    BY <1>3, <1>8
  <2>2. \A m, k \in Nat : m - k = 1 => k = m - 1
    OBVIOUS
  <2> QED BY <1>0, <2>0, <2>1, <2>2
<1>10. s.kind = t.kind /\ (Len(t.refs) = n \/ Len(t.refs) = n + 1)
  <2>1. CASE IsInside(to, from)
    <3>1. to = Bare(from.kind)
      BY <1>8, <2>1 DEF IsInside
    <3>2. Len(to.refs) = 0 /\ to.kind = from.kind
      BY <3>1 DEF Bare
    <3>3. Len(t.refs) - n = 0
      BY <1>3, <3>2
    <3>4. Len(t.refs) = n
      <4>1. \A m, k \in Nat : m - k = 0 => m = k
        OBVIOUS
      <4> QED BY <1>0, <1>2, <3>3, <4>1
    <3> QED BY <1>3, <3>2, <3>4
  <2>2. CASE IsBorrow(to) /\ Inner(from) = Inner(to)
    <3>1. to.refs # <<>>
      BY <2>2 DEF IsBorrow
    <3>2. Len(Inner(to).refs) = Len(to.refs) - 1 /\ Inner(to).kind = to.kind
      BY <1>3, <3>1, InnerShortens
    <3>3. Inner(to) = Bare(from.kind)
      BY <1>8, <2>2
    <3>4. Len(Inner(to).refs) = 0 /\ Inner(to).kind = from.kind
      BY <3>3 DEF Bare
    <3>5. Len(to.refs) = 1 /\ to.kind = from.kind
      <4>1. Len(to.refs) \in Nat /\ Len(to.refs) - 1 = 0
        BY <1>3, <3>2, <3>4 DEF BorrowType
      <4> QED BY <3>2, <3>4, <4>1
    <3>6. Len(t.refs) - n = 1
      BY <1>3, <3>5
    <3>7. Len(t.refs) = n + 1
      <4>1. \A m, k \in Nat : m - k = 1 => m = k + 1
        OBVIOUS
      <4> QED BY <1>0, <1>2, <3>6, <4>1
    <3> QED BY <1>3, <3>5, <3>7
  <2> QED BY <1>7, <2>1, <2>2
<1>11. ~ IsNever(s) /\ ~ IsNever(t) /\ s # t
  BY CountedShapes, Shapes DEF CountedType, BorrowType
<1>12. CASE n = 0
  <2>1. Len(s.refs) = 1
    BY <1>0, <1>9, <1>12
  <2>2. IsShare(s) /\ ~ IsBorrow(s) /\ Inner(s) = Bare(s.kind) /\ s.refs # <<>>
    BY <2>1, CountedShapes
  <2>3. CASE Len(t.refs) = 0
    <3>1. t = Bare(s.kind)
      BY <1>10, <2>3, DepthZero
    <3>2. IsInside(t, s) /\ ~ IsInside(s, t)
      BY <2>2, <2>3, <3>1, Shapes DEF IsInside, IsBare, Bare
    <3>3. Convert(s, t) = "ok"
      BY <1>11, <2>2, <3>2 DEF Convert
    <3> QED BY <3>3
  <2>4. CASE Len(t.refs) = 1
    <3>1. IsBorrow(t) /\ t.refs # <<>>
      BY <2>4, Shapes
    <3>0. Inner(t) \in BorrowType /\ Len(Inner(t).refs) = Len(t.refs) - 1 /\ Inner(t).kind = t.kind
      BY <3>1, InnerShortens
    <3>2. Inner(t) \in BorrowType /\ Len(Inner(t).refs) = 0 /\ Inner(t).kind = s.kind
      BY <1>10, <2>4, <3>0
    <3>3. Inner(t) = Bare(s.kind)
      BY <3>2, DepthZero
    <3>4. ~ IsInside(s, t)
      BY <2>2, <3>3 DEF IsInside, Bare
    <3>5. Convert(s, t) = "ok"
      BY <1>11, <2>2, <3>1, <3>3, <3>4 DEF Convert
    <3> QED BY <3>5
  <2> QED BY <1>10, <1>12, <2>3, <2>4
<1>13. CASE n >= 1
  <2>1. Len(s.refs) >= 2 /\ Len(t.refs) >= 1
    BY <1>0, <1>9, <1>10, <1>13
  <2>2. IsBorrow(s) /\ IsBorrow(t)
    BY <2>1, CountedShapes, Shapes
  <2>3. Convert(s, t) \in {"ok", "error"}
    BY <1>11, <2>2 DEF Convert, Upcast
  <2> QED BY <2>1, <2>3
<1> QED BY <1>2, <1>12, <1>13

\* What is_type_convertible accepts of any argument convert never panics on, and
\* refuses only behind two references.
LEMMA ArgumentConverts ==
  ASSUME NEW s \in Argument, NEW t, IsNever(s) \/ t = s \/ t \in BorrowType, Convertible(s, t)
  PROVE  /\ Convert(s, t) \in {"ok", "error"}
         /\ Convert(s, t) = "error" => Len(s.refs) >= 2
<1>1. CASE s = t \/ IsNever(s)
  BY <1>1 DEF Convert
<1>2. CASE s \in BorrowType /\ t \in BorrowType
  BY <1>2, AcceptedTypesConvert
<1>3. CASE s \in CountedType /\ t \in BorrowType
  BY <1>3, CountedConverts
<1> QED BY <1>1, <1>2, <1>3, ArgumentsByShape DEF IsNever

-----------------------------------------------------------------------------
(* The solve of a candidate and the prototypes that an assignment of types *)
(* to its runes makes are the same.                                        *)

\* The values of a function on a finite set are finitely many.
LEMMA RangeIsFinite ==
  ASSUME NEW f, IsFiniteSet(DOMAIN f)
  PROVE  IsFiniteSet({ f[x] : x \in DOMAIN f })
<1> DEFINE T == { f[x] : x \in DOMAIN f }
           g == [x \in DOMAIN f |-> f[x]]
<1>1. g \in Surjection(DOMAIN f, T)
  BY DEF Surjection
<1> QED BY <1>1, FS_Surjection

\* A function of as many elements as a sequence has is a sequence as long.
LEMMA AsLong ==
  ASSUME NEW s, NEW S, s \in Seq(S), NEW f, f = [i \in DOMAIN s |-> f[i]]
  PROVE  Len(f) = Len(s) /\ DOMAIN f = DOMAIN s /\ DOMAIN s = 1..Len(s) /\ Len(s) \in Nat
<1>1. DOMAIN s = 1..Len(s) /\ Len(s) \in Nat
  OBVIOUS
<1>2. f \in [1..Len(s) -> { f[i] : i \in DOMAIN s }]
  BY <1>1
<1>3. f \in Seq({ f[i] : i \in DOMAIN s })
  BY <1>1, <1>2
<1>4. DOMAIN f = 1..Len(f) /\ Len(f) \in Nat
  BY <1>3
<1>5. 1..Len(f) = 1..Len(s)
  BY <1>1, <1>2, <1>4
<1>6. \A m, n \in Nat : 1..m = 1..n => m = n
  <2>1. SUFFICES ASSUME NEW m \in Nat, NEW n \in Nat, 1..m = 1..n PROVE m = n
    OBVIOUS
  <2>2. m = 0 \/ m \in 1..m
    OBVIOUS
  <2>3. n = 0 \/ n \in 1..n
    OBVIOUS
  <2> QED BY <2>1, <2>2, <2>3
<1> QED BY <1>1, <1>2, <1>4, <1>5, <1>6

\* What is said of a rune is a finite set.
LEMMA KnownsAreFinite ==
  ASSUME call \in Calls, NEW c \in Callee, NEW r
  PROVE  IsFiniteSet({ k[2] : k \in { s \in Knowns(c) : s[1] = r } })
<1> DEFINE R == { k[2] : k \in { s \in Knowns(c) : s[1] = r } }
           D == DOMAIN Args \cap DOMAIN Decl[c].params
           f == [i \in D |-> Send(Args[i], Decl[c].params[i])]
           g == call.explicit
<1>1. Args \in Seq(Argument) /\ g \in Seq(Argument)
  BY CallsAreTyped DEF Args
<1>2. DOMAIN Args = 1..Len(Args) /\ DOMAIN g = 1..Len(g) /\ Len(Args) \in Nat /\ Len(g) \in Nat
  BY <1>1
<1>3. IsFiniteSet(DOMAIN Args) /\ IsFiniteSet(DOMAIN g)
  BY <1>2, FS_Interval
<1>4. IsFiniteSet(D) /\ DOMAIN f = D
  BY <1>3, FS_Subset
<1>5. IsFiniteSet({ f[x] : x \in DOMAIN f }) /\ IsFiniteSet({ g[x] : x \in DOMAIN g })
  BY <1>3, <1>4, RangeIsFinite
<1>6. R \subseteq { f[x] : x \in DOMAIN f } \cup { g[x] : x \in DOMAIN g }
  BY DEF Knowns, Sends, Explicits
<1> HIDE DEF f, g, D
<1>7. IsFiniteSet(R)
  BY <1>5, <1>6, FS_Union, FS_Subset
<1> QED BY <1>7

\* Where the solve succeeds, a rune is concluded to be all that is said of it.
LEMMA ConcludedAsKnown ==
  ASSUME call \in Calls, NEW c \in Callee, Solves(c), NEW k \in Knowns(c), k[1] \in Runes(c)
  PROVE  Conclusion(c, k[1]) = k[2]
<1> DEFINE r == k[1]
           R == { x[2] : x \in { s \in Knowns(c) : s[1] = r } }
<1>1. Cardinality(R) = 1 /\ IsFiniteSet(R)
  BY KnownsAreFinite DEF Solves
<1>2. PICK t : R = {t}
  BY <1>1, FS_Singleton
<1>3. \A x \in Knowns(c) : x = <<x[1], x[2]>>
  BY DEF Knowns, Sends, Explicits
<1>4. k[2] = t
  BY <1>2
<1>5. \A type : <<r, type>> \in Knowns(c) => type = t
  <2>1. SUFFICES ASSUME NEW type, <<r, type>> \in Knowns(c) PROVE type \in R
    BY <1>2
  <2> QED BY <2>1
<1>6. k[2] \in { x[2] : x \in Knowns(c) } /\ <<r, k[2]>> \in Knowns(c)
  BY <1>3
<1>7. <<r, Conclusion(c, r)>> \in Knowns(c)
  BY <1>6 DEF Conclusion
<1> QED BY <1>4, <1>5, <1>7

\* Every rune is told by the argument of a parameter.
LEMMA RunesAreSent ==
  ASSUME NEW c \in Callee, NEW r \in Runes(c), DOMAIN Args = DOMAIN Decl[c].params
  PROVE  \E j \in DOMAIN Args :
           /\ Decl[c].params[j].slot = r
           /\ <<r, Send(Args[j], Decl[c].params[j])>> \in Sends(c)
<1>1. PICK j \in DOMAIN Decl[c].params : Decl[c].params[j].slot = r
  <2>1. PICK i \in DOMAIN Decl[c].runes : r = Decl[c].runes[i]
    BY DEF Runes
  <2>2. \E j \in DOMAIN Decl[c].params : Decl[c].params[j].slot = Decl[c].runes[i]
    BY CalleesAreDeclared
  <2> QED BY <2>1, <2>2
<1> QED BY <1>1 DEF Sends

\* What is sent to a rune is inside the argument.
LEMMA SentIsInside ==
  ASSUME NEW arg \in Argument, NEW param, param.refs \in Nat, param.slot \notin Kind
  PROVE  /\ Send(arg, param) = IF Len(arg.refs) < param.refs THEN PeelAll(arg) ELSE Peel(arg, param.refs)
         /\ \E n \in 0..Len(arg.refs) : Send(arg, param) = Peel(arg, n)
<1>1. Send(arg, param) = IF Len(arg.refs) < param.refs THEN PeelAll(arg) ELSE Peel(arg, param.refs)
  BY DEF Send, PeeledArg, Kind
<1>2. arg = [refs |-> arg.refs, kind |-> arg.kind] /\ arg.refs \in Seq({"&", "@"})
  <2>1. CASE arg = Bare("never")
    BY <2>1 DEF Bare
  <2>2. CASE arg \in [refs : Seq({"&", "@"}), kind : Kind \ {"never"}]
    BY <2>2
  <2> QED BY <2>1, <2>2 DEF Argument
<1>3. Len(arg.refs) \in Nat
  BY <1>2
<1>4. CASE Len(arg.refs) < param.refs
  <2>1. SubSeq(arg.refs, Len(arg.refs) + 1, Len(arg.refs)) = <<>>
    BY <1>2, <1>3
  <2>2. Peel(arg, Len(arg.refs)) = PeelAll(arg)
    BY <1>2, <2>1 DEF Peel, PeelAll, Bare
  <2> QED BY <1>1, <1>3, <1>4, <2>2
<1>5. CASE ~ (Len(arg.refs) < param.refs)
  BY <1>1, <1>3, <1>5
<1> QED BY <1>1, <1>4, <1>5

\* What the declarations say of a callee's parameters and runes.
LEMMA ParamsAreTyped ==
  ASSUME NEW c \in Callee
  PROVE  /\ DOMAIN Decl[c].params = 1..Len(Decl[c].params) /\ Len(Decl[c].params) \in Nat
         /\ Len(ParamTypes(c)) = Len(Decl[c].params) /\ DOMAIN ParamTypes(c) = DOMAIN Decl[c].params
         /\ \A i \in DOMAIN Decl[c].params :
              /\ Decl[c].params[i].refs \in Nat
              /\ Decl[c].params[i].slot \in (Kind \ {"never"}) \cup Runes(c)
         /\ \A r \in Runes(c) : r \notin Kind
         /\ IsBound(c) => Runes(c) = {}
<1> DEFINE S == [refs : Nat,
                 slot : (Kind \ {"never"}) \cup { Decl[c].runes[i] : i \in DOMAIN Decl[c].runes }]
<1>1. Decl[c].params \in Seq(S)
  BY CalleesAreDeclared
<1>2. ParamTypes(c) = [i \in DOMAIN Decl[c].params |-> ParamTypes(c)[i]]
  BY DEF ParamTypes
<1>3. /\ DOMAIN Decl[c].params = 1..Len(Decl[c].params) /\ Len(Decl[c].params) \in Nat
      /\ Len(ParamTypes(c)) = Len(Decl[c].params) /\ DOMAIN ParamTypes(c) = DOMAIN Decl[c].params
  <2> HIDE DEF S
  <2> QED BY <1>1, <1>2, AsLong
<1>4. \A i \in DOMAIN Decl[c].params : Decl[c].params[i] \in S
  <2> HIDE DEF S
  <2> QED BY <1>1
<1>5. \A r \in Runes(c) : r \notin Kind
  <2>1. \A i \in DOMAIN Decl[c].runes : Decl[c].runes[i] \notin Kind
    BY CalleesAreDeclared
  <2> QED BY <2>1 DEF Runes
<1>6. IsBound(c) => Runes(c) = {}
  <2>1. SUFFICES ASSUME IsBound(c) PROVE Runes(c) = {}
    OBVIOUS
  <2>2. Decl[c].runes = <<>>
    BY <2>1, CalleesAreDeclared DEF IsBound
  <2> QED BY <2>2 DEF Runes
<1> QED BY <1>3, <1>4, <1>5, <1>6 DEF Runes

\* What an assignment must satisfy to be a prototype's.
Assigns(c, a) ==
  IsBound(c) \/
  /\ Len(call.explicit) <= Len(Decl[c].runes)
  /\ \A i \in DOMAIN call.explicit : a[Decl[c].runes[i]] = call.explicit[i]
  /\ \A r \in Runes(c) : a[r] \in Decl[c].allowed
  /\ \A i \in DOMAIN Args \cap DOMAIN Decl[c].params :
       SlotType(Decl[c].params[i], a) = Send(Args[i], Decl[c].params[i])

PrototypeOf(c, a) ==
  [of |-> c, types |-> [i \in DOMAIN Decl[c].params |->
     ParamType(Decl[c].params[i], SlotType(Decl[c].params[i], a))]]

\* The prototypes of a callee are those of its assignments.
LEMMA PrototypesByAssignment ==
  \A c : Prototypes(c) =
    { PrototypeOf(c, a) : a \in { x \in [Runes(c) -> TypeParts] : Assigns(c, x) } }
BY DEF Prototypes, PrototypeOf, Assigns

\* A bound is one prototype.
LEMMA BoundPrototype ==
  ASSUME NEW c \in Callee, IsBound(c) PROVE Prototypes(c) = {Banner(c)}
<1>1. Runes(c) = {}
  BY ParamsAreTyped
<1>2. \A a \in [Runes(c) -> TypeParts] : PrototypeOf(c, a) = Banner(c)
  <2>1. SUFFICES ASSUME NEW a \in [Runes(c) -> TypeParts] PROVE PrototypeOf(c, a) = Banner(c)
    OBVIOUS
  <2>2. DOMAIN a = {}
    BY <1>1
  <2>3. \A i \in DOMAIN Decl[c].params : SlotType(Decl[c].params[i], a) = Bare(Decl[c].params[i].slot)
    BY <2>2 DEF SlotType
  <2>4. [i \in DOMAIN Decl[c].params |-> ParamType(Decl[c].params[i], SlotType(Decl[c].params[i], a))]
          = ParamTypes(c)
    BY <1>1, <2>3 DEF ParamTypes
  <2> QED BY <2>4 DEF PrototypeOf, Banner
<1>3. \E a : a \in [Runes(c) -> TypeParts]
  <2>1. [x \in Runes(c) |-> x] \in [Runes(c) -> TypeParts]
    BY <1>1
  <2> QED BY <2>1
<1>4. \A a : Assigns(c, a)
  BY DEF Assigns
<1> QED BY <1>2, <1>3, <1>4, PrototypesByAssignment

\* What an assignment gives the knowns is what the solve concludes.
LEMMA AssignmentsSolve ==
  ASSUME call \in Calls, NEW c \in Callee, ~ IsBound(c), DOMAIN Args = DOMAIN Decl[c].params,
         NEW a \in [Runes(c) -> TypeParts], Assigns(c, a)
  PROVE  Solves(c) /\ PrototypeOf(c, a) = Banner(c)
<1>1. /\ Len(call.explicit) <= Len(Decl[c].runes)
      /\ \A i \in DOMAIN call.explicit : a[Decl[c].runes[i]] = call.explicit[i]
      /\ \A r \in Runes(c) : a[r] \in Decl[c].allowed
      /\ \A i \in DOMAIN Decl[c].params : SlotType(Decl[c].params[i], a) = Send(Args[i], Decl[c].params[i])
  BY DEF Assigns
<1>2. ASSUME NEW s \in Sends(c)
      PROVE  IF s[1] \in Runes(c) THEN a[s[1]] = s[2] ELSE s[2] = Bare(s[1])
  <2>1. PICK i \in DOMAIN Decl[c].params :
          s = <<Decl[c].params[i].slot, Send(Args[i], Decl[c].params[i])>>
    BY DEF Sends
  <2>2. s[1] = Decl[c].params[i].slot /\ s[2] = SlotType(Decl[c].params[i], a)
    BY <1>1, <2>1
  <2> QED BY <2>2 DEF SlotType
<1>3. \A k \in Explicits(c) : a[k[1]] = k[2]
  BY <1>1 DEF Explicits
<1>4. \A k \in Knowns(c) : k[1] \in Runes(c) => a[k[1]] = k[2]
  BY <1>2, <1>3 DEF Knowns
<1>5. ASSUME NEW r \in Runes(c) PROVE { k[2] : k \in { s \in Knowns(c) : s[1] = r } } = {a[r]}
  <2>1. PICK j \in DOMAIN Args : <<r, Send(Args[j], Decl[c].params[j])>> \in Sends(c)
    BY RunesAreSent
  <2>2. <<r, Send(Args[j], Decl[c].params[j])>> \in { s \in Knowns(c) : s[1] = r }
    BY <2>1 DEF Knowns
  <2>3. \A k \in { s \in Knowns(c) : s[1] = r } : k[2] = a[r]
    BY <1>4
  <2> QED BY <2>2, <2>3
<1>6. Solves(c)
  <2>1. \A r \in Runes(c) : Cardinality({ k[2] : k \in { s \in Knowns(c) : s[1] = r } }) = 1
    BY <1>5, FS_Singleton
  <2>2. \A k \in Knowns(c) : k[1] \in Runes(c) => k[2] \in Decl[c].allowed
    BY <1>1, <1>4
  <2> QED BY <1>1, <1>2, <2>1, <2>2 DEF Solves
<1>7. ASSUME NEW i \in DOMAIN Decl[c].params
      PROVE  SlotType(Decl[c].params[i], a) =
               IF Decl[c].params[i].slot \in Runes(c) THEN Conclusion(c, Decl[c].params[i].slot)
               ELSE Bare(Decl[c].params[i].slot)
  <2> DEFINE slot == Decl[c].params[i].slot
             k == <<slot, Send(Args[i], Decl[c].params[i])>>
  <2>1. CASE slot \in Runes(c)
    <3>1. k \in Knowns(c) /\ k[1] = slot /\ k[2] = SlotType(Decl[c].params[i], a)
      BY <1>1 DEF Knowns, Sends
    <3>2. Conclusion(c, k[1]) = k[2]
      BY <1>6, <2>1, <3>1, ConcludedAsKnown
    <3> QED BY <2>1, <3>1, <3>2
  <2>2. CASE slot \notin Runes(c)
    BY <2>2 DEF SlotType
  <2> QED BY <2>1, <2>2
<1>8. [i \in DOMAIN Decl[c].params |-> ParamType(Decl[c].params[i], SlotType(Decl[c].params[i], a))]
        = ParamTypes(c)
  BY <1>7 DEF ParamTypes
<1> QED BY <1>6, <1>8 DEF PrototypeOf, Banner

\* The runes of a callee are a sequence.
LEMMA RunesAreSequence ==
  ASSUME NEW c \in Callee PROVE DOMAIN Decl[c].runes = 1..Len(Decl[c].runes) /\ Len(Decl[c].runes) \in Nat
BY CalleesAreDeclared

\* And what the solve concludes is an assignment.
LEMMA ConclusionsAssign ==
  ASSUME call \in Calls, NEW c \in Callee, ~ IsBound(c), DOMAIN Args = DOMAIN Decl[c].params, Solves(c)
  PROVE  \E a \in [Runes(c) -> TypeParts] : Assigns(c, a)
<1> DEFINE a == [r \in Runes(c) |-> Conclusion(c, r)]
<1>1. \A k \in Knowns(c) : k[1] \in Runes(c) => a[k[1]] = k[2]
  BY ConcludedAsKnown
<1>2. ASSUME NEW r \in Runes(c) PROVE a[r] \in TypeParts /\ a[r] \in Decl[c].allowed
  <2>1. PICK j \in DOMAIN Args :
          /\ Decl[c].params[j].slot = r
          /\ <<r, Send(Args[j], Decl[c].params[j])>> \in Sends(c)
    BY RunesAreSent
  <2> DEFINE k == <<r, Send(Args[j], Decl[c].params[j])>>
  <2>2. k \in Knowns(c) /\ k[1] = r /\ k[2] = Send(Args[j], Decl[c].params[j])
    BY <2>1 DEF Knowns
  <2>3. a[r] = Send(Args[j], Decl[c].params[j])
    BY <1>1, <2>2
  <2>4. a[r] \in Decl[c].allowed
    BY <1>1, <2>2 DEF Solves
  <2>5. Args[j] \in Argument
    BY CallsAreTyped DEF Args
  <2>6. Decl[c].params[j].refs \in Nat /\ Decl[c].params[j].slot \notin Kind
    BY <2>1, ParamsAreTyped
  <2>7. \E n \in 0..Len(Args[j].refs) : a[r] = Peel(Args[j], n)
    BY <2>3, <2>5, <2>6, SentIsInside
  <2>8. a[r] \in UNION { { Peel(Args[i], n) : n \in 0..Len(Args[i].refs) } : i \in DOMAIN Args }
    <3>1. a[r] \in { Peel(Args[j], n) : n \in 0..Len(Args[j].refs) }
      BY <2>7
    <3> HIDE DEF a
    <3> QED BY <3>1
  <2> HIDE DEF a
  <2> QED BY <2>4, <2>8 DEF TypeParts
<1>3. a \in [Runes(c) -> TypeParts]
  BY <1>2
<1>4. ASSUME NEW i \in DOMAIN call.explicit PROVE a[Decl[c].runes[i]] = call.explicit[i]
  <2>1. call.explicit \in Seq(Argument) /\ Len(call.explicit) <= Len(Decl[c].runes)
    BY CallsAreTyped DEF Solves
  <2> DEFINE k == <<Decl[c].runes[i], call.explicit[i]>>
  <2>2. k \in Knowns(c)
    BY DEF Knowns, Explicits
  <2>3. i \in DOMAIN Decl[c].runes
    BY <2>1, RunesAreSequence
  <2>4. k[1] \in Runes(c)
    BY <2>3 DEF Runes
  <2>5. a[k[1]] = k[2]
    BY <1>1, <2>2, <2>4
  <2> QED BY <2>5
<1>5. ASSUME NEW i \in DOMAIN Decl[c].params
      PROVE  SlotType(Decl[c].params[i], a) = Send(Args[i], Decl[c].params[i])
  <2> DEFINE slot == Decl[c].params[i].slot
             k == <<slot, Send(Args[i], Decl[c].params[i])>>
  <2>1. k \in Sends(c) /\ k \in Knowns(c) /\ k[1] = slot /\ k[2] = Send(Args[i], Decl[c].params[i])
    BY DEF Knowns, Sends
  <2>2. CASE slot \in Runes(c)
    <3>1. a[slot] = k[2]
      BY <1>1, <2>1, <2>2
    <3> QED BY <2>1, <2>2, <3>1 DEF SlotType
  <2>3. CASE slot \notin Runes(c)
    <3>1. k[2] = Bare(slot)
      BY <2>1, <2>3 DEF Solves
    <3> QED BY <2>1, <2>3, <3>1 DEF SlotType
  <2> QED BY <2>2, <2>3
<1>6. Assigns(c, a)
  BY <1>2, <1>4, <1>5 DEF Assigns, Solves
<1> QED BY <1>3, <1>6

\* A callee has the prototype its solve makes, where it has as many parameters as there
\* are arguments.
LEMMA PrototypesAreBanners ==
  ASSUME call \in Calls, NEW c \in Callee, Len(Args) = Len(Decl[c].params)
  PROVE  Prototypes(c) = IF Compares(c) THEN {Banner(c)} ELSE {}
<1>1. CASE IsBound(c)
  BY <1>1, BoundPrototype DEF Compares
<1>2. CASE ~ IsBound(c)
  <2>1. Args \in Seq(Argument)
    BY CallsAreTyped DEF Args
  <2>2. DOMAIN Args = DOMAIN Decl[c].params
    BY <2>1, ParamsAreTyped
  <2>3. \A p \in Prototypes(c) : Solves(c) /\ p = Banner(c)
    BY <1>2, <2>2, AssignmentsSolve, PrototypesByAssignment
  <2>4. Solves(c) => \E p : p \in Prototypes(c)
    <3>1. SUFFICES ASSUME Solves(c) PROVE \E p : p \in Prototypes(c)
      OBVIOUS
    <3>2. PICK a \in [Runes(c) -> TypeParts] : Assigns(c, a)
      BY <1>2, <2>2, <3>1, ConclusionsAssign
    <3>3. PrototypeOf(c, a) \in Prototypes(c)
      BY <3>2, PrototypesByAssignment
    <3> QED BY <3>3
  <2> QED BY <1>2, <2>3, <2>4 DEF Compares
<1> QED BY <1>1, <1>2

\* Otherwise none takes the arguments or baffles.
LEMMA WrongNumber ==
  ASSUME NEW c \in Callee, Len(Args) # Len(Decl[c].params)
  PROVE  /\ ~ ParamsMatch(ParamTypes(c)) /\ ~ ParamsBaffle(ParamTypes(c))
         /\ \A p \in Prototypes(c) : ~ ParamsMatch(p.types) /\ ~ ParamsBaffle(p.types)
<1>1. ~ ParamsMatch(ParamTypes(c)) /\ ~ ParamsBaffle(ParamTypes(c))
  BY ParamsAreTyped DEF ParamsMatch, ParamsBaffle
<1>2. ASSUME NEW p \in Prototypes(c) PROVE Len(p.types) = Len(Decl[c].params)
  <2>1. PICK a : p = PrototypeOf(c, a)
    BY PrototypesByAssignment
  <2>2. p.types = [i \in DOMAIN Decl[c].params |-> p.types[i]]
    BY <2>1 DEF PrototypeOf
  <2>3. \E S : Decl[c].params \in Seq(S)
    BY CalleesAreDeclared
  <2> QED BY <2>2, <2>3, AsLong
<1> QED BY <1>1, <1>2 DEF ParamsMatch, ParamsBaffle

\* So what takes the arguments, and what baffles, is the same of the prototypes as of
\* the candidates.
LEMMA PrototypesTried ==
  ASSUME call \in Calls, NEW c \in Callee
  PROVE  /\ \A p : (p \in Prototypes(c) /\ ParamsMatch(p.types))
                      <=> (p = Banner(c) /\ Compares(c) /\ ParamsMatch(ParamTypes(c)))
         /\ (\E p \in Prototypes(c) : ParamsBaffle(p.types))
               <=> (Compares(c) /\ ParamsBaffle(ParamTypes(c)))
<1>1. Banner(c).types = ParamTypes(c)
  BY DEF Banner
<1>2. CASE Len(Args) = Len(Decl[c].params)
  <2>1. Prototypes(c) = IF Compares(c) THEN {Banner(c)} ELSE {}
    BY <1>2, PrototypesAreBanners
  <2> QED BY <1>1, <2>1
<1>3. CASE Len(Args) # Len(Decl[c].params)
  BY <1>3, WrongNumber
<1> QED BY <1>2, <1>3

-----------------------------------------------------------------------------
(* What is searched.                                                       *)

AllFound == UNION { Lookup(env) : env \in Environments }

\* Searching every environment finds the functions that are visible, and no others.
LEMMA FoundAreVisible ==
  ASSUME call \in Calls, NEW c \in Callee
  PROVE  (\E f \in AllFound : f.of = c) <=> (c \in call.program /\ Visible(c))
<1>0. /\ Decl[c].method => Decl[c].home \in Struct \cup Interface
      /\ "bound" \notin Struct \cup Interface /\ "calling" \notin Struct \cup Interface
      /\ Decl[c].method => ~ IsBound(c)
  BY CalleesAreDeclared DEF IsBound
<1>1. ASSUME NEW env \in Environments, NEW f \in Lookup(env), f.of = c
      PROVE  c \in call.program /\ Visible(c)
  <2>1. c \in call.program
    BY <1>1 DEF Lookup, CitizenEntries, BoundEntries, PackageEntries
  <2>2. SUFFICES ASSUME Decl[c].method PROVE Visible(c)
    BY <2>1 DEF Visible
  <2>3. env \in Struct \cup Interface /\ Decl[c].home = env
    BY <1>0, <1>1, <2>2 DEF Lookup, CitizenEntries, BoundEntries, PackageEntries
  <2>4. CASE env \in ParamEnvironments
    <3>1. PICK i \in DOMAIN Args :
            LET u == IF call.exact THEN Args[i] ELSE PeelAll(Args[i]) IN IsBare(u) /\ u.kind = env
      BY <2>4 DEF ParamEnvironments
    <3>2. Args[i].kind = env /\ (call.exact => IsBare(Args[i]))
      BY <3>1 DEF PeelAll, Bare
    <3> QED BY <2>3, <3>2 DEF Visible
  <2>5. CASE env \in PlaceholderExtraEnvironments
    BY <2>3, <2>5 DEF PlaceholderExtraEnvironments, Visible
  <2> QED BY <1>0, <2>3, <2>4, <2>5 DEF Environments
<1>2. ASSUME c \in call.program, Visible(c) PROVE \E f \in AllFound : f.of = c
  <2>1. SUFFICES \E env \in Environments : \E f \in Lookup(env) : f.of = c
    BY DEF AllFound
  <2>2. CASE IsBound(c)
    <3>1. [of |-> c, from |-> "calling"] \in BoundEntries("calling")
      BY <1>2, <2>2 DEF BoundEntries
    <3>2. "calling" \in Environments
      BY DEF Environments
    <3> QED BY <3>1, <3>2 DEF Lookup
  <2>3. CASE ~ IsBound(c) /\ ~ Decl[c].method
    <3>1. [of |-> c, from |-> "package"] \in PackageEntries
      BY <1>2, <2>3 DEF PackageEntries
    <3>2. "calling" \in Environments
      BY DEF Environments
    <3> QED BY <3>1, <3>2 DEF Lookup
  <2>4. CASE Decl[c].method
    <3> DEFINE env == Decl[c].home
    <3>1. [of |-> c, from |-> env] \in CitizenEntries(env)
      BY <1>0, <1>2, <2>4 DEF CitizenEntries
    <3>2. PICK i \in DOMAIN Args :
            \/ Args[i].kind = env /\ (call.exact => IsBare(Args[i]))
            \/ Args[i].kind \in Placeholder /\ <<Args[i].kind, env>> \in Implements
      BY <1>2, <2>4 DEF Visible
    <3>3. CASE Args[i].kind = env /\ (call.exact => IsBare(Args[i]))
      <4> DEFINE u == IF call.exact THEN Args[i] ELSE PeelAll(Args[i])
      <4>1. IsBare(u) /\ u.kind = env
        BY <3>3 DEF PeelAll, Bare, IsBare
      <4>2. u \in { IF call.exact THEN Args[x] ELSE PeelAll(Args[x]) : x \in DOMAIN Args }
        OBVIOUS
      <4> HIDE DEF u
      <4>3. env \in ParamEnvironments
        BY <1>0, <2>4, <4>1, <4>2 DEF ParamEnvironments
      <4>4. env \in Environments /\ [of |-> c, from |-> env] \in Lookup(env)
        BY <3>1, <4>3 DEF Environments, Lookup
      <4> QED BY <4>4
    <3>4. CASE Args[i].kind \in Placeholder /\ <<Args[i].kind, env>> \in Implements
      <4>1. env \in Interface
        <5>1. env \in Interface \cup Placeholder
          BY <3>4, KindsAreDisjoint
        <5>2. env \in Struct \cup Interface
          BY <1>0, <2>4
        <5>3. Struct \cap Placeholder = {}
          <6> DEFINE kinds == <<Primitive, Text, Struct, Interface, Placeholder, {"never"}>>
          <6>1. kinds[3] \cap kinds[5] = {}
            BY KindsAreDisjoint
          <6> QED BY <6>1
        <5> QED BY <5>1, <5>2, <5>3
      <4>2. env \in PlaceholderExtraEnvironments
        BY <3>4, <4>1 DEF PlaceholderExtraEnvironments
      <4>4. env \in Environments /\ [of |-> c, from |-> env] \in Lookup(env)
        BY <3>1, <4>2 DEF Environments, Lookup
      <4> QED BY <4>4
    <3> QED BY <3>2, <3>3, <3>4
  <2> QED BY <2>2, <2>3, <2>4
<1> QED BY <1>1, <1>2 DEF AllFound

-----------------------------------------------------------------------------
(* The invariant: what was searched is found, what was tried and fits is a *)
(* success, and a verdict is the one the reference gives.                  *)

Matching(t) == Compares(t.of) /\ ParamsMatch(ParamTypes(t.of))
Baffling(t) == Compares(t.of) /\ ParamsBaffle(ParamTypes(t.of))

\* What was searched was found.
FoundSoFar ==
  /\ \A env \in Environments \ toSearch : Lookup(env) \subseteq found
  /\ found \subseteq AllFound
  /\ phase # "searching" => toSearch = {}

\* The candidates that fit are those tried that the arguments match.
SuccessesMatch ==
  successes = { [candidate |-> t, banner |-> Banner(t.of)] : t \in { u \in tried : Matching(u) } }

\* As long as no verdict is given, nothing that was tried is baffling.
Undecided ==
  phase \in {"searching", "attempting"} => verdict = Pending /\ \A t \in tried : ~ Baffling(t)

\* A verdict given is that something found is baffling, or is right about all there is.
Decided ==
  phase \in {"converting", "done"} =>
    IF \E t \in found : Baffling(t) THEN verdict = Verdict("panic", {})
    ELSE tried = found /\ IsReference(verdict, Banners, Survivors(Banners))

\* What is converted are the arguments of a call for one banner.
ToConvert ==
  phase = "converting" => ~ call.exact /\ verdict.kind = "chosen" /\ verdict.banners # {}

RInv ==
  /\ IInv /\ call \in Calls
  /\ FoundSoFar /\ SuccessesMatch /\ Undecided /\ Decided /\ ToConvert
  /\ AcceptedArgsConvert

-----------------------------------------------------------------------------
\* A match does not baffle.
LEMMA MatchingIsNotBaffling == \A types : ~ (ParamsMatch(types) /\ ParamsBaffle(types))
<1>1. SUFFICES ASSUME NEW types, ParamsMatch(types), ParamsBaffle(types) PROVE FALSE
  OBVIOUS
<1>2. PICK i \in DOMAIN types : Baffles(Args[i], types[i])
  BY <1>1 DEF ParamsBaffle
<1>3. Fits(Args[i], types[i]) /\ ~ call.exact
  BY <1>1, <1>2 DEF ParamsMatch, Baffles
<1> QED BY <1>2, <1>3 DEF Fits, Baffles, Convertible, Unknown

\* The visible functions and what is found agree on what fits and on what baffles.
LEMMA ReferenceOfFound ==
  ASSUME call \in Calls, found = AllFound, SuccessesMatch
  PROVE  /\ (\E p \in Seen : ParamsBaffle(p.types)) <=> (\E t \in found : Baffling(t))
         /\ tried = found => Fitting = Banners
<1>0. call.program \subseteq Callee
  BY CallsAreTyped
<1>1. \A c \in Callee : (\E t \in found : t.of = c) <=> (c \in call.program /\ Visible(c))
  BY FoundAreVisible
<1>2. \A t \in found : t.of \in call.program
  BY DEF AllFound, Lookup, CitizenEntries, BoundEntries, PackageEntries
<1>3. (\E p \in Seen : ParamsBaffle(p.types))
        <=> (\E c \in call.program : Visible(c) /\ \E p \in Prototypes(c) : ParamsBaffle(p.types))
  BY DEF Seen
<1>4. (\E p \in Seen : ParamsBaffle(p.types))
        <=> (\E c \in call.program : Visible(c) /\ Compares(c) /\ ParamsBaffle(ParamTypes(c)))
  BY <1>0, <1>3, PrototypesTried
<1>5. (\E p \in Seen : ParamsBaffle(p.types)) <=> (\E t \in found : Baffling(t))
  BY <1>0, <1>1, <1>2, <1>4 DEF Baffling
<1>6. ASSUME tried = found, NEW p PROVE p \in Fitting <=> p \in Banners
  <2>1. p \in Fitting <=> \E c \in call.program : Visible(c) /\ p \in Prototypes(c) /\ ParamsMatch(p.types)
    BY DEF Fitting, Seen
  <2>2. p \in Fitting
          <=> \E c \in call.program : Visible(c) /\ p = Banner(c) /\ Compares(c) /\ ParamsMatch(ParamTypes(c))
    BY <1>0, <2>1, PrototypesTried
  <2>3. p \in Fitting <=> \E t \in found : p = Banner(t.of) /\ Matching(t)
    BY <1>0, <1>1, <1>2, <2>2 DEF Matching
  <2>4. p \in Banners <=> \E t \in tried : p = Banner(t.of) /\ Matching(t)
    <3> DEFINE Success(t) == [candidate |-> t, banner |-> Banner(t.of)]
    <3>1. p \in Banners <=> \E s \in successes : p = s.banner
      BY DEF Banners
    <3>2. successes = { Success(t) : t \in { u \in tried : Matching(u) } }
      BY DEF SuccessesMatch
    <3>3. \A t : Success(t).banner = Banner(t.of)
      OBVIOUS
    <3> HIDE DEF Success
    <3>4. p \in Banners <=> \E t \in { u \in tried : Matching(u) } : p = Success(t).banner
      BY <3>1, <3>2
    <3> QED BY <3>3, <3>4
  <2> QED BY <1>6, <2>3, <2>4
<1>7. tried = found => Fitting = Banners
  <2>1. Fitting = { p \in Fitting : TRUE } /\ Banners = { p \in Banners : TRUE }
    OBVIOUS
  <2> QED BY <1>6, <2>1
<1> QED BY <1>5, <1>7

\* A verdict that is right about what is found is right about what is visible.
LEMMA RInvIsReference == RInv => VerdictIsReference
<1> SUFFICES ASSUME RInv, phase \in {"converting", "done"}
             PROVE IF \E p \in Seen : ParamsBaffle(p.types) THEN verdict = Verdict("panic", {})
                   ELSE IsReference(verdict, Fitting, Best(Fitting))
  BY DEF VerdictIsReference
<1>1. found = AllFound
  <2>1. toSearch = {} /\ \A env \in Environments : Lookup(env) \subseteq found
    BY DEF RInv, FoundSoFar
  <2> QED BY <2>1 DEF AllFound, RInv, FoundSoFar
<1>2. /\ (\E p \in Seen : ParamsBaffle(p.types)) <=> (\E t \in found : Baffling(t))
      /\ tried = found => Fitting = Banners
  BY <1>1, ReferenceOfFound DEF RInv
<1>3. Best(Banners) = Survivors(Banners)
  BY DEF Best, Survivors
<1> QED BY <1>2, <1>3 DEF RInv, Decided

-----------------------------------------------------------------------------
(* What the four kinds of verdict must be.                                 *)

\* Nothing is called for where nothing fits.
LEMMA MissingIsReference ==
  ASSUME NEW best PROVE IsReference(Verdict("missing", {}), {}, best)
BY DEF IsReference, Verdict

\* A panic is right where something fits but nothing is best.
LEMMA PanicIsReference ==
  ASSUME NEW fitting, fitting # {} PROVE IsReference(Verdict("panic", {}), fitting, {})
BY DEF IsReference, Verdict

\* An ambiguity is right where several functions are best.
LEMMA AmbiguousIsReference ==
  ASSUME NEW fitting, NEW best, Cardinality({ b \in best : ~ IsBound(b.of) }) > 1
  PROVE  IsReference(Verdict("ambiguous", { b \in best : ~ IsBound(b.of) }), fitting, best)
BY DEF IsReference, Verdict

IsChosen(banners, best) ==
  \E b \in best :
    /\ banners = {b}
    /\ \/ { x \in best : ~ IsBound(x.of) } = {b}
       \/ /\ { x \in best : ~ IsBound(x.of) } = {}
          /\ \A o \in best : IsPrefix(Decl[b.of].path, Decl[o.of].path)

\* One banner is right when it is the only best function, or the outermost best bound.
LEMMA ChosenIsReference ==
  ASSUME NEW fitting, NEW best, NEW given, given.banners # {},
         given.kind # "ambiguous"
  PROVE  IsReference(given, fitting, best) <=> IsChosen(given.banners, best)
BY DEF IsReference, IsChosen

\* Bounds around one call have an outermost one.
LEMMA OutermostEncloses ==
  ASSUME NEW bounds, \A b \in bounds : b.of \in Callee /\ IsBound(b.of), NEW b \in Outermost(bounds)
  PROVE  Enclose(b, bounds)
<1>1. SUFFICES ASSUME NEW o \in bounds PROVE IsPrefix(Decl[b.of].path, Decl[o.of].path)
  BY DEF Enclose
<1> DEFINE p == Decl[b.of].path
           q == Decl[o.of].path
<1>2. b \in bounds /\ Len(p) <= Len(q)
  BY DEF Outermost
<1>3. b.of \in { e \in Callee : Decl[e].home = "bound" } /\ o.of \in { e \in Callee : Decl[e].home = "bound" }
  BY <1>2 DEF IsBound
<1>4. p \in Seq(STRING) /\ q \in Seq(STRING) /\ (IsPrefix(p, q) \/ IsPrefix(q, p))
  BY <1>3, BoundsNest
<1> HIDE DEF p, q
<1>5. ASSUME IsPrefix(q, p) PROVE p = q
  <2>1. Len(q) = Len(p)
    BY <1>2, <1>4, <1>5 DEF IsPrefix
  <2>2. SubSeq(q, 1, Len(q)) = SubSeq(p, 1, Len(q))
    BY <1>5 DEF IsPrefix
  <2>3. SubSeq(q, 1, Len(q)) = q /\ SubSeq(p, 1, Len(p)) = p
    BY <1>4
  <2> QED BY <2>1, <2>2, <2>3
<1> QED BY <1>2, <1>4, <1>5 DEF p, q, IsPrefix

\* The verdict that narrowing down gives is the one the reference wants.
LEMMA NarrowIsReference ==
  ASSUME Narrow, call \in Calls, IInv
  PROVE  /\ IsReference(verdict', Banners, Survivors(Banners))
         /\ phase' = "converting" => ~ call.exact /\ verdict'.kind = "chosen" /\ verdict'.banners # {}
         /\ phase' \in {"converting", "done"}
         /\ verdict'.kind \in {"missing", "ambiguous", "chosen", "panic"}
         /\ verdict'.kind = "panic" => verdict'.banners = {}
<1> DEFINE best == Survivors(Banners)
           normals == Normals(best)
           bounds == Bounds(best)
           Goal == /\ IsReference(verdict', Banners, best)
                   /\ phase' = "converting" => ~ call.exact /\ verdict'.kind = "chosen" /\ verdict'.banners # {}
                   /\ phase' \in {"converting", "done"}
                   /\ verdict'.kind \in {"missing", "ambiguous", "chosen", "panic"}
                   /\ verdict'.kind = "panic" => verdict'.banners = {}
<1> SUFFICES Goal
  OBVIOUS
<1>0. normals = { b \in best : ~ IsBound(b.of) } /\ bounds = { b \in best : IsBound(b.of) }
  BY DEF Normals, Bounds
<1>1. CASE Banners = {} /\ Give("missing", {})
  <2>1. verdict' = Verdict("missing", {}) /\ phase' = "done"
    BY <1>1 DEF Give
  <2>2. IsReference(verdict', Banners, best)
    BY <1>1, <2>1, MissingIsReference
  <2> QED BY <2>1, <2>2 DEF Verdict
<1>2. CASE Cardinality(normals) > 1 /\ Give("ambiguous", normals)
  <2>1. verdict' = Verdict("ambiguous", normals) /\ phase' = "done"
    BY <1>2 DEF Give
  <2>2. IsReference(verdict', Banners, best)
    BY <1>0, <1>2, <2>1, AmbiguousIsReference
  <2> QED BY <2>1, <2>2 DEF Verdict
<1>3. ASSUME NEW b, Choose(b), IsChosen({b}, best) PROVE Goal
  <2>1. verdict' = Verdict("chosen", {b}) /\ phase' \in {"converting", "done"}
        /\ (phase' = "converting" => ~ call.exact)
    BY <1>3 DEF Choose, Give
  <2>2. verdict'.banners = {b} /\ verdict'.kind = "chosen"
    BY <2>1 DEF Verdict
  <2>3. IsReference(verdict', Banners, best)
    <3> HIDE DEF best
    <3> QED BY <1>3, <2>2, ChosenIsReference
  <2> QED BY <2>1, <2>2, <2>3
<1>4. CASE \E b \in normals : normals = {b} /\ Choose(b)
  <2>1. PICK b \in normals : normals = {b} /\ Choose(b)
    BY <1>4
  <2>2. IsChosen({b}, best)
    BY <1>0, <2>1 DEF IsChosen
  <2> QED BY <1>3, <2>1, <2>2
<1>5. CASE /\ normals = {}
           /\ \E b \in Outermost(bounds) : IF Enclose(b, bounds) THEN Choose(b) ELSE Give("panic", {})
  <2>1. PICK b \in Outermost(bounds) : IF Enclose(b, bounds) THEN Choose(b) ELSE Give("panic", {})
    BY <1>5
  <2>2. \A x \in bounds : x.of \in Callee /\ IsBound(x.of)
    <3>1. SUFFICES ASSUME NEW x \in bounds PROVE x.of \in Callee
      BY <1>0
    <3>2. x \in Banners
      BY <1>0, SurvivorsAreBanners
    <3>3. PICK s \in successes : x = s.banner
      BY <3>2 DEF Banners
    <3>4. s.banner.of = s.candidate.of /\ s.candidate.of \in call.program
      BY DEF IInv, TypeOK
    <3> QED BY <3>3, <3>4, CallsAreTyped
  <2>3. Enclose(b, bounds)
    BY <2>1, <2>2, OutermostEncloses
  <2>4. b \in best /\ bounds = best
    BY <1>0, <1>5 DEF Outermost
  <2>5. IsChosen({b}, best)
    BY <1>0, <1>5, <2>3, <2>4 DEF IsChosen, Enclose
  <2> QED BY <1>3, <2>1, <2>3, <2>5
<1>6. CASE Banners # {} /\ normals = {} /\ bounds = {} /\ Give("panic", {})
  <2>1. verdict' = Verdict("panic", {}) /\ phase' = "done"
    BY <1>6 DEF Give
  <2>2. best = {}
    BY <1>0, <1>6
  <2>3. IsReference(verdict', Banners, best)
    <3> HIDE DEF best
    <3> QED BY <1>6, <2>1, <2>2, PanicIsReference
  <2>4. verdict'.kind = "panic" /\ verdict'.banners = {}
    BY <2>1 DEF Verdict
  <2> QED BY <2>1, <2>3, <2>4
<1>7. Goal
  <2>1. (Banners = {} /\ Give("missing", {})) \/ NarrowDown(Banners, normals, bounds)
    BY DEF Narrow
  <2> HIDE DEF Goal, best, normals, bounds
  <2> QED BY <1>1, <1>2, <1>4, <1>5, <1>6, <2>1 DEF NarrowDown
<1> QED BY <1>7

-----------------------------------------------------------------------------
(* The arguments.                                                          *)

\* Nothing is left of a type without as many references as it has.
LEMMA ConcatNothing ==
  ASSUME NEW s \in Seq({"&", "@"}), NEW u \in Seq({"&"})
  PROVE  u \o SubSeq(s, Len(s) + 1, Len(s)) = u
<1>1. SubSeq(s, Len(s) + 1, Len(s)) = <<>>
  BY EmptySeq, SubSeqProperties
<1> QED BY <1>1, ConcatEmptySeq

\* Putting borrows in front of what is left of a type without them gives the type back.
LEMMA Reassembled ==
  ASSUME NEW s \in Seq({"&", "@"}), NEW n \in Nat, n <= Len(s), \A x \in 1..n : s[x] = "&"
  PROVE  [x \in 1..n |-> "&"] \o SubSeq(s, n + 1, Len(s)) = s
<1> DEFINE u == [x \in 1..n |-> "&"]
           v == SubSeq(s, n + 1, Len(s))
<1>1. u \in Seq({"&", "@"}) /\ Len(u) = n /\ Len(s) \in Nat
  OBVIOUS
<1>2. v \in Seq({"&", "@"}) /\ Len(v) = Len(s) - n /\ \A x \in 1..(Len(s) - n) : v[x] = s[n + x]
  OBVIOUS
<1>3. \A x \in 1..n : u[x] = s[x]
  OBVIOUS
<1> HIDE DEF u, v
<1>4. u \o v \in Seq({"&", "@"}) /\ Len(u \o v) = Len(s)
  BY <1>1, <1>2
<1>5. ASSUME NEW x \in 1..Len(s) PROVE (u \o v)[x] = s[x]
  <2>1. CASE x <= n
    <3>1. (u \o v)[x] = u[x] /\ x \in 1..n
      BY <1>1, <1>2, <2>1
    <3> QED BY <1>3, <3>1
  <2>2. CASE x > n
    <3>1. (u \o v)[x] = v[x - n] /\ x - n \in 1..(Len(s) - n) /\ n + (x - n) = x
      BY <1>1, <1>2, <2>2
    <3> QED BY <1>2, <3>1
  <2>3. x <= n \/ x > n
    BY <1>1
  <2> QED BY <2>1, <2>2, <2>3
<1>6. u \o v = s
  <2>1. \A a, b \in Seq({"&", "@"}) : Len(a) = Len(b) /\ (\A x \in 1..Len(b) : a[x] = b[x]) => a = b
    OBVIOUS
  <2> QED BY <1>4, <1>5, <2>1
<1> QED BY <1>6 DEF u, v

\* Each parameter of a callee that compares is a borrow type, or is what its argument is.
LEMMA ParametersOfArguments ==
  ASSUME call \in Calls, NEW c \in Callee, Compares(c), Len(Args) = Len(ParamTypes(c)),
         NEW i \in DOMAIN Args
  PROVE  /\ i \in DOMAIN ParamTypes(c) /\ Args[i] \in Argument
         /\ \/ IsNever(Args[i])
            \/ ParamTypes(c)[i] = Args[i]
            \/ ParamTypes(c)[i] \in BorrowType
<1> DEFINE arg == Args[i]
           param == Decl[c].params[i]
           n == param.refs
           ands == [x \in 1..n |-> "&"]
<1>1. Args \in Seq(Argument)
  BY CallsAreTyped DEF Args
<1>2. i \in DOMAIN Decl[c].params /\ i \in DOMAIN ParamTypes(c) /\ arg \in Argument
  BY <1>1, ParamsAreTyped
<1>3. n \in Nat /\ param.slot \in (Kind \ {"never"}) \cup Runes(c)
  BY <1>2, ParamsAreTyped
<1>4. ands \in Seq({"&"}) /\ Len(ands) = n
  BY <1>3
<1>5. ASSUME NEW t \in BorrowType PROVE ParamType(param, t) \in BorrowType
  <2>1. t \in [refs : Seq({"&"}), kind : Kind \ {"never"}]
    BY DEF BorrowType
  <2>2. ands \o t.refs \in Seq({"&"})
    BY <1>4, <2>1
  <2>3. ParamType(param, t) = [t EXCEPT !.refs = ands \o t.refs]
    BY DEF ParamType, Wrap
  <2> HIDE DEF ands, n
  <2> QED BY <2>1, <2>2, <2>3 DEF BorrowType
<1>6. \A kind \in Kind \ {"never"} : Bare(kind) \in BorrowType
  <2>1. <<>> \in Seq({"&"})
    OBVIOUS
  <2> QED BY <2>1 DEF Bare, BorrowType
<1>7. CASE param.slot \notin Runes(c)
  <2>1. ParamTypes(c)[i] = ParamType(param, Bare(param.slot))
    BY <1>2, <1>7 DEF ParamTypes
  <2> QED BY <1>2, <1>3, <1>5, <1>6, <1>7, <2>1
<1>8. CASE param.slot \in Runes(c)
  <2>1. Solves(c)
    BY <1>8, ParamsAreTyped DEF Compares
  <2> DEFINE k == <<param.slot, Send(arg, param)>>
  <2>2. k \in Knowns(c) /\ k[1] = param.slot /\ k[2] = Send(arg, param)
    BY <1>2 DEF Knowns, Sends
  <2>3. Conclusion(c, param.slot) = Send(arg, param)
    BY <1>8, <2>1, <2>2, ConcludedAsKnown
  <2>4. ParamTypes(c)[i] = ParamType(param, Send(arg, param))
    BY <1>2, <1>8, <2>3 DEF ParamTypes
  <2>5. Send(arg, param) = IF Len(arg.refs) < n THEN PeelAll(arg) ELSE Peel(arg, n)
    BY <1>2, <1>3, <1>8, SentIsInside, ParamsAreTyped
  <2>6. CASE IsNever(arg)
    BY <1>2, <2>6
  <2>7. CASE ~ IsNever(arg) /\ Len(arg.refs) < n
    <3>1. arg.kind \in Kind \ {"never"}
      BY <1>2, <2>7 DEF Argument, IsNever
    <3>2. PeelAll(arg) \in BorrowType
      BY <1>6, <3>1 DEF PeelAll
    <3> QED BY <1>2, <1>5, <2>4, <2>5, <2>7, <3>2
  <2>8. CASE ~ IsNever(arg) /\ ~ (Len(arg.refs) < n)
    <3>1. /\ arg \in [refs : Seq({"&", "@"}), kind : Kind \ {"never"}]
          /\ \A x \in 1..(Len(arg.refs) - 1) : arg.refs[x] = "&"
      BY <1>2, <2>8 DEF Argument, IsNever
    <3> DEFINE rest == SubSeq(arg.refs, n + 1, Len(arg.refs))
    <3>2. ParamTypes(c)[i] = [arg EXCEPT !.refs = ands \o rest]
      BY <2>4, <2>5, <2>8, <3>1 DEF ParamType, Wrap, Peel
    <3>3. arg.refs \in Seq({"&", "@"}) /\ Len(arg.refs) \in Nat /\ n <= Len(arg.refs)
      BY <1>3, <2>8, <3>1
    <3>4. CASE n = Len(arg.refs)
      <4>2. ands \o rest = ands
        BY <1>3, <1>4, <3>3, <3>4, ConcatNothing
      <4>3. ParamTypes(c)[i] = [arg EXCEPT !.refs = ands]
        BY <3>2, <4>2
      <4> HIDE DEF ands, n
      <4>4. [arg EXCEPT !.refs = ands] \in BorrowType
        BY <1>4, <3>1 DEF BorrowType
      <4> QED BY <1>2, <4>3, <4>4
    <3>5. CASE n < Len(arg.refs)
      <4>1. \A x \in 1..n : arg.refs[x] = "&"
        BY <1>3, <3>1, <3>3, <3>5
      <4>2. ands \o rest = arg.refs
        BY <1>3, <3>3, <4>1, Reassembled
      <4>3. [arg EXCEPT !.refs = arg.refs] = arg
        BY <3>1
      <4> QED BY <1>2, <3>2, <4>2, <4>3
    <3> QED BY <1>2, <1>3, <3>3, <3>4, <3>5
  <2> QED BY <2>6, <2>7, <2>8
<1> QED BY <1>7, <1>8

-----------------------------------------------------------------------------
(* The steps.                                                              *)

\* What depends on the call alone does not change, as it does not.
LEMMA CallStays ==
  ASSUME call' = call
  PROVE  /\ Environments' = Environments /\ AllFound' = AllFound
         /\ \A env : Lookup(env)' = Lookup(env)
         /\ \A t : Matching(t)' <=> Matching(t)
         /\ \A t : Baffling(t)' <=> Baffling(t)
         /\ \A c : Banner(c)' = Banner(c)
<1>1. Environments' = Environments
  BY DEF Environments, ParamEnvironments, PlaceholderExtraEnvironments, Args
<1>2. \A env : Lookup(env)' = Lookup(env)
  BY DEF Lookup, CitizenEntries, BoundEntries, PackageEntries
<1>3. AllFound' = AllFound
  BY <1>1, <1>2 DEF AllFound
<1>4. \A c : Knowns(c)' = Knowns(c) /\ Sends(c)' = Sends(c)
  BY DEF Knowns, Sends, Explicits, Args
<1>5. \A c, r : Conclusion(c, r)' = Conclusion(c, r)
  BY <1>4 DEF Conclusion
<1>6. \A c : ParamTypes(c)' = ParamTypes(c)
  BY <1>5 DEF ParamTypes
<1>7. \A c : Banner(c)' = Banner(c)
  BY <1>6 DEF Banner
<1>8. \A c : Compares(c)' <=> Compares(c)
  BY <1>4 DEF Compares, Solves
<1>9. \A types : (ParamsMatch(types)' <=> ParamsMatch(types)) /\ (ParamsBaffle(types)' <=> ParamsBaffle(types))
  BY DEF ParamsMatch, ParamsBaffle, Fits, Baffles, Args
<1>10. \A t : (Matching(t)' <=> Matching(t)) /\ (Baffling(t)' <=> Baffling(t))
  BY <1>6, <1>8, <1>9 DEF Matching, Baffling
<1> QED BY <1>1, <1>2, <1>3, <1>7, <1>10

\* Nothing is found, tried or decided at first.
LEMMA InitReference == Init => RInv
<1> SUFFICES ASSUME Init PROVE RInv
  OBVIOUS
<1>1. /\ call \in Calls /\ toSearch = Environments /\ found = {} /\ tried = {} /\ successes = {}
      /\ phase = "searching" /\ verdict = Pending
  BY DEF Init
<1>2. IInv
  BY InitInvariant
<1>3. FoundSoFar /\ SuccessesMatch /\ Undecided /\ Decided /\ ToConvert
  BY <1>1 DEF FoundSoFar, SuccessesMatch, Undecided, Decided, ToConvert
<1>4. AcceptedArgsConvert
  BY <1>1 DEF AcceptedArgsConvert, Pending
<1> QED BY <1>1, <1>2, <1>3, <1>4 DEF RInv

\* A search finds what it looks up.
LEMMA SearchRefers ==
  ASSUME RInv, NEW env \in toSearch, Search(env) PROVE RInv'
<1>1. /\ call' = call /\ tried' = tried /\ successes' = successes /\ verdict' = verdict
      /\ found' = found \cup Lookup(env) /\ toSearch' = toSearch \ {env}
      /\ phase = "searching" /\ phase' \in {"searching", "attempting"}
      /\ phase' # "searching" => toSearch' = {}
  BY DEF Search
<1>2. IInv'
  BY SearchKeeps DEF RInv
<1>3. FoundSoFar'
  <2>1. env \in Environments
    BY DEF RInv, IInv, TypeOK
  <2>2. Lookup(env) \subseteq AllFound
    BY <2>1 DEF AllFound
  <2>3. \A e \in Environments \ toSearch' : Lookup(e) \subseteq found'
    BY <1>1 DEF RInv, FoundSoFar
  <2>4. found' \subseteq AllFound
    BY <1>1, <2>2 DEF RInv, FoundSoFar
  <2> QED BY <1>1, <2>3, <2>4, CallStays DEF FoundSoFar
<1>4. SuccessesMatch'
  BY <1>1, CallStays DEF RInv, SuccessesMatch
<1>5. Undecided'
  BY <1>1, CallStays DEF RInv, Undecided
<1>6. Decided' /\ ToConvert'
  BY <1>1 DEF Decided, ToConvert
<1>7. AcceptedArgsConvert'
  BY <1>1 DEF RInv, AcceptedArgsConvert, Args
<1> QED BY <1>1, <1>2, <1>3, <1>4, <1>5, <1>6, <1>7 DEF RInv

\* An attempt makes its candidate a success, ends the search in a panic, or neither.
LEMMA AttemptRefers ==
  ASSUME RInv, NEW candidate \in found, Attempt(candidate) PROVE RInv'
<1> DEFINE Success(t) == [candidate |-> t, banner |-> Banner(t.of)]
<1>1. /\ call' = call /\ toSearch' = toSearch /\ found' = found /\ phase = "attempting"
      /\ tried' = tried \cup {candidate}
  BY DEF Attempt
<1>2. \/ /\ Baffling(candidate) /\ verdict' = Verdict("panic", {}) /\ phase' = "done"
         /\ successes' = successes
      \/ /\ Matching(candidate) /\ verdict' = verdict /\ phase' = phase
         /\ successes' = successes \cup {Success(candidate)}
      \/ /\ ~ Matching(candidate) /\ ~ Baffling(candidate)
         /\ verdict' = verdict /\ phase' = phase /\ successes' = successes
  BY DEF Attempt, Baffling, Matching
<1>3. Matching(candidate) => ~ Baffling(candidate)
  BY MatchingIsNotBaffling DEF Matching, Baffling
<1>4. IInv'
  BY AttemptKeeps DEF RInv
<1>5. FoundSoFar'
  BY <1>1, <1>2, CallStays DEF RInv, FoundSoFar
<1>6. SuccessesMatch'
  <2>1. successes = { Success(t) : t \in { u \in tried : Matching(u) } }
    BY DEF RInv, SuccessesMatch
  <2>2. successes' = { Success(t) : t \in { u \in tried' : Matching(u) } }
    <3> HIDE DEF Success
    <3> QED BY <1>1, <1>2, <1>3, <2>1
  <2> QED BY <1>1, <2>2, CallStays DEF SuccessesMatch
<1>7. Undecided'
  BY <1>1, <1>2, <1>3, CallStays DEF RInv, Undecided
<1>8. Decided'
  BY <1>1, <1>2, CallStays DEF Decided
<1>9. ToConvert'
  BY <1>1, <1>2 DEF ToConvert
<1>10. AcceptedArgsConvert'
  <2>1. verdict' = Verdict("panic", {}) \/ verdict' = verdict
    BY <1>2
  <2> QED BY <1>1, <2>1 DEF RInv, AcceptedArgsConvert, Args, Verdict
<1> QED BY <1>1, <1>4, <1>5, <1>6, <1>7, <1>8, <1>9, <1>10 DEF RInv

\* Narrowing down decides, once everything found was tried.
LEMMA NarrowRefers == ASSUME RInv, Narrow PROVE RInv'
<1>1. /\ UNCHANGED <<call, toSearch, found, tried, successes>>
      /\ phase = "attempting" /\ tried = found
  BY DEF Narrow
<1>2. /\ IsReference(verdict', Banners, Survivors(Banners))
      /\ phase' = "converting" => ~ call.exact /\ verdict'.kind = "chosen" /\ verdict'.banners # {}
      /\ phase' \in {"converting", "done"}
      /\ verdict'.kind \in {"missing", "ambiguous", "chosen", "panic"}
      /\ verdict'.kind = "panic" => verdict'.banners = {}
  BY NarrowIsReference DEF RInv
<1>3. IInv'
  BY <1>1, <1>2, NarrowGivesSurvivors, VerdictKeeps DEF RInv
<1>4. FoundSoFar' /\ SuccessesMatch'
  BY <1>1, CallStays DEF RInv, FoundSoFar, SuccessesMatch
<1>5. Banners' = Banners /\ Survivors(Banners)' = Survivors(Banners)
  BY <1>1 DEF Banners, Survivors, IsExact, Args
<1>6. Undecided' /\ ToConvert'
  BY <1>1, <1>2 DEF Undecided, ToConvert
<1>7. Decided'
  <2>1. \A t \in found : ~ Baffling(t)
    BY <1>1 DEF RInv, Undecided
  <2> QED BY <1>1, <1>2, <1>5, <2>1, CallStays DEF Decided
<1>8. AcceptedArgsConvert'
  BY <1>2 DEF AcceptedArgsConvert
<1> QED BY <1>1, <1>3, <1>4, <1>6, <1>7, <1>8 DEF RInv

\* Every argument of a call that is about to be converted is accepted by its parameter.
LEMMA AboutToConvert ==
  ASSUME RInv, phase = "converting", NEW b \in verdict.banners, NEW i \in DOMAIN Args
  PROVE  /\ Convert(Args[i], b.types[i]) \in {"ok", "error"}
         /\ Convert(Args[i], b.types[i]) = "error" => Len(Args[i].refs) >= 2
<1>1. PICK s \in successes : b = s.banner
  BY SurvivorsAreBanners DEF RInv, IInv, Unbeaten, Banners
<1>2. PICK t \in tried : Matching(t) /\ s = [candidate |-> t, banner |-> Banner(t.of)]
  BY DEF RInv, SuccessesMatch
<1>3. b.types = ParamTypes(t.of) /\ Compares(t.of) /\ ParamsMatch(ParamTypes(t.of))
  BY <1>1, <1>2 DEF Matching, Banner
<1>4. t.of \in Callee /\ call \in Calls
  BY CallsAreTyped DEF RInv, IInv, TypeOK
<1>5. /\ i \in DOMAIN ParamTypes(t.of) /\ Args[i] \in Argument
      /\ \/ IsNever(Args[i])
         \/ ParamTypes(t.of)[i] = Args[i]
         \/ ParamTypes(t.of)[i] \in BorrowType
  BY <1>3, <1>4, ParametersOfArguments DEF ParamsMatch
<1>6. Convertible(Args[i], ParamTypes(t.of)[i])
  BY <1>3, <1>5 DEF ParamsMatch, Fits, RInv, ToConvert
<1> QED BY <1>3, <1>5, <1>6, ArgumentConverts

\* Converting the arguments keeps the banner that was chosen.
LEMMA ConvertRefers == ASSUME RInv, ConvertArguments PROVE RInv'
<1>1. /\ UNCHANGED <<call, toSearch, found, tried, successes>>
      /\ phase = "converting" /\ phase' = "done"
      /\ verdict'.kind \in {"called", "misfit", "panic"} /\ verdict'.banners = verdict.banners
  BY DEF ConvertArguments, Give, Verdict
<1>2. verdict.banners # {} /\ verdict.kind = "chosen"
  BY <1>1 DEF RInv, ToConvert
<1>3. IInv'
  BY <1>1, VerdictKeeps DEF RInv, IInv, Unbeaten
<1>4. FoundSoFar' /\ SuccessesMatch'
  BY <1>1, CallStays DEF RInv, FoundSoFar, SuccessesMatch
<1>5. Banners' = Banners /\ Survivors(Banners)' = Survivors(Banners)
  BY <1>1 DEF Banners, Survivors, IsExact, Args
<1>6. Undecided' /\ ToConvert'
  BY <1>1 DEF Undecided, ToConvert
<1>7. Decided'
  <2>1. verdict # Verdict("panic", {})
    BY <1>2 DEF Verdict
  <2>2. /\ \A t \in found : ~ Baffling(t)
        /\ tried = found /\ IsReference(verdict, Banners, Survivors(Banners))
    BY <1>1, <2>1 DEF RInv, Decided
  <2>3. IsChosen(verdict.banners, Survivors(Banners))
    BY <1>2, <2>2, ChosenIsReference
  <2>4. IsReference(verdict', Banners, Survivors(Banners))
    BY <1>1, <1>2, <2>3, ChosenIsReference
  <2> QED BY <1>1, <1>5, <2>2, <2>4, CallStays DEF Decided
<1>8. AcceptedArgsConvert'
  <2>1. PICK b \in verdict.banners :
          \/ verdict' = Verdict("called", verdict.banners)
          \/ \E i \in DOMAIN Args : \E outcome \in ArgumentOutcomes(b, i) \ {"ok"} :
               verdict' = Verdict(IF outcome = "error" THEN "misfit" ELSE "panic", verdict.banners)
    BY DEF ConvertArguments, Give
  <2>2. CASE verdict' = Verdict("called", verdict.banners)
    BY <2>2 DEF AcceptedArgsConvert, Verdict
  <2>3. CASE \E i \in DOMAIN Args : \E outcome \in ArgumentOutcomes(b, i) \ {"ok"} :
               verdict' = Verdict(IF outcome = "error" THEN "misfit" ELSE "panic", verdict.banners)
    <3>0. PICK i \in DOMAIN Args : \E outcome \in ArgumentOutcomes(b, i) \ {"ok"} :
            verdict' = Verdict(IF outcome = "error" THEN "misfit" ELSE "panic", verdict.banners)
      BY <2>3
    <3>1. PICK outcome \in ArgumentOutcomes(b, i) \ {"ok"} :
            verdict' = Verdict(IF outcome = "error" THEN "misfit" ELSE "panic", verdict.banners)
      BY <3>0
    <3>2. /\ Convert(Args[i], b.types[i]) \in {"ok", "error"}
          /\ Convert(Args[i], b.types[i]) = "error" => Len(Args[i].refs) >= 2
      BY <1>1, AboutToConvert
    <3>3. outcome = "error" /\ Convert(Args[i], b.types[i]) = "error"
      BY <3>1, <3>2 DEF ArgumentOutcomes
    <3>4. verdict'.kind = "misfit" /\ Args' = Args
      BY <1>1, <3>1, <3>3 DEF Verdict, Args
    <3> QED BY <3>2, <3>3, <3>4 DEF AcceptedArgsConvert
  <2> QED BY <2>1, <2>2, <2>3
<1> QED BY <1>1, <1>3, <1>4, <1>6, <1>7, <1>8 DEF RInv

\* Every step keeps the invariant.
LEMMA NextReference == RInv /\ [Next]_vars => RInv'
<1> SUFFICES ASSUME RInv, [Next]_vars PROVE RInv'
  OBVIOUS
<1>1. CASE Next
  BY <1>1, SearchRefers, AttemptRefers, NarrowRefers, ConvertRefers DEF Next
<1>2. CASE UNCHANGED vars
  <2>1. UNCHANGED <<call, toSearch, found, tried, successes, phase, verdict>>
    BY <1>2 DEF vars
  <2>2. IInv'
    BY <1>2, NextInvariant DEF RInv
  <2>3. Banners' = Banners /\ Survivors(Banners)' = Survivors(Banners)
    BY <2>1 DEF Banners, Survivors, IsExact, Args
  <2>4. FoundSoFar' /\ SuccessesMatch'
    BY <2>1, CallStays DEF RInv, FoundSoFar, SuccessesMatch
  <2>5. Undecided' /\ ToConvert'
    BY <2>1, CallStays DEF RInv, Undecided, ToConvert
  <2>6. Decided'
    BY <2>1, <2>3, CallStays DEF RInv, Decided
  <2>7. AcceptedArgsConvert'
    BY <2>1 DEF RInv, AcceptedArgsConvert, Args
  <2> QED BY <2>1, <2>2, <2>4, <2>5, <2>6, <2>7 DEF RInv
<1> QED BY <1>1, <1>2

\* Whatever order the environments are searched and the candidates tried in, and however
\* often a function is found, find_function gives the verdict that the functions visible
\* to the call ask for: none, the one that is as exact as every other at every argument,
\* an ambiguity of several, or a bound for want of a function.
THEOREM VerdictsAreReference == Spec => []VerdictIsReference
<1>1. Spec => []RInv
  BY InitReference, NextReference, PTL DEF Spec
<1> QED BY <1>1, RInvIsReference, PTL

\* convert_exprs never panics on the arguments of the function find_function chose, and
\* refuses one only behind two references.
THEOREM AcceptedArgumentsConvert == Spec => []AcceptedArgsConvert
<1>1. RInv => AcceptedArgsConvert
  BY DEF RInv
<1> QED BY <1>1, InitReference, NextReference, PTL DEF Spec
=============================================================================
