------------------------ MODULE VariableScoutProofs -------------------------
(***************************************************************************)
(* FlagsAreExact, LambdasAreExact and NamesAgree of VariableScout, for     *)
(* every set of names and members, every set of bounds and every program   *)
(* that keeps to one of them.  Of the constants only SelfIsAName is        *)
(* assumed, that constructors' and methods' self is a name like others.    *)
(*                                                                         *)
(* The inductive invariant Good sees of the frames around the point that   *)
(* is reached, for each, only which function it is in, whether it is the   *)
(* outermost of it, which locals it has and which uses wait in it, of the  *)
(* function's own code and of the lambdas in it.  It says:                 *)
(*   - the open functions are the innermost one and those that it is in;   *)
(*   - no two locals of one function that are in scope have a name;        *)
(*   - what waits in a frame is a use of a local in scope that no function *)
(*     in between hides, or of an underscore of the same function;         *)
(*   - what waits was used, what was used waits or is flagged, and what is *)
(*     flagged was used;                                                   *)
(*   - every use was typed as the local that it is of, or as a capture;    *)
(*   - what is known of the lambdas that ended is exact.                   *)
(* The second is what makes the two lookups agree, and it holds because    *)
(* the typing pass panics on a second local of a name; the third is what   *)
(* lets a lambda capture by name.  Scouted says it of the frames as the    *)
(* model has them, where the uses of an if are those of its condition and  *)
(* of the arms so far, and Shape says which blocks and ifs are around      *)
(* which.                                                                  *)
(*                                                                         *)
(* First come the five ways in which the frames change (declarations and   *)
(* uses, a frame more, a frame less, a function more, a function less),    *)
(* then what the operators of the model do in those terms, then the        *)
(* actions.                                                                *)
(***************************************************************************)
EXTENDS VariableScout, SequenceTheorems, WellFoundedInduction, TLAPS

-----------------------------------------------------------------------------
(* Functions and the lambdas in them                                       *)

\* Every function is created by an earlier one, the first by none.
Tree(cr) == cr \in Seq(Nat) /\ \A i \in DOMAIN cr : cr[i] < i

Closed(cr, in) == \A i \in DOMAIN cr : cr[i] \in in => i \in in

\* Function k and the lambdas in it.
In(cr, k) ==
  { j \in DOMAIN cr : \A in \in SUBSET DOMAIN cr : k \in in /\ Closed(cr, in) => j \in in }

\* A set that has k and the lambdas of what it has has them all.
LEMMA InLeast ==
  ASSUME NEW cr, NEW k, NEW in \in SUBSET DOMAIN cr, k \in in, Closed(cr, in)
  PROVE  In(cr, k) \subseteq in
  BY DEF In

\* It has function k and the lambdas of what it has, and nothing but functions.
LEMMA InClosed ==
  ASSUME NEW cr, NEW k \in DOMAIN cr
  PROVE  k \in In(cr, k) /\ Closed(cr, In(cr, k)) /\ In(cr, k) \subseteq DOMAIN cr
  <1>1. \A i \in DOMAIN cr : cr[i] \in In(cr, k) => i \in In(cr, k)
    <2> SUFFICES ASSUME NEW i \in DOMAIN cr, cr[i] \in In(cr, k),
                        NEW in \in SUBSET DOMAIN cr, k \in in, Closed(cr, in)
                 PROVE  i \in in
      BY DEF In
    <2>1. cr[i] \in in
      BY DEF In
    <2>2. QED  BY <2>1 DEF Closed
  <1>2. QED  BY <1>1 DEF In, Closed

\* Whatever is in k but k itself was created in k.
LEMMA InCreator ==
  ASSUME NEW cr, NEW k \in DOMAIN cr, NEW i \in In(cr, k), i # k
  PROVE  cr[i] \in In(cr, k)
  <1> DEFINE in == { j \in In(cr, k) : j = k \/ cr[j] \in In(cr, k) }
  <1>1. k \in in /\ in \in SUBSET DOMAIN cr
    BY InClosed
  <1>2. Closed(cr, in)
    <2> SUFFICES ASSUME NEW j \in DOMAIN cr, cr[j] \in in  PROVE j \in in
      BY DEF Closed
    <2>1. cr[j] \in In(cr, k)
      OBVIOUS
    <2>2. j \in In(cr, k)
      BY <2>1, InClosed DEF Closed
    <2>3. QED  BY <2>1, <2>2
  <1> HIDE DEF in
  <1>3. i \in in
    BY <1>1, <1>2, InLeast
  <1>4. QED  BY <1>3 DEF in

\* What is in a function in k is in k.
LEMMA InTransitive ==
  ASSUME NEW cr, NEW k \in DOMAIN cr, NEW i \in In(cr, k)
  PROVE  In(cr, i) \subseteq In(cr, k)
  BY InClosed, InLeast

\* Lambdas come after the function that they are in.
LEMMA InLater ==
  ASSUME NEW cr, Tree(cr), NEW k \in DOMAIN cr, NEW i \in In(cr, k)
  PROVE  i \in Nat /\ k <= i
  <1> DEFINE in == { j \in DOMAIN cr : k <= j }
  <1>1. DOMAIN cr = 1..Len(cr) /\ Len(cr) \in Nat /\ \A j \in DOMAIN cr : cr[j] \in Nat /\ cr[j] < j
    BY DEF Tree
  <1>2. k \in in /\ in \in SUBSET DOMAIN cr
    BY <1>1
  <1>3. Closed(cr, in)
    <2> SUFFICES ASSUME NEW j \in DOMAIN cr, cr[j] \in in  PROVE j \in in
      BY DEF Closed
    <2>1. k <= cr[j] /\ cr[j] < j /\ j \in Nat /\ cr[j] \in Nat /\ k \in Nat
      BY <1>1
    <2>2. QED  BY <2>1
  <1> HIDE DEF in
  <1>4. i \in in
    BY <1>2, <1>3, InLeast
  <1>5. QED  BY <1>1, <1>4 DEF in

\* A new lambda of function c is in what c is in, and nothing else changes.
LEMMA InExtended ==
  ASSUME NEW cr, Tree(cr), NEW c \in DOMAIN cr
  PROVE  LET cr2 == Append(cr, c)
             g == Len(cr) + 1
         IN /\ Tree(cr2) /\ DOMAIN cr2 = DOMAIN cr \cup {g} /\ g \notin DOMAIN cr
            /\ \A k \in DOMAIN cr : In(cr2, k) = In(cr, k) \cup (IF c \in In(cr, k) THEN {g} ELSE {})
            /\ In(cr2, g) = {g}
  <1> DEFINE cr2 == Append(cr, c)
             g == Len(cr) + 1
  <1>1. /\ DOMAIN cr = 1..Len(cr) /\ Len(cr) \in Nat /\ cr \in Seq(Nat)
        /\ \A j \in DOMAIN cr : cr[j] \in Nat /\ cr[j] < j
    BY DEF Tree
  <1>2. c \in Nat /\ c < g
    BY <1>1
  <1>3. cr2 \in Seq(Nat) /\ DOMAIN cr2 = 1..g /\ cr2[g] = c /\ \A j \in DOMAIN cr : cr2[j] = cr[j]
    BY <1>1, <1>2
  <1>4. DOMAIN cr2 = DOMAIN cr \cup {g} /\ g \notin DOMAIN cr
    BY <1>1, <1>3
  <1> HIDE DEF cr2, g
  <1>5. Tree(cr2)
    BY <1>1, <1>2, <1>3, <1>4 DEF Tree
  <1>6. ASSUME NEW k \in DOMAIN cr
        PROVE  In(cr2, k) = In(cr, k) \cup (IF c \in In(cr, k) THEN {g} ELSE {})
    <2> DEFINE new == In(cr, k) \cup (IF c \in In(cr, k) THEN {g} ELSE {})
    <2>1. k \in In(cr, k) /\ Closed(cr, In(cr, k)) /\ In(cr, k) \subseteq DOMAIN cr
      BY InClosed
    <2>2. k \in In(cr2, k) /\ Closed(cr2, In(cr2, k)) /\ In(cr2, k) \subseteq DOMAIN cr2
      BY InClosed, <1>4
    <2>3. k \in new /\ new \in SUBSET DOMAIN cr2
      BY <2>1, <1>4
    <2>4. Closed(cr2, new)
      <3> SUFFICES ASSUME NEW j \in DOMAIN cr2, cr2[j] \in new  PROVE j \in new
        BY DEF Closed
      <3>1. CASE j = g
        <4>1. c \in In(cr, k)
          BY <3>1, <1>3, <1>4
        <4>2. QED  BY <3>1, <4>1
      <3>2. CASE j \in DOMAIN cr
        <4>1. cr[j] \in Nat /\ cr[j] < j /\ j <= Len(cr) /\ j \in Nat
          BY <3>2, <1>1
        <4>2. cr[j] # g
          BY <4>1, <1>1 DEF g
        <4>3. cr[j] \in In(cr, k)
          BY <3>2, <4>2, <1>3
        <4>4. QED  BY <3>2, <4>3, <2>1 DEF Closed
      <3>3. QED  BY <3>1, <3>2, <1>4
    <2>5. In(cr2, k) \subseteq new
      <3> HIDE DEF new
      <3>1. QED  BY <2>3, <2>4, InLeast
    <2>6. In(cr, k) \subseteq In(cr2, k)
      <3> DEFINE in == In(cr2, k) \cap DOMAIN cr
      <3>1. k \in in /\ in \in SUBSET DOMAIN cr
        BY <2>2
      <3>2. Closed(cr, in)
        <4> SUFFICES ASSUME NEW j \in DOMAIN cr, cr[j] \in in  PROVE j \in in
          BY DEF Closed
        <4>1. j \in DOMAIN cr2 /\ cr2[j] = cr[j]
          BY <1>3, <1>4
        <4>2. QED  BY <4>1, <2>2 DEF Closed
      <3> HIDE DEF in
      <3>3. In(cr, k) \subseteq in
        BY <3>1, <3>2, InLeast
      <3>4. QED  BY <3>3 DEF in
    <2>7. ASSUME c \in In(cr, k)  PROVE g \in In(cr2, k)
      <3>1. g \in DOMAIN cr2 /\ cr2[g] \in In(cr2, k)
        BY <2>7, <2>6, <1>3, <1>4
      <3>2. QED  BY <3>1, <2>2 DEF Closed
    <2>8. QED  BY <2>5, <2>6, <2>7
  <1>7. In(cr2, g) = {g}
    <2>1. g \in DOMAIN cr2
      BY <1>4
    <2>2. \A i \in In(cr2, g) : i \in Nat /\ g <= i /\ i \in DOMAIN cr2
      BY <2>1, <1>5, InLater, InClosed
    <2>3. \A i \in In(cr2, g) : i = g
      <3>1. g \in Nat
        BY <1>1 DEF g
      <3>2. QED  BY <3>1, <2>2, <1>3
    <2>4. QED  BY <2>1, <2>3, InClosed
  <1>8. QED  BY <1>4, <1>5, <1>6, <1>7 DEF cr2, g

-----------------------------------------------------------------------------
(* The invariant, by what it takes of the n frames: the function F[i] that *)
(* frame i is in, the frames H that are the outermost of a function, the   *)
(* locals L[i] and the pending uses S[i] and C[i] of the function's own    *)
(* code and of its lambdas; cr says which function created which.          *)

\* The open functions are the innermost one and those that it is in.
Chain(cr, n, F, H) ==
  /\ Tree(cr)
  /\ n \in Nat /\ n > 0
  /\ F[1] = 1 /\ 1 \in H
  /\ \A i \in 1..n : F[i] \in DOMAIN cr
  /\ \A i \in 2..n : IF i \in H THEN cr[F[i]] = F[i - 1] ELSE F[i] = F[i - 1]
  /\ \A i, j \in 1..n : i <= j => F[i] <= F[j] /\ F[j] \in In(cr, F[i])
  /\ \A i, j \in 1..n : i < j /\ j \in H => F[i] < F[j]
  /\ \A j \in 1..n, k \in DOMAIN cr : F[j] \in In(cr, k) => \E i \in 1..n : F[i] = k

\* What both lookups would take for one another.
SameVar(ds, l, m) ==
  ds[l].name = ds[m].name /\ ds[l].sort = ds[m].sort /\ ds[l].sort \in {"var", "member"}

\* No function has two locals of a name in scope; a pending use is of a local in scope, that
\* no function in between hides, or of an underscore of the function's own.
LocalsScoped(ds, cr, n, F, L) ==
  /\ \A l \in DOMAIN ds : ds[l].fn \in DOMAIN cr
  /\ \A i \in 1..n : \A l \in L[i] : l \in DOMAIN ds /\ ds[l].fn = F[i] /\ ds[l].sort # "magic"
  /\ \A i, j \in 1..n : i # j => L[i] \cap L[j] = {}
  /\ \A i, j \in 1..n : F[i] = F[j] => \A l \in L[i], m \in L[j] : SameVar(ds, l, m) => l = m

UsesScoped(ds, n, F, L, S, C) ==
  /\ \A j \in 1..n : \A x \in S[j] \cup C[j] :
        \/ \E i \in 1..j : x[1] \in L[i]
        \/ x[1] \in DOMAIN ds /\ ds[x[1]].sort = "magic" /\ ds[x[1]].fn = F[j] /\ x \notin C[j]
  /\ \A j \in 1..n : \A x \in S[j] \cup C[j] : \A i, k \in 1..n :
        x[1] \in L[i] /\ i < k /\ F[k] < F[j] => \A m \in L[k] : ~SameVar(ds, x[1], m)

Flag(ds, u) == [local |-> u.local, child |-> u.fn # ds[u.local].fn, how |-> u.how]

\* Use u waits in frame j, of the innermost open function that it is in.
Pends(cr, n, F, S, C, u, j) ==
  /\ \/ u.fn = F[j] /\ <<u.local, u.how>> \in S[j]
     \/ u.fn # F[j] /\ u.fn \in In(cr, F[j]) /\ <<u.local, u.how>> \in C[j]
  /\ \A i \in 1..n : u.fn \in In(cr, F[i]) => F[i] <= F[j]

IsFlagged(ds, cr, n, F, fl, u) ==
  /\ Flag(ds, u) \in fl
  /\ \A i \in 1..n : u.fn \in In(cr, F[i]) => ds[u.local].fn \in In(cr, F[i])

\* What waits was used; what was used waits or is flagged; what is flagged was used.
PendingBooked(cr, n, F, S, C, us) ==
  /\ \A j \in 1..n : \A x \in S[j] : \E u \in us : u.fn = F[j] /\ x = <<u.local, u.how>>
  /\ \A j \in 1..n : \A x \in C[j] :
       \E u \in us : u.fn \in In(cr, F[j]) /\ u.fn # F[j] /\ x = <<u.local, u.how>>

AllBooked(ds, cr, n, F, S, C, us, fl) ==
  \A u \in us : \/ \E j \in 1..n : Pends(cr, n, F, S, C, u, j)
                \/ IsFlagged(ds, cr, n, F, fl, u)

FlagsBooked(ds, us, fl) == \A f \in fl : \E u \in us : f = Flag(ds, u)

UsesOK(ds, cr, us) ==
  \A u \in us : /\ u.local \in DOMAIN ds /\ u.fn \in DOMAIN cr
                /\ u.typed = IF ds[u.local].fn = u.fn THEN u.local ELSE Outside

\* An underscore of an open function waits in it.
MagicPends(ds, n, F, S) ==
  \A l \in DOMAIN ds, i \in 1..n : ds[l].sort = "magic" /\ F[i] = ds[l].fn =>
    \E j \in 1..n : F[j] = F[i] /\ \E x \in S[j] : x[1] = l

IsExact(f, ds, cr, k, us) ==
  /\ f.captured =
       { u.local : u \in { v \in us : v.fn \in In(cr, k) /\ ds[v.local].fn \notin In(cr, k) } }
  /\ \A l, m \in f.captured : ds[l].name = ds[m].name => l = m
  /\ f.magic = { l \in DOMAIN ds : ds[l].sort = "magic" /\ ds[l].fn = k }

LambdasExact(gs, ds, cr, n, F, us) ==
  \A k \in DOMAIN gs : (\A i \in 1..n : F[i] # k) => IsExact(gs[k], ds, cr, k, us)

GivenAgree(gs, ds) ==
  \A k \in DOMAIN gs : \A g \in gs[k].given :
    /\ g.local \in DOMAIN ds
    /\ g.typed = IF ds[g.local].fn = gs[k].creator THEN g.local ELSE Outside

Good(ds, gs, cr, n, F, H, L, S, C, us, fl) ==
  /\ Chain(cr, n, F, H)
  /\ LocalsScoped(ds, cr, n, F, L)
  /\ UsesScoped(ds, n, F, L, S, C)
  /\ PendingBooked(cr, n, F, S, C, us)
  /\ AllBooked(ds, cr, n, F, S, C, us, fl)
  /\ FlagsBooked(ds, us, fl)
  /\ UsesOK(ds, cr, us)
  /\ MagicPends(ds, n, F, S)
  /\ LambdasExact(gs, ds, cr, n, F, us)
  /\ GivenAgree(gs, ds)

-----------------------------------------------------------------------------
(* Declarations and uses in the innermost function                         *)

\* New declarations, of which A come into scope in frame h, and new uses as marked.
Extends(ds, n, F, L, S, us, ds2, h, A, L2, marked, S2, us2) ==
  /\ h \in 1..n /\ F[h] = F[n]
  /\ DOMAIN ds \subseteq DOMAIN ds2 /\ \A l \in DOMAIN ds : ds2[l] = ds[l]
  /\ \A l \in DOMAIN ds2 \ DOMAIN ds :
       /\ ds2[l].fn = F[n]
       /\ ds2[l].sort = "magic" => \E x \in marked : x[1] = l
  /\ \A l \in A : /\ l \in DOMAIN ds2 /\ ds2[l].fn = F[n] /\ ds2[l].sort # "magic"
                  /\ \A i \in 1..n : l \notin L[i]
                  /\ \A i \in 1..n : F[i] = F[n] => \A m \in L[i] \cup A : SameVar(ds2, l, m) => l = m
  /\ \A i \in 1..n : L2[i] = IF i = h THEN L[i] \cup A ELSE L[i]
  /\ \A i \in 1..n : S2[i] = IF i = n THEN S[i] \cup marked ELSE S[i]
  /\ \A x \in marked :
       /\ \/ \E i \in 1..n : /\ x[1] \in L2[i]
                             /\ \A k \in i + 1..n : \A m \in L2[k] : ~SameVar(ds2, x[1], m)
          \/ x[1] \in DOMAIN ds2 /\ ds2[x[1]].sort = "magic" /\ ds2[x[1]].fn = F[n]
       /\ \E u \in us2 : u.fn = F[n] /\ x = <<u.local, u.how>>
  /\ us \subseteq us2
  /\ \A u \in us2 \ us :
       /\ u.fn = F[n] /\ <<u.local, u.how>> \in marked /\ u.local \in DOMAIN ds2
       /\ u.typed = IF ds2[u.local].fn = F[n] THEN u.local ELSE Outside

\* The order of the two does not matter.
LEMMA SameVarSymmetric ==
  ASSUME NEW ds, NEW l, NEW m
  PROVE  SameVar(ds, l, m) <=> SameVar(ds, m, l)
  BY DEF SameVar

\* Declarations and uses that Extends allows keep the invariant.
LEMMA GoodExtends ==
  ASSUME NEW ds, NEW gs, NEW cr, NEW n, NEW F, NEW H, NEW L, NEW S, NEW C, NEW us, NEW fl,
         Good(ds, gs, cr, n, F, H, L, S, C, us, fl), DOMAIN gs = DOMAIN cr,
         NEW ds2, NEW h, NEW A, NEW L2, NEW marked, NEW S2, NEW us2,
         Extends(ds, n, F, L, S, us, ds2, h, A, L2, marked, S2, us2)
  PROVE  Good(ds2, gs, cr, n, F, H, L2, S2, C, us2, fl)
  <1>c. Chain(cr, n, F, H)
    BY DEF Good
  <1>n. n \in Nat /\ n > 0 /\ n \in 1..n /\ h \in 1..n /\ F[h] = F[n]
    BY <1>c DEF Chain, Extends
  <1>f. /\ \A i \in 1..n : F[i] \in Nat /\ F[i] \in DOMAIN cr /\ F[n] \in In(cr, F[i]) /\ F[i] <= F[n]
        /\ \A i, j \in 1..n : i <= j => F[i] <= F[j]
    <2>1. DOMAIN cr \subseteq Nat
      BY <1>c DEF Chain, Tree
    <2>2. QED  BY <2>1, <1>c, <1>n DEF Chain
  <1>d. DOMAIN ds \subseteq DOMAIN ds2 /\ \A l \in DOMAIN ds : ds2[l] = ds[l]
    BY DEF Extends
  <1>v. \A l, m \in DOMAIN ds : SameVar(ds2, l, m) <=> SameVar(ds, l, m)
    BY <1>d DEF SameVar
  <1>a. \A l \in A : /\ l \in DOMAIN ds2 /\ ds2[l].fn = F[n] /\ ds2[l].sort # "magic"
                     /\ \A i \in 1..n : l \notin L[i]
                     /\ \A i \in 1..n : F[i] = F[n] => \A m \in L[i] \cup A : SameVar(ds2, l, m) => l = m
    BY DEF Extends
  <1>L. \A i \in 1..n : L2[i] = IF i = h THEN L[i] \cup A ELSE L[i]
    BY DEF Extends
  <1>S. \A i \in 1..n : S2[i] = IF i = n THEN S[i] \cup marked ELSE S[i]
    BY DEF Extends
  <1>l. LocalsScoped(ds, cr, n, F, L)
    BY DEF Good
  <1>o. \A i \in 1..n : \A l \in L[i] : l \in DOMAIN ds /\ ds[l].fn = F[i] /\ ds[l].sort # "magic"
    BY <1>l DEF LocalsScoped
  <1>1. LocalsScoped(ds2, cr, n, F, L2)
    <2>1. ASSUME NEW l \in DOMAIN ds2  PROVE ds2[l].fn \in DOMAIN cr
      BY <1>l, <1>d, <1>f, <1>n DEF Extends, LocalsScoped
    <2>2. \A i \in 1..n : \A l \in L2[i] : l \in DOMAIN ds2 /\ ds2[l].fn = F[i] /\ ds2[l].sort # "magic"
      <3>1. ASSUME NEW i \in 1..n, NEW l \in L[i]
            PROVE  l \in DOMAIN ds2 /\ ds2[l].fn = F[i] /\ ds2[l].sort # "magic"
        BY <1>o, <1>d
      <3>2. ASSUME NEW l \in A
            PROVE  l \in DOMAIN ds2 /\ ds2[l].fn = F[h] /\ ds2[l].sort # "magic"
        BY <1>a, <1>n
      <3> SUFFICES ASSUME NEW i \in 1..n, NEW l \in L2[i]
                   PROVE  l \in DOMAIN ds2 /\ ds2[l].fn = F[i] /\ ds2[l].sort # "magic"
        OBVIOUS
      <3>3. CASE i = h
        <4>1. L2[i] = L[i] \cup A
          BY <1>L, <3>3
        <4>2. CASE l \in L[i]
          BY <3>1, <4>2
        <4>3. CASE l \in A
          BY <3>2, <3>3, <4>3
        <4>4. QED  BY <4>1, <4>2, <4>3
      <3>4. CASE i # h
        <4>1. L2[i] = L[i]
          BY <1>L, <3>4
        <4>2. QED  BY <3>1, <4>1
      <3>5. QED  BY <3>3, <3>4
    <2>3. \A i, j \in 1..n : i # j => L2[i] \cap L2[j] = {}
      <3>1. \A i, j \in 1..n : i # j => L[i] \cap L[j] = {}
        BY <1>l DEF LocalsScoped
      <3>2. QED  BY <3>1, <1>a, <1>L
    <2>4. ASSUME NEW i \in 1..n, NEW j \in 1..n, F[i] = F[j], NEW l \in L2[i], NEW m \in L2[j],
                 SameVar(ds2, l, m)
          PROVE  l = m
      <3>1. CASE l \in A
        <4>1. F[j] = F[n] /\ m \in L[j] \cup A
          BY <2>4, <3>1, <2>2, <1>a, <1>L
        <4>2. QED  BY <4>1, <3>1, <1>a, <2>4
      <3>2. CASE m \in A
        <4>1. F[i] = F[n] /\ l \in L[i] \cup A /\ SameVar(ds2, m, l)
          BY <2>4, <3>2, <2>2, <1>a, <1>L, SameVarSymmetric
        <4>2. QED  BY <4>1, <3>2, <1>a, <2>4
      <3>3. CASE l \notin A /\ m \notin A
        <4>1. l \in L[i] /\ m \in L[j]
          BY <3>3, <1>L
        <4>2. SameVar(ds, l, m)
          BY <4>1, <1>o, <1>v, <2>4
        <4>3. QED  BY <4>1, <4>2, <2>4, <1>l DEF LocalsScoped
      <3>4. QED  BY <3>1, <3>2, <3>3
    <2>5. QED  BY <2>1, <2>2, <2>3, <2>4 DEF LocalsScoped
  <1>u. UsesScoped(ds, n, F, L, S, C)
    BY DEF Good
  <1>m. \A x \in marked :
          \/ \E i \in 1..n : /\ x[1] \in L2[i]
                             /\ \A k \in i + 1..n : \A m \in L2[k] : ~SameVar(ds2, x[1], m)
          \/ x[1] \in DOMAIN ds2 /\ ds2[x[1]].sort = "magic" /\ ds2[x[1]].fn = F[n]
    BY DEF Extends
  <1>2. UsesScoped(ds2, n, F, L2, S2, C)
    <2>1. ASSUME NEW j \in 1..n, NEW x \in S2[j] \cup C[j]
          PROVE  \/ \E i \in 1..j : x[1] \in L2[i]
                 \/ /\ x[1] \in DOMAIN ds2 /\ ds2[x[1]].sort = "magic" /\ ds2[x[1]].fn = F[j]
                    /\ x \notin C[j]
      <3>1. CASE x \in S[j] \cup C[j]
        <4>1. CASE \E i \in 1..j : x[1] \in L[i]
          <5>1. 1..j \subseteq 1..n
            BY <1>n
          <5>2. QED  BY <4>1, <5>1, <1>L
        <4>2. CASE /\ x[1] \in DOMAIN ds /\ ds[x[1]].sort = "magic" /\ ds[x[1]].fn = F[j]
                   /\ x \notin C[j]
          BY <4>2, <1>d
        <4>3. QED  BY <4>1, <4>2, <3>1, <1>u DEF UsesScoped
      <3>2. CASE j = n /\ x \in marked /\ x \notin C[j]
        BY <3>2, <1>m
      <3>3. QED  BY <3>1, <3>2, <1>S
    <2>2. ASSUME NEW j \in 1..n, NEW x \in S2[j] \cup C[j], NEW i \in 1..n, NEW k \in 1..n,
                 x[1] \in L2[i], i < k, F[k] < F[j], NEW m \in L2[k], SameVar(ds2, x[1], m)
          PROVE  FALSE
      <3>1. F[k] < F[n] /\ F[i] < F[n]
        BY <2>2, <1>f, <1>n
      <3>0. F[k] # F[h] /\ F[i] # F[h]
        BY <3>1, <1>n, <1>f
      <3>2. x[1] \in L[i] /\ m \in L[k]
        BY <3>0, <2>2, <1>L
      <3>3. SameVar(ds, x[1], m)
        BY <3>2, <2>2, <1>o, <1>v
      <3>4. CASE x \in S[j] \cup C[j]
        BY <3>4, <3>2, <3>3, <2>2, <1>u DEF UsesScoped
      <3>5. CASE j = n /\ x \in marked
        <4>1. x[1] \in DOMAIN ds2 /\ ds2[x[1]].fn = F[i] /\ F[i] # F[n] /\ ds2[x[1]].sort # "magic"
          BY <3>2, <3>1, <1>o, <1>d, <1>f, <1>n
        <4>2. PICK q \in 1..n : /\ x[1] \in L2[q]
                                /\ \A p \in q + 1..n : \A v \in L2[p] : ~SameVar(ds2, x[1], v)
          BY <3>5, <4>1, <1>m
        <4>3. q = i
          <5>1. L2[i] \cap L2[q] # {}
            BY <4>2, <2>2
          <5>2. QED  BY <5>1, <1>1 DEF LocalsScoped
        <4>4. k \in q + 1..n
          BY <4>3, <2>2
        <4>5. QED  BY <4>2, <4>4, <2>2
      <3>6. QED  BY <3>4, <3>5, <1>S
    <2>3. QED  BY <2>1, <2>2 DEF UsesScoped
  <1>e. us \subseteq us2 /\ \A u \in us2 \ us : u.fn = F[n] /\ <<u.local, u.how>> \in marked
    BY DEF Extends
  <1>b. PendingBooked(cr, n, F, S, C, us) /\ AllBooked(ds, cr, n, F, S, C, us, fl)
        /\ FlagsBooked(ds, us, fl) /\ UsesOK(ds, cr, us)
    BY DEF Good
  <1>3. PendingBooked(cr, n, F, S2, C, us2)
    <2>1. ASSUME NEW j \in 1..n, NEW x \in S2[j]
          PROVE  \E u \in us2 : u.fn = F[j] /\ x = <<u.local, u.how>>
      <3>1. CASE x \in S[j]
        BY <3>1, <1>b, <1>e DEF PendingBooked
      <3>2. CASE j = n /\ x \in marked
        BY <3>2 DEF Extends
      <3>3. QED  BY <3>1, <3>2, <1>S
    <2>2. QED  BY <2>1, <1>b, <1>e DEF PendingBooked
  <1>g. \A u \in us : u.local \in DOMAIN ds /\ Flag(ds2, u) = Flag(ds, u)
    BY <1>b, <1>d DEF UsesOK, Flag
  <1>4. AllBooked(ds2, cr, n, F, S2, C, us2, fl)
    <2> SUFFICES ASSUME NEW u \in us2
                 PROVE  \/ \E j \in 1..n : Pends(cr, n, F, S2, C, u, j)
                        \/ IsFlagged(ds2, cr, n, F, fl, u)
      BY DEF AllBooked
    <2>1. CASE u \in us
      <3>1. CASE \E j \in 1..n : Pends(cr, n, F, S, C, u, j)
        <4>1. PICK j \in 1..n : Pends(cr, n, F, S, C, u, j)
          BY <3>1
        <4>2. Pends(cr, n, F, S2, C, u, j)
          BY <4>1, <1>S DEF Pends
        <4>3. QED  BY <4>2
      <3>2. CASE IsFlagged(ds, cr, n, F, fl, u)
        BY <3>2, <2>1, <1>g, <1>d DEF IsFlagged
      <3>3. QED  BY <2>1, <3>1, <3>2, <1>b DEF AllBooked
    <2>2. CASE u \notin us
      <3>1. Pends(cr, n, F, S2, C, u, n)
        BY <2>2, <1>e, <1>S, <1>n, <1>f DEF Pends
      <3>2. QED  BY <3>1, <1>n
    <2>3. QED  BY <2>1, <2>2
  <1>5. FlagsBooked(ds2, us2, fl)
    BY <1>b, <1>g, <1>e DEF FlagsBooked
  <1>6. UsesOK(ds2, cr, us2)
    <2> SUFFICES ASSUME NEW u \in us2
                 PROVE  /\ u.local \in DOMAIN ds2 /\ u.fn \in DOMAIN cr
                        /\ u.typed = IF ds2[u.local].fn = u.fn THEN u.local ELSE Outside
      BY DEF UsesOK
    <2>1. CASE u \in us
      BY <2>1, <1>b, <1>d DEF UsesOK
    <2>2. CASE u \notin us
      <3>1. /\ u.fn = F[n] /\ u.local \in DOMAIN ds2
            /\ u.typed = IF ds2[u.local].fn = F[n] THEN u.local ELSE Outside
        BY <2>2 DEF Extends
      <3>2. QED  BY <3>1, <1>f, <1>n
    <2>3. QED  BY <2>1, <2>2
  <1>7. MagicPends(ds2, n, F, S2)
    <2> SUFFICES ASSUME NEW l \in DOMAIN ds2, NEW i \in 1..n,
                        ds2[l].sort = "magic", F[i] = ds2[l].fn
                 PROVE  \E j \in 1..n : F[j] = F[i] /\ \E x \in S2[j] : x[1] = l
      BY DEF MagicPends
    <2>1. CASE l \in DOMAIN ds
      <3>1. PICK j \in 1..n : F[j] = F[i] /\ \E x \in S[j] : x[1] = l
        <4>1. MagicPends(ds, n, F, S)
          BY DEF Good
        <4>2. ds[l].sort = "magic" /\ F[i] = ds[l].fn
          BY <2>1, <1>d
        <4>3. QED  BY <4>1, <4>2, <2>1 DEF MagicPends
      <3>2. QED  BY <3>1, <1>S
    <2>2. CASE l \notin DOMAIN ds
      <3>1. F[i] = F[n] /\ \E x \in marked : x[1] = l
        BY <2>2 DEF Extends
      <3>2. QED  BY <3>1, <1>S, <1>n
    <2>3. QED  BY <2>1, <2>2
  <1>8. LambdasExact(gs, ds2, cr, n, F, us2)
    <2> SUFFICES ASSUME NEW k \in DOMAIN gs, \A i \in 1..n : F[i] # k
                 PROVE  IsExact(gs[k], ds2, cr, k, us2)
      BY DEF LambdasExact
    <2>1. IsExact(gs[k], ds, cr, k, us)
      BY DEF Good, LambdasExact
    <2>2. F[n] \notin In(cr, k)
      BY <1>c, <1>n DEF Chain
    <2>3. { u.local : u \in { v \in us2 : v.fn \in In(cr, k) /\ ds2[v.local].fn \notin In(cr, k) } }
            = { u.local : u \in { v \in us : v.fn \in In(cr, k) /\ ds[v.local].fn \notin In(cr, k) } }
      <3>1. \A v \in us2 : v.fn \in In(cr, k) => v \in us
        BY <2>2, <1>e
      <3>2. \A v \in us : v.local \in DOMAIN ds /\ ds2[v.local] = ds[v.local] /\ v \in us2
        BY <1>g, <1>d, <1>e
      <3>3. QED  BY <3>1, <3>2
    <2>4. gs[k].captured \subseteq DOMAIN ds
      BY <2>1, <1>g DEF IsExact
    <2>5. { l \in DOMAIN ds2 : ds2[l].sort = "magic" /\ ds2[l].fn = k }
            = { l \in DOMAIN ds : ds[l].sort = "magic" /\ ds[l].fn = k }
      <3>1. \A l \in DOMAIN ds2 \ DOMAIN ds : ds2[l].fn # k
        BY <1>n DEF Extends
      <3>2. QED  BY <3>1, <1>d
    <2>6. QED  BY <2>1, <2>3, <2>4, <2>5, <1>d DEF IsExact
  <1>9. GivenAgree(gs, ds2)
    BY <1>d DEF Good, GivenAgree
  <1>10. QED
    BY <1>c, <1>1, <1>2, <1>3, <1>4, <1>5, <1>6, <1>7, <1>8, <1>9 DEF Good

-----------------------------------------------------------------------------
(* A frame more, and a frame less                                          *)

\* A frame in the same function, with no locals and no uses yet.
Pushes(n, F, H, L, S, C, F2, H2, L2, S2, C2) ==
  /\ n + 1 \notin H2 /\ \A i \in 1..n : i \in H2 <=> i \in H
  /\ \A i \in 1..n : F2[i] = F[i] /\ L2[i] = L[i] /\ S2[i] = S[i] /\ C2[i] = C[i]
  /\ F2[n + 1] = F[n] /\ L2[n + 1] = {} /\ S2[n + 1] = {} /\ C2[n + 1] = {}

\* A frame with nothing in it yet keeps the invariant.
LEMMA GoodPushes ==
  ASSUME NEW ds, NEW gs, NEW cr, NEW n, NEW F, NEW H, NEW L, NEW S, NEW C, NEW us, NEW fl,
         Good(ds, gs, cr, n, F, H, L, S, C, us, fl),
         NEW F2, NEW H2, NEW L2, NEW S2, NEW C2,
         Pushes(n, F, H, L, S, C, F2, H2, L2, S2, C2)
  PROVE  Good(ds, gs, cr, n + 1, F2, H2, L2, S2, C2, us, fl)
  <1> DEFINE p == n + 1
  <1>c. Chain(cr, n, F, H)
    BY DEF Good
  <1>n. /\ n \in Nat /\ n > 0 /\ n \in 1..n /\ p \in Nat /\ p > n /\ p > 0
        /\ \A i \in 1..p : i \in 1..n \/ i = p
        /\ \A i \in 1..n : i \in 1..p /\ i # p /\ i < p /\ ~ (p <= i)
        /\ p \in 1..p /\ 1 \in 1..n /\ p - 1 = n
    BY <1>c DEF Chain
  <1> HIDE DEF p
  <1>p. /\ p \notin H2 /\ \A i \in 1..n : i \in H2 <=> i \in H
        /\ \A i \in 1..n : F2[i] = F[i] /\ L2[i] = L[i] /\ S2[i] = S[i] /\ C2[i] = C[i]
        /\ F2[p] = F[n] /\ L2[p] = {} /\ S2[p] = {} /\ C2[p] = {}
    BY DEF Pushes, p
  <1>f. \A i \in 1..n : F[i] \in Nat /\ F[i] \in DOMAIN cr /\ F[n] \in In(cr, F[i]) /\ F[i] <= F[n]
    <2>1. DOMAIN cr \subseteq Nat
      BY <1>c DEF Chain, Tree
    <2>2. QED  BY <2>1, <1>c, <1>n DEF Chain
  <1>1. Chain(cr, p, F2, H2)
    <2>1. \A i \in 1..p : F2[i] \in DOMAIN cr
      BY <1>n, <1>p, <1>f
    <2>2. ASSUME NEW i \in 2..p
          PROVE  IF i \in H2 THEN cr[F2[i]] = F2[i - 1] ELSE F2[i] = F2[i - 1]
      <3>1. CASE i = p
        BY <3>1, <1>n, <1>p
      <3>2. CASE i \in 1..n
        <4>1. i \in 2..n /\ i - 1 \in 1..n
          BY <3>2, <1>n
        <4>2. QED  BY <4>1, <3>2, <1>p, <1>c DEF Chain
      <3>3. i \in 1..p
        BY <1>n
      <3>4. QED  BY <3>1, <3>2, <3>3, <1>n
    <2>3. ASSUME NEW i \in 1..p, NEW j \in 1..p, i <= j
          PROVE  F2[i] <= F2[j] /\ F2[j] \in In(cr, F2[i])
      <3>1. CASE i = p
        BY <3>1, <2>3, <1>n, <1>p, <1>f
      <3>2. CASE i \in 1..n /\ j = p
        BY <3>2, <1>n, <1>p, <1>f
      <3>3. CASE i \in 1..n /\ j \in 1..n
        BY <3>3, <2>3, <1>p, <1>c DEF Chain
      <3>4. QED  BY <3>1, <3>2, <3>3, <1>n
    <2>4. ASSUME NEW i \in 1..p, NEW j \in 1..p, i < j, j \in H2
          PROVE  F2[i] < F2[j]
      <3>1. j \in 1..n /\ i \in 1..n
        BY <2>4, <1>n, <1>p
      <3>2. QED  BY <3>1, <2>4, <1>p, <1>c DEF Chain
    <2>5. ASSUME NEW j \in 1..p, NEW k \in DOMAIN cr, F2[j] \in In(cr, k)
          PROVE  \E i \in 1..p : F2[i] = k
      <3>1. \E q \in 1..n : F2[j] = F[q]
        BY <1>n, <1>p
      <3>2. \E i \in 1..n : F[i] = k
        BY <3>1, <2>5, <1>c DEF Chain
      <3>3. QED  BY <3>2, <1>n, <1>p
    <2>6. F2[1] = 1 /\ 1 \in H2
      BY <1>n, <1>p, <1>c DEF Chain
    <2>7. QED  BY <2>1, <2>2, <2>3, <2>4, <2>5, <2>6, <1>c, <1>n DEF Chain
  <1>2. LocalsScoped(ds, cr, p, F2, L2)
    BY <1>n, <1>p DEF Good, LocalsScoped
  <1>u. UsesScoped(ds, n, F, L, S, C)
    BY DEF Good
  <1>3. UsesScoped(ds, p, F2, L2, S2, C2)
    <2>1. ASSUME NEW j \in 1..p, NEW x \in S2[j] \cup C2[j]
          PROVE  \/ \E i \in 1..j : x[1] \in L2[i]
                 \/ x[1] \in DOMAIN ds /\ ds[x[1]].sort = "magic" /\ ds[x[1]].fn = F2[j] /\ x \notin C2[j]
      <3>1. j \in 1..n /\ x \in S[j] \cup C[j]
        BY <2>1, <1>n, <1>p
      <3>2. 1..j \subseteq 1..n
        BY <3>1, <1>n
      <3>3. QED  BY <3>1, <3>2, <1>u, <1>p DEF UsesScoped
    <2>2. ASSUME NEW j \in 1..p, NEW x \in S2[j] \cup C2[j], NEW i \in 1..p, NEW k \in 1..p,
                 x[1] \in L2[i], i < k, F2[k] < F2[j], NEW m \in L2[k]
          PROVE  ~SameVar(ds, x[1], m)
      <3>1. j \in 1..n /\ i \in 1..n /\ k \in 1..n
        BY <2>2, <1>n, <1>p
      <3>2. QED  BY <3>1, <2>2, <1>u, <1>p DEF UsesScoped
    <2>3. QED  BY <2>1, <2>2 DEF UsesScoped
  <1>4. PendingBooked(cr, p, F2, S2, C2, us)
    BY <1>n, <1>p DEF Good, PendingBooked
  <1>5. AllBooked(ds, cr, p, F2, S2, C2, us, fl)
    <2> SUFFICES ASSUME NEW u \in us
                 PROVE  \/ \E j \in 1..p : Pends(cr, p, F2, S2, C2, u, j)
                        \/ IsFlagged(ds, cr, p, F2, fl, u)
      BY DEF AllBooked
    <2>1. CASE \E j \in 1..n : Pends(cr, n, F, S, C, u, j)
      <3>1. PICK j \in 1..n : Pends(cr, n, F, S, C, u, j)
        BY <2>1
      <3>2. Pends(cr, p, F2, S2, C2, u, j)
        BY <3>1, <1>n, <1>p DEF Pends
      <3>3. QED  BY <3>2, <1>n
    <2>2. CASE IsFlagged(ds, cr, n, F, fl, u)
      BY <2>2, <1>n, <1>p DEF IsFlagged
    <2>3. QED  BY <2>1, <2>2 DEF Good, AllBooked
  <1>6. MagicPends(ds, p, F2, S2)
    <2> SUFFICES ASSUME NEW l \in DOMAIN ds, NEW i \in 1..p, ds[l].sort = "magic", F2[i] = ds[l].fn
                 PROVE  \E j \in 1..p : F2[j] = F2[i] /\ \E x \in S2[j] : x[1] = l
      BY DEF MagicPends
    <2>1. PICK q \in 1..n : F2[i] = F[q]
      BY <1>n, <1>p
    <2>2. PICK j \in 1..n : F[j] = F[q] /\ \E x \in S[j] : x[1] = l
      <3>1. MagicPends(ds, n, F, S)
        BY DEF Good
      <3>2. F[q] = ds[l].fn
        BY <2>1
      <3>3. QED  BY <3>1, <3>2 DEF MagicPends
    <2>3. QED  BY <2>1, <2>2, <1>n, <1>p
  <1>7. LambdasExact(gs, ds, cr, p, F2, us)
    BY <1>n, <1>p DEF Good, LambdasExact
  <1>8. QED
    BY <1>1, <1>2, <1>3, <1>4, <1>5, <1>6, <1>7 DEF Good, p

\* The end of a frame: its locals are flagged, what else it uses is its parent's.
Closes(n, F, H, L, S, C, fl, F2, H2, L2, S2, C2, fl2) ==
  /\ n > 1 /\ n \notin H /\ \A i \in 1..n - 1 : i \in H2 <=> i \in H
  /\ \A i \in 1..n - 1 : F2[i] = F[i] /\ L2[i] = L[i]
  /\ \A i \in 1..n - 1 : S2[i] = S[i] \cup IF i = n - 1 THEN { x \in S[n] : x[1] \notin L[n] } ELSE {}
  /\ \A i \in 1..n - 1 : C2[i] = C[i] \cup IF i = n - 1 THEN { x \in C[n] : x[1] \notin L[n] } ELSE {}
  /\ fl2 = fl \cup LocalFlags(L[n], [self |-> S[n], child |-> C[n]])

\* LocalFlags has a flag for each use of one of the locals, and no other.
LEMMA FlagsOfLocals ==
  ASSUME NEW ls, NEW s, NEW c
  PROVE  /\ \A x \in s : x[1] \in ls =>
              [local |-> x[1], child |-> FALSE, how |-> x[2]] \in LocalFlags(ls, [self |-> s, child |-> c])
         /\ \A x \in c : x[1] \in ls =>
              [local |-> x[1], child |-> TRUE, how |-> x[2]] \in LocalFlags(ls, [self |-> s, child |-> c])
         /\ \A f \in LocalFlags(ls, [self |-> s, child |-> c]) :
              \/ \E x \in s : x[1] \in ls /\ f = [local |-> x[1], child |-> FALSE, how |-> x[2]]
              \/ \E x \in c : x[1] \in ls /\ f = [local |-> x[1], child |-> TRUE, how |-> x[2]]
  BY DEF LocalFlags

\* The end of a block keeps the invariant: what it flags is no longer waited for.
LEMMA GoodCloses ==
  ASSUME NEW ds, NEW gs, NEW cr, NEW n, NEW F, NEW H, NEW L, NEW S, NEW C, NEW us, NEW fl,
         Good(ds, gs, cr, n, F, H, L, S, C, us, fl),
         NEW F2, NEW H2, NEW L2, NEW S2, NEW C2, NEW fl2,
         Closes(n, F, H, L, S, C, fl, F2, H2, L2, S2, C2, fl2)
  PROVE  Good(ds, gs, cr, n - 1, F2, H2, L2, S2, C2, us, fl2)
  <1> DEFINE p == n - 1
             inner == [self |-> S[n], child |-> C[n]]
  <1>c. Chain(cr, n, F, H)
    BY DEF Good
  <1>n. /\ n \in Nat /\ n > 1 /\ n \in 1..n /\ n \in 2..n /\ p \in Nat /\ p < n /\ p > 0 /\ p + 1 = n
        /\ \A i \in 1..n : i \in 1..p \/ i = n
        /\ \A i \in 1..p : i \in 1..n /\ i # n /\ i < n /\ i <= p
        /\ p \in 1..p /\ 1 \in 1..p /\ n # p
    BY <1>c DEF Chain, Closes
  <1> HIDE DEF p, inner
  <1>p. /\ \A i \in 1..p : i \in H2 <=> i \in H
        /\ \A i \in 1..p : F2[i] = F[i] /\ L2[i] = L[i]
        /\ \A i \in 1..p : S2[i] = S[i] \cup IF i = p THEN { x \in S[n] : x[1] \notin L[n] } ELSE {}
        /\ \A i \in 1..p : C2[i] = C[i] \cup IF i = p THEN { x \in C[n] : x[1] \notin L[n] } ELSE {}
        /\ fl2 = fl \cup LocalFlags(L[n], inner)
    BY DEF Closes, p, inner
  <1>f. /\ F[n] = F[p]
        /\ \A i \in 1..n : F[i] \in Nat /\ F[i] \in DOMAIN cr /\ F[n] \in In(cr, F[i]) /\ F[i] <= F[n]
    <2>1. DOMAIN cr \subseteq Nat
      BY <1>c DEF Chain, Tree
    <2>2. F[n] = F[p]
      BY <1>c, <1>n DEF Chain, Closes, p
    <2>3. QED  BY <2>1, <2>2, <1>c, <1>n DEF Chain
  <1>1. Chain(cr, p, F2, H2)
    <2>1. \A i \in 1..p : F2[i] \in DOMAIN cr
      BY <1>n, <1>p, <1>f
    <2>2. ASSUME NEW i \in 2..p
          PROVE  IF i \in H2 THEN cr[F2[i]] = F2[i - 1] ELSE F2[i] = F2[i - 1]
      <3>1. i \in 2..n /\ i - 1 \in 1..p /\ i \in 1..p
        BY <1>n
      <3>2. QED  BY <3>1, <1>p, <1>c DEF Chain
    <2>3. ASSUME NEW i \in 1..p, NEW j \in 1..p, i <= j
          PROVE  F2[i] <= F2[j] /\ F2[j] \in In(cr, F2[i])
      BY <2>3, <1>n, <1>p, <1>c DEF Chain
    <2>4. ASSUME NEW i \in 1..p, NEW j \in 1..p, i < j, j \in H2
          PROVE  F2[i] < F2[j]
      BY <2>4, <1>n, <1>p, <1>c DEF Chain
    <2>5. ASSUME NEW j \in 1..p, NEW k \in DOMAIN cr, F2[j] \in In(cr, k)
          PROVE  \E i \in 1..p : F2[i] = k
      <3>1. F[j] \in In(cr, k) /\ j \in 1..n
        BY <2>5, <1>n, <1>p
      <3>2. \E i \in 1..n : F[i] = k
        BY <3>1, <1>c DEF Chain
      <3>3. QED  BY <3>2, <1>n, <1>p, <1>f
    <2>6. F2[1] = 1 /\ 1 \in H2
      BY <1>n, <1>p, <1>c DEF Chain
    <2>7. QED  BY <2>1, <2>2, <2>3, <2>4, <2>5, <2>6, <1>c, <1>n DEF Chain
  <1>l. LocalsScoped(ds, cr, n, F, L)
    BY DEF Good
  <1>2. LocalsScoped(ds, cr, p, F2, L2)
    BY <1>l, <1>n, <1>p DEF LocalsScoped
  <1>u. UsesScoped(ds, n, F, L, S, C)
    BY DEF Good
  \* A use of a frame is one of the same frame or of the closed one.
  <1>x. \A j \in 1..p : \A x \in S2[j] \cup C2[j] :
          \E q \in 1..n : /\ q = j \/ (q = n /\ j = p /\ x[1] \notin L[n])
                          /\ F[q] = F2[j] /\ x \in S[q] \cup C[q]
    <2> TAKE j \in 1..p
    <2> TAKE x \in S2[j] \cup C2[j]
    <2>0. j \in 1..n /\ F[j] = F2[j] /\ (j = p => F[n] = F2[j])
      BY <1>n, <1>p, <1>f
    <2>1. \/ x \in S[j] \cup C[j]
          \/ j = p /\ x[1] \notin L[n] /\ x \in S[n] \cup C[n]
      BY <1>p
    <2>2. QED  BY <2>0, <2>1, <1>n
  <1>3. UsesScoped(ds, p, F2, L2, S2, C2)
    <2>1. ASSUME NEW j \in 1..p, NEW x \in S2[j] \cup C2[j]
          PROVE  \/ \E i \in 1..j : x[1] \in L2[i]
                 \/ x[1] \in DOMAIN ds /\ ds[x[1]].sort = "magic" /\ ds[x[1]].fn = F2[j] /\ x \notin C2[j]
      <3>1. \A q \in 1..n : x \in S[q] \cup C[q] =>
              \/ \E i \in 1..q : x[1] \in L[i]
              \/ x[1] \in DOMAIN ds /\ ds[x[1]].sort = "magic" /\ ds[x[1]].fn = F[q] /\ x \notin C[q]
        BY <1>u DEF UsesScoped
      <3>2. \A i \in 1..n : x[1] \in L[i] => ds[x[1]].sort # "magic"
        BY <1>l DEF LocalsScoped
      <3>3. CASE \E i \in 1..n : x[1] \in L[i]
        <4>1. ASSUME NEW q \in {j, n}, x \in S[q] \cup C[q], q = j \/ (j = p /\ x[1] \notin L[n])
              PROVE  \E i \in 1..j : x[1] \in L2[i]
          <5>1. \E i \in 1..q : x[1] \in L[i]
            BY <4>1, <3>1, <3>2, <3>3, <1>n
          <5>2. 1..j \subseteq 1..p
            BY <1>n
          <5>3. QED  BY <4>1, <5>1, <5>2, <1>n, <1>p
        <4>2. QED  BY <4>1, <1>x, <1>n
      <3>4. CASE \A i \in 1..n : x[1] \notin L[i]
        <4>1. \A q \in 1..n : \A i \in 1..q : i \in 1..n
          BY <1>n
        <4>2. \A q \in 1..n : x \in S[q] \cup C[q] =>
                x[1] \in DOMAIN ds /\ ds[x[1]].sort = "magic" /\ ds[x[1]].fn = F[q] /\ x \notin C[q]
          BY <3>1, <3>4, <4>1
        <4>3. x \notin C2[j]
          BY <4>2, <1>p, <1>n
        <4>4. QED  BY <4>2, <4>3, <1>x
      <3>5. QED  BY <3>3, <3>4
    <2>2. ASSUME NEW j \in 1..p, NEW x \in S2[j] \cup C2[j], NEW i \in 1..p, NEW k \in 1..p,
                 x[1] \in L2[i], i < k, F2[k] < F2[j], NEW m \in L2[k]
          PROVE  ~SameVar(ds, x[1], m)
      <3>1. PICK q \in 1..n : F[q] = F2[j] /\ x \in S[q] \cup C[q]
        BY <1>x
      <3>2. i \in 1..n /\ k \in 1..n /\ x[1] \in L[i] /\ m \in L[k] /\ F[k] < F[q]
        BY <3>1, <2>2, <1>n, <1>p
      <3>3. QED  BY <3>1, <3>2, <2>2, <1>u DEF UsesScoped
    <2>3. QED  BY <2>1, <2>2 DEF UsesScoped
  <1>b. PendingBooked(cr, n, F, S, C, us) /\ AllBooked(ds, cr, n, F, S, C, us, fl)
        /\ FlagsBooked(ds, us, fl)
    BY DEF Good
  <1>4. PendingBooked(cr, p, F2, S2, C2, us)
    BY <1>b, <1>n, <1>p, <1>f DEF PendingBooked
  <1>o. \A l \in L[n] : l \in DOMAIN ds /\ ds[l].fn = F[n]
    BY <1>l, <1>n DEF LocalsScoped
  <1>g. /\ \A x \in S[n] : x[1] \in L[n] =>
             [local |-> x[1], child |-> FALSE, how |-> x[2]] \in LocalFlags(L[n], inner)
        /\ \A x \in C[n] : x[1] \in L[n] =>
             [local |-> x[1], child |-> TRUE, how |-> x[2]] \in LocalFlags(L[n], inner)
        /\ \A f \in LocalFlags(L[n], inner) :
             \/ \E x \in S[n] : x[1] \in L[n] /\ f = [local |-> x[1], child |-> FALSE, how |-> x[2]]
             \/ \E x \in C[n] : x[1] \in L[n] /\ f = [local |-> x[1], child |-> TRUE, how |-> x[2]]
    BY FlagsOfLocals DEF inner
  <1>5. AllBooked(ds, cr, p, F2, S2, C2, us, fl2)
    <2> SUFFICES ASSUME NEW u \in us
                 PROVE  \/ \E j \in 1..p : Pends(cr, p, F2, S2, C2, u, j)
                        \/ IsFlagged(ds, cr, p, F2, fl2, u)
      BY DEF AllBooked
    <2> DEFINE x == <<u.local, u.how>>
    <2>0. x[1] = u.local /\ x[2] = u.how
      OBVIOUS
    <2>1. CASE \E j \in 1..p : Pends(cr, n, F, S, C, u, j)
      <3>1. PICK j \in 1..p : Pends(cr, n, F, S, C, u, j)
        BY <2>1
      <3>2. Pends(cr, p, F2, S2, C2, u, j)
        BY <3>1, <1>n, <1>p DEF Pends
      <3>3. QED  BY <3>2
    <2>2. CASE Pends(cr, n, F, S, C, u, n) /\ u.local \in L[n]
      <3>1. Flag(ds, u) \in LocalFlags(L[n], inner)
        <4>1. CASE u.fn = F[n] /\ x \in S[n]
          BY <4>1, <2>0, <2>2, <1>g, <1>o DEF Flag
        <4>2. CASE u.fn # F[n] /\ x \in C[n]
          BY <4>2, <2>0, <2>2, <1>g, <1>o DEF Flag
        <4>3. QED  BY <4>1, <4>2, <2>2 DEF Pends
      <3>2. \A i \in 1..p : ds[u.local].fn \in In(cr, F2[i])
        BY <2>2, <1>o, <1>f, <1>n, <1>p
      <3>3. QED  BY <3>1, <3>2, <1>p DEF IsFlagged
    <2>3. CASE Pends(cr, n, F, S, C, u, n) /\ u.local \notin L[n]
      <3>1. /\ \/ u.fn = F2[p] /\ x \in S2[p]
               \/ u.fn # F2[p] /\ u.fn \in In(cr, F2[p]) /\ x \in C2[p]
        BY <2>0, <2>3, <1>n, <1>p, <1>f DEF Pends
      <3>2. \A i \in 1..p : u.fn \in In(cr, F2[i]) => F2[i] <= F2[p]
        BY <2>3, <1>n, <1>p, <1>f DEF Pends
      <3>3. QED  BY <3>1, <3>2, <1>n DEF Pends
    <2>4. CASE IsFlagged(ds, cr, n, F, fl, u)
      BY <2>4, <1>n, <1>p DEF IsFlagged
    <2>5. QED  BY <2>1, <2>2, <2>3, <2>4, <1>b, <1>n DEF AllBooked
  <1>6. FlagsBooked(ds, us, fl2)
    <2> SUFFICES ASSUME NEW f \in LocalFlags(L[n], inner)  PROVE \E u \in us : f = Flag(ds, u)
      BY <1>b, <1>p DEF FlagsBooked
    <2>1. CASE \E x \in S[n] : x[1] \in L[n] /\ f = [local |-> x[1], child |-> FALSE, how |-> x[2]]
      <3>1. PICK x \in S[n] : x[1] \in L[n] /\ f = [local |-> x[1], child |-> FALSE, how |-> x[2]]
        BY <2>1
      <3>2. PICK u \in us : u.fn = F[n] /\ x = <<u.local, u.how>>
        BY <3>1, <1>b, <1>n DEF PendingBooked
      <3>3. QED  BY <3>1, <3>2, <1>o DEF Flag
    <2>2. CASE \E x \in C[n] : x[1] \in L[n] /\ f = [local |-> x[1], child |-> TRUE, how |-> x[2]]
      <3>1. PICK x \in C[n] : x[1] \in L[n] /\ f = [local |-> x[1], child |-> TRUE, how |-> x[2]]
        BY <2>2
      <3>2. PICK u \in us : u.fn # F[n] /\ x = <<u.local, u.how>>
        BY <3>1, <1>b, <1>n DEF PendingBooked
      <3>3. QED  BY <3>1, <3>2, <1>o DEF Flag
    <2>3. QED  BY <2>1, <2>2, <1>g
  <1>7. MagicPends(ds, p, F2, S2)
    <2> SUFFICES ASSUME NEW l \in DOMAIN ds, NEW i \in 1..p, ds[l].sort = "magic", F2[i] = ds[l].fn
                 PROVE  \E j \in 1..p : F2[j] = F2[i] /\ \E x \in S2[j] : x[1] = l
      BY DEF MagicPends
    <2>1. i \in 1..n /\ F[i] = ds[l].fn
      BY <1>n, <1>p
    <2>2. PICK j \in 1..n : F[j] = F[i] /\ \E x \in S[j] : x[1] = l
      BY <2>1 DEF Good, MagicPends
    <2>3. CASE j \in 1..p
      BY <2>1, <2>2, <2>3, <1>p
    <2>4. CASE j = n
      <3>1. l \notin L[n]
        BY <1>l, <1>n DEF LocalsScoped
      <3>2. F2[p] = F2[i]
        BY <2>1, <2>2, <2>4, <1>p, <1>f, <1>n
      <3>3. \E x \in S2[p] : x[1] = l
        BY <2>2, <2>4, <3>1, <1>p, <1>n
      <3>4. QED  BY <3>2, <3>3, <1>n
    <2>5. QED  BY <2>3, <2>4, <1>n
  <1>8. LambdasExact(gs, ds, cr, p, F2, us)
    <2> SUFFICES ASSUME NEW k \in DOMAIN gs, \A i \in 1..p : F2[i] # k
                 PROVE  \A i \in 1..n : F[i] # k
      BY DEF Good, LambdasExact
    <2>1. QED  BY <1>n, <1>p, <1>f
  <1>9. QED
    BY <1>1, <1>2, <1>3, <1>4, <1>5, <1>6, <1>7, <1>8 DEF Good, p

-----------------------------------------------------------------------------
(* A function more, and a function less                                    *)

\* A lambda of the innermost function: only its parameters are in its scope.
Creates(ds, gs, cr, n, F, H, L, S, C, ds2, gs2, cr2, F2, H2, L2, S2, C2) ==
  LET g == Len(cr) + 1
  IN /\ cr2 = Append(cr, F[n])
     /\ DOMAIN gs2 = DOMAIN gs \cup {g} /\ gs2[g].given = {}
     /\ \A k \in DOMAIN gs : gs2[k] = gs[k]
     /\ DOMAIN ds \subseteq DOMAIN ds2 /\ \A l \in DOMAIN ds : ds2[l] = ds[l]
     /\ \A l \in DOMAIN ds2 \ DOMAIN ds : ds2[l].fn = g /\ ds2[l].sort # "magic"
     /\ n + 1 \in H2 /\ \A i \in 1..n : i \in H2 <=> i \in H
     /\ \A i \in 1..n : F2[i] = F[i] /\ L2[i] = L[i] /\ S2[i] = S[i] /\ C2[i] = C[i]
     /\ F2[n + 1] = g /\ S2[n + 1] = {} /\ C2[n + 1] = {}
     /\ L2[n + 1] = DOMAIN ds2 \ DOMAIN ds
     /\ \A l, m \in L2[n + 1] : SameVar(ds2, l, m) => l = m

\* A new lambda keeps the invariant.
LEMMA GoodCreates ==
  ASSUME NEW ds, NEW gs, NEW cr, NEW n, NEW F, NEW H, NEW L, NEW S, NEW C, NEW us, NEW fl,
         Good(ds, gs, cr, n, F, H, L, S, C, us, fl), DOMAIN gs = DOMAIN cr,
         NEW ds2, NEW gs2, NEW cr2, NEW F2, NEW H2, NEW L2, NEW S2, NEW C2,
         Creates(ds, gs, cr, n, F, H, L, S, C, ds2, gs2, cr2, F2, H2, L2, S2, C2)
  PROVE  Good(ds2, gs2, cr2, n + 1, F2, H2, L2, S2, C2, us, fl)
  <1> DEFINE p == n + 1
             g == Len(cr) + 1
  <1>c. Chain(cr, n, F, H)
    BY DEF Good
  <1>n. /\ n \in Nat /\ n > 0 /\ n \in 1..n /\ p \in Nat /\ p > n /\ p > 0
        /\ \A i \in 1..p : i \in 1..n \/ i = p
        /\ \A i \in 1..n : i \in 1..p /\ i # p /\ i < p /\ ~ (p <= i)
        /\ p \in 1..p /\ 1 \in 1..n /\ p - 1 = n
    BY <1>c DEF Chain
  <1>t. /\ DOMAIN cr = 1..Len(cr) /\ g \in Nat /\ g \notin DOMAIN cr
        /\ \A k \in DOMAIN cr : k \in Nat /\ k < g /\ k # g
    BY <1>c DEF Chain, Tree
  <1>f. \A i \in 1..n : /\ F[i] \in Nat /\ F[i] \in DOMAIN cr /\ F[n] \in In(cr, F[i])
                        /\ F[i] <= F[n] /\ F[i] < g /\ F[i] # g
    <2>1. DOMAIN cr \subseteq Nat
      BY <1>c DEF Chain, Tree
    <2>2. QED  BY <2>1, <1>c, <1>n, <1>t DEF Chain
  <1>i. /\ Tree(cr2) /\ DOMAIN cr2 = DOMAIN cr \cup {g} /\ cr2[g] = F[n]
        /\ \A k \in DOMAIN cr : cr2[k] = cr[k]
        /\ \A k \in DOMAIN cr : In(cr2, k) = In(cr, k) \cup (IF F[n] \in In(cr, k) THEN {g} ELSE {})
        /\ In(cr2, g) = {g}
    <2>1. Tree(cr) /\ F[n] \in DOMAIN cr /\ cr2 = Append(cr, F[n])
      BY <1>c, <1>n DEF Chain, Creates
    <2>2. cr2[g] = F[n] /\ \A k \in DOMAIN cr : cr2[k] = cr[k]
      BY <2>1, <1>t DEF Tree
    <2>3. QED  BY <2>1, <2>2, InExtended
  <1> HIDE DEF p, g
  <1>p. /\ DOMAIN gs2 = DOMAIN gs \cup {g} /\ gs2[g].given = {}
        /\ \A k \in DOMAIN gs : gs2[k] = gs[k]
        /\ p \in H2 /\ \A i \in 1..n : i \in H2 <=> i \in H
        /\ \A i \in 1..n : F2[i] = F[i] /\ L2[i] = L[i] /\ S2[i] = S[i] /\ C2[i] = C[i]
        /\ F2[p] = g /\ S2[p] = {} /\ C2[p] = {} /\ L2[p] = DOMAIN ds2 \ DOMAIN ds
        /\ \A l, m \in L2[p] : SameVar(ds2, l, m) => l = m
    BY DEF Creates, p, g
  <1>d. /\ DOMAIN ds \subseteq DOMAIN ds2 /\ \A l \in DOMAIN ds : ds2[l] = ds[l]
        /\ \A l \in DOMAIN ds2 \ DOMAIN ds : ds2[l].fn = g /\ ds2[l].sort # "magic"
    BY DEF Creates, g
  <1>v. \A l, m \in DOMAIN ds : SameVar(ds2, l, m) <=> SameVar(ds, l, m)
    BY <1>d DEF SameVar
  \* What was in an open function still is, and but for the new lambda nothing else.
  <1>s. \A k \in DOMAIN cr, m \in DOMAIN cr : m \in In(cr2, k) <=> m \in In(cr, k)
    BY <1>i, <1>t
  <1>1. Chain(cr2, p, F2, H2)
    <2>1. \A i \in 1..p : F2[i] \in DOMAIN cr2
      BY <1>n, <1>p, <1>f, <1>i
    <2>2. ASSUME NEW i \in 2..p
          PROVE  IF i \in H2 THEN cr2[F2[i]] = F2[i - 1] ELSE F2[i] = F2[i - 1]
      <3>1. CASE i = p
        BY <3>1, <1>n, <1>p, <1>i
      <3>2. CASE i \in 1..n
        <4>1. i \in 2..n /\ i - 1 \in 1..n
          BY <3>2, <1>n
        <4>2. cr2[F[i]] = cr[F[i]]
          BY <3>2, <1>f, <1>i
        <4>3. QED  BY <4>1, <4>2, <3>2, <1>p, <1>c DEF Chain
      <3>3. i \in 1..p
        BY <1>n
      <3>4. QED  BY <3>1, <3>2, <3>3, <1>n
    <2>3. ASSUME NEW i \in 1..p, NEW j \in 1..p, i <= j
          PROVE  F2[i] <= F2[j] /\ F2[j] \in In(cr2, F2[i])
      <3>1. CASE i = p
        BY <3>1, <2>3, <1>n, <1>p, <1>t, <1>i
      <3>2. CASE i \in 1..n /\ j = p
        <4>1. F[i] <= g
          BY <3>2, <1>f, <1>t
        <4>2. QED  BY <4>1, <3>2, <1>p, <1>f, <1>i
      <3>3. CASE i \in 1..n /\ j \in 1..n
        <4>1. F[i] <= F[j] /\ F[j] \in In(cr, F[i])
          BY <3>3, <2>3, <1>c DEF Chain
        <4>2. QED  BY <4>1, <3>3, <1>p, <1>f, <1>s
      <3>4. QED  BY <3>1, <3>2, <3>3, <1>n
    <2>4. ASSUME NEW i \in 1..p, NEW j \in 1..p, i < j, j \in H2
          PROVE  F2[i] < F2[j]
      <3>1. CASE j = p
        <4>1. i \in 1..n
          BY <3>1, <2>4, <1>n
        <4>2. QED  BY <3>1, <4>1, <1>p, <1>f
      <3>2. CASE j \in 1..n
        <4>1. i \in 1..n
          BY <3>2, <2>4, <1>n
        <4>2. QED  BY <3>2, <4>1, <2>4, <1>p, <1>c DEF Chain
      <3>3. QED  BY <3>1, <3>2, <1>n
    <2>5. ASSUME NEW j \in 1..p, NEW k \in DOMAIN cr2, F2[j] \in In(cr2, k)
          PROVE  \E i \in 1..p : F2[i] = k
      <3>1. CASE k = g
        BY <3>1, <1>n, <1>p
      <3>2. CASE k \in DOMAIN cr
        <4>1. \E q \in 1..n : F[q] \in In(cr, k)
          <5>1. CASE j = p
            BY <5>1, <3>2, <2>5, <1>p, <1>i, <1>t, <1>n, InClosed
          <5>2. CASE j \in 1..n
            BY <5>2, <3>2, <2>5, <1>p, <1>s, <1>f
          <5>3. QED  BY <5>1, <5>2, <1>n
        <4>2. \E i \in 1..n : F[i] = k
          BY <4>1, <3>2, <1>c DEF Chain
        <4>3. QED  BY <4>2, <1>n, <1>p
      <3>3. QED  BY <3>1, <3>2, <1>i
    <2>6. F2[1] = 1 /\ 1 \in H2
      BY <1>n, <1>p, <1>c DEF Chain
    <2>7. QED  BY <2>1, <2>2, <2>3, <2>4, <2>5, <2>6, <1>i, <1>n DEF Chain
  <1>l. LocalsScoped(ds, cr, n, F, L)
    BY DEF Good
  <1>o. \A i \in 1..n : \A l \in L[i] : l \in DOMAIN ds /\ ds[l].fn = F[i] /\ ds[l].sort # "magic"
    BY <1>l DEF LocalsScoped
  <1>2. LocalsScoped(ds2, cr2, p, F2, L2)
    <2>1. \A l \in DOMAIN ds2 : ds2[l].fn \in DOMAIN cr2
      BY <1>l, <1>d, <1>i DEF LocalsScoped
    <2>2. \A i \in 1..p : \A l \in L2[i] : l \in DOMAIN ds2 /\ ds2[l].fn = F2[i] /\ ds2[l].sort # "magic"
      BY <1>o, <1>d, <1>p, <1>n
    <2>3. ASSUME NEW i \in 1..p, NEW j \in 1..p, i # j  PROVE L2[i] \cap L2[j] = {}
      <3>1. \A k \in 1..n : L2[k] \cap L2[p] = {}
        BY <1>o, <1>p
      <3>2. CASE i \in 1..n /\ j \in 1..n
        BY <3>2, <2>3, <1>l, <1>p DEF LocalsScoped
      <3>3. QED  BY <3>1, <3>2, <2>3, <1>n
    <2>4. ASSUME NEW i \in 1..p, NEW j \in 1..p, F2[i] = F2[j], NEW l \in L2[i], NEW m \in L2[j],
                 SameVar(ds2, l, m)
          PROVE  l = m
      <3>1. (i = p /\ j = p) \/ (i \in 1..n /\ j \in 1..n)
        BY <2>4, <1>n, <1>p, <1>f
      <3>2. CASE i = p /\ j = p
        BY <3>2, <2>4, <1>p
      <3>3. CASE i \in 1..n /\ j \in 1..n
        <4>1. l \in L[i] /\ m \in L[j] /\ F[i] = F[j]
          BY <3>3, <2>4, <1>p
        <4>2. SameVar(ds, l, m)
          BY <4>1, <3>3, <2>4, <1>o, <1>v
        <4>3. QED  BY <4>1, <4>2, <3>3, <1>l DEF LocalsScoped
      <3>4. QED  BY <3>1, <3>2, <3>3
    <2>5. QED  BY <2>1, <2>2, <2>3, <2>4 DEF LocalsScoped
  <1>u. UsesScoped(ds, n, F, L, S, C)
    BY DEF Good
  <1>3. UsesScoped(ds2, p, F2, L2, S2, C2)
    <2>1. ASSUME NEW j \in 1..p, NEW x \in S2[j] \cup C2[j]
          PROVE  \/ \E i \in 1..j : x[1] \in L2[i]
                 \/ /\ x[1] \in DOMAIN ds2 /\ ds2[x[1]].sort = "magic" /\ ds2[x[1]].fn = F2[j]
                    /\ x \notin C2[j]
      <3>1. j \in 1..n /\ x \in S[j] \cup C[j]
        BY <2>1, <1>n, <1>p
      <3>2. 1..j \subseteq 1..n
        BY <3>1, <1>n
      <3>3. QED  BY <3>1, <3>2, <1>u, <1>p, <1>d DEF UsesScoped
    <2>2. ASSUME NEW j \in 1..p, NEW x \in S2[j] \cup C2[j], NEW i \in 1..p, NEW k \in 1..p,
                 x[1] \in L2[i], i < k, F2[k] < F2[j], NEW m \in L2[k]
          PROVE  ~SameVar(ds2, x[1], m)
      <3>1. j \in 1..n /\ x \in S[j] \cup C[j]
        BY <2>2, <1>n, <1>p
      <3>2. F2[k] # g
        BY <3>1, <2>2, <1>p, <1>f, <1>t
      <3>3. k \in 1..n
        BY <3>2, <1>n, <1>p
      <3>4. i \in 1..n
        BY <3>3, <2>2, <1>n
      <3>5. x[1] \in L[i] /\ m \in L[k] /\ F[k] < F[j]
        BY <3>1, <3>3, <3>4, <2>2, <1>p
      <3>6. ~SameVar(ds, x[1], m)
        BY <3>1, <3>3, <3>4, <3>5, <2>2, <1>u DEF UsesScoped
      <3>7. QED  BY <3>3, <3>4, <3>5, <3>6, <1>o, <1>v
    <2>3. QED  BY <2>1, <2>2 DEF UsesScoped
  <1>b. PendingBooked(cr, n, F, S, C, us) /\ AllBooked(ds, cr, n, F, S, C, us, fl)
        /\ FlagsBooked(ds, us, fl) /\ UsesOK(ds, cr, us)
    BY DEF Good
  <1>w. \A u \in us : u.local \in DOMAIN ds /\ u.fn \in DOMAIN cr /\ u.fn # g
    BY <1>b, <1>t DEF UsesOK
  <1>4. PendingBooked(cr2, p, F2, S2, C2, us)
    <2>1. \A j \in 1..p : \A x \in S2[j] : \E u \in us : u.fn = F2[j] /\ x = <<u.local, u.how>>
      BY <1>b, <1>n, <1>p DEF PendingBooked
    <2>2. ASSUME NEW j \in 1..p, NEW x \in C2[j]
          PROVE  \E u \in us : u.fn \in In(cr2, F2[j]) /\ u.fn # F2[j] /\ x = <<u.local, u.how>>
      <3>1. j \in 1..n /\ x \in C[j]
        BY <2>2, <1>n, <1>p
      <3>2. PICK u \in us : u.fn \in In(cr, F[j]) /\ u.fn # F[j] /\ x = <<u.local, u.how>>
        BY <3>1, <1>b DEF PendingBooked
      <3>3. QED  BY <3>1, <3>2, <1>p, <1>w, <1>s, <1>f
    <2>3. QED  BY <2>1, <2>2 DEF PendingBooked
  <1>5. AllBooked(ds2, cr2, p, F2, S2, C2, us, fl)
    <2> SUFFICES ASSUME NEW u \in us
                 PROVE  \/ \E j \in 1..p : Pends(cr2, p, F2, S2, C2, u, j)
                        \/ IsFlagged(ds2, cr2, p, F2, fl, u)
      BY DEF AllBooked
    <2>0. \A i \in 1..p : u.fn \in In(cr2, F2[i]) => i \in 1..n /\ u.fn \in In(cr, F[i])
      BY <1>n, <1>p, <1>w, <1>s, <1>f, <1>i
    <2>1. CASE \E j \in 1..n : Pends(cr, n, F, S, C, u, j)
      <3>1. PICK j \in 1..n : Pends(cr, n, F, S, C, u, j)
        BY <2>1
      <3>2. \/ u.fn = F2[j] /\ <<u.local, u.how>> \in S2[j]
            \/ u.fn # F2[j] /\ u.fn \in In(cr2, F2[j]) /\ <<u.local, u.how>> \in C2[j]
        BY <3>1, <1>p, <1>w, <1>s, <1>f DEF Pends
      <3>3. \A i \in 1..p : u.fn \in In(cr2, F2[i]) => F2[i] <= F2[j]
        BY <3>1, <2>0, <1>p DEF Pends
      <3>4. Pends(cr2, p, F2, S2, C2, u, j)
        BY <3>2, <3>3 DEF Pends
      <3>5. QED  BY <3>4, <1>n
    <2>2. CASE IsFlagged(ds, cr, n, F, fl, u)
      <3>1. Flag(ds2, u) \in fl
        BY <2>2, <1>w, <1>d DEF IsFlagged, Flag
      <3>2. ASSUME NEW i \in 1..p, u.fn \in In(cr2, F2[i])
            PROVE  ds2[u.local].fn \in In(cr2, F2[i])
        <4>1. i \in 1..n /\ ds[u.local].fn \in In(cr, F[i])
          BY <3>2, <2>0, <2>2 DEF IsFlagged
        <4>2. F[i] \in DOMAIN cr /\ ds[u.local].fn \in DOMAIN cr /\ ds2[u.local] = ds[u.local]
          BY <4>1, <1>f, <1>w, <1>d, <1>l DEF LocalsScoped
        <4>3. QED  BY <4>1, <4>2, <1>s, <1>p
      <3>3. QED  BY <3>1, <3>2 DEF IsFlagged
    <2>3. QED  BY <2>1, <2>2, <1>b DEF AllBooked
  <1>6. FlagsBooked(ds2, us, fl)
    BY <1>b, <1>w, <1>d DEF FlagsBooked, Flag
  <1>7. UsesOK(ds2, cr2, us)
    BY <1>b, <1>w, <1>d, <1>i DEF UsesOK
  <1>8. MagicPends(ds2, p, F2, S2)
    <2> SUFFICES ASSUME NEW l \in DOMAIN ds2, NEW i \in 1..p,
                        ds2[l].sort = "magic", F2[i] = ds2[l].fn
                 PROVE  \E j \in 1..p : F2[j] = F2[i] /\ \E x \in S2[j] : x[1] = l
      BY DEF MagicPends
    <2>1. l \in DOMAIN ds /\ ds[l] = ds2[l] /\ ds[l].fn # g
      BY <1>d, <1>l, <1>t DEF LocalsScoped
    <2>2. i \in 1..n /\ F[i] = ds[l].fn
      BY <2>1, <1>n, <1>p
    <2>3. \E j \in 1..n : F[j] = F[i] /\ \E x \in S[j] : x[1] = l
      BY <2>1, <2>2 DEF Good, MagicPends
    <2>4. QED  BY <2>2, <2>3, <1>n, <1>p
  <1>9. LambdasExact(gs2, ds2, cr2, p, F2, us)
    <2> SUFFICES ASSUME NEW k \in DOMAIN gs2, \A i \in 1..p : F2[i] # k
                 PROVE  IsExact(gs2[k], ds2, cr2, k, us)
      BY DEF LambdasExact
    <2>1. k \in DOMAIN gs /\ gs2[k] = gs[k] /\ k \in DOMAIN cr /\ k # g
      BY <1>p, <1>n, <1>t
    <2>2. \A i \in 1..n : F[i] # k
      BY <1>n, <1>p
    <2>3. IsExact(gs[k], ds, cr, k, us)
      BY <2>1, <2>2 DEF Good, LambdasExact
    <2>4. F[n] \notin In(cr, k)
      BY <1>c, <1>n, <2>1, <2>2 DEF Chain
    <2>5. In(cr2, k) = In(cr, k)
      BY <2>1, <2>4, <1>i
    <2>6. \A u \in us : ds2[u.local] = ds[u.local]
      BY <1>w, <1>d
    <2>7. \A l \in gs[k].captured : l \in DOMAIN ds
      BY <2>3, <1>w DEF IsExact
    <2>8. { u.local : u \in { v \in us : v.fn \in In(cr2, k) /\ ds2[v.local].fn \notin In(cr2, k) } }
            = { u.local : u \in { v \in us : v.fn \in In(cr, k) /\ ds[v.local].fn \notin In(cr, k) } }
      BY <2>5, <2>6
    <2>9. { l \in DOMAIN ds2 : ds2[l].sort = "magic" /\ ds2[l].fn = k }
            = { l \in DOMAIN ds : ds[l].sort = "magic" /\ ds[l].fn = k }
      BY <1>d
    <2>10. QED  BY <2>1, <2>3, <2>7, <2>8, <2>9, <1>d DEF IsExact
  <1>10. GivenAgree(gs2, ds2)
    BY <1>p, <1>d DEF Good, GivenAgree
  <1>11. QED
    BY <1>1, <1>2, <1>3, <1>4, <1>5, <1>6, <1>7, <1>8, <1>9, <1>10 DEF Good, p

\* What a lambda hands to its creator, and which underscores are its parameters.
Outer(ds, ls, uses_of) == { x \in uses_of : x[1] \notin ls /\ ds[x[1]].sort # "magic" }
OwnMagic(ds, ls, self_uses) ==
  { l \in { x[1] : x \in { y \in self_uses : y[1] \notin ls } } : ds[l].sort = "magic" }

\* The end of a lambda whose captures are variables.
Finishes(ds, gs, n, F, H, L, S, C, fl, gs2, F2, H2, L2, S2, C2, fl2) ==
  LET q == F[n]
      outer == Outer(ds, L[n], S[n] \cup C[n])
  IN /\ n > 1 /\ n \in H
     /\ \A x \in outer : ds[x[1]].sort = "var"
     /\ DOMAIN gs2 = DOMAIN gs /\ \A k \in DOMAIN gs : k # q => gs2[k] = gs[k]
     /\ gs2[q].captured = { x[1] : x \in outer }
     /\ gs2[q].magic = OwnMagic(ds, L[n], S[n])
     /\ \A g \in gs2[q].given :
          /\ g.local \in DOMAIN ds
          /\ g.typed = IF ds[g.local].fn = gs2[q].creator THEN g.local ELSE Outside
     /\ \A i \in 1..n - 1 : (i \in H2 <=> i \in H) /\ F2[i] = F[i] /\ L2[i] = L[i] /\ S2[i] = S[i]
     /\ \A i \in 1..n - 1 : C2[i] = C[i] \cup IF i = n - 1 THEN outer ELSE {}
     /\ fl2 = fl \cup LocalFlags(L[n] \cup OwnMagic(ds, L[n], S[n]), [self |-> S[n], child |-> C[n]])

\* What the innermost function uses of others is in scope around it, and not hidden there.
LEMMA OuterInScope ==
  ASSUME NEW ds, NEW gs, NEW cr, NEW n, NEW F, NEW H, NEW L, NEW S, NEW C, NEW us, NEW fl,
         Good(ds, gs, cr, n, F, H, L, S, C, us, fl), n > 1, n \in H,
         NEW x \in S[n] \cup C[n], x[1] \notin L[n], ds[x[1]].sort # "magic"
  PROVE  \E i \in 1..n - 1 : /\ x[1] \in L[i] /\ F[i] < F[n] /\ x[1] \in DOMAIN ds
                             /\ ds[x[1]].fn = F[i]
                             /\ \A k \in 1..n - 1 : i < k => \A m \in L[k] : ~SameVar(ds, x[1], m)
  <1>1. n \in Nat /\ n \in 1..n /\ \A i \in 1..n - 1 : i \in 1..n /\ i < n /\ i # n
    BY DEF Good, Chain
  <1>2. \A i \in 1..n - 1 : F[i] < F[n]
    BY <1>1 DEF Good, Chain
  <1>3. PICK i \in 1..n : x[1] \in L[i]
    BY <1>1 DEF Good, UsesScoped
  <1>4. i \in 1..n - 1
    BY <1>1, <1>3
  <1>5. x[1] \in DOMAIN ds /\ ds[x[1]].fn = F[i]
    BY <1>3 DEF Good, LocalsScoped
  <1>6. ASSUME NEW k \in 1..n - 1, i < k, NEW m \in L[k]  PROVE ~SameVar(ds, x[1], m)
    BY <1>1, <1>2, <1>3, <1>6 DEF Good, UsesScoped
  <1>7. QED  BY <1>2, <1>3, <1>4, <1>5, <1>6

\* The end of a lambda keeps the invariant, and what it writes down is exact.
LEMMA GoodFinishes ==
  ASSUME NEW ds, NEW gs, NEW cr, NEW n, NEW F, NEW H, NEW L, NEW S, NEW C, NEW us, NEW fl,
         Good(ds, gs, cr, n, F, H, L, S, C, us, fl), DOMAIN gs = DOMAIN cr,
         NEW gs2, NEW F2, NEW H2, NEW L2, NEW S2, NEW C2, NEW fl2,
         Finishes(ds, gs, n, F, H, L, S, C, fl, gs2, F2, H2, L2, S2, C2, fl2)
  PROVE  Good(ds, gs2, cr, n - 1, F2, H2, L2, S2, C2, us, fl2)
  <1> DEFINE p == n - 1
             q == F[n]
             inner == [self |-> S[n], child |-> C[n]]
             outer == Outer(ds, L[n], S[n] \cup C[n])
             own == OwnMagic(ds, L[n], S[n])
  <1>c. Chain(cr, n, F, H)
    BY DEF Good
  <1>n. /\ n \in Nat /\ n > 1 /\ n \in 1..n /\ n \in 2..n /\ p \in Nat /\ p < n /\ p > 0 /\ p + 1 = n
        /\ \A i \in 1..n : i \in 1..p \/ i = n
        /\ \A i \in 1..p : i \in 1..n /\ i # n /\ i < n /\ i <= p
        /\ p \in 1..p /\ 1 \in 1..p /\ n # p /\ n \in H
    BY <1>c DEF Chain, Finishes
  <1> HIDE DEF p, inner
  <1>o. /\ \A x \in outer : x \in S[n] \cup C[n] /\ x[1] \notin L[n] /\ ds[x[1]].sort # "magic"
                            /\ ds[x[1]].sort = "var"
        /\ \A x \in S[n] \cup C[n] : x[1] \in L[n] \/ x \in outer \/ ds[x[1]].sort = "magic"
        /\ \A x \in S[n] : x[1] \in L[n] \/ ds[x[1]].sort # "magic" \/ x[1] \in own
        /\ \A l \in own : ds[l].sort = "magic" /\ \E x \in S[n] : x[1] = l /\ l \notin L[n]
    BY DEF Outer, OwnMagic, Finishes
  <1>p. /\ DOMAIN gs2 = DOMAIN gs /\ \A k \in DOMAIN gs : k # q => gs2[k] = gs[k]
        /\ gs2[q].captured = { x[1] : x \in outer } /\ gs2[q].magic = own
        /\ \A i \in 1..p : (i \in H2 <=> i \in H) /\ F2[i] = F[i] /\ L2[i] = L[i] /\ S2[i] = S[i]
        /\ \A i \in 1..p : C2[i] = C[i] \cup IF i = p THEN outer ELSE {}
        /\ fl2 = fl \cup LocalFlags(L[n] \cup own, inner)
    BY DEF Finishes, p, inner
  <1>r. \A g \in gs2[q].given :
          /\ g.local \in DOMAIN ds
          /\ g.typed = IF ds[g.local].fn = gs2[q].creator THEN g.local ELSE Outside
    BY DEF Finishes
  <1> HIDE DEF outer, own
  <1>f. /\ \A i \in 1..n : F[i] \in Nat /\ F[i] \in DOMAIN cr /\ q \in In(cr, F[i]) /\ F[i] <= q
        /\ q \in Nat /\ q \in DOMAIN cr
        /\ \A i \in 1..p : F[i] < q /\ F[i] # q /\ F[i] <= F[p] /\ ~ (q <= F[i])
    <2>1. DOMAIN cr \subseteq Nat
      BY <1>c DEF Chain, Tree
    <2>2. \A i \in 1..p : F[i] < q /\ F[i] <= F[p]
      BY <1>c, <1>n DEF Chain
    <2>3. \A i \in 1..n : F[i] \in Nat /\ F[i] \in DOMAIN cr /\ q \in In(cr, F[i]) /\ F[i] <= q
      BY <2>1, <1>c, <1>n DEF Chain
    <2>4. q \in Nat /\ q \in DOMAIN cr
      BY <2>3, <1>n
    <2> HIDE DEF q
    <2>5. \A i \in 1..p : F[i] # q /\ ~ (q <= F[i])
      BY <2>2, <2>3, <2>4, <1>n
    <2>6. QED  BY <2>2, <2>3, <2>4, <2>5 DEF q
  <1>q. q = F[n]
    OBVIOUS
  <1>l. LocalsScoped(ds, cr, n, F, L)
    BY DEF Good
  <1>u. UsesScoped(ds, n, F, L, S, C)
    BY DEF Good
  <1>b. PendingBooked(cr, n, F, S, C, us) /\ AllBooked(ds, cr, n, F, S, C, us, fl)
        /\ FlagsBooked(ds, us, fl) /\ UsesOK(ds, cr, us)
    BY DEF Good
  <1>y. \A x \in outer :
          \E i \in 1..p : /\ x[1] \in L[i] /\ F[i] < q /\ x[1] \in DOMAIN ds
                          /\ ds[x[1]].fn = F[i]
                          /\ \A k \in 1..p : i < k => \A m \in L[k] : ~SameVar(ds, x[1], m)
    BY <1>o, <1>n, OuterInScope DEF p
  <1> HIDE DEF q
  \* The lambda and what is in it comes after what is around it.
  <1>a. /\ \A m \in In(cr, q) : m \in DOMAIN cr /\ m \in Nat /\ q <= m
        /\ q \in In(cr, q)
        /\ \A i \in 1..p : F[i] \notin In(cr, q) /\ In(cr, q) \subseteq In(cr, F[i])
    <2>1. \A m \in In(cr, q) : m \in DOMAIN cr /\ m \in Nat /\ q <= m
      BY <1>f, <1>c, InLater, InClosed DEF Chain
    <2>2. q \in In(cr, q)
      BY <1>f, InClosed
    <2>3. \A i \in 1..p : F[i] \notin In(cr, q)
      BY <2>1, <1>f
    <2>4. \A i \in 1..p : In(cr, q) \subseteq In(cr, F[i])
      BY <1>f, <1>n, InTransitive
    <2>5. QED  BY <2>1, <2>2, <2>3, <2>4
  <1>1. Chain(cr, p, F2, H2)
    <2>1. \A i \in 1..p : F2[i] \in DOMAIN cr
      BY <1>n, <1>p, <1>f
    <2>2. ASSUME NEW i \in 2..p
          PROVE  IF i \in H2 THEN cr[F2[i]] = F2[i - 1] ELSE F2[i] = F2[i - 1]
      <3>1. i \in 2..n /\ i - 1 \in 1..p /\ i \in 1..p
        BY <1>n
      <3>2. QED  BY <3>1, <1>p, <1>c DEF Chain
    <2>3. ASSUME NEW i \in 1..p, NEW j \in 1..p, i <= j
          PROVE  F2[i] <= F2[j] /\ F2[j] \in In(cr, F2[i])
      BY <2>3, <1>n, <1>p, <1>c DEF Chain
    <2>4. ASSUME NEW i \in 1..p, NEW j \in 1..p, i < j, j \in H2
          PROVE  F2[i] < F2[j]
      BY <2>4, <1>n, <1>p, <1>c DEF Chain
    <2>5. ASSUME NEW j \in 1..p, NEW k \in DOMAIN cr, F2[j] \in In(cr, k)
          PROVE  \E i \in 1..p : F2[i] = k
      <3>1. F[j] \in In(cr, k) /\ j \in 1..n
        BY <2>5, <1>n, <1>p
      <3>2. PICK i \in 1..n : F[i] = k
        BY <3>1, <1>c DEF Chain
      <3>3. i # n
        BY <3>1, <3>2, <2>5, <1>a, <1>q
      <3>4. QED  BY <3>2, <3>3, <1>n, <1>p
    <2>6. F2[1] = 1 /\ 1 \in H2
      BY <1>n, <1>p, <1>c DEF Chain
    <2>7. QED  BY <2>1, <2>2, <2>3, <2>4, <2>5, <2>6, <1>c, <1>n DEF Chain
  <1>2. LocalsScoped(ds, cr, p, F2, L2)
    BY <1>l, <1>n, <1>p DEF LocalsScoped
  <1>3. UsesScoped(ds, p, F2, L2, S2, C2)
    <2>1. ASSUME NEW j \in 1..p, NEW x \in S2[j] \cup C2[j]
          PROVE  \/ \E i \in 1..j : x[1] \in L2[i]
                 \/ x[1] \in DOMAIN ds /\ ds[x[1]].sort = "magic" /\ ds[x[1]].fn = F2[j] /\ x \notin C2[j]
      <3>1. 1..j \subseteq 1..p
        BY <1>n
      <3>2. CASE x \in outer /\ j = p
        BY <3>2, <1>y, <1>p
      <3>3. CASE x \in S[j] \cup C[j] /\ (x \notin outer \/ j # p)
        <4>1. \/ \E i \in 1..j : x[1] \in L[i]
              \/ x[1] \in DOMAIN ds /\ ds[x[1]].sort = "magic" /\ ds[x[1]].fn = F[j] /\ x \notin C[j]
          BY <3>3, <1>u, <1>n DEF UsesScoped
        <4>2. QED  BY <4>1, <3>1, <3>3, <1>p
      <3>4. QED  BY <3>2, <3>3, <1>p
    <2>2. ASSUME NEW j \in 1..p, NEW x \in S2[j] \cup C2[j], NEW i \in 1..p, NEW k \in 1..p,
                 x[1] \in L2[i], i < k, F2[k] < F2[j], NEW m \in L2[k]
          PROVE  ~SameVar(ds, x[1], m)
      <3>1. x[1] \in L[i] /\ m \in L[k] /\ F[k] < F[j] /\ F[k] < q
        BY <2>2, <1>p, <1>f
      <3>2. CASE x \in S[j] \cup C[j]
        BY <3>1, <3>2, <2>2, <1>u, <1>n DEF UsesScoped
      <3>3. CASE x \in outer
        <4>1. x \in S[n] \cup C[n]
          BY <3>3, <1>o
        <4>2. QED  BY <3>1, <4>1, <2>2, <1>u, <1>n, <1>q DEF UsesScoped
      <3>4. QED  BY <3>2, <3>3, <1>p
    <2>3. QED  BY <2>1, <2>2 DEF UsesScoped
  <1>4. PendingBooked(cr, p, F2, S2, C2, us)
    <2>1. \A j \in 1..p : \A x \in S2[j] : \E u \in us : u.fn = F2[j] /\ x = <<u.local, u.how>>
      BY <1>b, <1>n, <1>p DEF PendingBooked
    <2>2. ASSUME NEW j \in 1..p, NEW x \in C2[j]
          PROVE  \E u \in us : u.fn \in In(cr, F2[j]) /\ u.fn # F2[j] /\ x = <<u.local, u.how>>
      <3>1. CASE x \in C[j]
        BY <3>1, <1>b, <1>n, <1>p DEF PendingBooked
      <3>2. CASE x \in outer
        <4>1. PICK u \in us : u.fn \in In(cr, q) /\ x = <<u.local, u.how>>
          <5>1. CASE x \in S[n]
            BY <5>1, <1>b, <1>n, <1>q, <1>a DEF PendingBooked
          <5>2. CASE x \in C[n]
            BY <5>2, <1>b, <1>n, <1>q DEF PendingBooked
          <5>3. QED  BY <5>1, <5>2, <3>2, <1>o
        <4>2. QED  BY <4>1, <1>a, <1>p
      <3>3. QED  BY <3>1, <3>2, <1>p
    <2>3. QED  BY <2>1, <2>2 DEF PendingBooked
  \* The locals of the lambda, its underscores among them, are flagged with it.
  <1>m. /\ \A l \in L[n] : l \in DOMAIN ds /\ ds[l].fn = q
        /\ \A l \in own : l \in DOMAIN ds /\ ds[l].fn = q
        /\ \A x \in C[n] : x[1] \notin own
        /\ \A x \in C[n] : x[1] \in L[n] \/ x \in outer
        /\ \A x \in S[n] : x[1] \in L[n] \cup own \/ x \in outer
    <2>1. \A l \in L[n] : l \in DOMAIN ds /\ ds[l].fn = q
      BY <1>l, <1>n, <1>q DEF LocalsScoped
    <2>2. \A i \in 1..n : \A l \in L[i] : ds[l].sort # "magic"
      BY <1>l DEF LocalsScoped
    <2>3. \A x \in S[n] \cup C[n] : ds[x[1]].sort = "magic" =>
            x[1] \in DOMAIN ds /\ ds[x[1]].fn = q /\ x \notin C[n]
      BY <2>2, <1>u, <1>n, <1>q DEF UsesScoped
    <2>4. \A l \in own : l \in DOMAIN ds /\ ds[l].fn = q
      BY <2>3, <1>o
    <2>5. \A x \in C[n] : x[1] \notin own
      BY <2>3, <1>o
    <2>6. \A x \in C[n] : x[1] \in L[n] \/ x \in outer
      BY <2>3, <1>o
    <2>7. \A x \in S[n] : x[1] \in L[n] \cup own \/ x \in outer
      BY <1>o
    <2>8. QED  BY <2>1, <2>4, <2>5, <2>6, <2>7
  <1>g. /\ \A x \in S[n] : x[1] \in L[n] \cup own =>
             [local |-> x[1], child |-> FALSE, how |-> x[2]] \in LocalFlags(L[n] \cup own, inner)
        /\ \A x \in C[n] : x[1] \in L[n] \cup own =>
             [local |-> x[1], child |-> TRUE, how |-> x[2]] \in LocalFlags(L[n] \cup own, inner)
        /\ \A f \in LocalFlags(L[n] \cup own, inner) :
             \/ \E x \in S[n] : x[1] \in L[n] \cup own /\ f = [local |-> x[1], child |-> FALSE, how |-> x[2]]
             \/ \E x \in C[n] : x[1] \in L[n] \cup own /\ f = [local |-> x[1], child |-> TRUE, how |-> x[2]]
    BY FlagsOfLocals DEF inner
  <1>5. AllBooked(ds, cr, p, F2, S2, C2, us, fl2)
    <2> SUFFICES ASSUME NEW u \in us
                 PROVE  \/ \E j \in 1..p : Pends(cr, p, F2, S2, C2, u, j)
                        \/ IsFlagged(ds, cr, p, F2, fl2, u)
      BY DEF AllBooked
    <2> DEFINE x == <<u.local, u.how>>
    <2>0. x[1] = u.local /\ x[2] = u.how
      OBVIOUS
    <2>1. CASE \E j \in 1..p : Pends(cr, n, F, S, C, u, j)
      <3>1. PICK j \in 1..p : Pends(cr, n, F, S, C, u, j)
        BY <2>1
      <3>2. Pends(cr, p, F2, S2, C2, u, j)
        BY <3>1, <1>n, <1>p DEF Pends
      <3>3. QED  BY <3>2
    <2>i. Pends(cr, n, F, S, C, u, n) => u.fn \in In(cr, q)
      BY <1>q, <1>a DEF Pends
    <2>2. CASE Pends(cr, n, F, S, C, u, n) /\ u.local \in L[n] \cup own
      <3>1. Flag(ds, u) \in LocalFlags(L[n] \cup own, inner)
        <4>1. CASE u.fn = q /\ x \in S[n]
          BY <4>1, <2>0, <2>2, <1>g, <1>m DEF Flag
        <4>2. CASE u.fn # q /\ x \in C[n]
          BY <4>2, <2>0, <2>2, <1>g, <1>m DEF Flag
        <4>3. QED  BY <4>1, <4>2, <2>2, <1>q DEF Pends
      <3>2. \A i \in 1..p : ds[u.local].fn \in In(cr, F2[i])
        BY <2>2, <1>m, <1>a, <1>p
      <3>3. QED  BY <3>1, <3>2, <1>p DEF IsFlagged
    <2>3. CASE Pends(cr, n, F, S, C, u, n) /\ u.local \notin L[n] \cup own
      <3>1. x \in C2[p]
        <4>1. x \in S[n] \cup C[n]
          BY <2>3 DEF Pends
        <4>2. x \in outer
          BY <4>1, <2>0, <2>3, <1>m
        <4>3. QED  BY <4>2, <1>p, <1>n
      <3>2. u.fn \in In(cr, F2[p]) /\ u.fn # F2[p]
        BY <2>3, <2>i, <1>a, <1>p, <1>n
      <3>3. \A i \in 1..p : F2[i] <= F2[p]
        BY <1>f, <1>p, <1>n
      <3>4. QED  BY <3>1, <3>2, <3>3, <1>n DEF Pends
    <2>4. CASE IsFlagged(ds, cr, n, F, fl, u)
      BY <2>4, <1>n, <1>p DEF IsFlagged
    <2>5. QED  BY <2>1, <2>2, <2>3, <2>4, <1>b, <1>n DEF AllBooked
  <1>6. FlagsBooked(ds, us, fl2)
    <2> SUFFICES ASSUME NEW f \in LocalFlags(L[n] \cup own, inner)  PROVE \E u \in us : f = Flag(ds, u)
      BY <1>b, <1>p DEF FlagsBooked
    <2>1. ASSUME NEW x \in S[n], x[1] \in L[n] \cup own,
                 f = [local |-> x[1], child |-> FALSE, how |-> x[2]]
          PROVE  \E u \in us : f = Flag(ds, u)
      <3>2. PICK u \in us : u.fn = q /\ x = <<u.local, u.how>>
        BY <1>b, <1>n, <1>q DEF PendingBooked
      <3>3. QED  BY <2>1, <3>2, <1>m DEF Flag
    <2>2. ASSUME NEW x \in C[n], x[1] \in L[n] \cup own,
                 f = [local |-> x[1], child |-> TRUE, how |-> x[2]]
          PROVE  \E u \in us : f = Flag(ds, u)
      <3>2. PICK u \in us : u.fn # q /\ x = <<u.local, u.how>>
        BY <1>b, <1>n, <1>q DEF PendingBooked
      <3>3. QED  BY <2>2, <3>2, <1>m DEF Flag
    <2>3. QED  BY <2>1, <2>2, <1>g
  <1>z. MagicPends(ds, n, F, S)
    BY DEF Good
  <1>7. MagicPends(ds, p, F2, S2)
    <2> SUFFICES ASSUME NEW l \in DOMAIN ds, NEW i \in 1..p, ds[l].sort = "magic", F2[i] = ds[l].fn
                 PROVE  \E j \in 1..p : F2[j] = F2[i] /\ \E x \in S2[j] : x[1] = l
      BY DEF MagicPends
    <2>1. i \in 1..n /\ F[i] = ds[l].fn /\ F[i] # q
      BY <1>n, <1>p, <1>f
    <2>2. PICK j \in 1..n : F[j] = F[i] /\ \E x \in S[j] : x[1] = l
      BY <2>1, <1>z DEF MagicPends
    <2>3. j \in 1..p
      BY <2>1, <2>2, <1>n, <1>q
    <2>4. QED  BY <2>2, <2>3, <1>p
  <1>8. LambdasExact(gs2, ds, cr, p, F2, us)
    <2> SUFFICES ASSUME NEW k \in DOMAIN gs, \A i \in 1..p : F2[i] # k
                 PROVE  IsExact(gs2[k], ds, cr, k, us)
      BY <1>p DEF LambdasExact
    <2>1. CASE k # q
      <3>1. \A i \in 1..n : F[i] # k
        BY <2>1, <1>n, <1>p, <1>q
      <3>2. QED  BY <3>1, <2>1, <1>p DEF Good, LambdasExact
    <2>2. CASE k = q
      <3>1. ASSUME NEW x \in outer
            PROVE  \E u \in us : /\ u.fn \in In(cr, q) /\ ds[u.local].fn \notin In(cr, q)
                                 /\ u.local = x[1]
        <4>1. PICK u \in us : u.fn \in In(cr, q) /\ x = <<u.local, u.how>>
          <5>1. CASE x \in S[n]
            BY <5>1, <1>b, <1>n, <1>q, <1>a DEF PendingBooked
          <5>2. CASE x \in C[n]
            BY <5>2, <1>b, <1>n, <1>q DEF PendingBooked
          <5>3. QED  BY <5>1, <5>2, <3>1, <1>o
        <4>2. PICK i \in 1..p : ds[x[1]].fn = F[i]
          BY <1>y
        <4>3. QED  BY <4>1, <4>2, <1>a
      <3>2. ASSUME NEW u \in us, u.fn \in In(cr, q), ds[u.local].fn \notin In(cr, q)
            PROVE  \E x \in outer : x[1] = u.local
        <4>1. ~IsFlagged(ds, cr, n, F, fl, u)
          BY <3>2, <1>n, <1>q DEF IsFlagged
        <4>2. PICK j \in 1..n : Pends(cr, n, F, S, C, u, j)
          BY <4>1, <1>b DEF AllBooked
        <4>3. j = n
          <5>1. q <= F[j]
            BY <3>2, <4>2, <1>n, <1>q DEF Pends
          <5>2. QED  BY <5>1, <1>f, <1>n
        <4>4. <<u.local, u.how>> \in S[n] \cup C[n]
          BY <4>2, <4>3 DEF Pends
        <4>5. u.local \notin L[n] \cup own
          BY <3>2, <1>m, <1>a
        <4>6. <<u.local, u.how>> \in outer
          BY <4>4, <4>5, <1>m
        <4>7. QED  BY <4>6
      <3>3. gs2[q].captured =
              { u.local : u \in { v \in us : v.fn \in In(cr, q) /\ ds[v.local].fn \notin In(cr, q) } }
        BY <3>1, <3>2, <1>p
      <3>4. ASSUME NEW x \in outer, NEW y \in outer, ds[x[1]].name = ds[y[1]].name
            PROVE  x[1] = y[1]
        <4>1. SameVar(ds, x[1], y[1]) /\ SameVar(ds, y[1], x[1])
          BY <3>4, <1>o DEF SameVar
        <4>2. PICK i \in 1..p : /\ x[1] \in L[i]
                                /\ \A j \in 1..p : i < j => \A m \in L[j] : ~SameVar(ds, x[1], m)
          BY <1>y
        <4>3. PICK j \in 1..p : /\ y[1] \in L[j]
                                /\ \A h \in 1..p : j < h => \A m \in L[h] : ~SameVar(ds, y[1], m)
          BY <1>y
        <4>4. ~ (i < j) /\ ~ (j < i)
          BY <4>1, <4>2, <4>3
        <4>5. i = j
          BY <4>4, <1>n
        <4>6. QED  BY <4>1, <4>2, <4>3, <4>5, <1>l, <1>n DEF LocalsScoped
      <3>5. \A l, m \in gs2[q].captured : ds[l].name = ds[m].name => l = m
        BY <3>4, <1>p
      <3>6. \A l \in DOMAIN ds : ds[l].sort = "magic" /\ ds[l].fn = q => l \in own
        <4> SUFFICES ASSUME NEW l \in DOMAIN ds, ds[l].sort = "magic", ds[l].fn = q
                     PROVE  l \in own
          OBVIOUS
        <4>1. PICK j \in 1..n : F[j] = F[n] /\ \E x \in S[j] : x[1] = l
          BY <1>z, <1>n, <1>q DEF MagicPends
        <4>2. j = n
          BY <4>1, <1>n, <1>f, <1>q
        <4>3. l \notin L[n]
          BY <1>l, <1>n DEF LocalsScoped
        <4>4. QED  BY <4>1, <4>2, <4>3, <1>o
      <3>7. gs2[q].magic = { l \in DOMAIN ds : ds[l].sort = "magic" /\ ds[l].fn = q }
        BY <3>6, <1>m, <1>o, <1>p
      <3>8. QED  BY <2>2, <3>3, <3>5, <3>7 DEF IsExact
    <2>3. QED  BY <2>1, <2>2
  <1>9. GivenAgree(gs2, ds)
    <2> SUFFICES ASSUME NEW k \in DOMAIN gs, NEW g \in gs2[k].given
                 PROVE  /\ g.local \in DOMAIN ds
                        /\ g.typed = IF ds[g.local].fn = gs2[k].creator THEN g.local ELSE Outside
      BY <1>p DEF GivenAgree
    <2>1. CASE k = q
      BY <2>1, <1>r
    <2>2. CASE k # q
      BY <2>2, <1>p DEF Good, GivenAgree
    <2>3. QED  BY <2>1, <2>2
  <1>10. QED
    BY <1>1, <1>2, <1>3, <1>4, <1>5, <1>6, <1>7, <1>8, <1>9 DEF Good, p

-----------------------------------------------------------------------------
(* Frames                                                                  *)

Use == Nat \X How
Uses == [self : SUBSET Use, child : SUBSET Use]

BlockFrame == [kind : {"function", "wrapper", "block", "loop", "each", "round", "body"},
               fn : Nat, locals : Seq(Nat), uses : Uses]
IfFrame == [kind : Ifs, fn : Nat, locals : {<<>>}, uses : Uses,
            stage : {"condition", "arms"}, arms : Seq(Uses)]
Frame == BlockFrame \cup IfFrame

\* An if that has not come to its end has the uses of its arms with its own.
ArmsSelf(arms) == UNION { arms[a].self : a \in DOMAIN arms }
ArmsChild(arms) == UNION { arms[a].child : a \in DOMAIN arms }
SelfOf(f) == f.uses.self \cup IF f.kind \in Ifs THEN ArmsSelf(f.arms) ELSE {}
ChildOf(f) == f.uses.child \cup IF f.kind \in Ifs THEN ArmsChild(f.arms) ELSE {}

Fns(fs) == [i \in DOMAIN fs |-> fs[i].fn]
Heads(fs) == { i \in DOMAIN fs : fs[i].kind = "function" }
Locs(fs) == [i \in DOMAIN fs |-> Range(fs[i].locals)]
Selfs(fs) == [i \in DOMAIN fs |-> SelfOf(fs[i])]
Childs(fs) == [i \in DOMAIN fs |-> ChildOf(fs[i])]

\* The same construct, as far into it.
SameShape(f, g) ==
  f.kind = g.kind /\ (f.kind \in Ifs => f.stage = g.stage /\ f.arms = g.arms)

\* What the fields of a frame can be.
LEMMA FrameFields ==
  ASSUME NEW f \in Frame
  PROVE  /\ f.fn \in Nat /\ f.locals \in Seq(Nat) /\ f.uses \in Uses
         /\ f.uses.self \subseteq Use /\ f.uses.child \subseteq Use
         /\ f.kind \in Ifs => /\ f \in IfFrame /\ f.locals = <<>> /\ f.arms \in Seq(Uses)
                              /\ f.stage \in {"condition", "arms"}
         /\ f.kind \notin Ifs => f \in BlockFrame
  <1>1. CASE f \in BlockFrame
    BY <1>1 DEF BlockFrame, Ifs, Uses
  <1>2. CASE f \in IfFrame
    <2>1. f.kind \in Ifs /\ f.fn \in Nat /\ f.locals = <<>> /\ f.uses \in Uses
          /\ f.arms \in Seq(Uses) /\ f.stage \in {"condition", "arms"}
      BY <1>2 DEF IfFrame
    <2>2. f.uses.self \subseteq Use /\ f.uses.child \subseteq Use
      BY <2>1 DEF Uses
    <2>3. f.locals \in Seq(Nat)
      BY <2>1
    <2>4. QED  BY <2>1, <2>2, <2>3, <1>2
  <1>3. QED  BY <1>1, <1>2 DEF Frame

\* A frame that uses some more.
LEMMA FrameUsing ==
  ASSUME NEW f \in Frame, NEW u \in Uses
  PROVE  LET g == [f EXCEPT !.uses = then_merge(@, u)]
         IN /\ g \in Frame /\ SameShape(f, g) /\ g.fn = f.fn /\ g.locals = f.locals
            /\ SelfOf(g) = SelfOf(f) \cup u.self
            /\ ChildOf(g) = ChildOf(f) \cup u.child
  <1> DEFINE g == [f EXCEPT !.uses = then_merge(@, u)]
  <1>1. then_merge(f.uses, u) \in Uses
    BY FrameFields DEF then_merge, Uses
  <1>2. CASE f \in BlockFrame
    <2>1. g \in BlockFrame /\ g.kind = f.kind /\ g.fn = f.fn /\ g.locals = f.locals
          /\ g.uses = then_merge(f.uses, u) /\ f.kind \notin Ifs
      BY <1>1, <1>2 DEF BlockFrame, Ifs
    <2> HIDE DEF g
    <2>2. SelfOf(g) = SelfOf(f) \cup u.self /\ ChildOf(g) = ChildOf(f) \cup u.child
      BY <2>1 DEF SelfOf, ChildOf, then_merge
    <2>3. QED  BY <2>1, <2>2 DEF SameShape, Frame, g
  <1>3. CASE f \in IfFrame
    <2>1. g \in IfFrame /\ g.kind = f.kind /\ g.fn = f.fn /\ g.locals = f.locals
          /\ g.uses = then_merge(f.uses, u) /\ f.kind \in Ifs /\ g.stage = f.stage /\ g.arms = f.arms
      BY <1>1, <1>3 DEF IfFrame, Ifs
    <2> HIDE DEF g
    <2>2. SelfOf(g) = SelfOf(f) \cup u.self /\ ChildOf(g) = ChildOf(f) \cup u.child
      BY <2>1 DEF SelfOf, ChildOf, then_merge
    <2>3. QED  BY <2>1, <2>2 DEF SameShape, Frame, g
  <1>4. QED  BY <1>2, <1>3 DEF Frame

\* An arm uses what the arms use together.
LEMMA UsesOfArms ==
  ASSUME NEW arms, NEW x
  PROVE  /\ x \in ArmsSelf(arms) <=> \E a \in DOMAIN arms : x \in arms[a].self
         /\ x \in ArmsChild(arms) <=> \E a \in DOMAIN arms : x \in arms[a].child
  BY DEF ArmsSelf, ArmsChild

\* An if with one more arm.
LEMMA FrameArming ==
  ASSUME NEW f \in Frame, f.kind \in Ifs, NEW u \in Uses
  PROVE  LET g == [f EXCEPT !.arms = Append(@, u)]
         IN /\ g \in Frame /\ g.kind = f.kind /\ g.stage = f.stage
            /\ g.fn = f.fn /\ g.locals = f.locals /\ g.uses = f.uses /\ g.arms = Append(f.arms, u)
            /\ SelfOf(g) = SelfOf(f) \cup u.self
            /\ ChildOf(g) = ChildOf(f) \cup u.child
  <1> DEFINE g == [f EXCEPT !.arms = Append(@, u)]
  <1>1. f \in IfFrame /\ f.arms \in Seq(Uses)
    BY FrameFields
  <1>2. Append(f.arms, u) \in Seq(Uses)
    BY <1>1
  <1>3. g \in IfFrame /\ g.kind = f.kind /\ g.fn = f.fn /\ g.locals = f.locals /\ g.uses = f.uses
        /\ g.stage = f.stage /\ g.arms = Append(f.arms, u)
    BY <1>1, <1>2 DEF IfFrame
  <1> HIDE DEF g
  <1> DEFINE last == Len(f.arms) + 1
             others == DOMAIN f.arms
  <1>4. /\ DOMAIN g.arms = others \cup {last}
        /\ \A a \in others : g.arms[a] = f.arms[a]
        /\ g.arms[last] = u
    BY <1>1, <1>3
  <1> HIDE DEF last
  <1>5. /\ ArmsSelf(g.arms) = ArmsSelf(f.arms) \cup u.self
        /\ ArmsChild(g.arms) = ArmsChild(f.arms) \cup u.child
    <2>1. \A x : x \in ArmsSelf(g.arms) <=> x \in ArmsSelf(f.arms) \cup u.self
      BY <1>4, UsesOfArms
    <2>2. \A x : x \in ArmsChild(g.arms) <=> x \in ArmsChild(f.arms) \cup u.child
      BY <1>4, UsesOfArms
    <2>3. QED  BY <2>1, <2>2
  <1>6. SelfOf(g) = SelfOf(f) \cup u.self /\ ChildOf(g) = ChildOf(f) \cup u.child
    BY <1>3, <1>5 DEF SelfOf, ChildOf
  <1>7. QED  BY <1>3, <1>6 DEF Frame, g

\* The blocks and ifs around, with another innermost one, or with one more or less.
LEMMA WithTop ==
  ASSUME NEW fs \in Seq(Frame), fs # <<>>, NEW f \in Frame
  PROVE  LET t == Append(Front(fs), f)
         IN /\ t \in Seq(Frame) /\ Len(t) = Len(fs) /\ Len(fs) \in Nat /\ Len(fs) > 0
            /\ DOMAIN t = 1..Len(fs) /\ DOMAIN fs = 1..Len(fs)
            /\ t[Len(fs)] = f /\ \A i \in 1..Len(fs) : i # Len(fs) => t[i] = fs[i]
  <1> DEFINE n == Len(fs)
             front == Front(fs)
  <1>1. n \in Nat /\ n > 0 /\ DOMAIN fs = 1..n /\ \A i \in 1..n - 1 : fs[i] \in Frame
    OBVIOUS
  <1>2. /\ front \in Seq(Frame) /\ Len(front) = n - 1
        /\ \A i \in 1..n - 1 : front[i] = fs[i]
    <2>1. /\ SubSeq(fs, 1, n - 1) \in Seq(Frame)
          /\ Len(SubSeq(fs, 1, n - 1)) = IF 1 <= n - 1 THEN (n - 1) - 1 + 1 ELSE 0
          /\ \A i \in 1..(n - 1) - 1 + 1 : SubSeq(fs, 1, n - 1)[i] = fs[1 + i - 1]
      BY <1>1, SubSeqProperties
    <2>2. QED  BY <1>1, <2>1 DEF Front
  <1> DEFINE t == Append(front, f)
  <1> HIDE DEF n, front
  <1>3. /\ t \in Seq(Frame) /\ Len(t) = n /\ DOMAIN t = 1..n
        /\ t[n] = f /\ \A i \in 1..n : i # n => t[i] = fs[i]
    BY <1>1, <1>2
  <1> HIDE DEF t
  <1>4. QED  BY <1>1, <1>3 DEF n, front, t

\* One more frame.
LEMMA Pushed ==
  ASSUME NEW fs \in Seq(Frame), NEW f \in Frame
  PROVE  LET t == Append(fs, f)
         IN /\ t \in Seq(Frame) /\ Len(t) = Len(fs) + 1 /\ Len(fs) \in Nat
            /\ DOMAIN t = 1..Len(fs) + 1 /\ DOMAIN fs = 1..Len(fs)
            /\ t[Len(fs) + 1] = f /\ \A i \in 1..Len(fs) : t[i] = fs[i]
  OBVIOUS

\* All frames but the innermost.
LEMMA Popped ==
  ASSUME NEW fs \in Seq(Frame), fs # <<>>
  PROVE  LET t == Front(fs)
         IN /\ t \in Seq(Frame) /\ Len(t) = Len(fs) - 1 /\ Len(fs) \in Nat /\ Len(fs) > 0
            /\ DOMAIN t = 1..Len(fs) - 1 /\ DOMAIN fs = 1..Len(fs)
            /\ \A i \in 1..Len(fs) - 1 : t[i] = fs[i]
            /\ Last(fs) = fs[Len(fs)] /\ Last(fs) \in Frame
  <1> DEFINE n == Len(fs)
  <1>1. n \in Nat /\ n > 0 /\ DOMAIN fs = 1..n /\ fs[n] \in Frame /\ \A i \in 1..n - 1 : fs[i] \in Frame
    OBVIOUS
  <1>2. /\ SubSeq(fs, 1, n - 1) \in Seq(Frame)
        /\ Len(SubSeq(fs, 1, n - 1)) = IF 1 <= n - 1 THEN (n - 1) - 1 + 1 ELSE 0
        /\ \A i \in 1..(n - 1) - 1 + 1 : SubSeq(fs, 1, n - 1)[i] = fs[1 + i - 1]
    BY <1>1, SubSeqProperties
  <1>3. QED  BY <1>1, <1>2 DEF Front, Last

\* Uses that come up are the innermost frame's.
LEMMA Received ==
  ASSUME NEW fs \in Seq(Frame), fs # <<>>, NEW u \in Uses
  PROVE  LET t == Receive(fs, u)
             n == Len(fs)
             arms == fs[n].kind \in Ifs /\ fs[n].stage = "arms"
         IN /\ t \in Seq(Frame) /\ Len(t) = n /\ DOMAIN t = 1..n /\ n \in 1..n
            /\ t[n].kind = fs[n].kind /\ t[n].fn = fs[n].fn /\ t[n].locals = fs[n].locals
            /\ SelfOf(t[n]) = SelfOf(fs[n]) \cup u.self
            /\ ChildOf(t[n]) = ChildOf(fs[n]) \cup u.child
            /\ \A i \in 1..n : i # n => t[i] = fs[i]
            /\ ~arms => SameShape(fs[n], t[n])
            /\ arms => t[n].stage = "arms" /\ t[n].arms = Append(fs[n].arms, u)
  <1> DEFINE n == Len(fs)
             t == Receive(fs, u)
             f == [fs[n] EXCEPT !.arms = Append(@, u)]
             g == [fs[n] EXCEPT !.uses = then_merge(@, u)]
  <1>1. fs[n] \in Frame /\ Last(fs) = fs[n] /\ n \in 1..n
    BY Popped
  <1>2. CASE fs[n].kind \in Ifs /\ fs[n].stage = "arms"
    <2>1. t = Append(Front(fs), f)
      BY <1>1, <1>2 DEF Receive
    <2>2. f \in Frame
      BY <1>1, <1>2, FrameArming
    <2> HIDE DEF t
    <2>3. /\ t \in Seq(Frame) /\ Len(t) = n /\ DOMAIN t = 1..n
          /\ t[n] = f /\ \A i \in 1..n : i # n => t[i] = fs[i]
      BY <2>1, <2>2, WithTop
    <2>4. /\ f.kind = fs[n].kind /\ f.stage = fs[n].stage
          /\ f.fn = fs[n].fn /\ f.locals = fs[n].locals /\ f.arms = Append(fs[n].arms, u)
          /\ SelfOf(f) = SelfOf(fs[n]) \cup u.self
          /\ ChildOf(f) = ChildOf(fs[n]) \cup u.child
      BY <1>1, <1>2, FrameArming
    <2> HIDE DEF f
    <2>5. QED  BY <2>3, <2>4, <1>1, <1>2 DEF t
  <1>3. CASE ~(fs[n].kind \in Ifs /\ fs[n].stage = "arms")
    <2>1. t = Append(Front(fs), g)
      BY <1>1, <1>3 DEF Receive
    <2>2. g \in Frame
      BY <1>1, FrameUsing
    <2> HIDE DEF t
    <2>3. /\ t \in Seq(Frame) /\ Len(t) = n /\ DOMAIN t = 1..n
          /\ t[n] = g /\ \A i \in 1..n : i # n => t[i] = fs[i]
      BY <2>1, <2>2, WithTop
    <2>4. /\ SameShape(fs[n], g) /\ g.fn = fs[n].fn /\ g.locals = fs[n].locals
          /\ SelfOf(g) = SelfOf(fs[n]) \cup u.self
          /\ ChildOf(g) = ChildOf(fs[n]) \cup u.child
      BY <1>1, FrameUsing
    <2> HIDE DEF g
    <2>5. QED  BY <2>3, <2>4, <1>1, <1>3 DEF t, SameShape
  <1>4. QED  BY <1>2, <1>3

-----------------------------------------------------------------------------
(* The invariant, of the state                                             *)

LocalVar == [name : Name \cup Member, sort : Sorts, fn : Nat]
Fn == [creator : Nat, params : Nat, captured : SUBSET Nat, magic : SUBSET Nat,
       given : SUBSET [local : Nat, typed : Nat]]

Creators(gs) == [k \in DOMAIN gs |-> gs[k].creator]

Scouted(ds, gs, fs, us, fl) ==
  /\ ds \in Seq(LocalVar) /\ gs \in Seq(Fn) /\ fs \in Seq(Frame)
  /\ Good(ds, gs, Creators(gs), Len(fs), Fns(fs), Heads(fs), Locs(fs), Selfs(fs), Childs(fs),
          us, fl)

\* F, H, L, S and C of the invariant are the fields of the frames.
LEMMA Views ==
  ASSUME NEW fs \in Seq(Frame)
  PROVE  /\ Len(fs) \in Nat /\ DOMAIN fs = 1..Len(fs) /\ Heads(fs) \subseteq 1..Len(fs)
         /\ \A i \in 1..Len(fs) :
              /\ Fns(fs)[i] = fs[i].fn /\ Locs(fs)[i] = Range(fs[i].locals)
              /\ Selfs(fs)[i] = SelfOf(fs[i]) /\ Childs(fs)[i] = ChildOf(fs[i])
              /\ i \in Heads(fs) <=> fs[i].kind = "function"
              /\ fs[i] \in Frame /\ Range(fs[i].locals) \subseteq Nat
  <1>1. Len(fs) \in Nat /\ DOMAIN fs = 1..Len(fs) /\ \A i \in 1..Len(fs) : fs[i] \in Frame
    OBVIOUS
  <1>2. \A i \in 1..Len(fs) : Range(fs[i].locals) \subseteq Nat
    <2> TAKE i \in 1..Len(fs)
    <2>1. fs[i].locals \in Seq(Nat)
      BY <1>1, FrameFields
    <2>2. QED  BY <2>1 DEF Range
  <1>3. QED  BY <1>1, <1>2 DEF Fns, Heads, Locs, Selfs, Childs

\* What the invariant says of the frames themselves.
LEMMA ScoutedFacts ==
  ASSUME NEW ds, NEW gs, NEW fs, NEW us, NEW fl, Scouted(ds, gs, fs, us, fl)
  PROVE  LET n == Len(fs) IN
         /\ n \in Nat /\ n > 0 /\ n \in 1..n /\ fs # <<>> /\ Last(fs) = fs[n] /\ Last(fs) \in Frame
         /\ fs[1].kind = "function" /\ fs[1].fn = 1
         /\ \A i \in 1..n : fs[i].fn \in DOMAIN gs /\ fs[i].fn \in Nat
         /\ \A i, j \in 1..n : i <= j => fs[i].fn <= fs[j].fn
         /\ \A i, j \in 1..n : i < j /\ fs[j].kind = "function" => fs[i].fn < fs[j].fn
         /\ \A i \in 2..n : IF fs[i].kind = "function" THEN gs[fs[i].fn].creator = fs[i - 1].fn
                            ELSE fs[i].fn = fs[i - 1].fn
         /\ \A i \in 1..n : \A l \in Range(fs[i].locals) :
              /\ l \in DOMAIN ds /\ l \in Nat /\ l > 0
              /\ ds[l].fn = fs[i].fn /\ ds[l].sort # "magic"
         /\ DOMAIN ds = 1..Len(ds) /\ Len(ds) \in Nat
         /\ DOMAIN gs = 1..Len(gs) /\ Len(gs) \in Nat /\ DOMAIN Creators(gs) = DOMAIN gs
  <1> DEFINE n == Len(fs)
             cr == Creators(gs)
             F == Fns(fs)
  <1>1. fs \in Seq(Frame) /\ ds \in Seq(LocalVar) /\ gs \in Seq(Fn)
    BY DEF Scouted
  <1>2. /\ DOMAIN ds = 1..Len(ds) /\ Len(ds) \in Nat
        /\ DOMAIN gs = 1..Len(gs) /\ Len(gs) \in Nat /\ DOMAIN cr = DOMAIN gs
        /\ \A k \in DOMAIN gs : cr[k] = gs[k].creator
    BY <1>1 DEF Creators
  <1>3. Chain(cr, n, F, Heads(fs)) /\ LocalsScoped(ds, cr, n, F, Locs(fs))
    BY DEF Scouted, Good
  <1>4. /\ n \in Nat /\ DOMAIN fs = 1..n
        /\ \A i \in 1..n :
              /\ F[i] = fs[i].fn /\ Locs(fs)[i] = Range(fs[i].locals)
              /\ i \in Heads(fs) <=> fs[i].kind = "function"
    BY <1>1, Views
  <1> HIDE DEF F, cr
  <1>5. n > 0 /\ n \in 1..n /\ 1 \in 1..n
    BY <1>3, <1>4 DEF Chain
  <1>6. fs # <<>> /\ Last(fs) = fs[n] /\ Last(fs) \in Frame
    BY <1>1, <1>5 DEF Last
  <1>7. fs[1].kind = "function" /\ fs[1].fn = 1
    BY <1>3, <1>4, <1>5 DEF Chain
  <1>8. \A i \in 1..n : fs[i].fn \in DOMAIN gs /\ fs[i].fn \in Nat
    BY <1>2, <1>3, <1>4 DEF Chain
  <1>9. /\ \A i, j \in 1..n : i <= j => fs[i].fn <= fs[j].fn
        /\ \A i, j \in 1..n : i < j /\ fs[j].kind = "function" => fs[i].fn < fs[j].fn
    BY <1>3, <1>4 DEF Chain
  <1>10. ASSUME NEW i \in 2..n
         PROVE  IF fs[i].kind = "function" THEN gs[fs[i].fn].creator = fs[i - 1].fn
                ELSE fs[i].fn = fs[i - 1].fn
    <2>1. i \in 1..n /\ i - 1 \in 1..n
      BY <1>4
    <2>2. IF i \in Heads(fs) THEN cr[F[i]] = F[i - 1] ELSE F[i] = F[i - 1]
      BY <1>3 DEF Chain
    <2>3. QED  BY <2>1, <2>2, <1>2, <1>4, <1>8
  <1>11. \A i \in 1..n : \A l \in Range(fs[i].locals) :
              /\ l \in DOMAIN ds /\ l \in Nat /\ l > 0
              /\ ds[l].fn = fs[i].fn /\ ds[l].sort # "magic"
    BY <1>2, <1>3, <1>4 DEF LocalsScoped
  <1>12. QED  BY <1>2, <1>4, <1>5, <1>6, <1>7, <1>8, <1>9, <1>10, <1>11 DEF cr

-----------------------------------------------------------------------------
(* Lookups                                                                 *)

\* Min, on a set of indices.
LEMMA SmallestIndex ==
  ASSUME NEW S \in SUBSET Nat, S # {}
  PROVE  Min(S) \in S /\ \A j \in S : Min(S) <= j
  <1>1. PICK i \in S : \A j \in S : <<j, i>> \notin OpToRel(<, Nat)
    BY WFMin, NatLessThanWellFounded, Zenon
  <1>2. \A j \in S : ~ (j < i)
    BY <1>1 DEF OpToRel
  <1>3. \A j \in S : i <= j
    BY <1>2
  <1>4. QED  BY <1>3 DEF Min

\* Max, on a finite set of indices.
LEMMA LargestIndex ==
  ASSUME NEW b \in Nat, NEW S \in SUBSET (1..b), S # {}
  PROVE  Max(S) \in S /\ \A j \in S : j <= Max(S)
  <1> DEFINE T == { i \in Nat : b - i \in S }
  <1>1. T # {}
    <2>1. PICK j \in S : TRUE
      OBVIOUS
    <2>2. b - j \in Nat /\ b - (b - j) = j
      OBVIOUS
    <2>3. b - j \in T
      BY <2>2
    <2>4. QED  BY <2>3
  <1>2. Min(T) \in T /\ \A i \in T : Min(T) <= i
    <2>1. T \in SUBSET Nat
      OBVIOUS
    <2> HIDE DEF T
    <2>2. QED  BY <1>1, <2>1, SmallestIndex
  <1>3. b - Min(T) \in S /\ Min(T) \in Nat
    BY <1>2
  <1>4. \A j \in S : j <= b - Min(T)
    <2> TAKE j \in S
    <2>1. j \in Nat /\ j <= b /\ b - j \in Nat /\ b - (b - j) = j
      OBVIOUS
    <2>2. b - j \in T
      BY <2>1
    <2>3. Min(T) <= b - j
      BY <1>2, <2>2
    <2> HIDE DEF T
    <2>4. QED  BY <2>1, <2>3, <1>3
  <1> HIDE DEF T
  <1>5. \A j \in S : b - Min(T) >= j
    BY <1>3, <1>4
  <1>6. Max(S) \in S /\ \A j \in S : Max(S) >= j
    BY <1>3, <1>5 DEF Max
  <1>7. QED  BY <1>6

IsCalled(l, n, sort) == decls[l].name = n /\ decls[l].sort = sort

\* Found has the places of the locals that are called this.
LEMMA FoundPlaces ==
  ASSUME NEW fs \in Seq(Frame), NEW n, NEW sort
  PROVE  /\ \A p \in Found(fs, n, sort) :
              /\ p = <<p[1], p[2]>> /\ p[1] \in 1..Len(fs) /\ p[2] \in DOMAIN fs[p[1]].locals
              /\ p[2] \in Nat /\ IsCalled(fs[p[1]].locals[p[2]], n, sort)
         /\ \A i \in 1..Len(fs) : \A j \in DOMAIN fs[i].locals :
              IsCalled(fs[i].locals[j], n, sort) => <<i, j>> \in Found(fs, n, sort)
  <1>1. DOMAIN fs = 1..Len(fs) /\ \A i \in 1..Len(fs) : fs[i] \in Frame
    OBVIOUS
  <1>2. \A i \in 1..Len(fs) : fs[i].locals \in Seq(Nat) /\ DOMAIN fs[i].locals \subseteq Nat
    <2> TAKE i \in 1..Len(fs)
    <2>1. fs[i].locals \in Seq(Nat)
      BY <1>1, FrameFields
    <2>2. QED  BY <2>1
  <1>3. \A p : p \in Found(fs, n, sort) <=>
          \E i \in 1..Len(fs) : \E j \in DOMAIN fs[i].locals :
            p = <<i, j>> /\ IsCalled(fs[i].locals[j], n, sort)
    BY <1>1 DEF Found, IsCalled
  <1>4. QED  BY <1>2, <1>3

\* The postparser's lookup finds one called so, and nothing nearer is.
LEMMA FoundLocal ==
  ASSUME NEW fs \in Seq(Frame), NEW n, NEW sort, Found(fs, n, sort) # {}
  PROVE  LET l == find_variable(fs, n, sort)
         IN \E i \in 1..Len(fs) :
              /\ l \in Range(fs[i].locals) /\ IsCalled(l, n, sort)
              /\ \A k \in i + 1..Len(fs) : \A m \in Range(fs[k].locals) : ~IsCalled(m, n, sort)
  <1> DEFINE blocks == { p[1] : p \in Found(fs, n, sort) }
             nearest == Max(blocks)
             places == { p[2] : p \in { q \in Found(fs, n, sort) : q[1] = nearest } }
             l == find_variable(fs, n, sort)
  <1>1. blocks \in SUBSET (1..Len(fs)) /\ blocks # {} /\ Len(fs) \in Nat
    BY FoundPlaces
  <1>2. nearest \in blocks /\ \A i \in blocks : i <= nearest
    <2> HIDE DEF blocks
    <2>1. QED  BY <1>1, LargestIndex
  <1>3. l = fs[nearest].locals[Min(places)]
    BY DEF find_variable
  <1> HIDE DEF l, nearest
  <1>4. places \in SUBSET Nat /\ places # {}
    BY <1>2, FoundPlaces
  <1>5. Min(places) \in places
    <2> HIDE DEF places
    <2>1. QED  BY <1>4, SmallestIndex
  <1>6. nearest \in 1..Len(fs)
    BY <1>1, <1>2
  <1>7. PICK q \in Found(fs, n, sort) : q[1] = nearest /\ q[2] = Min(places)
    BY <1>5
  <1> HIDE DEF places
  <1>8. Min(places) \in DOMAIN fs[nearest].locals /\ IsCalled(l, n, sort)
    BY <1>3, <1>7, FoundPlaces
  <1>9. l \in Range(fs[nearest].locals)
    BY <1>3, <1>8 DEF Range
  <1>10. ASSUME NEW k \in nearest + 1..Len(fs), NEW m \in Range(fs[k].locals), IsCalled(m, n, sort)
         PROVE  FALSE
    <2>1. k \in 1..Len(fs) /\ ~ (k <= nearest)
      BY <1>1, <1>6
    <2>2. PICK j \in DOMAIN fs[k].locals : m = fs[k].locals[j]
      BY DEF Range
    <2>3. <<k, j>> \in Found(fs, n, sort)
      BY <2>1, <2>2, <1>10, FoundPlaces
    <2>4. <<k, j>>[1] \in blocks
      BY <2>3
    <2>5. QED  BY <2>1, <2>4, <1>2
  <1>11. QED  BY <1>6, <1>8, <1>9, <1>10 DEF l

\* What the typing pass looks among.
OwnCalled(fs, n, sort) ==
  { l \in UNION { Range(fs[i].locals) : i \in { k \in 1..Len(fs) : fs[k].fn = Last(fs).fn } } :
      IsCalled(l, n, sort) }

\* get_variable takes the oldest of those.
LEMMA TypedLookup ==
  ASSUME NEW fs \in Seq(Frame), NEW n, NEW sort
  PROVE  get_variable(fs, n, sort) =
           IF OwnCalled(fs, n, sort) = {} THEN Outside ELSE Min(OwnCalled(fs, n, sort))
  <1> DEFINE own == { fs[p[1]].locals[p[2]] :
                        p \in { q \in Found(fs, n, sort) : fs[q[1]].fn = Last(fs).fn } }
  <1>1. ASSUME NEW l \in own  PROVE l \in OwnCalled(fs, n, sort)
    <2>1. PICK p \in Found(fs, n, sort) : fs[p[1]].fn = Last(fs).fn /\ l = fs[p[1]].locals[p[2]]
      BY <1>1
    <2>2. p[1] \in 1..Len(fs) /\ p[2] \in DOMAIN fs[p[1]].locals /\ IsCalled(l, n, sort)
      BY <2>1, FoundPlaces
    <2>3. l \in Range(fs[p[1]].locals)
      BY <2>1, <2>2 DEF Range
    <2>4. QED  BY <2>1, <2>2, <2>3 DEF OwnCalled
  <1>2. ASSUME NEW l \in OwnCalled(fs, n, sort)  PROVE l \in own
    <2>1. PICK i \in 1..Len(fs) : fs[i].fn = Last(fs).fn /\ l \in Range(fs[i].locals)
      BY <1>2 DEF OwnCalled
    <2>2. PICK j \in DOMAIN fs[i].locals : l = fs[i].locals[j]
      BY <2>1 DEF Range
    <2>3. IsCalled(l, n, sort)
      BY <1>2 DEF OwnCalled
    <2>4. <<i, j>> \in Found(fs, n, sort)
      BY <2>2, <2>3, FoundPlaces
    <2>5. fs[<<i, j>>[1]].fn = Last(fs).fn /\ l = fs[<<i, j>>[1]].locals[<<i, j>>[2]]
      BY <2>1, <2>2
    <2>6. QED  BY <2>4, <2>5
  <1>3. own = OwnCalled(fs, n, sort)
    BY <1>1, <1>2
  <1>4. get_variable(fs, n, sort) = IF own = {} THEN Outside ELSE Min(own)
    BY DEF get_variable
  <1> HIDE DEF own
  <1>5. QED  BY <1>3, <1>4

\* Of a local that is in scope and not hidden between: the same one if it is the function's
\* own, else none.
LEMMA TypedOfScoped ==
  ASSUME NEW fs \in Seq(Frame), fs # <<>>, NEW cr,
         LocalsScoped(decls, cr, Len(fs), Fns(fs), Locs(fs)),
         \A i, j \in 1..Len(fs) : i <= j => fs[i].fn <= fs[j].fn,
         NEW i \in 1..Len(fs), NEW l \in Range(fs[i].locals), decls[l].sort \in {"var", "member"},
         \A k \in 1..Len(fs) : i < k /\ fs[i].fn # fs[k].fn =>
           \A m \in Range(fs[k].locals) : ~SameVar(decls, l, m)
  PROVE  get_variable(fs, decls[l].name, decls[l].sort) =
           IF decls[l].fn = Last(fs).fn THEN l ELSE Outside
  <1> DEFINE n == Len(fs)
             own == OwnCalled(fs, decls[l].name, decls[l].sort)
  <1>1. /\ n \in Nat /\ n \in 1..n /\ Last(fs) = fs[n]
        /\ \A k \in 1..n : Fns(fs)[k] = fs[k].fn /\ Locs(fs)[k] = Range(fs[k].locals)
                           /\ fs[k].fn \in Nat /\ Range(fs[k].locals) \subseteq Nat
    BY Views, Popped, FrameFields
  <1>2. /\ decls[l].fn = fs[i].fn
        /\ \A j, k \in 1..n : fs[j].fn = fs[k].fn =>
             \A a \in Range(fs[j].locals), b \in Range(fs[k].locals) : SameVar(decls, a, b) => a = b
    BY <1>1 DEF LocalsScoped
  <1>3. \A m \in own : /\ SameVar(decls, l, m)
                       /\ \E k \in 1..n : fs[k].fn = fs[n].fn /\ m \in Range(fs[k].locals)
    BY <1>1 DEF OwnCalled, IsCalled, SameVar
  <1>4. get_variable(fs, decls[l].name, decls[l].sort) = IF own = {} THEN Outside ELSE Min(own)
    BY TypedLookup
  <1>5. CASE decls[l].fn = Last(fs).fn
    <2>1. l \in own
      BY <1>1, <1>2, <1>5 DEF OwnCalled, IsCalled
    <2>2. ASSUME NEW m \in own  PROVE m = l
      <3>1. PICK k \in 1..n : fs[k].fn = fs[n].fn /\ m \in Range(fs[k].locals)
        BY <1>3
      <3>2. fs[i].fn = fs[k].fn
        BY <3>1, <1>1, <1>2, <1>5
      <3>3. SameVar(decls, l, m)
        BY <1>3
      <3>4. QED  BY <3>1, <3>2, <3>3, <1>2
    <2>3. own = {l} /\ l \in Nat
      BY <2>1, <2>2, <1>1
    <2> HIDE DEF own
    <2>4. Min(own) \in own
      BY <2>3, SmallestIndex
    <2>5. QED  BY <2>3, <2>4, <1>4, <1>5
  <1>6. CASE decls[l].fn # Last(fs).fn
    <2>1. ASSUME NEW m \in own  PROVE FALSE
      <3>1. PICK k \in 1..n : fs[k].fn = fs[n].fn /\ m \in Range(fs[k].locals)
        BY <1>3
      <3>2. fs[i].fn # fs[k].fn
        BY <3>1, <1>1, <1>2, <1>6
      <3>3. ~ (i < k)
        BY <3>1, <3>2, <1>3
      <3>4. k <= i /\ i <= n
        BY <3>3, <1>1
      <3>5. fs[k].fn <= fs[i].fn /\ fs[i].fn <= fs[n].fn
        BY <3>4, <1>1
      <3>6. QED  BY <3>1, <3>2, <3>5, <1>1
    <2>2. own = {}
      BY <2>1
    <2> HIDE DEF own
    <2>3. QED  BY <2>2, <1>4, <1>6
  <1>7. QED  BY <1>5, <1>6

\* The typing pass finds none among the function's own only when there is none.
LEMMA TypedOutside ==
  ASSUME NEW gs, NEW fs, NEW us, NEW fl, Scouted(decls, gs, fs, us, fl),
         NEW n, NEW sort, get_variable(fs, n, sort) = Outside
  PROVE  \A i \in 1..Len(fs) : fs[i].fn = Last(fs).fn =>
           \A l \in Range(fs[i].locals) : ~IsCalled(l, n, sort)
  <1> DEFINE own == OwnCalled(fs, n, sort)
  <1>1. \A l \in own : l \in Nat /\ l > 0
    BY ScoutedFacts DEF OwnCalled
  <1>2. get_variable(fs, n, sort) = IF own = {} THEN Outside ELSE Min(own)
    BY TypedLookup DEF Scouted
  <1>3. own = {}
    <2> HIDE DEF own
    <2> SUFFICES ASSUME own # {}  PROVE FALSE
      OBVIOUS
    <2>1. own \in SUBSET Nat
      BY <1>1
    <2>2. Min(own) \in own
      BY <2>1, SmallestIndex
    <2>3. Min(own) = 0
      BY <1>2 DEF Outside
    <2>4. QED  BY <2>2, <2>3, <1>1
  <1>4. QED  BY <1>3 DEF OwnCalled

-----------------------------------------------------------------------------
(* What keeps the invariant, by the frames                                 *)

\* GoodExtends, of the frames.
LEMMA ScoutedExtends ==
  ASSUME NEW ds, NEW gs, NEW fs, NEW us, NEW fl, Scouted(ds, gs, fs, us, fl),
         NEW ds2 \in Seq(LocalVar), NEW fs2 \in Seq(Frame), Len(fs2) = Len(fs),
         \A i \in 1..Len(fs) : /\ fs2[i].fn = fs[i].fn /\ ChildOf(fs2[i]) = ChildOf(fs[i])
                               /\ fs2[i].kind = fs[i].kind,
         NEW h, NEW A, NEW marked, NEW us2,
         Extends(ds, Len(fs), Fns(fs), Locs(fs), Selfs(fs), us,
                 ds2, h, A, Locs(fs2), marked, Selfs(fs2), us2)
  PROVE  Scouted(ds2, gs, fs2, us2, fl)
  <1>1. fs \in Seq(Frame) /\ DOMAIN fs = 1..Len(fs) /\ DOMAIN fs2 = 1..Len(fs)
    BY DEF Scouted
  <1>2. Fns(fs2) = Fns(fs)
    BY <1>1 DEF Fns
  <1>3. Heads(fs2) = Heads(fs)
    BY <1>1 DEF Heads
  <1>4. Childs(fs2) = Childs(fs)
    BY <1>1 DEF Childs
  <1>5. Good(ds, gs, Creators(gs), Len(fs), Fns(fs), Heads(fs), Locs(fs), Selfs(fs), Childs(fs), us, fl)
    BY DEF Scouted
  <1>6. DOMAIN gs = DOMAIN Creators(gs)
    BY DEF Creators
  <1>7. Good(ds2, gs, Creators(gs), Len(fs), Fns(fs), Heads(fs), Locs(fs2), Selfs(fs2), Childs(fs), us2, fl)
    BY <1>5, <1>6, GoodExtends
  <1>8. QED  BY <1>2, <1>3, <1>4, <1>7 DEF Scouted

\* The innermost frame with these uses marked.
LEMMA MarkedFrames ==
  ASSUME NEW fs \in Seq(Frame), fs # <<>>, NEW marked \in SUBSET Use
  PROVE  LET t == Marked(fs, marked)
             n == Len(fs)
         IN /\ t \in Seq(Frame) /\ Len(t) = n /\ DOMAIN t = 1..n /\ n \in 1..n
            /\ \A i \in 1..n : /\ SameShape(fs[i], t[i]) /\ t[i].fn = fs[i].fn /\ t[i].locals = fs[i].locals
                               /\ ChildOf(t[i]) = ChildOf(fs[i])
                               /\ SelfOf(t[i]) = IF i = n THEN SelfOf(fs[i]) \cup marked ELSE SelfOf(fs[i])
                               /\ i # n => t[i] = fs[i]
            /\ t[n].uses = then_merge(fs[n].uses, [self |-> marked, child |-> {}])
            /\ t[n] \in Frame
  <1> DEFINE n == Len(fs)
             t == Marked(fs, marked)
             u == [self |-> marked, child |-> {}]
             g == [fs[n] EXCEPT !.uses = then_merge(@, u)]
  <1>1. fs[n] \in Frame /\ Last(fs) = fs[n] /\ n \in 1..n /\ n \in Nat
    BY Popped
  <1>2. t = Append(Front(fs), g)
    BY <1>1 DEF Marked
  <1>3. u \in Uses /\ u.self = marked /\ u.child = {}
    BY DEF Uses
  <1> HIDE DEF u
  <1>4. /\ g \in Frame /\ SameShape(fs[n], g) /\ g.fn = fs[n].fn /\ g.locals = fs[n].locals
        /\ SelfOf(g) = SelfOf(fs[n]) \cup u.self /\ ChildOf(g) = ChildOf(fs[n]) \cup u.child
    BY <1>1, <1>3, FrameUsing
  <1>5. g.uses = then_merge(fs[n].uses, u)
    <2>1. fs[n] \in BlockFrame \/ fs[n] \in IfFrame
      BY <1>1 DEF Frame
    <2>2. QED  BY <2>1 DEF BlockFrame, IfFrame
  <1> HIDE DEF t, g
  <1>6. /\ t \in Seq(Frame) /\ Len(t) = n /\ DOMAIN t = 1..n
        /\ t[n] = g /\ \A i \in 1..n : i # n => t[i] = fs[i]
    BY <1>2, <1>4, WithTop
  <1>7. ASSUME NEW i \in 1..n
        PROVE  /\ SameShape(fs[i], t[i]) /\ t[i].fn = fs[i].fn /\ t[i].locals = fs[i].locals
               /\ ChildOf(t[i]) = ChildOf(fs[i])
               /\ SelfOf(t[i]) = IF i = n THEN SelfOf(fs[i]) \cup marked ELSE SelfOf(fs[i])
    <2>1. CASE i = n
      BY <2>1, <1>3, <1>4, <1>6
    <2>2. CASE i # n
      BY <2>2, <1>6 DEF SameShape
    <2>3. QED  BY <2>1, <2>2
  <1>8. QED  BY <1>1, <1>4, <1>5, <1>6, <1>7 DEF t, u

\* A local that is in scope, and the nearest of its name.
IsNearest(fs, l) ==
  \E i \in 1..Len(fs) : /\ l \in Range(fs[i].locals) /\ decls[l].sort \in {"var", "member"}
                        /\ \A k \in i + 1..Len(fs) :
                             \A m \in Range(fs[k].locals) : ~SameVar(decls, l, m)

\* NamesAgree for one use: the typing pass finds the nearest local too.
LEMMA NearestIsTyped ==
  ASSUME NEW gs, NEW fs, NEW us, NEW fl, Scouted(decls, gs, fs, us, fl), NEW l, IsNearest(fs, l)
  PROVE  /\ get_variable(fs, decls[l].name, decls[l].sort)
              = IF decls[l].fn = Last(fs).fn THEN l ELSE Outside
         /\ l \in DOMAIN decls
  <1> DEFINE n == Len(fs)
  <1>1. PICK i \in 1..n : /\ l \in Range(fs[i].locals) /\ decls[l].sort \in {"var", "member"}
                          /\ \A k \in i + 1..n : \A m \in Range(fs[k].locals) : ~SameVar(decls, l, m)
    BY DEF IsNearest
  <1>2. /\ fs \in Seq(Frame) /\ fs # <<>> /\ n \in Nat
        /\ LocalsScoped(decls, Creators(gs), n, Fns(fs), Locs(fs))
        /\ \A j, k \in 1..n : j <= k => fs[j].fn <= fs[k].fn
    BY ScoutedFacts DEF Scouted, Good
  <1>3. \A k \in 1..n : i < k => \A m \in Range(fs[k].locals) : ~SameVar(decls, l, m)
    BY <1>1, <1>2
  <1>4. get_variable(fs, decls[l].name, decls[l].sort) = IF decls[l].fn = Last(fs).fn THEN l ELSE Outside
    BY <1>1, <1>2, <1>3, TypedOfScoped
  <1>5. QED  BY <1>1, <1>4, ScoutedFacts

\* Uses of locals as the lookups of both passes find them.
LEMMA ScoutedMarks ==
  ASSUME NEW gs, NEW fs, NEW us, NEW fl, Scouted(decls, gs, fs, us, fl),
         NEW marked \in SUBSET Use, \A x \in marked : IsNearest(fs, x[1])
  PROVE  Scouted(decls, gs, Marked(fs, marked), us \cup Seen(fs, marked), fl)
  <1> DEFINE n == Len(fs)
             t == Marked(fs, marked)
             new == Seen(fs, marked)
             us2 == us \cup new
  <1>1. /\ fs \in Seq(Frame) /\ fs # <<>> /\ n \in 1..n /\ n \in Nat /\ decls \in Seq(LocalVar)
        /\ Last(fs) = fs[n]
    BY ScoutedFacts DEF Scouted
  <1>2. /\ t \in Seq(Frame) /\ Len(t) = n
        /\ \A i \in 1..n : /\ t[i].kind = fs[i].kind /\ t[i].fn = fs[i].fn /\ t[i].locals = fs[i].locals
                           /\ ChildOf(t[i]) = ChildOf(fs[i])
                           /\ SelfOf(t[i]) = IF i = n THEN SelfOf(fs[i]) \cup marked ELSE SelfOf(fs[i])
    BY <1>1, MarkedFrames DEF SameShape
  <1> HIDE DEF t
  <1>3. /\ \A i \in 1..n : /\ Fns(fs)[i] = fs[i].fn /\ Locs(fs)[i] = Range(fs[i].locals)
                           /\ Selfs(fs)[i] = SelfOf(fs[i])
        /\ \A i \in 1..n : Locs(t)[i] = Range(fs[i].locals) /\ Selfs(t)[i] = SelfOf(t[i])
    <2>1. \A i \in 1..n : /\ Fns(fs)[i] = fs[i].fn /\ Locs(fs)[i] = Range(fs[i].locals)
                           /\ Selfs(fs)[i] = SelfOf(fs[i])
      BY <1>1, Views
    <2>2. \A i \in 1..n : Locs(t)[i] = Range(t[i].locals) /\ Selfs(t)[i] = SelfOf(t[i])
      BY <1>2, Views
    <2>3. \A i \in 1..n : t[i].locals = fs[i].locals
      BY <1>2
    <2>4. QED  BY <2>1, <2>2, <2>3
  <1>4. ASSUME NEW x \in marked
        PROVE  /\ x[1] \in DOMAIN decls /\ decls[x[1]].sort \in {"var", "member"}
               /\ get_variable(fs, decls[x[1]].name, decls[x[1]].sort)
                    = IF decls[x[1]].fn = fs[n].fn THEN x[1] ELSE Outside
               /\ x = <<x[1], x[2]>>
    <2>1. IsNearest(fs, x[1])
      OBVIOUS
    <2>2. decls[x[1]].sort \in {"var", "member"}
      BY <2>1 DEF IsNearest
    <2>3. x = <<x[1], x[2]>>
      BY DEF Use
    <2>4. /\ get_variable(fs, decls[x[1]].name, decls[x[1]].sort)
               = IF decls[x[1]].fn = Last(fs).fn THEN x[1] ELSE Outside
          /\ x[1] \in DOMAIN decls
      BY <2>1, NearestIsTyped
    <2>5. QED  BY <1>1, <2>2, <2>3, <2>4
  <1>5. \A u \in new : \E x \in marked :
          u = [fn |-> fs[n].fn, local |-> x[1], how |-> x[2],
               typed |-> IF decls[x[1]].fn = fs[n].fn THEN x[1] ELSE Outside]
    BY <1>1, <1>4 DEF Seen
  <1>6. ASSUME NEW x \in marked
        PROVE  \E u \in new : u.fn = fs[n].fn /\ x = <<u.local, u.how>>
    <2>1. [fn |-> Last(fs).fn, local |-> x[1], how |-> x[2],
           typed |-> IF decls[x[1]].sort \in {"var", "member"}
                       THEN get_variable(fs, decls[x[1]].name, decls[x[1]].sort)
                       ELSE x[1]] \in new
      BY DEF Seen
    <2>2. QED  BY <2>1, <1>1, <1>4
  <1>7. \A u \in new : /\ u.fn = fs[n].fn /\ <<u.local, u.how>> \in marked /\ u.local \in DOMAIN decls
                       /\ u.typed = IF decls[u.local].fn = fs[n].fn THEN u.local ELSE Outside
    <2> TAKE u \in new
    <2>1. PICK x \in marked :
            u = [fn |-> fs[n].fn, local |-> x[1], how |-> x[2],
                 typed |-> IF decls[x[1]].fn = fs[n].fn THEN x[1] ELSE Outside]
      BY <1>5
    <2>2. x = <<x[1], x[2]>> /\ x[1] \in DOMAIN decls
      BY <1>4
    <2>3. QED  BY <2>1, <2>2
  <1> HIDE DEF new
  <1>8. ASSUME NEW x \in marked
        PROVE  \E i \in 1..n : /\ x[1] \in Locs(t)[i]
                               /\ \A k \in i + 1..n : \A m \in Locs(t)[k] : ~SameVar(decls, x[1], m)
    <2>1. PICK i \in 1..n : /\ x[1] \in Range(fs[i].locals)
                            /\ \A k \in i + 1..n : \A m \in Range(fs[k].locals) : ~SameVar(decls, x[1], m)
      BY DEF IsNearest
    <2>2. \A k \in i + 1..n : k \in 1..n
      BY <1>1
    <2>3. QED  BY <2>1, <2>2, <1>3
  <1>9. Extends(decls, n, Fns(fs), Locs(fs), Selfs(fs), us, decls, n, {}, Locs(t), marked, Selfs(t), us2)
    <2>1. \A x \in marked : \E u \in us2 : u.fn = Fns(fs)[n] /\ x = <<u.local, u.how>>
      BY <1>1, <1>3, <1>6
    <2>2. us \subseteq us2 /\ us2 \ us \subseteq new
      OBVIOUS
    <2> HIDE DEF us2
    <2>3. \A u \in us2 \ us :
            /\ u.fn = Fns(fs)[n] /\ <<u.local, u.how>> \in marked /\ u.local \in DOMAIN decls
            /\ u.typed = IF decls[u.local].fn = Fns(fs)[n] THEN u.local ELSE Outside
      BY <2>2, <1>1, <1>3, <1>7
    <2>4. \A i \in 1..n : Locs(t)[i] = IF i = n THEN Locs(fs)[i] \cup {} ELSE Locs(fs)[i]
      BY <1>3
    <2>5. \A i \in 1..n : Selfs(t)[i] = IF i = n THEN Selfs(fs)[i] \cup marked ELSE Selfs(fs)[i]
      BY <1>2, <1>3
    <2> HIDE DEF n
    <2>6. QED  BY <1>1, <1>8, <2>1, <2>2, <2>3, <2>4, <2>5 DEF Extends
  <1>10. QED
    <2> HIDE DEF us2
    <2>1. Scouted(decls, gs, t, us2, fl)
      BY <1>1, <1>2, <1>9, ScoutedExtends
    <2>2. QED  BY <2>1 DEF us2, new, t

\* A new frame in the same function.
LEMMA ScoutedPushes ==
  ASSUME NEW ds, NEW gs, NEW fs, NEW us, NEW fl, Scouted(ds, gs, fs, us, fl),
         NEW f \in Frame, f.kind # "function", f.fn = Last(fs).fn, f.locals = <<>>,
         SelfOf(f) = {}, ChildOf(f) = {}
  PROVE  Scouted(ds, gs, Append(fs, f), us, fl)
  <1> DEFINE n == Len(fs)
             t == Append(fs, f)
  <1>1. fs \in Seq(Frame) /\ n \in Nat /\ Last(fs) = fs[n] /\ n \in 1..n
    BY ScoutedFacts DEF Scouted
  <1>2. t \in Seq(Frame) /\ Len(t) = n + 1 /\ t[n + 1] = f /\ \A i \in 1..n : t[i] = fs[i]
    BY <1>1, Pushed
  <1> HIDE DEF t
  <1>3. /\ Fns(t)[n + 1] = fs[n].fn /\ Locs(t)[n + 1] = {} /\ Selfs(t)[n + 1] = {} /\ Childs(t)[n + 1] = {}
        /\ n + 1 \notin Heads(t)
    <2>1. n + 1 \in 1..Len(t)
      BY <1>1, <1>2
    <2>2. Range(<<>>) = {}
      BY DEF Range
    <2>3. QED  BY <2>1, <2>2, <1>1, <1>2, Views
  <1>4. \A i \in 1..n : /\ Fns(t)[i] = Fns(fs)[i] /\ Locs(t)[i] = Locs(fs)[i] /\ Selfs(t)[i] = Selfs(fs)[i]
                        /\ Childs(t)[i] = Childs(fs)[i] /\ (i \in Heads(t) <=> i \in Heads(fs))
    <2>1. \A i \in 1..n : i \in 1..Len(t)
      BY <1>1, <1>2
    <2>2. QED  BY <2>1, <1>1, <1>2, Views
  <1>5. Pushes(n, Fns(fs), Heads(fs), Locs(fs), Selfs(fs), Childs(fs),
               Fns(t), Heads(t), Locs(t), Selfs(t), Childs(t))
    BY <1>1, <1>3, <1>4, Views DEF Pushes
  <1>6. Good(ds, gs, Creators(gs), n, Fns(fs), Heads(fs), Locs(fs), Selfs(fs), Childs(fs), us, fl)
    BY DEF Scouted
  <1>7. Good(ds, gs, Creators(gs), n + 1, Fns(t), Heads(t), Locs(t), Selfs(t), Childs(t), us, fl)
    BY <1>5, <1>6, GoodPushes
  <1>8. QED  BY <1>2, <1>7 DEF Scouted, t

\* What is left when the uses of some locals are taken out.
LEMMA FromAboveUses ==
  ASSUME NEW ls, NEW u \in Uses
  PROVE  /\ FromAbove(ls, u) \in Uses
         /\ FromAbove(ls, u).self = { x \in u.self : x[1] \notin ls }
         /\ FromAbove(ls, u).child = { x \in u.child : x[1] \notin ls }
  BY DEF FromAbove, Uses

\* The innermost frame at its end.
LEMMA ScoutedCloses ==
  ASSUME NEW ds, NEW gs, NEW fs, NEW us, NEW fl, Scouted(ds, gs, fs, us, fl),
         Last(fs).kind # "function",
         NEW u \in Uses, u.self = SelfOf(Last(fs)), u.child = ChildOf(Last(fs)),
         NEW ls, ls = Range(Last(fs).locals)
  PROVE  /\ Scouted(ds, gs, Receive(Front(fs), FromAbove(ls, u)), us, fl \cup LocalFlags(ls, u))
         /\ Len(fs) > 1
  <1> DEFINE n == Len(fs)
             p == n - 1
             v == FromAbove(ls, u)
             t == Receive(Front(fs), v)
             fl2 == fl \cup LocalFlags(ls, u)
  <1>1. fs \in Seq(Frame) /\ n \in Nat /\ n > 0 /\ Last(fs) = fs[n] /\ n \in 1..n /\ fs # <<>>
        /\ fs[1].kind = "function"
    BY ScoutedFacts DEF Scouted
  <1>2. n > 1 /\ p \in Nat /\ p > 0 /\ p \in 1..p /\ p \in 1..n /\ p + 1 = n
        /\ \A i \in 1..p : i \in 1..n
    BY <1>1
  <1>3. /\ Front(fs) \in Seq(Frame) /\ Front(fs) # <<>> /\ Len(Front(fs)) = p
        /\ \A i \in 1..p : Front(fs)[i] = fs[i]
    <2>1. Front(fs) \in Seq(Frame) /\ Len(Front(fs)) = p /\ \A i \in 1..p : Front(fs)[i] = fs[i]
      BY <1>1, Popped
    <2>2. Front(fs) # <<>>
      BY <2>1, <1>2
    <2>3. QED  BY <2>1, <2>2
  <1>4. /\ v \in Uses /\ v.self = { x \in u.self : x[1] \notin ls }
        /\ v.child = { x \in u.child : x[1] \notin ls }
    BY FromAboveUses
  <1> HIDE DEF v
  <1>5. /\ t \in Seq(Frame) /\ Len(t) = p
        /\ t[p].kind = fs[p].kind /\ t[p].fn = fs[p].fn /\ t[p].locals = fs[p].locals
        /\ SelfOf(t[p]) = SelfOf(fs[p]) \cup v.self
        /\ ChildOf(t[p]) = ChildOf(fs[p]) \cup v.child
        /\ \A i \in 1..p : i # p => t[i] = fs[i]
    <2> DEFINE front == Front(fs)
    <2> HIDE DEF front, p
    <2>1. front \in Seq(Frame) /\ front # <<>> /\ Len(front) = p /\ \A i \in 1..p : front[i] = fs[i]
      BY <1>3 DEF front
    <2>2. t = Receive(front, v)
      BY DEF front
    <2> HIDE DEF t
    <2>3. /\ t \in Seq(Frame) /\ Len(t) = p
          /\ t[p].kind = front[p].kind /\ t[p].fn = front[p].fn /\ t[p].locals = front[p].locals
          /\ SelfOf(t[p]) = SelfOf(front[p]) \cup v.self
          /\ ChildOf(t[p]) = ChildOf(front[p]) \cup v.child
          /\ \A i \in 1..p : i # p => t[i] = front[i]
      <3>1. v \in Uses
        BY <1>4
      <3> DEFINE q == Len(front)
      <3>2. /\ t \in Seq(Frame) /\ Len(t) = q
            /\ t[q].kind = front[q].kind /\ t[q].fn = front[q].fn /\ t[q].locals = front[q].locals
            /\ SelfOf(t[q]) = SelfOf(front[q]) \cup v.self
            /\ ChildOf(t[q]) = ChildOf(front[q]) \cup v.child
            /\ \A i \in 1..q : i # q => t[i] = front[i]
        <4>1. front \in Seq(Frame) /\ front # <<>>
          BY <2>1
        <4>2. QED  BY <3>1, <4>1, <2>2, Received
      <3>3. QED  BY <2>1, <3>2
    <2>4. p \in 1..p /\ front[p] = fs[p]
      BY <1>2, <2>1
    <2>5. \A i \in 1..p : i # p => t[i] = fs[i]
      BY <2>1, <2>3
    <2>6. QED  BY <2>3, <2>4, <2>5
  <1> HIDE DEF t, p
  <1>6. \A i \in 1..p :
          /\ Fns(t)[i] = t[i].fn /\ Locs(t)[i] = Range(t[i].locals) /\ Selfs(t)[i] = SelfOf(t[i])
          /\ Childs(t)[i] = ChildOf(t[i]) /\ (i \in Heads(t) <=> t[i].kind = "function")
    BY <1>5, Views
  <1>7. \A i \in 1..n :
          /\ Fns(fs)[i] = fs[i].fn /\ Locs(fs)[i] = Range(fs[i].locals) /\ Selfs(fs)[i] = SelfOf(fs[i])
          /\ Childs(fs)[i] = ChildOf(fs[i]) /\ (i \in Heads(fs) <=> fs[i].kind = "function")
    BY <1>1, Views
  <1>8. \A i \in 1..p : /\ Fns(t)[i] = Fns(fs)[i] /\ Locs(t)[i] = Locs(fs)[i]
                        /\ (i \in Heads(t) <=> i \in Heads(fs))
    <2> TAKE i \in 1..p
    <2>1. t[i].kind = fs[i].kind /\ t[i].fn = fs[i].fn /\ t[i].locals = fs[i].locals
      BY <1>5
    <2>2. QED  BY <2>1, <1>2, <1>6, <1>7
  <1>9. Locs(fs)[n] = ls /\ Selfs(fs)[n] = u.self /\ Childs(fs)[n] = u.child /\ n \notin Heads(fs)
    BY <1>1, <1>7
  <1>10. \A i \in 1..p : /\ Selfs(t)[i] = Selfs(fs)[i] \cup IF i = p THEN v.self ELSE {}
                         /\ Childs(t)[i] = Childs(fs)[i] \cup IF i = p THEN v.child ELSE {}
    <2> TAKE i \in 1..p
    <2>1. CASE i = p
      BY <2>1, <1>2, <1>5, <1>6, <1>7
    <2>2. CASE i # p
      BY <2>2, <1>2, <1>5, <1>6, <1>7
    <2>3. QED  BY <2>1, <2>2
  <1>11. u = [self |-> Selfs(fs)[n], child |-> Childs(fs)[n]]
    BY <1>9 DEF Uses
  <1>12. p = n - 1
    BY DEF p
  <1>13. Closes(n, Fns(fs), Heads(fs), Locs(fs), Selfs(fs), Childs(fs), fl,
                Fns(t), Heads(t), Locs(t), Selfs(t), Childs(t), fl2)
    BY <1>2, <1>4, <1>8, <1>9, <1>10, <1>11, <1>12 DEF Closes
  <1>14. Good(ds, gs, Creators(gs), n, Fns(fs), Heads(fs), Locs(fs), Selfs(fs), Childs(fs), us, fl)
    BY DEF Scouted
  <1> HIDE DEF fl2
  <1>15. Good(ds, gs, Creators(gs), p, Fns(t), Heads(t), Locs(t), Selfs(t), Childs(t), us, fl2)
    BY <1>12, <1>13, <1>14, GoodCloses
  <1>16. Scouted(ds, gs, t, us, fl2)
    BY <1>5, <1>15 DEF Scouted
  <1>17. QED  BY <1>2, <1>16 DEF t, fl2, v

-----------------------------------------------------------------------------
(* Which blocks and ifs are around which                                   *)

\* How many arms are known while one is read.
Armed(f) ==
  /\ f.kind = "if" => Len(f.arms) \in {0, 1}
  /\ f.kind = "and" => Len(f.arms) = 0
  /\ f.kind = "or" => Len(f.arms) = 1

ShapeAt(fs, i) ==
  /\ fs[i].kind = "body" => i > 1 /\ fs[i - 1].kind \in {"loop", "round"}
  /\ fs[i].kind = "round" => i > 1 /\ fs[i - 1].kind = "each"
  /\ fs[i].kind = "if" => i > 1 /\ fs[i - 1].kind = "wrapper"
  /\ fs[i].kind \in Ifs =>
       \/ fs[i].stage = "condition" /\ fs[i].arms = <<>>
       \/ fs[i].stage = "arms" /\ i < Len(fs) /\ fs[i + 1].kind = "block" /\ Armed(fs[i])

Shape(fs) == \A i \in 1..Len(fs) : ShapeAt(fs, i)

\* Shape depends on what SameShape compares alone.
LEMMA ShapeSame ==
  ASSUME NEW fs, Len(fs) \in Nat, Shape(fs), NEW t, Len(t) = Len(fs),
         \A i \in 1..Len(fs) : SameShape(fs[i], t[i])
  PROVE  Shape(t)
  <1> SUFFICES ASSUME NEW i \in 1..Len(fs)  PROVE ShapeAt(t, i)
    BY DEF Shape
  <1>1. ShapeAt(fs, i)
    BY DEF Shape
  <1>2. SameShape(fs[i], t[i])
    OBVIOUS
  <1>3. i > 1 => SameShape(fs[i - 1], t[i - 1])
    <2>1. i > 1 => i - 1 \in 1..Len(fs)
      OBVIOUS
    <2>2. QED  BY <2>1
  <1>4. i < Len(fs) => SameShape(fs[i + 1], t[i + 1])
    <2>1. i < Len(fs) => i + 1 \in 1..Len(fs)
      OBVIOUS
    <2>2. QED  BY <2>1
  <1>5. QED  BY <1>1, <1>2, <1>3, <1>4 DEF ShapeAt, SameShape, Armed

\* The outer ones, when the innermost of them was not waiting for an arm.
LEMMA ShapeShort ==
  ASSUME NEW fs, Len(fs) \in Nat, Shape(fs), NEW t, NEW m \in 1..Len(fs), Len(t) = m,
         \A i \in 1..m : SameShape(fs[i], t[i]),
         fs[m].kind \in Ifs => fs[m].stage = "condition"
  PROVE  Shape(t)
  <1> SUFFICES ASSUME NEW i \in 1..m  PROVE ShapeAt(t, i)
    BY DEF Shape
  <1>0. i \in 1..Len(fs) /\ m \in Nat /\ i \in Nat
    OBVIOUS
  <1>1. ShapeAt(fs, i)
    BY <1>0 DEF Shape
  <1>2. SameShape(fs[i], t[i])
    OBVIOUS
  <1>3. i > 1 => SameShape(fs[i - 1], t[i - 1])
    <2>1. i > 1 => i - 1 \in 1..m
      BY <1>0
    <2>2. QED  BY <2>1
  <1>4. i < m => SameShape(fs[i + 1], t[i + 1])
    <2>1. i < m => i + 1 \in 1..m
      BY <1>0
    <2>2. QED  BY <2>1
  <1>5. CASE i < m
    BY <1>0, <1>1, <1>2, <1>3, <1>4, <1>5 DEF ShapeAt, SameShape, Armed
  <1>6. CASE i = m
    <2>1. fs[i].kind \in Ifs => fs[i].stage = "condition" /\ fs[i].arms = <<>>
      BY <1>1, <1>6 DEF ShapeAt
    <2>2. QED  BY <2>1, <1>0, <1>1, <1>2, <1>3, <1>6 DEF ShapeAt, SameShape
  <1>7. QED  BY <1>0, <1>5, <1>6

\* What can come after a frame of that kind.
Fits(kind, f) ==
  /\ f.kind = "body" => kind \in {"loop", "round"}
  /\ f.kind = "round" => kind = "each"
  /\ f.kind = "if" => kind = "wrapper"
  /\ f.kind \in Ifs => f.stage = "condition" /\ f.arms = <<>>

\* One more frame, where it fits.
LEMMA ShapePushed ==
  ASSUME NEW fs, Len(fs) \in Nat, Len(fs) > 0, Shape(fs), NEW t, Len(t) = Len(fs) + 1,
         \A i \in 1..Len(fs) : SameShape(fs[i], t[i]), Fits(fs[Len(fs)].kind, t[Len(fs) + 1])
  PROVE  Shape(t)
  <1> DEFINE n == Len(fs)
  <1> SUFFICES ASSUME NEW i \in 1..n + 1  PROVE ShapeAt(t, i)
    BY DEF Shape
  <1>1. CASE i \in 1..n
    <2>1. ShapeAt(fs, i) /\ SameShape(fs[i], t[i])
      BY <1>1 DEF Shape
    <2>2. i > 1 => SameShape(fs[i - 1], t[i - 1])
      <3>1. i > 1 => i - 1 \in 1..n
        BY <1>1
      <3>2. QED  BY <3>1
    <2>3. i < n => SameShape(fs[i + 1], t[i + 1])
      <3>1. i < n => i + 1 \in 1..n
        BY <1>1
      <3>2. QED  BY <3>1
    <2>4. i < n => i < Len(t)
      OBVIOUS
    <2>5. QED  BY <2>1, <2>2, <2>3, <2>4 DEF ShapeAt, SameShape, Armed
  <1>2. CASE i = n + 1
    <2>1. i > 1 /\ i - 1 = n /\ SameShape(fs[n], t[n])
      BY <1>2
    <2>2. QED  BY <2>1, <1>2 DEF ShapeAt, SameShape, Fits
  <1>3. QED  BY <1>1, <1>2

\* An if whose next arm begins.
LEMMA ShapeArms ==
  ASSUME NEW fs, Len(fs) \in Nat, Shape(fs), NEW t, NEW m \in 1..Len(fs), Len(t) = m + 1,
         \A i \in 1..m : i # m => SameShape(fs[i], t[i]),
         fs[m].kind \in Ifs, t[m].kind = fs[m].kind, t[m].stage = "arms", Armed(t[m]),
         t[m + 1].kind = "block"
  PROVE  Shape(t)
  <1> SUFFICES ASSUME NEW i \in 1..m + 1  PROVE ShapeAt(t, i)
    BY DEF Shape
  <1>0. m \in Nat /\ i \in Nat /\ m > 0
    OBVIOUS
  <1>1. CASE i \in 1..m /\ i # m
    <2>1. ShapeAt(fs, i) /\ SameShape(fs[i], t[i])
      BY <1>1 DEF Shape
    <2>2. i > 1 => SameShape(fs[i - 1], t[i - 1])
      <3>1. i > 1 => i - 1 \in 1..m /\ i - 1 # m
        BY <1>0, <1>1
      <3>2. QED  BY <3>1
    <2>3. fs[i + 1].kind = t[i + 1].kind
      <3>1. i + 1 \in 1..m
        BY <1>0, <1>1
      <3>2. QED  BY <3>1 DEF SameShape
    <2>4. i < Len(t)
      BY <1>0, <1>1
    <2>5. QED  BY <2>1, <2>2, <2>3, <2>4 DEF ShapeAt, SameShape, Armed
  <1>2. CASE i = m
    <2>1. ShapeAt(fs, m)
      BY DEF Shape
    <2>2. m > 1 => SameShape(fs[m - 1], t[m - 1])
      <3>1. m > 1 => m - 1 \in 1..m /\ m - 1 # m
        BY <1>0
      <3>2. QED  BY <3>1
    <2>3. t[i].kind = fs[m].kind /\ t[i].kind \in Ifs /\ t[i].stage = "arms" /\ Armed(t[i])
          /\ t[i + 1].kind = "block" /\ i < Len(t)
      BY <1>0, <1>2
    <2>4. t[i].kind # "body" /\ t[i].kind # "round"
      BY <2>3 DEF Ifs
    <2>5. QED  BY <2>1, <2>2, <2>3, <2>4, <1>2 DEF ShapeAt, SameShape
  <1>3. CASE i = m + 1
    BY <1>3 DEF ShapeAt, Ifs
  <1>4. QED  BY <1>0, <1>1, <1>2, <1>3

-----------------------------------------------------------------------------
(* The ends of blocks and of ifs                                           *)

\* find_variable takes the nearest.
LEMMA FoundIsNearest ==
  ASSUME NEW fs \in Seq(Frame), NEW n, NEW sort \in {"var", "member"}, Found(fs, n, sort) # {}
  PROVE  /\ IsNearest(fs, find_variable(fs, n, sort))
         /\ find_variable(fs, n, sort) \in Nat
  <1> DEFINE l == find_variable(fs, n, sort)
  <1>1. PICK i \in 1..Len(fs) :
          /\ l \in Range(fs[i].locals) /\ IsCalled(l, n, sort)
          /\ \A k \in i + 1..Len(fs) : \A m \in Range(fs[k].locals) : ~IsCalled(m, n, sort)
    BY FoundLocal
  <1> HIDE DEF l
  <1>2. \A m : SameVar(decls, l, m) => IsCalled(m, n, sort)
    BY <1>1 DEF SameVar, IsCalled
  <1>3. l \in Nat
    BY <1>1, Views
  <1>4. IsNearest(fs, l)
    BY <1>1, <1>2 DEF IsNearest, IsCalled
  <1>5. QED  BY <1>3, <1>4 DEF l

\* What the constructor call at the end of a block uses is in scope.
LEMMA ConstructorScoped ==
  ASSUME NEW gs, NEW fs, NEW us, NEW fl, Scouted(decls, gs, fs, us, fl)
  PROVE  /\ ConstructorUses(fs) \in SUBSET Use
         /\ \A x \in ConstructorUses(fs) : IsNearest(fs, x[1])
  <1>1. fs \in Seq(Frame) /\ Len(fs) \in Nat /\ Len(fs) \in 1..Len(fs) /\ Last(fs) = fs[Len(fs)]
    BY ScoutedFacts DEF Scouted
  <1>2. CASE Members(Last(fs)) = {}
    BY <1>2 DEF ConstructorUses
  <1>3. CASE Members(Last(fs)) # {} /\ Found(fs, self, "var") # {}
    <2> DEFINE l == find_variable(fs, self, "var")
    <2>1. ConstructorUses(fs) = { <<l, "borrowed">> }
      BY <1>3 DEF ConstructorUses
    <2>2. IsNearest(fs, l) /\ l \in Nat
      BY <1>1, <1>3, FoundIsNearest
    <2> HIDE DEF l
    <2>3. QED  BY <2>1, <2>2 DEF Use, How
  <1>4. CASE Members(Last(fs)) # {} /\ Found(fs, self, "var") = {}
    <2>1. ConstructorUses(fs) = { <<l, "moved">> : l \in Members(Last(fs)) }
      BY <1>4 DEF ConstructorUses
    <2>2. \A l \in Members(Last(fs)) : IsNearest(fs, l) /\ l \in Nat
      <3> TAKE l \in Members(Last(fs))
      <3>1. l \in Range(fs[Len(fs)].locals) /\ decls[l].sort = "member" /\ l \in Nat
        BY <1>1, Views DEF Members
      <3>2. Len(fs) + 1..Len(fs) = {}
        BY <1>1
      <3>3. QED  BY <3>1, <3>2, <1>1 DEF IsNearest
    <2>3. QED  BY <2>1, <2>2 DEF Use, How
  <1>5. QED  BY <1>2, <1>3, <1>4

\* The blocks and ifs around, after the innermost one has come to its end.
DropsTop(fs, t) ==
  LET p == Len(fs) - 1
  IN /\ p \in Nat /\ p > 0 /\ Len(t) = p /\ t \in Seq(Frame)
     /\ \A i \in 1..p : i # p => SameShape(fs[i], t[i])
     /\ t[p].kind = fs[p].kind /\ t[p].fn = fs[p].fn
     /\ fs[p].kind \in Ifs =>
          /\ t[p].stage = fs[p].stage
          /\ IF fs[p].stage = "arms" THEN \E u \in Uses : t[p].arms = Append(fs[p].arms, u)
             ELSE t[p].arms = fs[p].arms

\* Uses that come up leave the frames that were around.
LEMMA ReceivedDrops ==
  ASSUME NEW fs \in Seq(Frame), Len(fs) > 1, NEW u \in Uses
  PROVE  DropsTop(fs, Receive(Front(fs), u))
  <1> DEFINE p == Len(fs) - 1
             front == Front(fs)
             t == Receive(front, u)
  <1>1. /\ p \in Nat /\ p > 0 /\ front \in Seq(Frame) /\ Len(front) = p
        /\ \A i \in 1..p : front[i] = fs[i]
    <2>1. fs # <<>>
      OBVIOUS
    <2>2. QED  BY <2>1, Popped
  <1> HIDE DEF p, front
  <1>2. front # <<>> /\ p \in 1..p
    BY <1>1
  <1>3. /\ t \in Seq(Frame) /\ Len(t) = p
        /\ t[p].kind = front[p].kind /\ t[p].fn = front[p].fn
        /\ \A i \in 1..p : i # p => t[i] = front[i]
        /\ ~(front[p].kind \in Ifs /\ front[p].stage = "arms") => SameShape(front[p], t[p])
        /\ front[p].kind \in Ifs /\ front[p].stage = "arms" =>
             t[p].stage = "arms" /\ t[p].arms = Append(front[p].arms, u)
    BY <1>1, <1>2, Received
  <1> HIDE DEF t
  <1>4. front[p] = fs[p] /\ \A i \in 1..p : i # p => SameShape(fs[i], t[i])
    BY <1>1, <1>2, <1>3 DEF SameShape
  <1>5. QED  BY <1>1, <1>3, <1>4 DEF DropsTop, SameShape, p, front, t

IsNow(c) == c = [frames |-> c.frames, flags |-> c.flags, uses |-> c.uses, panics |-> c.panics]

\* CloseBlock keeps the invariant.
LEMMA ClosedBlock ==
  ASSUME NEW gs, NEW c, Scouted(decls, gs, c.frames, c.uses, c.flags),
         Last(c.frames).kind \notin Ifs, Last(c.frames).kind # "function"
  PROVE  LET d == CloseBlock(c) IN
         /\ Scouted(decls, gs, d.frames, d.uses, d.flags)
         /\ DropsTop(c.frames, d.frames) /\ IsNow(d)
  <1> DEFINE fs == c.frames
             n == Len(fs)
             cons == ConstructorUses(fs)
             m == Marked(fs, cons)
             u == BlockUses(fs)
             ls == Range(Last(fs).locals)
             us2 == c.uses \cup Seen(fs, cons)
             d == CloseBlock(c)
  <1>1. /\ fs \in Seq(Frame) /\ fs # <<>> /\ n \in Nat /\ n > 0 /\ n \in 1..n
        /\ Last(fs) = fs[n] /\ fs[n] \in Frame /\ fs[1].kind = "function"
    BY ScoutedFacts DEF Scouted
  <1>2. d.frames = Receive(Front(fs), FromAbove(ls, u)) /\ d.flags = c.flags \cup LocalFlags(ls, u)
        /\ d.uses = us2 /\ IsNow(d)
    BY DEF CloseBlock, IsNow
  <1> HIDE DEF d
  <1>3. cons \in SUBSET Use /\ \A x \in cons : IsNearest(fs, x[1])
    BY ConstructorScoped
  <1>4. Scouted(decls, gs, m, us2, c.flags)
    BY <1>3, ScoutedMarks
  <1>5. /\ m \in Seq(Frame) /\ Len(m) = n
        /\ m[n].kind = fs[n].kind /\ m[n].locals = fs[n].locals
        /\ \A i \in 1..n : i # n => m[i] = fs[i]
        /\ m[n].uses = then_merge(fs[n].uses, [self |-> cons, child |-> {}])
        /\ m[n] \in Frame
    BY <1>1, <1>3, MarkedFrames DEF SameShape
  <1>6. u \in Uses /\ m[n].uses = u
    <2>1. [self |-> cons, child |-> {}] \in Uses
      BY <1>3 DEF Uses
    <2>2. u = then_merge(fs[n].uses, [self |-> cons, child |-> {}])
      BY <1>1 DEF BlockUses
    <2>3. QED  BY <2>2, <1>5, FrameFields
  <1> HIDE DEF m, u, cons, us2
  <1>7. Last(m) = m[n] /\ m # <<>> /\ Front(m) = Front(fs)
    <2>1. Last(m) = m[n] /\ m # <<>>
      BY <1>1, <1>5 DEF Last
    <2>2. /\ Front(fs) \in Seq(Frame) /\ Len(Front(fs)) = n - 1
          /\ \A i \in 1..n - 1 : Front(fs)[i] = fs[i]
      BY <1>1, Popped
    <2>3. /\ Front(m) \in Seq(Frame) /\ Len(Front(m)) = n - 1
          /\ \A i \in 1..n - 1 : Front(m)[i] = m[i]
      BY <1>5, <2>1, Popped
    <2>4. \A i \in 1..n - 1 : m[i] = fs[i]
      BY <1>1, <1>5
    <2>5. QED  BY <2>1, <2>2, <2>3, <2>4
  <1>8. u.self = SelfOf(Last(m)) /\ u.child = ChildOf(Last(m)) /\ ls = Range(Last(m).locals)
        /\ Last(m).kind # "function"
    BY <1>1, <1>5, <1>6, <1>7 DEF SelfOf, ChildOf
  <1> HIDE DEF ls
  <1>9. /\ Scouted(decls, gs, Receive(Front(m), FromAbove(ls, u)), us2, c.flags \cup LocalFlags(ls, u))
        /\ Len(m) > 1
    BY <1>4, <1>6, <1>8, ScoutedCloses
  <1>10. Scouted(decls, gs, d.frames, d.uses, d.flags)
    BY <1>2, <1>7, <1>9
  <1>11. DropsTop(fs, d.frames)
    <2>1. FromAbove(ls, u) \in Uses
      BY <1>6, FromAboveUses
    <2>2. QED  BY <2>1, <1>1, <1>2, <1>5, <1>9, ReceivedDrops
  <1>12. QED  BY <1>2, <1>10, <1>11 DEF d

\* CloseIf keeps the invariant, once an arm or both are there.
LEMMA ClosedIf ==
  ASSUME NEW gs, NEW c, IsNow(c), Scouted(decls, gs, c.frames, c.uses, c.flags),
         Last(c.frames).kind \in Ifs, Len(Last(c.frames).arms) \in {1, 2}
  PROVE  LET d == CloseIf(c) IN
         /\ Scouted(decls, gs, d.frames, d.uses, d.flags)
         /\ DropsTop(c.frames, d.frames) /\ IsNow(d) /\ d.panics = c.panics
  <1> DEFINE fs == c.frames
             n == Len(fs)
             f == Last(fs)
             arms == f.arms \o <<NoUses>>
             u == then_merge(f.uses, branch_merge(arms[1], arms[2]))
             d == CloseIf(c)
  <1>1. /\ fs \in Seq(Frame) /\ n \in Nat /\ f \in Frame
    BY ScoutedFacts DEF Scouted
  <1>2. d.frames = Receive(Front(fs), u) /\ d.flags = c.flags /\ d.uses = c.uses /\ IsNow(d)
        /\ d.panics = c.panics
    <2>1. d = [c EXCEPT !.frames = Receive(Front(@), u)]
      BY DEF CloseIf
    <2>2. QED  BY <2>1 DEF IsNow
  <1> HIDE DEF d
  <1>3. f.arms \in Seq(Uses) /\ f.locals = <<>> /\ f.uses \in Uses
    BY <1>1, FrameFields
  <1>4. NoUses \in Uses
    BY DEF NoUses, Uses
  <1> HIDE DEF f
  <1>5. /\ arms[1] \in Uses /\ arms[2] \in Uses /\ arms[1] = f.arms[1]
        /\ Len(f.arms) = 1 => arms[2] = NoUses
        /\ Len(f.arms) = 2 => arms[2] = f.arms[2]
        /\ DOMAIN f.arms = 1..Len(f.arms)
    <2>1. CASE Len(f.arms) = 1
      BY <2>1, <1>3, <1>4
    <2>2. CASE Len(f.arms) = 2
      BY <2>2, <1>3, <1>4
    <2>3. QED  BY <2>1, <2>2 DEF f
  <1> HIDE DEF arms
  <1>6. u \in Uses
    BY <1>3, <1>5 DEF then_merge, branch_merge, Uses
  <1>7. /\ ArmsSelf(f.arms) = arms[1].self \cup arms[2].self
        /\ ArmsChild(f.arms) = arms[1].child \cup arms[2].child
    <2>1. NoUses.self = {} /\ NoUses.child = {}
      BY DEF NoUses
    <2>3. Len(f.arms) = 1 \/ Len(f.arms) = 2
      BY DEF f
    <2>4. \A x : /\ x \in ArmsSelf(f.arms) <=> x \in arms[1].self \cup arms[2].self
                 /\ x \in ArmsChild(f.arms) <=> x \in arms[1].child \cup arms[2].child
      <3>1. CASE Len(f.arms) = 1
        <4>1. DOMAIN f.arms = {1}
          BY <3>1, <1>5
        <4>2. QED  BY <3>1, <4>1, <2>1, <1>5, UsesOfArms
      <3>2. CASE Len(f.arms) = 2
        <4>1. DOMAIN f.arms = {1, 2}
          BY <3>2, <1>5
        <4>2. QED  BY <3>2, <4>1, <1>5, UsesOfArms
      <3>3. QED  BY <3>1, <3>2, <2>3
    <2>5. QED  BY <2>4
  <1>8. u.self = SelfOf(f) /\ u.child = ChildOf(f)
    <2>1. f.kind \in Ifs
      BY DEF f
    <2>2. QED  BY <2>1, <1>7 DEF then_merge, branch_merge, SelfOf, ChildOf
  <1> HIDE DEF u
  <1>9. Range(f.locals) = {} /\ FromAbove({}, u) = u /\ LocalFlags({}, u) = {}
    BY <1>3, <1>6 DEF Range, FromAbove, LocalFlags, Uses
  <1>10. f.kind # "function"
    BY DEF f, Ifs
  <1>11. Scouted(decls, gs, Receive(Front(fs), u), c.uses, c.flags) /\ n > 1
    <2>1. /\ Scouted(decls, gs, Receive(Front(fs), FromAbove({}, u)), c.uses,
                     c.flags \cup LocalFlags({}, u))
          /\ n > 1
      BY <1>6, <1>8, <1>9, <1>10, ScoutedCloses DEF f
    <2>2. c.flags \cup {} = c.flags
      OBVIOUS
    <2>3. QED  BY <2>1, <2>2, <1>9
  <1>12. DropsTop(fs, d.frames)
    BY <1>1, <1>2, <1>6, <1>11, ReceivedDrops
  <1>13. QED  BY <1>2, <1>11, <1>12 DEF d

-----------------------------------------------------------------------------
(* The inductive invariant                                                 *)

Properties == FlagsAreExact /\ LambdasAreExact /\ NamesAgree

\* Until the program is done, all of the above; what a panic or an error leaves is what it
\* found.
ScoutInv ==
  IF outcome = "done" THEN Properties
  ELSE Scouted(decls, fns, frames, uses, flags) /\ Shape(frames)

\* The state that an action starts from.
Scouting == outcome = "scouting" /\ Scouted(decls, fns, frames, uses, flags) /\ Shape(frames)

\* Within of the model is In.
LEMMA WithinIsIn == ASSUME NEW k  PROVE Within(k) = In(Creators(fns), k)
  <1>1. \A i \in DOMAIN fns : Creators(fns)[i] = fns[i].creator
    BY DEF Creators
  <1>2. DOMAIN Creators(fns) = DOMAIN fns
    BY DEF Creators
  <1>3. \A j, in : (\A i \in DOMAIN fns : fns[i].creator \in in => i \in in) <=> Closed(Creators(fns), in)
    BY <1>1, <1>2 DEF Closed
  <1>4. QED  BY <1>2, <1>3 DEF Within, In

\* The invariant says the properties.
LEMMA ScoutInvHolds == ASSUME ScoutInv  PROVE Properties
  <1>1. CASE outcome = "done"
    BY <1>1 DEF ScoutInv
  <1>2. CASE outcome # "done"
    <2> DEFINE cr == Creators(fns)
               n == Len(frames)
    <2>1. Scouted(decls, fns, frames, uses, flags)
      BY <1>2 DEF ScoutInv
    <2>2. /\ LambdasExact(fns, decls, cr, n, Fns(frames), uses)
          /\ GivenAgree(fns, decls) /\ UsesOK(decls, cr, uses)
      BY <2>1 DEF Scouted, Good
    <2>3. /\ DOMAIN fns = 1..Len(fns) /\ DOMAIN frames = 1..n /\ \A i \in 1..n : Fns(frames)[i] = frames[i].fn
      BY <2>1, ScoutedFacts, Views DEF Scouted
    <2>4. FlagsAreExact
      BY <1>2 DEF FlagsAreExact
    <2>5. LambdasAreExact
      <3> SUFFICES ASSUME NEW k \in 2..Len(fns), IsFinished(k)  PROVE IsExact(fns[k], decls, cr, k, uses)
        BY WithinIsIn DEF LambdasAreExact, IsExact
      <3>1. k \in DOMAIN fns
        BY <2>3
      <3>2. \A i \in 1..n : Fns(frames)[i] # k
        BY <2>3 DEF IsFinished
      <3>3. QED  BY <2>2, <3>1, <3>2 DEF LambdasExact
    <2>6. NamesAgree
      BY <2>2 DEF GivenAgree, UsesOK, NamesAgree
    <2>7. QED  BY <2>4, <2>5, <2>6 DEF Properties
  <1>3. QED  BY <1>1, <1>2

\* An action that leaves the program going has that much to show.
LEMMA StillScouting ==
  ASSUME Scouting, outcome' = outcome,
         Scouted(decls', fns', frames', uses', flags'), Shape(frames')
  PROVE  ScoutInv'
  BY DEF ScoutInv, Scouting

\* An error or a panic.
LEMMA FailKeeps ==
  ASSUME Scouting, NEW result, result # "done", Fail(result)
  PROVE  ScoutInv'
  BY DEF ScoutInv, Scouting, Fail

\* Uses of locals that are the nearest of their names.
LEMMA MarkKeeps ==
  ASSUME Scouting, NEW marked \in SUBSET Use, \A x \in marked : IsNearest(frames, x[1]),
         Mark(marked), UNCHANGED <<decls, fns, flags, outcome>>
  PROVE  ScoutInv'
  <1>1. Scouted(decls, fns, frames', uses', flags)
    BY ScoutedMarks DEF Scouting, Mark
  <1>2. frames \in Seq(Frame) /\ frames # <<>> /\ Len(frames) \in Nat
    BY ScoutedFacts DEF Scouting, Scouted
  <1>3. Len(frames') = Len(frames) /\ \A i \in 1..Len(frames) : SameShape(frames[i], frames'[i])
    BY <1>2, MarkedFrames DEF Mark
  <1>4. Shape(frames')
    BY <1>2, <1>3, ShapeSame DEF Scouting
  <1>5. QED  BY <1>1, <1>4, StillScouting

\* One use of a local that the lookup found.
LEMMA UseLocalKeeps ==
  ASSUME Scouting, NEW n, NEW sort \in {"var", "member"}, Found(frames, n, sort) # {},
         NEW how \in How, NEW unlets, UseLocal(find_variable(frames, n, sort), how, unlets)
  PROVE  ScoutInv'
  <1> DEFINE l == find_variable(frames, n, sort)
  <1>1. IsNearest(frames, l) /\ l \in Nat
    BY FoundIsNearest DEF Scouting, Scouted
  <1> HIDE DEF l
  <1>2. CASE Fail("panicked")
    BY <1>2, FailKeeps
  <1>3. CASE Mark({<<l, how>>}) /\ UNCHANGED <<bounds, decls, fns, flags, outcome>>
    <2>1. {<<l, how>>} \in SUBSET Use /\ \A x \in {<<l, how>>} : IsNearest(frames, x[1])
      BY <1>1 DEF Use
    <2>2. QED  BY <1>3, <2>1, MarkKeeps
  <1>4. QED  BY <1>2, <1>3 DEF UseLocal, l

\* A variable, a member of the object under construction, a `set` and an `unlet`.
LEMMA MentionKeeps ==
  ASSUME Scouting, NEW n, NEW load, Mention(n, load)
  PROVE  ScoutInv'
  <1>1. Coerced(load) \in How
    BY DEF Coerced, How
  <1>2. CASE IsFound(n, "var")
    BY <1>1, <1>2, UseLocalKeeps DEF Mention, IsFound
  <1>3. CASE ~IsFound(n, "var")
    BY <1>3, FailKeeps DEF Mention
  <1>4. QED  BY <1>2, <1>3

\* self.m, and self when it is a variable.
LEMMA MentionMemberKeeps ==
  ASSUME Scouting, NEW m, NEW load, MentionMember(m, load)
  PROVE  ScoutInv'
  <1>1. \A how : Coerced(how) \in How
    BY DEF Coerced, How
  <1>2. CASE IsFound(self, "var")
    <2>1. PICK how \in SubjectLoads : UseLocal(find_variable(frames, self, "var"), Coerced(how), FALSE)
      BY <1>2 DEF MentionMember
    <2>2. Found(frames, self, "var") # {}
      BY <1>2 DEF IsFound
    <2>3. QED  BY <1>1, <2>1, <2>2, UseLocalKeeps
  <1>3. CASE ~IsFound(self, "var") /\ IsFound(m, "member")
    BY <1>1, <1>3, UseLocalKeeps DEF MentionMember, IsFound
  <1>4. CASE ~IsFound(self, "var") /\ ~IsFound(m, "member")
    BY <1>4, FailKeeps DEF MentionMember
  <1>5. QED  BY <1>2, <1>3, <1>4

\* set.
LEMMA LocalMutateKeeps ==
  ASSUME Scouting, NEW n, LocalMutate(n)
  PROVE  ScoutInv'
  <1>2. CASE IsFound(n, "var")
    BY <1>2, UseLocalKeeps DEF LocalMutate, IsFound, How
  <1>3. CASE ~IsFound(n, "var")
    BY <1>3, FailKeeps DEF LocalMutate
  <1>4. QED  BY <1>2, <1>3

\* unlet.
LEMMA UnletKeeps ==
  ASSUME Scouting, NEW n, Unlet(n)
  PROVE  ScoutInv'
  <1>2. CASE IsFound(n, "var")
    BY <1>2, UseLocalKeeps DEF Unlet, IsFound, How
  <1>3. CASE ~IsFound(n, "var")
    BY <1>3, FailKeeps DEF Unlet
  <1>4. QED  BY <1>2, <1>3

-----------------------------------------------------------------------------
(* The beginnings of blocks and ifs                                        *)

Kinds == {"wrapper", "block", "loop", "each", "round", "body"}

\* A block that begins.
LEMMA FreshBlock ==
  ASSUME NEW kind \in Kinds, NEW fn \in Nat
  PROVE  LET f == Block(kind, fn, <<>>)
         IN /\ f \in Frame /\ f.kind = kind /\ f.kind # "function" /\ f.kind \notin Ifs
            /\ f.fn = fn /\ f.locals = <<>> /\ SelfOf(f) = {} /\ ChildOf(f) = {}
  <1> DEFINE f == Block(kind, fn, <<>>)
  <1>1. f \in BlockFrame /\ f.kind = kind /\ f.fn = fn /\ f.locals = <<>> /\ f.uses = NoUses
        /\ f.kind # "function"
    BY DEF Block, BlockFrame, Kinds, NoUses, Uses
  <1> HIDE DEF f
  <1>2. f.kind \notin Ifs
    BY <1>1 DEF Kinds, Ifs
  <1>3. SelfOf(f) = {} /\ ChildOf(f) = {}
    BY <1>1, <1>2 DEF SelfOf, ChildOf, NoUses
  <1>4. QED  BY <1>1, <1>2, <1>3 DEF Frame, f

\* An if that begins.
LEMMA FreshIf ==
  ASSUME NEW shape \in Ifs, NEW fn \in Nat
  PROVE  LET f == If(shape, fn)
         IN /\ f \in Frame /\ f.kind = shape /\ f.kind # "function"
            /\ f.stage = "condition" /\ f.arms = <<>>
            /\ f.fn = fn /\ f.locals = <<>> /\ SelfOf(f) = {} /\ ChildOf(f) = {}
  <1> DEFINE f == If(shape, fn)
  <1>0. <<>> \in Seq(Uses) /\ NoUses \in Uses
    BY DEF NoUses, Uses
  <1>1. f \in IfFrame /\ f.kind = shape /\ f.fn = fn /\ f.locals = <<>> /\ f.uses = NoUses
        /\ f.stage = "condition" /\ f.arms = <<>>
    BY <1>0 DEF If, IfFrame
  <1> HIDE DEF f
  <1>2. SelfOf(f) = {} /\ ChildOf(f) = {}
    BY <1>1 DEF SelfOf, ChildOf, ArmsSelf, ArmsChild, NoUses
  <1>3. QED  BY <1>1, <1>2 DEF Frame, Ifs, f

\* What begins in the innermost function keeps the invariant.
LEMMA PushKeeps ==
  ASSUME NEW ds, NEW gs, NEW fs, NEW us, NEW fl, Scouted(ds, gs, fs, us, fl), Shape(fs),
         NEW f \in Frame, f.kind # "function", f.fn = Last(fs).fn, f.locals = <<>>,
         SelfOf(f) = {}, ChildOf(f) = {}, Fits(Last(fs).kind, f)
  PROVE  /\ Scouted(ds, gs, Append(fs, f), us, fl) /\ Shape(Append(fs, f))
         /\ Last(Append(fs, f)) = f
  <1>1. Scouted(ds, gs, Append(fs, f), us, fl)
    BY ScoutedPushes
  <1>2. fs \in Seq(Frame) /\ Len(fs) \in Nat /\ Len(fs) > 0 /\ Last(fs) = fs[Len(fs)]
    BY ScoutedFacts DEF Scouted
  <1> DEFINE t == Append(fs, f)
  <1>3. /\ t \in Seq(Frame) /\ Len(t) = Len(fs) + 1 /\ t[Len(fs) + 1] = f
        /\ \A i \in 1..Len(fs) : t[i] = fs[i]
    BY <1>2, Pushed
  <1> HIDE DEF t
  <1>4. Shape(t)
    <2>1. \A i \in 1..Len(fs) : SameShape(fs[i], t[i])
      BY <1>3 DEF SameShape
    <2>2. Fits(fs[Len(fs)].kind, t[Len(fs) + 1])
      BY <1>2, <1>3
    <2>3. QED  BY <1>2, <1>3, <2>1, <2>2, ShapePushed
  <1>5. Last(t) = f
    BY <1>2, <1>3 DEF Last
  <1>6. QED  BY <1>1, <1>4, <1>5 DEF t

\* Enter with one block or if.
LEMMA OneKeeps ==
  ASSUME Scouting, NEW f, Enter(<<f>>, 0) \/ Enter(<<f>>, 1) \/ Enter(<<f>>, 2),
         f \in Frame, f.kind # "function", f.fn = Top.fn, f.locals = <<>>,
         SelfOf(f) = {}, ChildOf(f) = {}, Fits(Top.kind, f)
  PROVE  ScoutInv'
  <1>1. frames \in Seq(Frame)
    BY DEF Scouting, Scouted
  <1>2. frames \o <<f>> = Append(frames, f)
    BY <1>1
  <1>3. frames' = Append(frames, f) /\ UNCHANGED <<decls, fns, flags, uses, outcome>>
    BY <1>2 DEF Enter
  <1>4. Scouted(decls, fns, frames', uses, flags) /\ Shape(frames')
    BY <1>3, PushKeeps DEF Scouting, Top
  <1>5. QED  BY <1>3, <1>4, StillScouting

\* The innermost frame.
LEMMA TopFn ==
  ASSUME Scouting
  PROVE  /\ Top.fn \in Nat /\ Top \in Frame /\ frames \in Seq(Frame) /\ frames # <<>>
         /\ Top = frames[Len(frames)] /\ Len(frames) \in Nat /\ Len(frames) > 0
         /\ Len(frames) \in 1..Len(frames) /\ Last(frames) = frames[Len(frames)]
         /\ frames[1].kind = "function"
  BY ScoutedFacts DEF Scouting, Scouted, Top

\* The constructs that begin with a block or with an if.
LEMMA EnterKeeps ==
  ASSUME Scouting, EnterBlock \/ EnterIf \/ EnterAnd \/ EnterOr \/ EnterWhile \/ BeginBody \/ EnterEach
  PROVE  ScoutInv'
  <1>0. Top.fn \in Nat
    BY TopFn
  <1>1. CASE EnterBlock
    <2>1. Fits(Top.kind, Block("block", Top.fn, <<>>))
      BY DEF Fits, Block, Ifs
    <2>2. QED  BY <2>1, <1>0, <1>1, FreshBlock, OneKeeps DEF EnterBlock, Kinds
  <1>2. CASE EnterWhile
    <2>1. Fits(Top.kind, Block("loop", Top.fn, <<>>))
      BY DEF Fits, Block, Ifs
    <2>2. QED  BY <2>1, <1>0, <1>2, FreshBlock, OneKeeps DEF EnterWhile, Kinds
  <1>3. CASE EnterEach
    <2>1. Fits(Top.kind, Block("each", Top.fn, <<>>))
      BY DEF Fits, Block, Ifs
    <2>2. QED  BY <2>1, <1>0, <1>3, FreshBlock, OneKeeps DEF EnterEach, Kinds
  <1>4. CASE BeginBody
    <2>1. Fits(Top.kind, Block("body", Top.fn, <<>>))
      BY <1>4 DEF Fits, Block, Ifs, BeginBody
    <2>2. QED  BY <2>1, <1>0, <1>4, FreshBlock, OneKeeps DEF BeginBody, Kinds
  <1>5. CASE EnterAnd
    <2>1. Fits(Top.kind, If("and", Top.fn))
      BY DEF Fits, If, Ifs
    <2>2. QED  BY <2>1, <1>0, <1>5, FreshIf, OneKeeps DEF EnterAnd, Ifs
  <1>6. CASE EnterOr
    <2>1. Fits(Top.kind, If("or", Top.fn))
      BY DEF Fits, If, Ifs
    <2>2. QED  BY <2>1, <1>0, <1>6, FreshIf, OneKeeps DEF EnterOr, Ifs
  <1>7. CASE EnterIf
    <2> DEFINE w == Block("wrapper", Top.fn, <<>>)
               f == If("if", Top.fn)
               t == Append(frames, w)
    <2>1. frames' = frames \o <<w, f>> /\ UNCHANGED <<decls, fns, flags, uses, outcome>>
      BY <1>7 DEF EnterIf, Enter
    <2>2. /\ w \in Frame /\ w.kind = "wrapper" /\ w.kind # "function" /\ w.kind \notin Ifs
          /\ w.fn = Top.fn /\ w.locals = <<>> /\ SelfOf(w) = {} /\ ChildOf(w) = {}
      BY <1>0, FreshBlock DEF Kinds
    <2>3. /\ f \in Frame /\ f.kind = "if" /\ f.kind # "function"
          /\ f.stage = "condition" /\ f.arms = <<>>
          /\ f.fn = Top.fn /\ f.locals = <<>> /\ SelfOf(f) = {} /\ ChildOf(f) = {}
      BY <1>0, FreshIf DEF Ifs
    <2> HIDE DEF w, f
    <2>4. frames' = Append(t, f)
      <3>1. frames \in Seq(Frame)
        BY TopFn
      <3>2. QED  BY <2>1, <2>2, <2>3, <3>1
    <2>5. Fits(Top.kind, w)
      BY <2>2 DEF Fits
    <2>6. Scouted(decls, fns, t, uses, flags) /\ Shape(t) /\ Last(t) = w
      BY <2>2, <2>5, PushKeeps DEF Scouting, Top
    <2> HIDE DEF t
    <2>7. Fits(Last(t).kind, f)
      BY <2>2, <2>3, <2>6 DEF Fits
    <2>8. Scouted(decls, fns, frames', uses, flags) /\ Shape(frames')
      BY <2>2, <2>3, <2>4, <2>6, <2>7, PushKeeps
    <2>9. QED  BY <2>1, <2>8, StillScouting
  <1>8. QED  BY <1>1, <1>2, <1>3, <1>4, <1>5, <1>6, <1>7

\* Another frame in the place of the innermost, of the same function, locals and uses.
LEMMA ScoutedSwaps ==
  ASSUME NEW ds, NEW gs, NEW fs, NEW us, NEW fl, Scouted(ds, gs, fs, us, fl),
         NEW f \in Frame, f.fn = Last(fs).fn, f.kind = Last(fs).kind, f.locals = Last(fs).locals,
         SelfOf(f) = SelfOf(Last(fs)), ChildOf(f) = ChildOf(Last(fs))
  PROVE  Scouted(ds, gs, Append(Front(fs), f), us, fl)
  <1> DEFINE n == Len(fs)
             t == Append(Front(fs), f)
  <1>1. fs \in Seq(Frame) /\ n \in Nat /\ Last(fs) = fs[n] /\ n \in 1..n /\ fs # <<>>
    BY ScoutedFacts DEF Scouted
  <1>2. t \in Seq(Frame) /\ Len(t) = n /\ t[n] = f /\ \A i \in 1..n : i # n => t[i] = fs[i]
    BY <1>1, WithTop
  <1> HIDE DEF t
  <1>3. \A i \in 1..n : /\ t[i].fn = fs[i].fn /\ t[i].kind = fs[i].kind /\ t[i].locals = fs[i].locals
                        /\ SelfOf(t[i]) = SelfOf(fs[i]) /\ ChildOf(t[i]) = ChildOf(fs[i])
    <2> TAKE i \in 1..n
    <2>1. CASE i = n
      BY <2>1, <1>1, <1>2
    <2>2. CASE i # n
      BY <2>2, <1>2
    <2>3. QED  BY <2>1, <2>2
  <1>4. DOMAIN t = 1..n /\ DOMAIN fs = 1..n
    BY <1>1, <1>2
  <1>5. Fns(t) = Fns(fs)
    BY <1>3, <1>4 DEF Fns
  <1>6. Heads(t) = Heads(fs)
    BY <1>3, <1>4 DEF Heads
  <1>7. Locs(t) = Locs(fs)
    BY <1>3, <1>4 DEF Locs
  <1>8. Selfs(t) = Selfs(fs)
    BY <1>3, <1>4 DEF Selfs
  <1>9. Childs(t) = Childs(fs)
    BY <1>3, <1>4 DEF Childs
  <1>10. Scouted(ds, gs, t, us, fl)
    BY <1>2, <1>5, <1>6, <1>7, <1>8, <1>9 DEF Scouted
  <1>11. QED  BY <1>10 DEF t

\* From the condition of an if to its first arm.
LEMMA BeginArmsKeeps ==
  ASSUME Scouting, BeginArms
  PROVE  ScoutInv'
  <1> DEFINE n == Len(frames)
             arms == IF Top.kind = "or" THEN <<NoUses>> ELSE <<>>
             f == [Top EXCEPT !.stage = "arms", !.arms = arms]
             b == Block("block", Top.fn, <<>>)
             t == Append(Front(frames), f)
  <1>1. /\ Top.fn \in Nat /\ Top \in Frame /\ frames \in Seq(Frame) /\ frames # <<>>
        /\ Top = frames[n] /\ n \in Nat /\ n > 0 /\ n \in 1..n /\ Last(frames) = frames[n]
    BY TopFn
  <1>2. frames' = Append(t, b) /\ Top.kind \in Ifs /\ Top.stage = "condition"
        /\ UNCHANGED <<decls, fns, flags, uses, outcome>>
    <2>1. Top.kind \notin {"function", "block", "loop", "each", "body"} \/ Top.kind \notin Ifs
      BY DEF Ifs
    <2>2. QED  BY <2>1 DEF BeginArms, IsOpen
  <1>3. Top \in IfFrame /\ Top.arms = <<>>
    <2>1. ShapeAt(frames, n)
      BY <1>1 DEF Scouting, Shape
    <2>2. QED  BY <2>1, <1>1, <1>2, FrameFields DEF ShapeAt
  <1>4. NoUses \in Uses /\ arms \in Seq(Uses) /\ ArmsSelf(arms) = {} /\ ArmsChild(arms) = {}
        /\ Len(arms) = IF Top.kind = "or" THEN 1 ELSE 0
    <2>1. NoUses \in Uses /\ NoUses.self = {} /\ NoUses.child = {}
      BY DEF NoUses, Uses
    <2>2. CASE Top.kind = "or"
      <3>1. arms = <<NoUses>>
        BY <2>2
      <3> HIDE DEF arms
      <3>2. DOMAIN arms = {1} /\ arms[1] = NoUses /\ Len(arms) = 1 /\ arms \in Seq(Uses)
        BY <3>1, <2>1
      <3>3. ArmsSelf(arms) = {} /\ ArmsChild(arms) = {}
        BY <3>2, <2>1 DEF ArmsSelf, ArmsChild
      <3>4. QED  BY <2>1, <2>2, <3>2, <3>3
    <2>3. CASE Top.kind # "or"
      <3>1. arms = <<>>
        BY <2>3
      <3> HIDE DEF arms
      <3>2. DOMAIN arms = {} /\ Len(arms) = 0 /\ arms \in Seq(Uses)
        BY <3>1
      <3>3. ArmsSelf(arms) = {} /\ ArmsChild(arms) = {}
        BY <3>2 DEF ArmsSelf, ArmsChild
      <3>4. QED  BY <2>1, <2>3, <3>2, <3>3
    <2>4. QED  BY <2>2, <2>3
  <1> HIDE DEF arms
  <1>5. /\ f \in IfFrame /\ f.kind = Top.kind /\ f.fn = Top.fn /\ f.locals = Top.locals
        /\ f.uses = Top.uses /\ f.stage = "arms" /\ f.arms = arms
    BY <1>3, <1>4 DEF IfFrame
  <1> HIDE DEF f
  <1>6. SelfOf(f) = SelfOf(Top) /\ ChildOf(f) = ChildOf(Top)
    <2>1. ArmsSelf(<<>>) = {} /\ ArmsChild(<<>>) = {}
      BY DEF ArmsSelf, ArmsChild
    <2>2. QED  BY <2>1, <1>2, <1>3, <1>4, <1>5 DEF SelfOf, ChildOf
  <1>7. f \in Frame
    BY <1>5 DEF Frame
  <1>8. Scouted(decls, fns, t, uses, flags)
    BY <1>1, <1>5, <1>6, <1>7, ScoutedSwaps DEF Scouting, Top
  <1>9. t \in Seq(Frame) /\ Len(t) = n /\ t[n] = f /\ \A i \in 1..n : i # n => t[i] = frames[i]
    BY <1>1, <1>7, WithTop
  <1> HIDE DEF t
  <1>10. Last(t) = f
    BY <1>1, <1>9 DEF Last
  <1>11. /\ b \in Frame /\ b.kind = "block" /\ b.kind # "function"
         /\ b.fn = Last(t).fn /\ b.locals = <<>> /\ SelfOf(b) = {} /\ ChildOf(b) = {}
    BY <1>1, <1>5, <1>10, FreshBlock DEF Kinds
  <1> HIDE DEF b
  <1>12. Scouted(decls, fns, frames', uses, flags)
    BY <1>2, <1>8, <1>11, ScoutedPushes
  <1>13. Len(frames') = n + 1 /\ frames'[n + 1] = b /\ \A i \in 1..n : frames'[i] = t[i]
    BY <1>2, <1>9, <1>11, Pushed
  <1>14. Armed(f)
    BY <1>4, <1>5 DEF Armed
  <1>15. Shape(frames')
    <2>1. \A i \in 1..n : i # n => SameShape(frames[i], frames'[i])
      BY <1>9, <1>13 DEF SameShape
    <2>2. /\ frames[n].kind \in Ifs /\ frames'[n].kind = frames[n].kind /\ frames'[n].stage = "arms"
          /\ Armed(frames'[n])
      BY <1>1, <1>2, <1>5, <1>9, <1>13, <1>14
    <2>3. frames'[n + 1].kind = "block"
      BY <1>11, <1>13
    <2>4. QED  BY <2>1, <2>2, <2>3, <1>1, <1>13, ShapeArms DEF Scouting
  <1>16. QED  BY <1>2, <1>12, <1>15, StillScouting

-----------------------------------------------------------------------------
(* The ends of blocks and ifs keep the invariant                           *)

\* What is left of fs is its first m frames, none but the last of another shape.
DropsTo(fs, t, m) ==
  /\ m \in Nat /\ m > 0 /\ m < Len(fs) /\ Len(t) = m /\ t \in Seq(Frame)
  /\ \A i \in 1..m : i # m => SameShape(fs[i], t[i])
  /\ t[m].kind = fs[m].kind
  /\ fs[m].kind \in Ifs =>
       t[m].stage = fs[m].stage /\ (fs[m].stage # "arms" => t[m].arms = fs[m].arms)

\* The end of one frame.
LEMMA DropsOne ==
  ASSUME NEW fs, Len(fs) \in Nat, NEW t, DropsTop(fs, t)
  PROVE  DropsTo(fs, t, Len(fs) - 1)
  BY DEF DropsTop, DropsTo

\* The end of one frame more.
LEMMA DropsMore ==
  ASSUME NEW fs, Len(fs) \in Nat, NEW t, NEW m, DropsTo(fs, t, m), NEW e, DropsTop(t, e)
  PROVE  DropsTo(fs, e, m - 1)
  <1>1. /\ m \in Nat /\ m < Len(fs) /\ Len(t) = m /\ m - 1 \in Nat /\ m - 1 > 0 /\ m - 1 < Len(fs)
        /\ Len(e) = m - 1 /\ e \in Seq(Frame)
    BY DEF DropsTo, DropsTop
  <1>2. \A i \in 1..m - 1 : i \in 1..m /\ i # m /\ SameShape(fs[i], t[i])
    BY <1>1 DEF DropsTo
  <1>3. \A i \in 1..m - 1 : i # m - 1 => SameShape(t[i], e[i])
    BY <1>1 DEF DropsTop
  <1>4. \A i \in 1..m - 1 : i # m - 1 => SameShape(fs[i], e[i])
    BY <1>2, <1>3 DEF SameShape
  <1>5. /\ e[m - 1].kind = t[m - 1].kind
        /\ t[m - 1].kind \in Ifs =>
             e[m - 1].stage = t[m - 1].stage
             /\ (t[m - 1].stage # "arms" => e[m - 1].arms = t[m - 1].arms)
    BY <1>1 DEF DropsTop
  <1>6. SameShape(fs[m - 1], t[m - 1])
    BY <1>1, <1>2
  <1>7. QED  BY <1>1, <1>4, <1>5, <1>6 DEF DropsTo, SameShape

\* An if that waits for an arm has a block after it.
LEMMA ShapeDropped ==
  ASSUME NEW fs, Len(fs) \in Nat, Shape(fs), NEW t, NEW m, DropsTo(fs, t, m),
         fs[m + 1].kind # "block" \/ fs[m].kind \notin Ifs \/ fs[m].stage # "arms"
  PROVE  Shape(t)
  <1>1. m \in 1..Len(fs) /\ m \in Nat /\ Len(t) = m
    BY DEF DropsTo
  <1>2. fs[m].kind \in Ifs => fs[m].stage = "condition"
    BY <1>1 DEF Shape, ShapeAt
  <1>3. ASSUME NEW i \in 1..m  PROVE SameShape(fs[i], t[i])
    <2>1. CASE i = m
      BY <2>1, <1>2 DEF DropsTo, SameShape
    <2>2. CASE i # m
      BY <2>2 DEF DropsTo
    <2>3. QED  BY <2>1, <2>2
  <1>4. QED  BY <1>1, <1>2, <1>3, ShapeShort

\* Resumed with less: [frames, flags, uses, panics].
LEMMA ResumeKeeps ==
  ASSUME Scouting, NEW c, Resume(c),
         Scouted(decls, fns, c.frames, c.uses, c.flags), Shape(c.frames)
  PROVE  ScoutInv'
  <1>1. CASE c.panics
    BY <1>1, FailKeeps DEF Resume
  <1>2. CASE ~c.panics
    BY <1>2, StillScouting DEF Resume
  <1>3. QED  BY <1>1, <1>2

\* The state, as the closing of blocks starts from it.
LEMMA NowIsNow ==
  /\ IsNow(Now) /\ Now.frames = frames /\ Now.uses = uses /\ Now.flags = flags
  BY DEF Now, IsNow

\* The frame under the innermost one.
LEMMA UnderFacts ==
  ASSUME Scouting, Top.kind # "function"
  PROVE  LET n == Len(frames) IN
         /\ n > 1 /\ n - 1 \in 1..n /\ n \in Nat /\ n - 1 \in Nat /\ n - 1 > 0
         /\ Under = frames[n - 1] /\ (n - 1) + 1 = n
  <1> DEFINE n == Len(frames)
             front == Front(frames)
  <1>1. frames \in Seq(Frame) /\ frames # <<>> /\ n \in Nat /\ n > 1
    <2>1. frames \in Seq(Frame) /\ frames # <<>> /\ n \in Nat /\ n > 0
          /\ Top = frames[n] /\ frames[1].kind = "function"
      BY TopFn
    <2>2. n # 1
      BY <2>1
    <2>3. QED  BY <2>1, <2>2
  <1>2. front \in Seq(Frame) /\ Len(front) = n - 1 /\ \A i \in 1..n - 1 : front[i] = frames[i]
    BY <1>1, Popped
  <1>3. Last(front) = frames[n - 1]
    BY <1>1, <1>2 DEF Last
  <1>4. QED  BY <1>1, <1>3 DEF Under

\* The innermost block is closed.
LEMMA ClosedNow ==
  ASSUME Scouting, Top.kind \notin Ifs, Top.kind # "function"
  PROVE  LET c == CloseBlock(Now)
             n == Len(frames)
         IN /\ Scouted(decls, fns, c.frames, c.uses, c.flags)
            /\ DropsTop(frames, c.frames) /\ DropsTo(frames, c.frames, n - 1) /\ IsNow(c)
  <1>1. Top = Last(Now.frames)
    BY TopFn, NowIsNow DEF Top
  <1>2. Scouted(decls, fns, Now.frames, Now.uses, Now.flags)
    BY NowIsNow DEF Scouting
  <1> DEFINE c == CloseBlock(Now)
  <1>3. /\ Scouted(decls, fns, c.frames, c.uses, c.flags)
        /\ DropsTop(Now.frames, c.frames) /\ IsNow(c)
    BY <1>1, <1>2, ClosedBlock
  <1>4. DropsTop(frames, c.frames)
    BY <1>3, NowIsNow
  <1>5. Len(frames) \in Nat
    BY TopFn
  <1> HIDE DEF c
  <1>6. QED  BY <1>3, <1>4, <1>5, DropsOne DEF c

\* One more of them is closed.
LEMMA ClosedAlso ==
  ASSUME NEW fs, Len(fs) \in Nat, NEW gs, NEW c, NEW m, DropsTo(fs, c.frames, m), m > 1,
         Scouted(decls, gs, c.frames, c.uses, c.flags),
         fs[m].kind \notin Ifs, fs[m].kind # "function"
  PROVE  LET d == CloseBlock(c) IN
         /\ Scouted(decls, gs, d.frames, d.uses, d.flags)
         /\ DropsTo(fs, d.frames, m - 1) /\ IsNow(d)
  <1>1. Last(c.frames).kind = fs[m].kind
    BY DEF DropsTo, Last
  <1> DEFINE d == CloseBlock(c)
  <1>2. /\ Scouted(decls, gs, d.frames, d.uses, d.flags)
        /\ DropsTop(c.frames, d.frames) /\ IsNow(d)
    BY <1>1, ClosedBlock
  <1> HIDE DEF d
  <1>3. QED  BY <1>2, DropsMore DEF d

\* The end of a block that is no arm.
LEMMA LeaveBlockKeeps ==
  ASSUME Scouting, LeaveBlock
  PROVE  ScoutInv'
  <1> DEFINE c == CloseBlock(Now)
             n == Len(frames)
  <1>1. Top.kind = "block" /\ Top.kind \notin Ifs /\ Resume(c)
        /\ (Under.kind \in Ifs => Under.stage # "arms")
    BY DEF LeaveBlock, Ifs
  <1> HIDE DEF c
  <1>2. Scouted(decls, fns, c.frames, c.uses, c.flags) /\ DropsTo(frames, c.frames, n - 1)
    BY <1>1, ClosedNow DEF c
  <1>3. Under = frames[n - 1] /\ Shape(frames) /\ Len(frames) \in Nat
    BY <1>1, UnderFacts, TopFn DEF Scouting
  <1>4. Shape(c.frames)
    BY <1>1, <1>2, <1>3, ShapeDropped
  <1>5. QED  BY <1>1, <1>2, <1>4, ResumeKeeps

\* The end of a loop: of its body, of the round if there are rounds, of what is around.
LEMMA LeaveLoopKeeps ==
  ASSUME Scouting, LeaveLoop
  PROVE  ScoutInv'
  <1> DEFINE c == CloseBlock(Now)
             d == CloseBlock(c)
             e == CloseBlock(d)
             n == Len(frames)
  <1>1. Top.kind = "body" /\ Top.kind \notin Ifs /\ Resume(IF Under.kind = "round" THEN e ELSE d)
    BY DEF LeaveLoop, Ifs
  <1> HIDE DEF c
  <1>2. Scouted(decls, fns, c.frames, c.uses, c.flags) /\ DropsTo(frames, c.frames, n - 1)
    BY <1>1, ClosedNow DEF c
  <1>3. /\ n > 1 /\ n \in Nat /\ n - 1 \in 1..n /\ Under = frames[n - 1] /\ Shape(frames)
        /\ frames[n] = Top /\ n \in 1..n /\ frames[1].kind = "function"
    BY <1>1, UnderFacts, TopFn DEF Scouting
  <1>4. frames[n - 1].kind \in {"loop", "round"} /\ frames[n - 1].kind \notin Ifs
    <2>1. ShapeAt(frames, n)
      BY <1>3 DEF Shape
    <2>2. QED  BY <2>1, <1>1, <1>3 DEF ShapeAt, Ifs
  <1>5. n - 1 > 1
    <2>1. n - 1 # 1
      BY <1>3, <1>4
    <2>2. n \in Nat /\ n > 1
      BY <1>3
    <2> HIDE DEF n
    <2>3. QED  BY <2>1, <2>2
  <1>6. Scouted(decls, fns, d.frames, d.uses, d.flags) /\ DropsTo(frames, d.frames, n - 2)
    <2>1. frames[n - 1].kind # "function" /\ (n - 1) - 1 = n - 2
      BY <1>3, <1>4
    <2> DEFINE m == n - 1
    <2> HIDE DEF m
    <2>2. /\ DropsTo(frames, c.frames, m) /\ m > 1 /\ Len(frames) \in Nat
          /\ Scouted(decls, fns, c.frames, c.uses, c.flags)
          /\ frames[m].kind \notin Ifs /\ frames[m].kind # "function"
      BY <2>1, <1>2, <1>3, <1>4, <1>5 DEF m
    <2>3. Scouted(decls, fns, d.frames, d.uses, d.flags) /\ DropsTo(frames, d.frames, m - 1)
      BY <2>2, ClosedAlso
    <2> HIDE DEF d
    <2>4. QED  BY <2>1, <2>3 DEF m
  <1> HIDE DEF d
  <1>7. CASE Under.kind # "round"
    <2>1. frames[(n - 2) + 1].kind # "block"
      <3>1. (n - 2) + 1 = n - 1
        BY <1>3
      <3>2. QED  BY <3>1, <1>4
    <2>2. Shape(d.frames)
      BY <2>1, <1>3, <1>6, ShapeDropped
    <2>3. QED  BY <2>2, <1>1, <1>6, <1>7, ResumeKeeps
  <1>8. CASE Under.kind = "round"
    <2>1. frames[n - 2].kind = "each" /\ frames[n - 2].kind \notin Ifs /\ frames[n - 2].kind # "function"
      <3>1. ShapeAt(frames, n - 1) /\ (n - 1) - 1 = n - 2
        BY <1>3 DEF Shape
      <3>2. QED  BY <3>1, <1>3, <1>8 DEF ShapeAt, Ifs
    <2>2. n - 2 > 1
      <3>1. n - 2 # 1
        BY <2>1, <1>3
      <3>2. \A k \in Nat : k - 1 > 1 /\ k - 2 # 1 => k - 2 > 1
        OBVIOUS
      <3> HIDE DEF n
      <3>3. QED  BY <3>1, <3>2, <1>3, <1>5
    <2>3. Scouted(decls, fns, e.frames, e.uses, e.flags) /\ DropsTo(frames, e.frames, n - 3)
      <3>1. (n - 2) - 1 = n - 3
        BY <1>3
      <3>2. QED  BY <3>1, <2>1, <2>2, <1>3, <1>6, ClosedAlso
    <2> HIDE DEF e
    <2>4. frames[(n - 3) + 1].kind # "block"
      <3>1. (n - 3) + 1 = n - 2
        BY <1>3
      <3>2. QED  BY <3>1, <2>1
    <2>5. Shape(e.frames)
      BY <2>3, <2>4, <1>3, ShapeDropped
    <2>6. QED  BY <2>3, <2>5, <1>1, <1>8, ResumeKeeps
  <1>9. QED  BY <1>7, <1>8

\* The end of an arm, and of the if when it was the last.
LEMMA LeaveArmKeeps ==
  ASSUME Scouting, LeaveArm
  PROVE  ScoutInv'
  <1> DEFINE n == Len(frames)
             p == n - 1
             c == CloseBlock(Now)
             t == c.frames
             d == CloseIf(c)
             b == Block("block", Top.fn, <<>>)
  <1>1. /\ Top.kind = "block" /\ Top.kind \notin Ifs /\ Under.kind \in Ifs /\ Under.stage = "arms"
        /\ IF Under.kind = "if" /\ Under.arms = <<>>
             THEN Resume([c EXCEPT !.frames = Append(@, b)])
           ELSE IF Under.kind = "if" THEN Resume(CloseBlock(d))
           ELSE Resume(d)
    BY DEF LeaveArm, Ifs
  <1>2. /\ n > 1 /\ n \in Nat /\ p \in 1..n /\ p \in Nat /\ p > 0 /\ Under = frames[p] /\ p + 1 = n
        /\ Shape(frames) /\ frames \in Seq(Frame) /\ frames[n] = Top /\ frames[1].kind = "function"
        /\ Top.fn \in Nat /\ Len(frames) \in Nat
    BY <1>1, UnderFacts, TopFn DEF Scouting
  <1> HIDE DEF c
  <1>3. /\ Scouted(decls, fns, t, c.uses, c.flags) /\ IsNow(c)
        /\ DropsTo(frames, t, p) /\ DropsTop(frames, t)
    BY <1>1, ClosedNow DEF c
  <1> HIDE DEF p
  <1>4. /\ Len(t) = p /\ t \in Seq(Frame) /\ t[p].kind = frames[p].kind /\ t[p].fn = frames[p].fn
        /\ t[p].stage = "arms" /\ \E u \in Uses : t[p].arms = Append(frames[p].arms, u)
        /\ \A i \in 1..p : i # p => SameShape(frames[i], t[i])
    BY <1>1, <1>2, <1>3 DEF DropsTop, p
  <1>5. Last(t) = t[p]
    BY <1>4 DEF Last
  <1>6. frames[p].arms \in Seq(Uses) /\ Armed(frames[p]) /\ frames[p].kind \in Ifs
        /\ (frames[p].kind = "if" => p > 1 /\ frames[p - 1].kind = "wrapper")
    <2>1. frames[p] \in Frame
      BY <1>2
    <2>2. ShapeAt(frames, p)
      BY <1>2 DEF Shape
    <2>3. QED  BY <2>1, <2>2, <1>1, <1>2, FrameFields DEF ShapeAt
  <1>7. Len(t[p].arms) = Len(frames[p].arms) + 1 /\ Len(frames[p].arms) \in Nat
    BY <1>4, <1>6
  <1>8. CASE Under.kind = "if" /\ Under.arms = <<>>
    <2> DEFINE t2 == Append(t, b)
               r == [c EXCEPT !.frames = Append(@, b)]
    <2>1. r.frames = t2 /\ r.uses = c.uses /\ r.flags = c.flags
      BY <1>3 DEF IsNow
    <2>2. Resume(r)
      BY <1>1, <1>8
    <2>3. Top.fn = t[p].fn
      <3>1. n \in 2..n
        BY <1>2
      <3>2. IF frames[n].kind = "function" THEN TRUE ELSE frames[n].fn = frames[n - 1].fn
        BY <3>1, ScoutedFacts DEF Scouting
      <3>3. QED  BY <3>2, <1>1, <1>2, <1>4 DEF p
    <2>4. /\ b \in Frame /\ b.kind = "block" /\ b.kind # "function"
          /\ b.fn = Last(t).fn /\ b.locals = <<>> /\ SelfOf(b) = {} /\ ChildOf(b) = {}
      BY <2>3, <1>2, <1>5, FreshBlock DEF Kinds
    <2> HIDE DEF b, r
    <2>5. Scouted(decls, fns, t2, c.uses, c.flags)
      BY <2>4, <1>3, ScoutedPushes
    <2>6. Len(t2) = p + 1 /\ t2[p + 1] = b /\ \A i \in 1..p : t2[i] = t[i]
      BY <2>4, <1>4, Pushed
    <2> HIDE DEF t2
    <2>7. Len(frames[p].arms) = 0
      BY <1>2, <1>8
    <2>8. Armed(t[p])
      BY <2>7, <1>2, <1>4, <1>7, <1>8 DEF Armed
    <2>9. Shape(t2)
      <3>1. \A i \in 1..p : i # p => SameShape(frames[i], t2[i])
        BY <2>6, <1>4 DEF SameShape
      <3>2. p \in 1..p
        BY <1>2
      <3>3. t2[p].kind = frames[p].kind /\ t2[p].stage = "arms" /\ Armed(t2[p])
            /\ t2[p + 1].kind = "block"
        BY <3>2, <2>4, <2>6, <2>8, <1>4
      <3>4. QED  BY <3>1, <3>3, <2>6, <1>2, <1>6, ShapeArms
    <2>10. QED  BY <2>1, <2>2, <2>5, <2>9, ResumeKeeps
  <1>9. CASE ~(Under.kind = "if" /\ Under.arms = <<>>)
    <2>1. Len(t[p].arms) \in {1, 2}
      <3>1. frames[p].kind \in {"if", "and", "or"}
        BY <1>6 DEF Ifs
      <3>2. Len(frames[p].arms) = 0 \/ Len(frames[p].arms) = 1
        BY <3>1, <1>6 DEF Armed
      <3>3. \A k \in Nat : k = 0 \/ k = 1 => k + 1 \in {1, 2}
        OBVIOUS
      <3>4. Len(frames[p].arms) + 1 \in {1, 2}
        BY <3>2, <3>3, <1>7
      <3> HIDE DEF t
      <3>5. QED  BY <3>4, <1>7 DEF t
    <2>2. /\ Scouted(decls, fns, d.frames, d.uses, d.flags)
          /\ DropsTop(t, d.frames) /\ IsNow(d)
      BY <2>1, <1>3, <1>4, <1>5, <1>6, ClosedIf
    <2> HIDE DEF d
    <2>3. DropsTo(frames, d.frames, p - 1)
      BY <2>2, <1>2, <1>3, DropsMore
    <2>4. p - 1 \in Nat /\ (p - 1) + 1 = p
      BY <1>2
    <2>5. CASE Under.kind # "if"
      <3>1. frames[(p - 1) + 1].kind # "block"
        BY <2>4, <1>6 DEF Ifs
      <3>2. Shape(d.frames)
        BY <3>1, <2>3, <1>2, ShapeDropped
      <3>3. QED  BY <3>2, <2>2, <2>5, <1>1, ResumeKeeps
    <2>6. CASE Under.kind = "if"
      <3> DEFINE e == CloseBlock(d)
      <3>1. frames[p - 1].kind = "wrapper" /\ frames[p - 1].kind \notin Ifs
            /\ frames[p - 1].kind # "function"
        BY <2>6, <1>2, <1>6 DEF Ifs
      <3>2. p - 1 > 1
        <4>1. p - 1 # 1
          BY <3>1, <1>2
        <4>2. QED  BY <4>1, <2>3, <2>4 DEF DropsTo
      <3>3. Scouted(decls, fns, e.frames, e.uses, e.flags) /\ DropsTo(frames, e.frames, (p - 1) - 1)
        BY <3>1, <3>2, <2>2, <2>3, <1>2, ClosedAlso
      <3>4. Resume(e)
        BY <2>6, <1>1, <1>9
      <3> HIDE DEF e
      <3>5. frames[((p - 1) - 1) + 1].kind # "block"
        <4>1. ((p - 1) - 1) + 1 = p - 1
          BY <1>2
        <4>2. QED  BY <4>1, <3>1
      <3>6. Shape(e.frames)
        BY <3>3, <3>5, <1>2, ShapeDropped
      <3>7. QED  BY <3>3, <3>4, <3>6, ResumeKeeps
    <2>7. QED  BY <2>5, <2>6
  <1>10. QED  BY <1>8, <1>9

-----------------------------------------------------------------------------
(* Declarations                                                            *)

\* What the typing pass makes of uses of underscores and of what a foreach makes for itself.
Made(fn, marked) == { [fn |-> fn, local |-> m[1], how |-> m[2], typed |-> m[1]] : m \in marked }

\* ds2 declares what ds does and more.
Longer(ds, ds2) ==
  ds2 \in Seq(LocalVar) /\ DOMAIN ds \subseteq DOMAIN ds2 /\ \A l \in DOMAIN ds : ds2[l] = ds[l]

\* A may come into scope in the innermost function.
Declarable(fs, ds2, A) ==
  \A l \in A :
    /\ l \in DOMAIN ds2 /\ ds2[l].fn = Last(fs).fn /\ ds2[l].sort # "magic"
    /\ \A i \in 1..Len(fs) : l \notin Range(fs[i].locals)
    /\ \A i \in 1..Len(fs) : fs[i].fn = Last(fs).fn =>
         \A m \in Range(fs[i].locals) : SameVar(ds2, l, m) => l = m
    /\ \A m \in A : SameVar(ds2, l, m) => l = m

\* fs2 is fs with the locals A in frame h and these uses marked in the innermost frame.
Declaring(fs, fs2, h, A, marked) ==
  /\ fs2 \in Seq(Frame) /\ Len(fs2) = Len(fs)
  /\ h \in 1..Len(fs) /\ fs[h].fn = Last(fs).fn
  /\ \A i \in 1..Len(fs) :
       /\ fs2[i].fn = fs[i].fn /\ fs2[i].kind = fs[i].kind /\ ChildOf(fs2[i]) = ChildOf(fs[i])
       /\ Range(fs2[i].locals) = IF i = h THEN Range(fs[i].locals) \cup A ELSE Range(fs[i].locals)
       /\ SelfOf(fs2[i]) = IF i = Len(fs) THEN SelfOf(fs[i]) \cup marked ELSE SelfOf(fs[i])

\* What is marked is an underscore of the function's or a local made in it.
Makes(fs, fs2, ds2, marked) ==
  /\ marked \in SUBSET Use
  /\ \A x \in marked :
       /\ x[1] \in DOMAIN ds2 /\ ds2[x[1]].fn = Last(fs).fn
       /\ \/ ds2[x[1]].sort = "magic"
          \/ ds2[x[1]].sort = "synthetic" /\ \E i \in 1..Len(fs) : x[1] \in Range(fs2[i].locals)

\* What is declared is of the innermost function.
OwnDeclared(ds, ds2, fs, marked) ==
  \A l \in DOMAIN ds2 \ DOMAIN ds :
    /\ ds2[l].fn = Last(fs).fn
    /\ ds2[l].sort = "magic" => \E x \in marked : x[1] = l

\* Declarations and uses keep the invariant.
LEMMA DeclaresIn ==
  ASSUME NEW ds, NEW gs, NEW fs, NEW us, NEW fl, Scouted(ds, gs, fs, us, fl),
         NEW ds2, Longer(ds, ds2), NEW marked, OwnDeclared(ds, ds2, fs, marked),
         NEW A, Declarable(fs, ds2, A), NEW h, NEW fs2, Declaring(fs, fs2, h, A, marked),
         Makes(fs, fs2, ds2, marked)
  PROVE  Scouted(ds2, gs, fs2, us \cup Made(Last(fs).fn, marked), fl)
  <1> DEFINE n == Len(fs)
             new == Made(Last(fs).fn, marked)
             us2 == us \cup new
             F == Fns(fs)
             L == Locs(fs)
             L2 == Locs(fs2)
             S == Selfs(fs)
             S2 == Selfs(fs2)
  <1>1. fs \in Seq(Frame) /\ n \in Nat /\ n \in 1..n /\ Last(fs) = fs[n]
    BY ScoutedFacts DEF Scouted
  <1>2. /\ \A i \in 1..n : F[i] = fs[i].fn /\ L[i] = Range(fs[i].locals) /\ S[i] = SelfOf(fs[i])
        /\ \A i \in 1..n : L2[i] = Range(fs2[i].locals) /\ S2[i] = SelfOf(fs2[i])
    BY <1>1, Views DEF Declaring
  <1> HIDE DEF F, L, L2, S, S2, new, us2
  <1>a. Last(fs).fn = F[n]
    BY <1>1, <1>2
  <1>3. \A l \in A :
          /\ l \in DOMAIN ds2 /\ ds2[l].fn = F[n] /\ ds2[l].sort # "magic"
          /\ \A i \in 1..n : l \notin L[i]
          /\ \A i \in 1..n : F[i] = F[n] => \A m \in L[i] \cup A : SameVar(ds2, l, m) => l = m
    <2> TAKE l \in A
    <2>1. l \in DOMAIN ds2 /\ ds2[l].fn = F[n] /\ ds2[l].sort # "magic"
      BY <1>a DEF Declarable
    <2>2. \A i \in 1..n : l \notin L[i]
      BY <1>2 DEF Declarable
    <2>3. ASSUME NEW i \in 1..n, F[i] = F[n], NEW m \in L[i] \cup A, SameVar(ds2, l, m)  PROVE l = m
      <3>1. CASE m \in A
        BY <3>1, <2>3 DEF Declarable
      <3>2. CASE m \in L[i]
        <4>1. m \in Range(fs[i].locals) /\ fs[i].fn = Last(fs).fn
          BY <3>2, <2>3, <1>2, <1>a
        <4>2. QED  BY <4>1, <2>3 DEF Declarable
      <3>3. QED  BY <3>1, <3>2, <2>3
    <2>4. QED  BY <2>1, <2>2, <2>3
  <1>4. ASSUME NEW i \in 1..n
        PROVE  /\ L2[i] = IF i = h THEN L[i] \cup A ELSE L[i]
               /\ S2[i] = IF i = n THEN S[i] \cup marked ELSE S[i]
    <2>1. /\ Range(fs2[i].locals) = IF i = h THEN Range(fs[i].locals) \cup A ELSE Range(fs[i].locals)
          /\ SelfOf(fs2[i]) = IF i = n THEN SelfOf(fs[i]) \cup marked ELSE SelfOf(fs[i])
      BY DEF Declaring
    <2>2. /\ L[i] = Range(fs[i].locals) /\ S[i] = SelfOf(fs[i])
          /\ L2[i] = Range(fs2[i].locals) /\ S2[i] = SelfOf(fs2[i])
      BY <1>2
    <2> HIDE DEF n
    <2>3. QED  BY <2>1, <2>2
  <1>5. ASSUME NEW x \in marked
        PROVE  \/ \E i \in 1..n : /\ x[1] \in L2[i]
                                  /\ \A k \in i + 1..n : \A m \in L2[k] : ~SameVar(ds2, x[1], m)
               \/ x[1] \in DOMAIN ds2 /\ ds2[x[1]].sort = "magic" /\ ds2[x[1]].fn = F[n]
    <2>1. CASE ds2[x[1]].sort = "magic"
      BY <2>1, <1>a DEF Makes
    <2>2. CASE ds2[x[1]].sort # "magic"
      <3>1. ds2[x[1]].sort = "synthetic"
        BY <2>2 DEF Makes
      <3>2. \A m : ~SameVar(ds2, x[1], m)
        BY <3>1 DEF SameVar
      <3>3. PICK i \in 1..n : x[1] \in L2[i]
        BY <2>2, <1>2 DEF Makes
      <3>4. QED  BY <3>2, <3>3
    <2>3. QED  BY <2>1, <2>2
  <1>6. \A x \in marked : x = <<x[1], x[2]>>
    BY DEF Use, Makes
  <1>7. ASSUME NEW x \in marked
        PROVE  \E u \in new : u.fn = F[n] /\ x = <<u.local, u.how>>
    <2>1. [fn |-> Last(fs).fn, local |-> x[1], how |-> x[2], typed |-> x[1]] \in new
      BY DEF Made, new
    <2>2. QED  BY <2>1, <1>a, <1>6
  <1>8. ASSUME NEW u \in new
        PROVE  /\ u.fn = F[n] /\ <<u.local, u.how>> \in marked /\ u.local \in DOMAIN ds2
               /\ u.typed = IF ds2[u.local].fn = F[n] THEN u.local ELSE Outside
    <2>1. PICK x \in marked : u = [fn |-> Last(fs).fn, local |-> x[1], how |-> x[2], typed |-> x[1]]
      BY DEF Made, new
    <2>2. x = <<x[1], x[2]>> /\ x[1] \in DOMAIN ds2 /\ ds2[x[1]].fn = Last(fs).fn
      BY <1>6 DEF Makes
    <2>3. QED  BY <2>1, <2>2, <1>a
  <1>9. us \subseteq us2 /\ us2 \ us \subseteq new /\ new \subseteq us2
    BY DEF us2
  <1>10. h \in 1..n /\ F[h] = F[n]
    BY <1>1, <1>2 DEF Declaring
  <1>11. \A l \in DOMAIN ds2 \ DOMAIN ds :
            /\ ds2[l].fn = F[n]
            /\ ds2[l].sort = "magic" => \E x \in marked : x[1] = l
    BY <1>a DEF OwnDeclared
  <1>12. \A x \in marked : \E u \in us2 : u.fn = F[n] /\ x = <<u.local, u.how>>
    BY <1>7, <1>9
  <1> HIDE DEF n
  <1>13. Extends(ds, n, F, L, S, us, ds2, h, A, L2, marked, S2, us2)
    BY <1>3, <1>4, <1>5, <1>8, <1>9, <1>10, <1>11, <1>12 DEF Extends, Longer
  <1>14. Scouted(ds2, gs, fs2, us2, fl)
    BY <1>13, ScoutedExtends DEF n, F, L, L2, S, S2, Longer, Declaring
  <1>15. QED  BY <1>14 DEF us2, new

\* t is ds and then new.
Joined(T, ds, new, t) ==
  /\ t \in Seq(T) /\ DOMAIN ds \subseteq DOMAIN t
  /\ Len(ds) \in Nat /\ DOMAIN ds = 1..Len(ds) /\ DOMAIN new = 1..Len(new) /\ Len(new) \in Nat
  /\ Len(t) = Len(ds) + Len(new) /\ DOMAIN t = 1..Len(ds) + Len(new)
  /\ \A l \in DOMAIN ds : t[l] = ds[l]
  /\ \A k \in DOMAIN new : Len(ds) + k \in DOMAIN t /\ t[Len(ds) + k] = new[k]
                           /\ Len(ds) + k \notin DOMAIN ds
  /\ \A l \in DOMAIN t \ DOMAIN ds : \E k \in DOMAIN new : l = Len(ds) + k

\* A concatenation is that.
LEMMA MoreLocals ==
  ASSUME NEW T, NEW ds \in Seq(T), NEW new \in Seq(T)
  PROVE  Joined(T, ds, new, ds \o new)
  <1> DEFINE t == ds \o new
             a == Len(ds)
             b == Len(new)
  <1>1. a \in Nat /\ b \in Nat /\ DOMAIN ds = 1..a /\ DOMAIN new = 1..b
    OBVIOUS
  <1>2. t \in Seq(T) /\ Len(t) = a + b /\ DOMAIN t = 1..a + b
    BY <1>1
  <1>3. \A l \in 1..a : t[l] = ds[l]
    BY <1>1
  <1>4. \A k \in 1..b : t[a + k] = new[k]
    BY <1>1
  <1> HIDE DEF t, a, b
  <1>5. \A k \in 1..b : a + k \in 1..a + b /\ a + k \notin 1..a
    BY <1>1
  <1>6. \A l \in 1..a + b : l \notin 1..a => l - a \in 1..b /\ l = a + (l - a)
    BY <1>1
  <1>7. 1..a \subseteq 1..a + b
    BY <1>1
  <1>8. QED  BY <1>1, <1>2, <1>3, <1>4, <1>5, <1>6, <1>7 DEF t, a, b, Joined

\* The block that declarations go to is the function's that they are in.
LEMMA HomeFacts ==
  ASSUME NEW gs, NEW fs, NEW us, NEW fl, Scouted(decls, gs, fs, us, fl)
  PROVE  /\ Home(fs) \in 1..Len(fs) /\ fs[Home(fs)].kind \notin Ifs
         /\ fs[Home(fs)].fn = Last(fs).fn
  <1> DEFINE n == Len(fs)
             blocks == { i \in DOMAIN fs : fs[i].kind \notin Ifs }
             h == Home(fs)
  <1>1. /\ n \in Nat /\ n > 0 /\ fs \in Seq(Frame) /\ DOMAIN fs = 1..n /\ Last(fs) = fs[n]
        /\ fs[1].kind = "function"
        /\ \A i \in 2..n : IF fs[i].kind = "function" THEN TRUE ELSE fs[i].fn = fs[i - 1].fn
    BY ScoutedFacts DEF Scouted
  <1>2. blocks \in SUBSET (1..n) /\ 1 \in blocks
    BY <1>1 DEF Ifs
  <1>3. h = Max(blocks)
    BY DEF Home
  <1> HIDE DEF h
  <1>4. h \in blocks /\ \A i \in blocks : i <= h
    <2> HIDE DEF blocks
    <2>1. QED  BY <1>1, <1>2, <1>3, LargestIndex
  <1>5. h \in 1..n /\ h \in Nat
    BY <1>1, <1>4
  <1> DEFINE same == { i \in h..n : fs[i].fn = fs[h].fn }
             m == Max(same)
  <1>6. same \in SUBSET (1..n) /\ h \in same
    BY <1>1, <1>5
  <1>7. m \in same /\ \A i \in same : i <= m
    <2> HIDE DEF same
    <2>1. QED  BY <1>1, <1>6, LargestIndex
  <1> HIDE DEF m
  <1>8. m = n
    <2> SUFFICES ASSUME m # n  PROVE FALSE
      OBVIOUS
    <2>a. m \in h..n
      BY <1>7
    <2>b. h \in 1..n /\ n \in Nat
      BY <1>1, <1>5
    <2> HIDE DEF n, same
    <2>0. m \in h..n /\ h \in Nat /\ n \in Nat /\ h > 0 /\ m # n
      BY <2>a, <2>b
    <2>1. m \in Nat /\ m + 1 \in 2..n /\ m + 1 \in h..n /\ (m + 1) - 1 = m /\ ~ (m + 1 <= h) /\ ~ (m + 1 <= m)
      BY <2>0
    <2>2. m + 1 \notin blocks
      BY <1>4, <2>1
    <2>3. fs[m + 1].kind \in Ifs
      BY <2>1, <2>2, <1>1
    <2>4. fs[m + 1].fn = fs[m].fn
      BY <2>1, <2>3, <1>1 DEF Ifs
    <2>5. m + 1 \in same
      BY <2>1, <2>4, <1>7 DEF same
    <2>6. QED  BY <2>1, <2>5, <1>7
  <1>9. fs[h].fn = fs[n].fn
    BY <1>7, <1>8
  <1>10. QED  BY <1>1, <1>4, <1>5, <1>9 DEF h

\* A frame with more locals.
LEMMA LongerFrame ==
  ASSUME NEW f \in Frame, f.kind \notin Ifs, NEW ls \in Seq(Nat)
  PROVE  LET g == [f EXCEPT !.locals = @ \o ls]
         IN /\ g \in Frame /\ SameShape(f, g) /\ g.kind = f.kind /\ g.fn = f.fn
            /\ g.locals = f.locals \o ls
            /\ Range(g.locals) = Range(f.locals) \cup Range(ls)
            /\ g.uses = f.uses /\ SelfOf(g) = SelfOf(f) /\ ChildOf(g) = ChildOf(f)
  <1> DEFINE g == [f EXCEPT !.locals = @ \o ls]
             a == f.locals
             b == a \o ls
  <1>1. f \in BlockFrame /\ a \in Seq(Nat) /\ b \in Seq(Nat)
    BY FrameFields
  <1>2. g \in BlockFrame /\ g.kind = f.kind /\ g.fn = f.fn /\ g.locals = b /\ g.uses = f.uses
    BY <1>1 DEF BlockFrame
  <1> HIDE DEF g
  <1>3. /\ b \in Seq(Nat) /\ DOMAIN a \subseteq DOMAIN b
        /\ \A l \in DOMAIN a : b[l] = a[l]
        /\ \A k \in DOMAIN ls : Len(a) + k \in DOMAIN b /\ b[Len(a) + k] = ls[k]
        /\ \A l \in DOMAIN b \ DOMAIN a : \E k \in DOMAIN ls : l = Len(a) + k
    <2> HIDE DEF a
    <2>1. b = a \o ls
      OBVIOUS
    <2> HIDE DEF b
    <2>2. Joined(Nat, a, ls, b)
      BY <1>1, <2>1, MoreLocals
    <2>3. QED  BY <1>1, <2>2 DEF Joined
  <1> HIDE DEF a, b
  <1>4. Range(b) = Range(a) \cup Range(ls)
    <2>1. \A x \in Range(b) : x \in Range(a) \cup Range(ls)
      <3> TAKE x \in Range(b)
      <3>1. PICK l \in DOMAIN b : x = b[l]
        BY DEF Range
      <3>2. CASE l \in DOMAIN a
        BY <3>1, <3>2, <1>3 DEF Range
      <3>3. CASE l \notin DOMAIN a
        <4>1. PICK k \in DOMAIN ls : l = Len(a) + k
          BY <3>1, <3>3, <1>3
        <4>2. x = ls[k]
          BY <3>1, <4>1, <1>3
        <4>3. QED  BY <4>2 DEF Range
      <3>4. QED  BY <3>2, <3>3
    <2>2. Range(a) \subseteq Range(b)
      BY <1>3 DEF Range
    <2>3. Range(ls) \subseteq Range(b)
      <3> SUFFICES ASSUME NEW x \in Range(ls)  PROVE x \in Range(b)
        OBVIOUS
      <3>1. PICK k \in DOMAIN ls : x = ls[k]
        BY DEF Range
      <3>2. Len(a) + k \in DOMAIN b /\ b[Len(a) + k] = x
        BY <3>1, <1>3
      <3>3. QED  BY <3>2 DEF Range
    <2>4. QED  BY <2>1, <2>2, <2>3
  <1>5. SelfOf(g) = SelfOf(f) /\ ChildOf(g) = ChildOf(f) /\ SameShape(f, g)
    BY <1>2 DEF SelfOf, ChildOf, SameShape
  <1>6. QED  BY <1>2, <1>4, <1>5 DEF Frame, g, a, b

Indices(b, locals) == { b + k : k \in DOMAIN locals }

\* A may come into scope, and nothing there is taken for one of them.
Fresh(fs, ds2, A) ==
  \A l \in A :
    /\ l \in DOMAIN ds2 /\ ds2[l].fn = Last(fs).fn /\ ds2[l].sort \in {"var", "member"}
    /\ \A i \in 1..Len(fs) : l \notin Range(fs[i].locals)
    /\ \A i \in 1..Len(fs) : fs[i].fn = Last(fs).fn =>
         \A m \in Range(fs[i].locals) : ~SameVar(ds2, l, m)
    /\ \A m \in A : SameVar(ds2, l, m) => l = m

\* Locals whose names are free can be declared.
LEMMA FreshDeclarable ==
  ASSUME NEW fs, NEW ds2, NEW A, Fresh(fs, ds2, A)
  PROVE  Declarable(fs, ds2, A)
  BY DEF Fresh, Declarable

\* New locals of a pattern that the typing pass accepts.
LEMMA FreshLocals ==
  ASSUME NEW gs, NEW fs, NEW us, NEW fl, Scouted(decls, gs, fs, us, fl),
         NEW locals \in Seq(LocalVar),
         \A d \in Range(locals) : d.fn = Last(fs).fn /\ d.sort \in {"var", "member"},
         ~IsTaken(fs, locals),
         NEW ds2, Longer(decls, ds2),
         NEW b \in Nat, Len(decls) <= b,
         \A k \in DOMAIN locals : b + k \in DOMAIN ds2 /\ ds2[b + k] = locals[k]
  PROVE  Fresh(fs, ds2, Indices(b, locals)) /\ \A l \in Indices(b, locals) : l \in Nat /\ l > b
  <1> SUFFICES ASSUME NEW l \in Indices(b, locals)
      PROVE  /\ l \in DOMAIN ds2 /\ ds2[l].fn = Last(fs).fn /\ ds2[l].sort \in {"var", "member"}
             /\ l > b /\ l \in Nat
             /\ \A i \in 1..Len(fs) : l \notin Range(fs[i].locals)
             /\ \A i \in 1..Len(fs) : fs[i].fn = Last(fs).fn =>
                  \A m \in Range(fs[i].locals) : ~SameVar(ds2, l, m)
             /\ \A m \in Indices(b, locals) : SameVar(ds2, l, m) => l = m
    BY DEF Fresh
  <1>0. \A l2 \in DOMAIN decls : ds2[l2] = decls[l2]
    BY DEF Longer
  <1>1. DOMAIN locals = 1..Len(locals) /\ Len(locals) \in Nat
        /\ \A k \in DOMAIN locals : locals[k] \in LocalVar /\ locals[k] \in Range(locals)
    BY DEF Range
  <1>2. PICK k \in DOMAIN locals : l = b + k
    BY DEF Indices
  <1>3. ds2[l] = locals[k] /\ l \in DOMAIN ds2 /\ ds2[l].fn = Last(fs).fn /\ ds2[l].sort \in {"var", "member"}
    BY <1>1, <1>2
  <1>4. k \in Nat /\ k > 0 /\ l > b /\ l \in Nat
    BY <1>1, <1>2
  <1>5. \A i \in 1..Len(fs) : \A m \in Range(fs[i].locals) : m \in DOMAIN decls /\ m \in 1..Len(decls)
    BY ScoutedFacts
  <1>6. \A m \in 1..Len(decls) : m # l
    <2>1. Len(decls) \in Nat
      BY ScoutedFacts
    <2>2. QED  BY <2>1, <1>4
  <1>7. get_variable(fs, locals[k].name, locals[k].sort) = Outside
    BY <1>1 DEF IsTaken
  <1>8. ASSUME NEW i \in 1..Len(fs), fs[i].fn = Last(fs).fn, NEW m \in Range(fs[i].locals)
        PROVE  ~SameVar(ds2, l, m)
    <2>1. ~IsCalled(m, locals[k].name, locals[k].sort)
      BY <1>7, <1>8, TypedOutside
    <2>2. ds2[m] = decls[m]
      BY <1>0, <1>5
    <2>3. QED  BY <2>1, <2>2, <1>3 DEF IsCalled, SameVar
  <1>9. ASSUME NEW m \in Indices(b, locals), SameVar(ds2, l, m)  PROVE l = m
    <2>1. PICK j \in DOMAIN locals : m = b + j
      BY DEF Indices
    <2>2. ds2[m] = locals[j]
      BY <2>1
    <2>3. /\ locals[k].name = locals[j].name /\ locals[k].sort = locals[j].sort
          /\ locals[k].fn = locals[j].fn
      BY <2>2, <1>1, <1>3, <1>9 DEF SameVar
    <2>4. locals[k] = locals[j]
      <3>1. \A d \in LocalVar : d = [name |-> d.name, sort |-> d.sort, fn |-> d.fn]
        BY DEF LocalVar
      <3>2. locals[k] \in LocalVar /\ locals[j] \in LocalVar
        BY <1>1
      <3>3. QED  BY <2>3, <3>1, <3>2
    <2>5. \A x, y \in DOMAIN locals : locals[x] = locals[y] => x = y
      BY DEF IsTaken, IsInjective
    <2>6. k = j
      BY <2>4, <2>5
    <2>7. QED  BY <2>1, <2>6, <1>2
  <1>10. QED  BY <1>3, <1>4, <1>5, <1>6, <1>8, <1>9

\* The places of new locals.
LEMMA NewRange ==
  ASSUME NEW locals, NEW b \in Nat, DOMAIN locals \subseteq Nat
  PROVE  Range([k \in DOMAIN locals |-> b + k]) = Indices(b, locals)
  BY DEF Range, Indices

\* A pattern, by what it declares.
LEMMA DeclareKeeps ==
  ASSUME Scouting, NEW locals \in Seq(LocalVar),
         \A d \in Range(locals) : d.fn = Top.fn /\ d.sort \in {"var", "member"},
         Declare(locals)
  PROVE  ScoutInv'
  <1> DEFINE n == Len(frames)
             h == Home(frames)
             b == Len(decls)
             new == [k \in DOMAIN locals |-> New(k)]
             ds2 == decls \o locals
             A == Indices(b, locals)
             f == [frames[h] EXCEPT !.locals = @ \o new]
             t == [frames EXCEPT ![h] = f]
  <1>1. CASE Fail("error") \/ Fail("panicked")
    BY <1>1, FailKeeps
  <1>2. CASE /\ ~IsTaken(frames, locals) /\ decls' = ds2 /\ frames' = Plus(frames, locals)
             /\ UNCHANGED <<bounds, fns, flags, uses, outcome>>
    <2>1. /\ frames \in Seq(Frame) /\ n \in Nat /\ n > 0 /\ n \in 1..n /\ Last(frames) = frames[n]
          /\ Top = Last(frames) /\ decls \in Seq(LocalVar)
      BY TopFn DEF Scouting, Scouted, Top
    <2>2. h \in 1..n /\ frames[h].kind \notin Ifs /\ frames[h].fn = Last(frames).fn /\ frames[h] \in Frame
      BY <2>1, HomeFacts DEF Scouting
    <2>3. frames' = t
      <3>1. frames' = [frames EXCEPT ![h].locals = @ \o new]
        BY <1>2 DEF Plus
      <3>2. QED  BY <3>1
    <2> HIDE DEF h
    <2>4. /\ ds2 \in Seq(LocalVar) /\ DOMAIN decls \subseteq DOMAIN ds2
          /\ b \in Nat /\ DOMAIN locals = 1..Len(locals) /\ Len(locals) \in Nat
          /\ \A l \in DOMAIN decls : ds2[l] = decls[l]
          /\ \A k \in DOMAIN locals : b + k \in DOMAIN ds2 /\ ds2[b + k] = locals[k]
          /\ \A l \in DOMAIN ds2 \ DOMAIN decls : \E k \in DOMAIN locals : l = b + k
      <3>1. Joined(LocalVar, decls, locals, ds2)
        BY <2>1, MoreLocals
      <3> HIDE DEF ds2
      <3>2. QED  BY <3>1 DEF Joined
    <2> HIDE DEF ds2
    <2>5. new \in Seq(Nat) /\ Range(new) = A
      <3>1. new = [k \in 1..Len(locals) |-> b + k]
        BY <2>4 DEF New
      <3>2. \A k \in 1..Len(locals) : b + k \in Nat
        BY <2>4
      <3>3. new \in Seq(Nat)
        BY <3>1, <3>2, <2>4
      <3>4. DOMAIN locals \subseteq Nat
        BY <2>4
      <3>5. QED  BY <3>1, <3>3, <3>4, <2>4, NewRange
    <2> HIDE DEF new
    <2>6. /\ f \in Frame /\ SameShape(frames[h], f) /\ f.kind = frames[h].kind /\ f.fn = frames[h].fn
          /\ Range(f.locals) = Range(frames[h].locals) \cup A
          /\ SelfOf(f) = SelfOf(frames[h]) /\ ChildOf(f) = ChildOf(frames[h])
      <3> DEFINE old == frames[h]
      <3>1. old \in Frame /\ old.kind \notin Ifs /\ f = [old EXCEPT !.locals = @ \o new]
        BY <2>2
      <3> HIDE DEF old, f, A
      <3>2. /\ f \in Frame /\ SameShape(old, f) /\ f.kind = old.kind /\ f.fn = old.fn
            /\ Range(f.locals) = Range(old.locals) \cup Range(new)
            /\ SelfOf(f) = SelfOf(old) /\ ChildOf(f) = ChildOf(old)
        BY <3>1, <2>5, LongerFrame
      <3>3. QED  BY <3>2, <2>5 DEF old
    <2> HIDE DEF f
    <2>7. /\ t \in Seq(Frame) /\ Len(t) = n
          /\ \A i \in 1..n : t[i] = IF i = h THEN f ELSE frames[i]
      BY <2>1, <2>2, <2>6
    <2> HIDE DEF t
    <2>8. \A i \in 1..n :
            /\ t[i].fn = frames[i].fn /\ t[i].kind = frames[i].kind /\ ChildOf(t[i]) = ChildOf(frames[i])
            /\ Range(t[i].locals) = IF i = h THEN Range(frames[i].locals) \cup A ELSE Range(frames[i].locals)
            /\ SelfOf(t[i]) = SelfOf(frames[i]) /\ SameShape(frames[i], t[i])
      <3> TAKE i \in 1..n
      <3>1. CASE i = h
        BY <3>1, <2>6, <2>7
      <3>2. CASE i # h
        BY <3>2, <2>7 DEF SameShape
      <3>3. QED  BY <3>1, <3>2
    <2>9. Longer(decls, ds2)
      BY <2>4 DEF Longer
    <2>10. Declarable(frames, ds2, A)
      <3>1. Len(decls) <= b
        BY <2>4
      <3>2. Scouted(decls, fns, frames, uses, flags)
        BY DEF Scouting
      <3>3. \A d \in Range(locals) : d.fn = Last(frames).fn /\ d.sort \in {"var", "member"}
        BY <2>1
      <3>4. ~IsTaken(frames, locals) /\ b \in Nat
        BY <1>2, <2>4
      <3>5. \A k \in DOMAIN locals : b + k \in DOMAIN ds2 /\ ds2[b + k] = locals[k]
        BY <2>4
      <3> HIDE DEF n, b
      <3>6. Fresh(frames, ds2, A)
        BY <3>1, <3>2, <3>3, <3>4, <3>5, <2>9, FreshLocals
      <3>7. QED  BY <3>6, FreshDeclarable
    <2>11. Scouted(ds2, fns, t, uses \cup Made(Last(frames).fn, {}), flags)
      <3>1. OwnDeclared(decls, ds2, frames, {})
        <4> SUFFICES ASSUME NEW l \in DOMAIN ds2 \ DOMAIN decls
                     PROVE  ds2[l].fn = Last(frames).fn /\ ds2[l].sort # "magic"
          BY DEF OwnDeclared
        <4>1. l \in A
          BY <2>4 DEF Indices
        <4>2. QED  BY <4>1, <2>10 DEF Declarable
      <3>2. Declaring(frames, t, h, A, {})
        <4> HIDE DEF A
        <4>1. QED  BY <2>2, <2>7, <2>8 DEF Declaring
      <3>3. Makes(frames, t, ds2, {})
        BY DEF Makes
      <3> HIDE DEF n, b, A
      <3>4. QED  BY <3>1, <3>2, <3>3, <2>9, <2>10, DeclaresIn DEF Scouting
    <2>12. uses \cup Made(Last(frames).fn, {}) = uses
      BY DEF Made
    <2>13. Shape(t)
      <3>1. \A i \in 1..Len(frames) : SameShape(frames[i], t[i])
        BY <2>8
      <3>2. QED  BY <3>1, <2>1, <2>7, ShapeSame DEF Scouting
    <2>14. QED  BY <1>2, <2>3, <2>11, <2>12, <2>13, StillScouting
  <1>3. QED  BY <1>1, <1>2 DEF Declare

\* The locals of a pattern.
LEMMA VarsFacts ==
  ASSUME NEW names \in Seq(Name), NEW fn \in Nat
  PROVE  LET t == [k \in DOMAIN names |-> Local(names[k], "var", fn)] IN
         /\ t \in Seq(LocalVar) /\ DOMAIN t = DOMAIN names
         /\ \A d \in Range(t) : d.fn = fn /\ d.sort = "var"
  <1> DEFINE t == [k \in DOMAIN names |-> Local(names[k], "var", fn)]
             m == Len(names)
  <1>1. m \in Nat /\ DOMAIN names = 1..m /\ \A k \in 1..m : names[k] \in Name
    OBVIOUS
  <1>2. \A k \in 1..m : Local(names[k], "var", fn) \in LocalVar
    BY <1>1 DEF Local, LocalVar, Sorts
  <1>3. t \in Seq(LocalVar)
    BY <1>1, <1>2
  <1>4. \A d \in Range(t) : d.fn = fn /\ d.sort = "var"
    <2> TAKE d \in Range(t)
    <2>1. PICK k \in DOMAIN t : d = t[k]
      BY DEF Range
    <2>2. d = Local(names[k], "var", fn)
      BY <2>1
    <2>3. QED  BY <2>2 DEF Local
  <1>5. QED  BY <1>3, <1>4

\* A pattern is a sequence of names.
LEMMA PatternNames == \A names \in Patterns : names \in Seq(Name)
  <1>1. /\ \A n \in Name : <<n>> \in Seq(Name)
        /\ \A n, o \in Name : <<n, o>> \in Seq(Name)
    OBVIOUS
  <1> SUFFICES ASSUME NEW names \in Patterns  PROVE names \in Seq(Name)
    OBVIOUS
  <1>2. CASE \E n \in Name : names = <<n>>
    BY <1>1, <1>2
  <1>3. CASE \E n, o \in Name : names = <<n, o>>
    BY <1>1, <1>3
  <1>4. QED  BY <1>2, <1>3 DEF Patterns

\* let.
LEMMA LetKeeps ==
  ASSUME Scouting, NEW names \in Patterns, Let(names)
  PROVE  ScoutInv'
  <1>1. Vars(names) \in Seq(LocalVar) /\ \A d \in Range(Vars(names)) : d.fn = Top.fn /\ d.sort = "var"
    BY TopFn, PatternNames, VarsFacts DEF Vars
  <1>2. Declare(Vars(names))
    BY DEF Let
  <1>3. QED  BY <1>1, <1>2, DeclareKeeps

\* self.m = ...
LEMMA LetMemberKeeps ==
  ASSUME Scouting, NEW m \in Member, LetMember(m)
  PROVE  ScoutInv'
  <1> DEFINE d == Local(m, "member", Top.fn)
  <1>1. d \in LocalVar /\ d.fn = Top.fn /\ d.sort = "member"
    BY TopFn DEF Local, LocalVar, Sorts
  <1>2. Declare(<<d>>)
    BY DEF LetMember
  <1> HIDE DEF d
  <1>3. <<d>> \in Seq(LocalVar) /\ \A x \in Range(<<d>>) : x = d
    BY <1>1 DEF Range
  <1>4. QED  BY <1>1, <1>2, <1>3, DeclareKeeps

\* A pattern that sets what the typing pass does not find.
LEMMA LetSettingKeeps ==
  ASSUME Scouting, NEW n, LetSetting(n)
  PROVE  ScoutInv'
  BY FailKeeps DEF LetSetting

\* An underscore.
LEMMA MagicParamKeeps ==
  ASSUME Scouting, NEW load, MagicParam(load)
  PROVE  ScoutInv'
  <1> DEFINE n == Len(frames)
             b == Len(decls)
             l == b + 1
             d == Local(self, "magic", Top.fn)
             ds2 == Append(decls, d)
             marked == { <<l, "moved">>, <<l, Coerced(load)>> }
             t == Marked(frames, marked)
  <1>1. /\ frames \in Seq(Frame) /\ frames # <<>> /\ n \in Nat /\ n > 0 /\ n \in 1..n
        /\ Last(frames) = frames[n] /\ Top = frames[n] /\ decls \in Seq(LocalVar) /\ Top.fn \in Nat
    BY TopFn DEF Scouting, Scouted
  <1>2. /\ frames' = t /\ decls' = ds2 /\ UNCHANGED <<fns, flags, outcome>>
        /\ uses' = uses \cup { [fn |-> Top.fn, local |-> l, how |-> how, typed |-> l]
                               : how \in {"moved", Coerced(load)} }
    BY DEF MagicParam, New
  <1>3. b \in Nat /\ DOMAIN decls = 1..b /\ l \in Nat /\ l \notin 1..b
    BY <1>1
  <1>4. d \in LocalVar /\ d.fn = Top.fn /\ d.sort = "magic"
    BY <1>1, SelfIsAName DEF Local, LocalVar, Sorts
  <1> HIDE DEF d
  <1>5. /\ ds2 \in Seq(LocalVar) /\ DOMAIN ds2 = DOMAIN decls \cup {l} /\ ds2[l] = d
        /\ \A k \in DOMAIN decls : ds2[k] = decls[k]
    BY <1>1, <1>3, <1>4
  <1> HIDE DEF ds2, b
  <1>6. Longer(decls, ds2)
    BY <1>5 DEF Longer
  <1>7. marked \in SUBSET Use
    <2>1. Coerced(load) \in How /\ "moved" \in How
      BY DEF Coerced, How
    <2>2. QED  BY <2>1, <1>3 DEF Use
  <1>8. \A x \in marked : x[1] = l
    OBVIOUS
  <1>9. OwnDeclared(decls, ds2, frames, marked)
    <2>1. \E x \in marked : x[1] = l
      BY <1>8
    <2> HIDE DEF marked, l
    <2>2. QED  BY <2>1, <1>1, <1>4, <1>5 DEF OwnDeclared
  <1>10. Made(Last(frames).fn, marked)
           = { [fn |-> Top.fn, local |-> l, how |-> how, typed |-> l] : how \in {"moved", Coerced(load)} }
    <2>1. \A fn : { [fn |-> fn, local |-> m[1], how |-> m[2], typed |-> m[1]] : m \in marked }
                    = { [fn |-> fn, local |-> l, how |-> how, typed |-> l] : how \in {"moved", Coerced(load)} }
      OBVIOUS
    <2>2. QED  BY <2>1, <1>1 DEF Made
  <1> HIDE DEF marked, l
  <1>11. Declaring(frames, t, n, {}, marked)
    <2>1. /\ t \in Seq(Frame) /\ Len(t) = n
          /\ \A i \in 1..n : /\ SameShape(frames[i], t[i]) /\ t[i].fn = frames[i].fn
                             /\ t[i].locals = frames[i].locals /\ ChildOf(t[i]) = ChildOf(frames[i])
                             /\ SelfOf(t[i]) = IF i = n THEN SelfOf(frames[i]) \cup marked ELSE SelfOf(frames[i])
      BY <1>1, <1>7, MarkedFrames
    <2> HIDE DEF t
    <2>2. \A i \in 1..n : /\ t[i].kind = frames[i].kind
                          /\ Range(t[i].locals) = IF i = n THEN Range(frames[i].locals) \cup {}
                                                 ELSE Range(frames[i].locals)
      BY <2>1 DEF SameShape
    <2>3. n \in 1..n /\ frames[n].fn = Last(frames).fn
      BY <1>1
    <2>4. QED  BY <2>1, <2>2, <2>3 DEF Declaring
  <1>12. Makes(frames, t, ds2, marked)
    BY <1>1, <1>4, <1>5, <1>7, <1>8 DEF Makes
  <1>13. Declarable(frames, ds2, {})
    BY DEF Declarable
  <1> HIDE DEF n
  <1>14. Scouted(ds2, fns, t, uses \cup Made(Last(frames).fn, marked), flags)
    BY <1>6, <1>9, <1>11, <1>12, <1>13, DeclaresIn DEF Scouting
  <1>15. Shape(t)
    <2>1. Len(t) = n /\ \A i \in 1..n : SameShape(frames[i], t[i])
      BY <1>1, <1>7, MarkedFrames DEF n
    <2>2. QED  BY <2>1, <1>1, ShapeSame DEF Scouting, n
  <1> HIDE DEF t
  <1>16. QED  BY <1>2, <1>10, <1>14, <1>15, StillScouting

\* A block that begins with locals.
LEMMA BlockWith ==
  ASSUME NEW kind \in Kinds, NEW fn \in Nat, NEW ls \in Seq(Nat)
  PROVE  LET f == Block(kind, fn, ls)
         IN f \in Frame /\ f.kind = kind /\ f.fn = fn /\ f.locals = ls /\ SelfOf(f) = {} /\ ChildOf(f) = {}
  <1> DEFINE f == Block(kind, fn, ls)
  <1>1. f \in BlockFrame /\ f.kind = kind /\ f.fn = fn /\ f.locals = ls /\ f.uses = NoUses
    BY DEF Block, BlockFrame, Kinds, NoUses, Uses
  <1> HIDE DEF f
  <1>2. f.kind \notin Ifs
    BY <1>1 DEF Kinds, Ifs
  <1>3. SelfOf(f) = {} /\ ChildOf(f) = {}
    BY <1>1, <1>2 DEF SelfOf, ChildOf, NoUses
  <1>4. QED  BY <1>1, <1>3 DEF Frame, f

\* What is declared with the start of a foreach: three locals of its own, then the pattern's.
StartsRounds(ds2, b, v) ==
  /\ Longer(decls, ds2) /\ OwnDeclared(decls, ds2, frames, {}) /\ b \in Nat
  /\ \A k \in 1..3 : /\ b + k \in DOMAIN ds2 /\ ds2[b + k].fn = Top.fn
                     /\ ds2[b + k].sort = "synthetic"
  /\ \A k \in DOMAIN v : (b + 3) + k \in DOMAIN ds2 /\ ds2[(b + 3) + k] = v[k]

\* The locals of a foreach and of a round of it.
LEMMA RoundLocals ==
  ASSUME Scouting, NEW v \in Seq(LocalVar), \A d \in Range(v) : d.fn = Top.fn /\ d.sort = "var",
         NEW ds2, ds2 = (decls \o [k \in 1..3 |-> Local(self, "synthetic", Top.fn)]) \o v
  PROVE  StartsRounds(ds2, Len(decls), v)
  <1> DEFINE b == Len(decls)
             s == [k \in 1..3 |-> Local(self, "synthetic", Top.fn)]
             ds1 == decls \o s
  <1>1. decls \in Seq(LocalVar) /\ Top.fn \in Nat /\ Top = Last(frames)
    BY TopFn DEF Scouting, Scouted, Top
  <1>2. /\ s \in Seq(LocalVar) /\ Len(s) = 3 /\ DOMAIN s = 1..3
        /\ \A k \in 1..3 : s[k].fn = Top.fn /\ s[k].sort = "synthetic"
    <2>1. Local(self, "synthetic", Top.fn) \in LocalVar
      BY <1>1, SelfIsAName DEF Local, LocalVar, Sorts
    <2>2. QED  BY <2>1 DEF Local
  <1> HIDE DEF s
  <1>3. /\ ds1 \in Seq(LocalVar) /\ DOMAIN decls \subseteq DOMAIN ds1
        /\ b \in Nat /\ Len(ds1) = b + 3
        /\ \A l \in DOMAIN decls : ds1[l] = decls[l]
        /\ \A k \in 1..3 : b + k \in DOMAIN ds1 /\ ds1[b + k] = s[k]
        /\ \A l \in DOMAIN ds1 \ DOMAIN decls : \E k \in 1..3 : l = b + k
    <2>1. Joined(LocalVar, decls, s, ds1)
      BY <1>1, <1>2, MoreLocals
    <2> HIDE DEF ds1
    <2>2. QED  BY <1>2, <2>1 DEF Joined
  <1>4. ds2 = ds1 \o v
    BY DEF s
  <1> HIDE DEF ds1
  <1>5. /\ ds2 \in Seq(LocalVar) /\ DOMAIN ds1 \subseteq DOMAIN ds2
        /\ \A l \in DOMAIN ds1 : ds2[l] = ds1[l]
        /\ \A k \in DOMAIN v : (b + 3) + k \in DOMAIN ds2 /\ ds2[(b + 3) + k] = v[k]
        /\ \A l \in DOMAIN ds2 \ DOMAIN ds1 : \E k \in DOMAIN v : l = (b + 3) + k
    <2>1. Joined(LocalVar, ds1, v, ds2)
      BY <1>3, <1>4, MoreLocals
    <2> DEFINE c == b + 3
    <2>2. Len(ds1) = c
      BY <1>3
    <2> HIDE DEF c
    <2>3. /\ ds2 \in Seq(LocalVar) /\ DOMAIN ds1 \subseteq DOMAIN ds2
          /\ \A l \in DOMAIN ds1 : ds2[l] = ds1[l]
          /\ \A k \in DOMAIN v : c + k \in DOMAIN ds2 /\ ds2[c + k] = v[k]
          /\ \A l \in DOMAIN ds2 \ DOMAIN ds1 : \E k \in DOMAIN v : l = c + k
      BY <2>1, <2>2 DEF Joined
    <2>4. QED  BY <2>3 DEF c
  <1>6. Longer(decls, ds2)
    BY <1>3, <1>5 DEF Longer
  <1>7. \A k \in 1..3 : /\ b + k \in DOMAIN ds2 /\ ds2[b + k].fn = Top.fn
                        /\ ds2[b + k].sort = "synthetic"
    <2> TAKE k \in 1..3
    <2>1. b + k \in DOMAIN ds1 /\ ds1[b + k] = s[k]
      BY <1>3
    <2>2. b + k \in DOMAIN ds2 /\ ds2[b + k] = s[k]
      BY <2>1, <1>5
    <2>3. QED  BY <2>2, <1>2
  <1>8. OwnDeclared(decls, ds2, frames, {})
    <2> SUFFICES ASSUME NEW l \in DOMAIN ds2 \ DOMAIN decls
                 PROVE  ds2[l].fn = Top.fn /\ ds2[l].sort # "magic"
      BY <1>1 DEF OwnDeclared
    <2>1. CASE l \in DOMAIN ds1
      <3>1. PICK k \in 1..3 : l = b + k
        BY <2>1, <1>3
      <3>2. QED  BY <3>1, <1>7
    <2>2. CASE l \notin DOMAIN ds1
      <3>1. PICK k \in DOMAIN v : l = (b + 3) + k
        BY <2>2, <1>5
      <3>2. ds2[l] = v[k] /\ v[k] \in Range(v)
        BY <3>1, <1>5 DEF Range
      <3>3. QED  BY <3>2
    <2>3. QED  BY <2>1, <2>2
  <1>9. QED  BY <1>3, <1>5, <1>6, <1>7, <1>8 DEF StartsRounds

\* t is fs with these uses marked.
IsMarked(fs, t, marked) ==
  /\ t \in Seq(Frame) /\ Len(t) = Len(fs)
  /\ \A i \in 1..Len(fs) :
       /\ SameShape(fs[i], t[i]) /\ t[i].fn = fs[i].fn /\ t[i].locals = fs[i].locals
       /\ ChildOf(t[i]) = ChildOf(fs[i])
       /\ SelfOf(t[i]) = IF i = Len(fs) THEN SelfOf(fs[i]) \cup marked ELSE SelfOf(fs[i])
       /\ i # Len(fs) => t[i] = fs[i]

\* Marked, by what it changes.
LEMMA MarkedAs ==
  ASSUME NEW fs \in Seq(Frame), fs # <<>>, NEW marked \in SUBSET Use
  PROVE  IsMarked(fs, Marked(fs, marked), marked)
  <1> DEFINE t == Marked(fs, marked)
  <1>1. /\ t \in Seq(Frame) /\ Len(t) = Len(fs)
        /\ \A i \in 1..Len(fs) :
             /\ SameShape(fs[i], t[i]) /\ t[i].fn = fs[i].fn /\ t[i].locals = fs[i].locals
             /\ ChildOf(t[i]) = ChildOf(fs[i])
             /\ SelfOf(t[i]) = IF i = Len(fs) THEN SelfOf(fs[i]) \cup marked ELSE SelfOf(fs[i])
             /\ i # Len(fs) => t[i] = fs[i]
    BY MarkedFrames
  <1> HIDE DEF t
  <1>2. IsMarked(fs, t, marked)
    BY <1>1 DEF IsMarked
  <1>3. QED  BY <1>2 DEF t

\* The innermost frame, and the frames below it, as Declaring wants them.
LEMMA DeclaringTop ==
  ASSUME NEW fs \in Seq(Frame), fs # <<>>, NEW A, NEW marked,
         NEW t \in Seq(Frame), Len(t) = Len(fs),
         \A i \in 1..Len(fs) : i # Len(fs) => t[i] = fs[i],
         NEW f, f = t[Len(fs)], f.fn = Last(fs).fn, f.kind = Last(fs).kind,
         ChildOf(f) = ChildOf(Last(fs)), SelfOf(f) = SelfOf(Last(fs)) \cup marked,
         Range(f.locals) = Range(Last(fs).locals) \cup A
  PROVE  Declaring(fs, t, Len(fs), A, marked)
  <1> DEFINE n == Len(fs)
  <1>1. n \in Nat /\ n \in 1..n /\ Last(fs) = fs[n]
    BY Popped
  <1>2. ASSUME NEW i \in 1..n
        PROVE  /\ t[i].fn = fs[i].fn /\ t[i].kind = fs[i].kind /\ ChildOf(t[i]) = ChildOf(fs[i])
               /\ Range(t[i].locals) = IF i = n THEN Range(fs[i].locals) \cup A ELSE Range(fs[i].locals)
               /\ SelfOf(t[i]) = IF i = n THEN SelfOf(fs[i]) \cup marked ELSE SelfOf(fs[i])
    <2>1. CASE i = n
      BY <2>1, <1>1
    <2>2. CASE i # n
      BY <2>2
    <2>3. QED  BY <2>1, <2>2
  <1>3. QED  BY <1>1, <1>2 DEF Declaring

\* The foreach after its iterable: with the locals for it and for its iterator.
LEMMA EachKeeps ==
  ASSUME Scouting, Top.kind = "each", NEW ds2, Longer(decls, ds2), OwnDeclared(decls, ds2, frames, {}),
         NEW b \in Nat, b = Len(decls),
         \A k \in 1..3 : b + k \in DOMAIN ds2 /\ ds2[b + k].fn = Top.fn /\ ds2[b + k].sort = "synthetic"
  PROVE  LET each == [Top EXCEPT !.locals = @ \o <<b + 1, b + 2>>]
             before == { <<b + 1, "borrowed">> }
             t == Marked(Append(Front(frames), each), before)
         IN /\ Scouted(ds2, fns, t, uses \cup Made(Top.fn, before), flags) /\ Shape(t)
            /\ Last(t).kind = "each" /\ Last(t).fn = Top.fn /\ Len(t) = Len(frames) /\ t \in Seq(Frame)
            /\ \A i \in 1..Len(frames) :
                 t[i].fn = frames[i].fn /\
                 Range(t[i].locals) = IF i = Len(frames) THEN Range(frames[i].locals) \cup {b + 1, b + 2}
                                      ELSE Range(frames[i].locals)
  <1> DEFINE n == Len(frames)
             ls == <<b + 1, b + 2>>
             A == {b + 1, b + 2}
             each == [Top EXCEPT !.locals = @ \o ls]
             before == { <<b + 1, "borrowed">> }
             r == Append(Front(frames), each)
             t == Marked(r, before)
  <1>1. /\ frames \in Seq(Frame) /\ frames # <<>> /\ n \in Nat /\ n > 0 /\ n \in 1..n
        /\ Last(frames) = frames[n] /\ Top = Last(frames) /\ Top \in Frame
        /\ Scouted(decls, fns, frames, uses, flags) /\ Shape(frames)
    BY TopFn DEF Scouting, Top
  <1>2. ls \in Seq(Nat) /\ Range(ls) = A
    <2>1. ls \in Seq(Nat) /\ DOMAIN ls = {1, 2} /\ ls[1] = b + 1 /\ ls[2] = b + 2
      OBVIOUS
    <2> HIDE DEF ls
    <2>2. QED  BY <2>1 DEF Range
  <1>3. before \in SUBSET Use /\ \A x \in before : x[1] = b + 1
    <2>1. b + 1 \in Nat /\ "borrowed" \in How
      BY DEF How
    <2>2. QED  BY <2>1 DEF Use
  <1>a. b + 1 \in A /\ \A l \in A : l = b + 1 \/ l = b + 2
    OBVIOUS
  <1> HIDE DEF ls, before, A
  <1>4. Top.kind \notin Ifs
    BY DEF Ifs
  <1>5. /\ each \in Frame /\ SameShape(Top, each) /\ each.kind = "each" /\ each.fn = Top.fn
        /\ Range(each.locals) = Range(Top.locals) \cup A
        /\ SelfOf(each) = SelfOf(Top) /\ ChildOf(each) = ChildOf(Top)
    <2> DEFINE f == Top
    <2>1. f \in Frame /\ f.kind \notin Ifs /\ f.kind = "each"
      BY <1>1, <1>4
    <2>2. each = [f EXCEPT !.locals = @ \o ls]
      OBVIOUS
    <2> HIDE DEF each, f
    <2>3. /\ each \in Frame /\ SameShape(f, each) /\ each.kind = f.kind /\ each.fn = f.fn
          /\ Range(each.locals) = Range(f.locals) \cup Range(ls)
          /\ SelfOf(each) = SelfOf(f) /\ ChildOf(each) = ChildOf(f)
      BY <1>2, <2>1, <2>2, LongerFrame
    <2>4. /\ each \in Frame /\ SameShape(f, each) /\ each.kind = "each" /\ each.fn = f.fn
          /\ Range(each.locals) = Range(f.locals) \cup A
          /\ SelfOf(each) = SelfOf(f) /\ ChildOf(each) = ChildOf(f)
      BY <1>2, <2>1, <2>3
    <2>5. QED  BY <2>4 DEF f
  <1> HIDE DEF each
  <1>6. r \in Seq(Frame) /\ Len(r) = n /\ r[n] = each /\ r # <<>> /\ \A i \in 1..n : i # n => r[i] = frames[i]
    BY <1>1, <1>5, WithTop
  <1> HIDE DEF r
  <1>7. /\ t \in Seq(Frame) /\ Len(t) = n
        /\ \A i \in 1..n : /\ SameShape(r[i], t[i]) /\ t[i].fn = r[i].fn /\ t[i].locals = r[i].locals
                           /\ ChildOf(t[i]) = ChildOf(r[i])
                           /\ SelfOf(t[i]) = IF i = n THEN SelfOf(r[i]) \cup before ELSE SelfOf(r[i])
                           /\ i # n => t[i] = r[i]
    <2>1. IsMarked(r, t, before)
      BY <1>3, <1>6, MarkedAs
    <2> HIDE DEF t
    <2>2. QED  BY <1>6, <2>1 DEF IsMarked
  <1> HIDE DEF t
  <1>8. /\ t[n].fn = Top.fn /\ t[n].kind = Top.kind /\ ChildOf(t[n]) = ChildOf(Top)
        /\ SelfOf(t[n]) = SelfOf(Top) \cup before /\ Range(t[n].locals) = Range(Top.locals) \cup A
    BY <1>1, <1>5, <1>6, <1>7 DEF SameShape
  <1>9. Declaring(frames, t, n, A, before)
    <2>1. \A i \in 1..n : i # n => t[i] = frames[i]
      BY <1>6, <1>7
    <2>2. QED  BY <2>1, <1>1, <1>7, <1>8, DeclaringTop
  <1>10. \A l \in A : l \in DOMAIN ds2 /\ ds2[l].fn = Top.fn /\ ds2[l].sort = "synthetic" /\ l > b /\ l \in Nat
    BY <1>a
  <1>11. Declarable(frames, ds2, A)
    <2>1. \A i \in 1..n : \A m \in Range(frames[i].locals) : m \in 1..b
      BY <1>1, ScoutedFacts
    <2>2. \A l \in A : l \notin 1..b
      BY <1>10
    <2>3. \A l \in A : \A m : ~SameVar(ds2, l, m)
      BY <1>10 DEF SameVar
    <2>4. QED  BY <2>1, <2>2, <2>3, <1>1, <1>10 DEF Declarable
  <1>12. Makes(frames, t, ds2, before)
    <2> SUFFICES ASSUME NEW x \in before
                 PROVE  /\ x[1] \in DOMAIN ds2 /\ ds2[x[1]].fn = Last(frames).fn
                        /\ ds2[x[1]].sort = "synthetic" /\ x[1] \in Range(t[n].locals)
      BY <1>1, <1>3 DEF Makes
    <2>1. x[1] = b + 1 /\ b + 1 \in A
      BY <1>3, <1>a
    <2>2. QED  BY <2>1, <1>1, <1>8, <1>10
  <1>13. OwnDeclared(decls, ds2, frames, before)
    <2>1. \A l \in DOMAIN ds2 \ DOMAIN decls : ds2[l].fn = Last(frames).fn /\ ds2[l].sort # "magic"
      BY DEF OwnDeclared
    <2>2. QED  BY <2>1 DEF OwnDeclared
  <1> HIDE DEF n
  <1>14. Scouted(ds2, fns, t, uses \cup Made(Last(frames).fn, before), flags)
    BY <1>1, <1>9, <1>11, <1>12, <1>13, DeclaresIn
  <1>15. Shape(t)
    <2>1. \A i \in 1..n : SameShape(frames[i], t[i])
      <3> TAKE i \in 1..n
      <3>1. CASE i = n
        BY <3>1, <1>1, <1>5, <1>6, <1>7 DEF SameShape
      <3>2. CASE i # n
        BY <3>2, <1>6, <1>7 DEF SameShape
      <3>3. QED  BY <3>1, <3>2
    <2>2. QED  BY <2>1, <1>1, <1>7, ShapeSame DEF n
  <1>16. Last(t) = t[n]
    BY <1>7 DEF Last
  <1>17. \A i \in 1..n :
           t[i].fn = frames[i].fn /\
           Range(t[i].locals) = IF i = n THEN Range(frames[i].locals) \cup A ELSE Range(frames[i].locals)
    BY <1>9 DEF Declaring, n
  <1>18. QED
    BY <1>1, <1>7, <1>8, <1>14, <1>15, <1>16, <1>17 DEF t, r, each, ls, before, A, n

\* The begin of a foreach's rounds: three locals of its own and those of the pattern.
LEMMA StartRoundsKeeps ==
  ASSUME Scouting, NEW names \in Patterns, StartRounds(names)
  PROVE  ScoutInv'
  <1> DEFINE b == Len(decls)
             n == Len(frames)
             v == Vars(names)
             ds2 == (decls \o [k \in 1..3 |-> Local(self, "synthetic", Top.fn)]) \o v
             each == [Top EXCEPT !.locals = @ \o <<b + 1, b + 2>>]
             before == { <<b + 1, "borrowed">> }
             within == { <<b + 2, "borrowed">>, <<b + 3, "borrowed">>, <<b + 3, "moved">> }
             rest == [k \in DOMAIN names |-> b + (3 + k)]
             ls == <<b + 3>> \o rest
             round == Block("round", Top.fn, ls)
             empty == Block("round", Top.fn, <<>>)
             body == Block("body", Top.fn, <<>>)
             m1 == Marked(Append(Front(frames), each), before)
             m2 == Marked(<<round>>, within)
             w == m2[1]
             t2 == Append(m1, empty)
             t3 == Append(m1, w)
             us1 == uses \cup Made(Top.fn, before)
             us2 == us1 \cup Made(Top.fn, within)
  <1>1. CASE IsTaken(frames, v)
    BY <1>1, FailKeeps DEF StartRounds
  <1>2. CASE ~IsTaken(frames, v)
    <2>1. /\ decls' = ds2 /\ frames' = (m1 \o m2) \o <<body>> /\ UNCHANGED <<fns, flags, outcome>>
          /\ uses' = uses \cup { [fn |-> Top.fn, local |-> m[1], how |-> m[2], typed |-> m[1]]
                                 : m \in before \cup within }
          /\ Top.kind = "each"
      BY <1>2 DEF StartRounds, New
    <2>2. uses' = us2
      BY <2>1 DEF Made
    <2>3. v \in Seq(LocalVar) /\ DOMAIN v = DOMAIN names /\ \A d \in Range(v) : d.fn = Top.fn /\ d.sort = "var"
      BY TopFn, PatternNames, VarsFacts DEF Vars
    <2>4. /\ Longer(decls, ds2) /\ OwnDeclared(decls, ds2, frames, {}) /\ b \in Nat
          /\ \A k \in 1..3 : b + k \in DOMAIN ds2 /\ ds2[b + k].fn = Top.fn /\ ds2[b + k].sort = "synthetic"
          /\ \A k \in DOMAIN v : (b + 3) + k \in DOMAIN ds2 /\ ds2[(b + 3) + k] = v[k]
      <3> HIDE DEF v
      <3>1. ds2 = (decls \o [k \in 1..3 |-> Local(self, "synthetic", Top.fn)]) \o v
        OBVIOUS
      <3> HIDE DEF ds2
      <3>2. StartsRounds(ds2, b, v)
        BY <2>3, <3>1, RoundLocals
      <3> HIDE DEF b
      <3>3. QED  BY <3>2 DEF StartsRounds
    <2> HIDE DEF v, ds2
    <2>5. /\ Scouted(ds2, fns, m1, us1, flags) /\ Shape(m1)
          /\ Last(m1).kind = "each" /\ Last(m1).fn = Top.fn /\ Len(m1) = n /\ m1 \in Seq(Frame)
          /\ \A i \in 1..n :
               m1[i].fn = frames[i].fn /\
               Range(m1[i].locals) = IF i = n THEN Range(frames[i].locals) \cup {b + 1, b + 2}
                                     ELSE Range(frames[i].locals)
      <3>1. Top.kind = "each"
        BY <2>1
      <3>2. /\ Longer(decls, ds2) /\ OwnDeclared(decls, ds2, frames, {}) /\ b \in Nat /\ b = Len(decls)
            /\ \A k \in 1..3 : b + k \in DOMAIN ds2 /\ ds2[b + k].fn = Top.fn /\ ds2[b + k].sort = "synthetic"
        BY <2>4
      <3> HIDE DEF b
      <3>3. /\ Scouted(ds2, fns, m1, us1, flags) /\ Shape(m1)
            /\ Last(m1).kind = "each" /\ Last(m1).fn = Top.fn /\ Len(m1) = n /\ m1 \in Seq(Frame)
            /\ \A i \in 1..n :
                 m1[i].fn = frames[i].fn /\
                 Range(m1[i].locals) = IF i = n THEN Range(frames[i].locals) \cup {b + 1, b + 2}
                                       ELSE Range(frames[i].locals)
        BY <3>1, <3>2, EachKeeps
      <3>4. QED  BY <3>3
    <2> HIDE DEF us1, m1
    <2>6. /\ frames \in Seq(Frame) /\ n \in Nat /\ n > 0 /\ n \in 1..n /\ Top.fn \in Nat
          /\ Top = Last(frames) /\ Scouted(decls, fns, frames, uses, flags)
      BY TopFn DEF Scouting, Top
    <2>7. /\ empty \in Frame /\ empty.kind = "round" /\ empty.kind # "function" /\ empty.kind \notin Ifs
          /\ empty.fn = Top.fn /\ empty.locals = <<>> /\ SelfOf(empty) = {} /\ ChildOf(empty) = {}
      BY <2>6, FreshBlock DEF Kinds
    <2> HIDE DEF empty
    <2>8. Scouted(ds2, fns, t2, us1, flags) /\ Shape(t2) /\ Last(t2) = empty
      <3>1. Fits(Last(m1).kind, empty)
        BY <2>5, <2>7 DEF Fits
      <3>2. QED  BY <3>1, <2>5, <2>7, PushKeeps
    <2>9. /\ t2 \in Seq(Frame) /\ Len(t2) = n + 1 /\ t2[n + 1] = empty /\ \A i \in 1..n : t2[i] = m1[i]
      BY <2>5, <2>7, Pushed
    <2> DEFINE P == Indices(b + 3, v)
               A == {b + 3} \cup P
    <2>10. ls \in Seq(Nat) /\ Range(ls) = A
      <3>1. DOMAIN names = 1..Len(names) /\ Len(names) \in Nat
        BY PatternNames
      <3>2. rest = [k \in 1..Len(names) |-> b + (3 + k)] /\ \A k \in 1..Len(names) : b + (3 + k) \in Nat
        BY <3>1, <2>4
      <3>3. rest \in Seq(Nat) /\ DOMAIN rest = DOMAIN names
        BY <3>1, <3>2
      <3>4. Range(rest) = P
        <4>1. \A k \in DOMAIN names : rest[k] = (b + 3) + k
          BY <3>1, <2>4
        <4> HIDE DEF rest
        <4>2. QED  BY <4>1, <3>3, <2>3 DEF Range, Indices
      <3> DEFINE one == <<b + 3>>
      <3>5. one \in Seq(Nat) /\ Range(one) = {b + 3} /\ Len(one) = 1
        BY <2>4 DEF Range
      <3> HIDE DEF one, rest
      <3>6. Joined(Nat, one, rest, ls)
        BY <3>3, <3>5, MoreLocals DEF one
      <3> HIDE DEF ls, P
      <3>7. Range(ls) = Range(one) \cup Range(rest)
        <4>1. \A x \in Range(ls) : x \in Range(one) \cup Range(rest)
          <5> TAKE x \in Range(ls)
          <5>1. PICK l \in DOMAIN ls : x = ls[l]
            BY DEF Range
          <5>2. CASE l \in DOMAIN one
            BY <5>1, <5>2, <3>6 DEF Range, Joined
          <5>3. CASE l \notin DOMAIN one
            <6>1. PICK k \in DOMAIN rest : l = Len(one) + k
              BY <5>1, <5>3, <3>6 DEF Joined
            <6>2. x = rest[k]
              BY <5>1, <6>1, <3>6 DEF Joined
            <6>3. QED  BY <6>2 DEF Range
          <5>4. QED  BY <5>2, <5>3
        <4>2. Range(one) \subseteq Range(ls)
          BY <3>6 DEF Range, Joined
        <4>3. Range(rest) \subseteq Range(ls)
          <5> SUFFICES ASSUME NEW x \in Range(rest)  PROVE x \in Range(ls)
            OBVIOUS
          <5>1. PICK k \in DOMAIN rest : x = rest[k]
            BY DEF Range
          <5>2. Len(one) + k \in DOMAIN ls /\ ls[Len(one) + k] = x
            BY <5>1, <3>6 DEF Joined
          <5>3. QED  BY <5>2 DEF Range
        <4>4. QED  BY <4>1, <4>2, <4>3
      <3>8. QED  BY <3>4, <3>5, <3>6, <3>7 DEF Joined
    <2> HIDE DEF ls
    <2>11. within \in SUBSET Use /\ \A x \in within : x[1] = b + 2 \/ x[1] = b + 3
      <3>1. b + 2 \in Nat /\ b + 3 \in Nat /\ "borrowed" \in How /\ "moved" \in How
        BY <2>4 DEF How
      <3>2. QED  BY <3>1 DEF Use
    <2> HIDE DEF within
    <2>12. round \in Frame /\ round.kind = "round" /\ round.fn = Top.fn /\ round.locals = ls
           /\ SelfOf(round) = {} /\ ChildOf(round) = {}
      BY <2>6, <2>10, BlockWith DEF Kinds
    <2> HIDE DEF round
    <2>13. /\ m2 = <<w>> /\ w \in Frame /\ w.kind = "round" /\ w.fn = Top.fn /\ w.locals = ls
           /\ SelfOf(w) = within /\ ChildOf(w) = {}
      <3> DEFINE one == <<round>>
      <3>1. one \in Seq(Frame) /\ one # <<>> /\ Len(one) = 1 /\ one[1] = round
        BY <2>12
      <3> HIDE DEF one
      <3> DEFINE x == Marked(one, within)
      <3>3. x = m2
        BY DEF one
      <3>a. IsMarked(one, x, within)
        BY <3>1, <2>11, MarkedAs
      <3> HIDE DEF x, m2
      <3>b. 1 \in 1..1
        OBVIOUS
      <3>2. /\ x \in Seq(Frame) /\ Len(x) = 1
            /\ SameShape(one[1], x[1]) /\ x[1].fn = one[1].fn
            /\ x[1].locals = one[1].locals /\ ChildOf(x[1]) = ChildOf(one[1])
            /\ SelfOf(x[1]) = SelfOf(one[1]) \cup within
        BY <3>1, <3>a, <3>b DEF IsMarked
      <3>4. x = <<x[1]>> /\ x[1] \in Frame
        <4>1. x \in Seq(Frame) /\ Len(x) = 1
          BY <3>2
        <4>2. DOMAIN x = {1}
          BY <4>1
        <4>3. x[1] \in Frame
          BY <4>1, <4>2
        <4> DEFINE e == x[1]
                   y == <<e>>
        <4>4. y \in Seq(Frame) /\ Len(y) = 1 /\ DOMAIN y = {1} /\ y[1] = e
          BY <4>3
        <4> HIDE DEF y
        <4>5. x = y
          BY <4>1, <4>2, <4>4
        <4>6. QED  BY <4>3, <4>5 DEF y
      <3>5. x[1].kind = round.kind /\ x[1].fn = round.fn /\ x[1].locals = round.locals
            /\ ChildOf(x[1]) = ChildOf(round) /\ SelfOf(x[1]) = SelfOf(round) \cup within
        BY <3>1, <3>2 DEF SameShape
      <3>6. w = x[1]
        BY <3>3
      <3>7. m2 = <<w>>
        BY <3>3, <3>4, <3>6
      <3> HIDE DEF w
      <3>8. QED  BY <3>4, <3>5, <3>6, <3>7, <2>12
    <2> HIDE DEF m2, w
    <2>14. /\ t3 \in Seq(Frame) /\ Len(t3) = n + 1 /\ t3[n + 1] = w /\ \A i \in 1..n : t3[i] = m1[i]
      BY <2>5, <2>13, Pushed
    <2> HIDE DEF t2, t3
    <2> DEFINE p == n + 1
    <2>15. p \in Nat /\ p > 0 /\ p \in 1..p /\ \A i \in 1..p : i \in 1..n \/ i = p
      BY <2>6
    <2>16. Declaring(t2, t3, p, A, within)
      <3>1. \A i \in 1..p : i # p => t3[i] = t2[i]
        BY <2>9, <2>14, <2>15
      <3>2. w.kind = Last(t2).kind /\ w.fn = Last(t2).fn /\ ChildOf(w) = ChildOf(Last(t2))
            /\ SelfOf(w) = SelfOf(Last(t2)) \cup within
        BY <2>7, <2>8, <2>13
      <3>3. Range(w.locals) = Range(Last(t2).locals) \cup A
        <4>1. Range(<<>>) = {}
          BY DEF Range
        <4>2. QED  BY <4>1, <2>7, <2>8, <2>10, <2>13
      <3>4. t2 # <<>>
        BY <2>9, <2>15
      <3> HIDE DEF A
      <3>5. QED  BY <3>1, <3>2, <3>3, <3>4, <2>9, <2>14, DeclaringTop
    <2>17. Fresh(frames, ds2, P) /\ \A l \in P : l \in Nat /\ l > b + 3
      <3>1. b + 3 \in Nat /\ Len(decls) <= b + 3
        BY <2>4
      <3>2. \A d \in Range(v) : d.fn = Last(frames).fn /\ d.sort \in {"var", "member"}
        BY <2>3, <2>6
      <3> DEFINE c == b + 3
      <3>3. \A k \in DOMAIN v : c + k \in DOMAIN ds2 /\ ds2[c + k] = v[k]
        BY <2>4
      <3> HIDE DEF c, b
      <3>4. QED  BY <3>1, <3>2, <3>3, <1>2, <2>3, <2>4, <2>6, FreshLocals DEF c
    <2>18. Declarable(t2, ds2, A)
      <3> SUFFICES ASSUME NEW l \in A
          PROVE  /\ l \in DOMAIN ds2 /\ ds2[l].fn = Top.fn /\ ds2[l].sort # "magic"
                 /\ \A i \in 1..p : l \notin Range(t2[i].locals)
                 /\ \A i \in 1..p : t2[i].fn = Top.fn =>
                      \A m \in Range(t2[i].locals) : SameVar(ds2, l, m) => l = m
                 /\ \A m \in A : SameVar(ds2, l, m) => l = m
        BY <2>7, <2>8, <2>9 DEF Declarable
      <3>1. \A i \in 1..p : \A m \in Range(t2[i].locals) :
              \/ i \in 1..n /\ m \in Range(frames[i].locals) /\ t2[i].fn = frames[i].fn
              \/ m \in {b + 1, b + 2}
        <4>1. Range(<<>>) = {}
          BY DEF Range
        <4>2. Range(t2[p].locals) = {}
          BY <4>1, <2>7, <2>9
        <4>3. \A i \in 1..n : t2[i] = m1[i]
          BY <2>9
        <4>4. QED  BY <4>2, <4>3, <2>5, <2>15
      <3>2. \A i \in 1..n : \A m \in Range(frames[i].locals) : m \in 1..b
        BY <2>6, ScoutedFacts
      <3>3. b + 1 \in DOMAIN ds2 /\ ds2[b + 1].sort = "synthetic"
            /\ b + 2 \in DOMAIN ds2 /\ ds2[b + 2].sort = "synthetic"
            /\ b + 3 \in DOMAIN ds2 /\ ds2[b + 3].sort = "synthetic" /\ ds2[b + 3].fn = Top.fn
        BY <2>4
      <3>4. CASE l = b + 3
        <4>1. l \notin 1..b /\ l # b + 1 /\ l # b + 2
          BY <3>4, <2>4
        <4>2. \A m : ~SameVar(ds2, l, m)
          BY <3>3, <3>4 DEF SameVar
        <4> HIDE DEF A
        <4>3. QED  BY <4>1, <4>2, <3>1, <3>2, <3>3, <3>4
      <3>5. CASE l \in P
        <4>1. l \in Nat /\ l > b + 3
          BY <3>5, <2>17
        <4>2. l # b + 1 /\ l # b + 2 /\ l # b + 3
          BY <4>1, <2>4
        <4>3. /\ l \in DOMAIN ds2 /\ ds2[l].fn = Last(frames).fn /\ ds2[l].sort \in {"var", "member"}
              /\ \A i \in 1..n : l \notin Range(frames[i].locals)
              /\ \A i \in 1..n : frames[i].fn = Last(frames).fn =>
                   \A m \in Range(frames[i].locals) : ~SameVar(ds2, l, m)
              /\ \A m \in P : SameVar(ds2, l, m) => l = m
          BY <3>5, <2>17 DEF Fresh
        <4>4. ~SameVar(ds2, l, b + 1) /\ ~SameVar(ds2, l, b + 2) /\ ~SameVar(ds2, l, b + 3)
          BY <4>3, <3>3 DEF SameVar
        <4>5. \A m \in A : SameVar(ds2, l, m) => l = m
          BY <4>3, <4>4
        <4>6. \A i \in 1..p : l \notin Range(t2[i].locals)
          BY <4>2, <4>3, <3>1
        <4>7. \A i \in 1..p : t2[i].fn = Top.fn =>
                \A m \in Range(t2[i].locals) : SameVar(ds2, l, m) => l = m
          BY <4>3, <4>4, <3>1, <2>6
        <4>8. QED  BY <4>3, <4>5, <4>6, <4>7, <2>6
      <3>6. QED  BY <3>4, <3>5
    <2>19. Makes(t2, t3, ds2, within)
      <3>1. p \in 1..p /\ b + 3 \in Range(t3[p].locals)
        BY <2>10, <2>13, <2>14, <2>15
      <3>2. n \in 1..p /\ b + 2 \in Range(t3[n].locals)
        <4>1. t3[n] = m1[n] /\ n \in 1..n
          BY <2>6, <2>14
        <4>2. b + 2 \in Range(m1[n].locals)
          BY <4>1, <2>5
        <4>3. QED  BY <4>1, <4>2, <2>6
      <3>3. \A k \in {2, 3} : b + k \in DOMAIN ds2 /\ ds2[b + k].fn = Top.fn /\ ds2[b + k].sort = "synthetic"
        BY <2>4
      <3>4. Last(t2).fn = Top.fn /\ Len(t2) = p
        BY <2>7, <2>8, <2>9
      <3> HIDE DEF p, b, n
      <3>5. QED  BY <3>1, <3>2, <3>3, <3>4, <2>11 DEF Makes
    <2>20. Longer(ds2, ds2) /\ OwnDeclared(ds2, ds2, t2, within)
      BY <2>4 DEF Longer, OwnDeclared
    <2>21. Scouted(ds2, fns, t3, us2, flags)
      <3>1. Last(t2).fn = Top.fn
        BY <2>7, <2>8
      <3> HIDE DEF A, p
      <3>2. Scouted(ds2, fns, t3, us1 \cup Made(Last(t2).fn, within), flags)
        BY <2>8, <2>16, <2>18, <2>19, <2>20, DeclaresIn
      <3>3. QED  BY <3>1, <3>2
    <2>22. Shape(t3)
      <3>1. \A i \in 1..p : SameShape(t2[i], t3[i])
        <4> TAKE i \in 1..p
        <4>1. CASE i = p
          BY <4>1, <2>7, <2>9, <2>13, <2>14 DEF SameShape
        <4>2. CASE i # p
          BY <4>2, <2>9, <2>14, <2>15 DEF SameShape
        <4>3. QED  BY <4>1, <4>2
      <3>2. Len(t2) = p /\ Len(t3) = p
        BY <2>9, <2>14
      <3> HIDE DEF p
      <3>3. QED  BY <3>1, <3>2, <2>8, <2>15, ShapeSame
    <2>23. Last(t3) = w
      BY <2>14, <2>15 DEF Last
    <2>24. /\ body \in Frame /\ body.kind = "body" /\ body.kind # "function" /\ body.kind \notin Ifs
           /\ body.fn = Top.fn /\ body.locals = <<>> /\ SelfOf(body) = {} /\ ChildOf(body) = {}
      BY <2>6, FreshBlock DEF Kinds
    <2> HIDE DEF body
    <2>25. frames' = Append(t3, body)
      <3>1. m1 \o <<w>> = Append(m1, w)
        BY <2>5, <2>13
      <3>2. frames' = (m1 \o <<w>>) \o <<body>>
        BY <2>1, <2>13
      <3>3. t3 = Append(m1, w)
        BY DEF t3
      <3>4. t3 \o <<body>> = Append(t3, body)
        BY <2>14, <2>24
      <3>5. QED  BY <3>1, <3>2, <3>3, <3>4
    <2>26. Scouted(ds2, fns, frames', us2, flags) /\ Shape(frames')
      <3>1. Fits(Last(t3).kind, body)
        BY <2>13, <2>23, <2>24 DEF Fits
      <3>2. QED  BY <3>1, <2>13, <2>21, <2>22, <2>23, <2>24, <2>25, PushKeeps
    <2>27. QED  BY <2>1, <2>2, <2>26, StillScouting
  <1>3. QED  BY <1>1, <1>2

-----------------------------------------------------------------------------
(* Lambdas                                                                 *)

\* The scope of a new lambda is its parameters.
LambdaLocals(ds, ds2, f, g) ==
  /\ ds2 \in Seq(LocalVar) /\ DOMAIN ds \subseteq DOMAIN ds2 /\ \A l \in DOMAIN ds : ds2[l] = ds[l]
  /\ \A l \in DOMAIN ds2 \ DOMAIN ds : ds2[l].fn = g /\ ds2[l].sort # "magic"
  /\ \A l, m \in DOMAIN ds2 \ DOMAIN ds : l = m
  /\ f \in Frame /\ f.kind = "function" /\ f.kind \notin Ifs /\ f.fn = g
  /\ Range(f.locals) = DOMAIN ds2 \ DOMAIN ds /\ SelfOf(f) = {} /\ ChildOf(f) = {}

\* The parameters of a lambda, of which there is none or one.
LEMMA ParamLocals ==
  ASSUME NEW ds \in Seq(LocalVar), NEW params \in {<<>>} \cup { <<n>> : n \in Name }, NEW g \in Nat
  PROVE  LambdaLocals(ds, ds \o [k \in DOMAIN params |-> Local(params[k], "var", g)],
                      Block("function", g, [k \in DOMAIN params |-> Len(ds) + k]), g)
  <1> DEFINE new == [k \in DOMAIN params |-> Local(params[k], "var", g)]
             ds2 == ds \o new
             ix == [k \in DOMAIN params |-> Len(ds) + k]
             f == Block("function", g, ix)
  <1>1. /\ params \in Seq(Name) /\ DOMAIN params = 1..Len(params) /\ Len(params) \in Nat
        /\ Len(params) <= 1 /\ Len(ds) \in Nat
    <2>1. CASE params = <<>>
      BY <2>1
    <2>2. CASE params # <<>>
      <3>1. PICK n \in Name : params = <<n>>
        BY <2>2
      <3>2. QED  BY <3>1
    <2>3. QED  BY <2>1, <2>2
  <1>2. /\ new \in Seq(LocalVar) /\ DOMAIN new = DOMAIN params /\ Len(new) = Len(params)
        /\ \A k \in DOMAIN params : new[k].fn = g /\ new[k].sort = "var"
    BY <1>1 DEF Local, LocalVar, Sorts
  <1>3. ix \in Seq(Nat) /\ DOMAIN ix = DOMAIN params /\ \A k \in DOMAIN params : ix[k] = Len(ds) + k
    BY <1>1
  <1>4. Joined(LocalVar, ds, new, ds2)
    BY <1>2, MoreLocals
  <1> HIDE DEF new, ds2, ix
  <1>5. /\ ds2 \in Seq(LocalVar) /\ DOMAIN ds \subseteq DOMAIN ds2 /\ \A l \in DOMAIN ds : ds2[l] = ds[l]
        /\ \A k \in DOMAIN params : /\ Len(ds) + k \in DOMAIN ds2 /\ ds2[Len(ds) + k] = new[k]
                                    /\ Len(ds) + k \notin DOMAIN ds
        /\ \A l \in DOMAIN ds2 \ DOMAIN ds : \E k \in DOMAIN params : l = Len(ds) + k
    BY <1>2, <1>4 DEF Joined
  <1>6. \A l \in DOMAIN ds2 \ DOMAIN ds : ds2[l].fn = g /\ ds2[l].sort # "magic"
    BY <1>2, <1>5
  <1>7. \A l, m \in DOMAIN ds2 \ DOMAIN ds : l = m
    <2>1. \A k \in DOMAIN params : k = 1
      BY <1>1
    <2>2. QED  BY <2>1, <1>5
  <1>8. /\ f \in Frame /\ f.kind = "function" /\ f.kind \notin Ifs /\ f.fn = g /\ f.locals = ix
        /\ SelfOf(f) = {} /\ ChildOf(f) = {}
    <2>1. f \in BlockFrame /\ f.kind = "function" /\ f.fn = g /\ f.locals = ix /\ f.uses = NoUses
      BY <1>3 DEF Block, BlockFrame, NoUses, Uses
    <2> HIDE DEF f
    <2>2. f.kind \notin Ifs
      BY <2>1 DEF Ifs
    <2>3. SelfOf(f) = {} /\ ChildOf(f) = {}
      BY <2>1, <2>2 DEF SelfOf, ChildOf, NoUses
    <2>4. QED  BY <2>1, <2>2, <2>3 DEF Frame
  <1> HIDE DEF f
  <1>9. Range(f.locals) = DOMAIN ds2 \ DOMAIN ds
    <2>1. Range(ix) = { Len(ds) + k : k \in DOMAIN params }
      BY <1>3 DEF Range
    <2>2. QED  BY <2>1, <1>5, <1>8
  <1>10. QED  BY <1>5, <1>6, <1>7, <1>8, <1>9 DEF LambdaLocals, new, ds2, ix, f

\* A lambda begins.
LEMMA EnterLambdaKeeps ==
  ASSUME Scouting, NEW params \in {<<>>} \cup { <<n>> : n \in Name }, EnterLambda(params)
  PROVE  ScoutInv'
  <1> DEFINE n == Len(frames)
             g == Len(fns) + 1
             cr == Creators(fns)
             fn == [creator |-> Top.fn, params |-> Len(params), captured |-> {}, magic |-> {}, given |-> {}]
             f == Block("function", g, [k \in DOMAIN params |-> Len(decls) + k])
             ds2 == decls \o [k \in DOMAIN params |-> Local(params[k], "var", g)]
             t == Append(frames, f)
             gs2 == Append(fns, fn)
             cr2 == Creators(gs2)
  <1>1. /\ decls' = ds2 /\ frames' = t /\ fns' = gs2
        /\ UNCHANGED <<flags, uses, outcome>>
    BY DEF EnterLambda, New
  <1>2. /\ frames \in Seq(Frame) /\ fns \in Seq(Fn) /\ decls \in Seq(LocalVar)
        /\ n \in Nat /\ n > 0 /\ n \in 1..n /\ Top = frames[n] /\ Last(frames) = frames[n]
        /\ Top.fn \in Nat /\ DOMAIN fns = 1..Len(fns) /\ Len(fns) \in Nat /\ g \in Nat
    BY TopFn DEF Scouting, Scouted
  <1>3. LambdaLocals(decls, ds2, f, g)
    BY <1>2, ParamLocals
  <1>4. fn \in Fn /\ fn.creator = Top.fn /\ fn.given = {}
    <2>1. Len(params) \in Nat
      <3>1. CASE params = <<>>
        BY <3>1
      <3>2. CASE params # <<>>
        <4>1. PICK m \in Name : params = <<m>>
          BY <3>2
        <4>2. QED  BY <4>1
      <3>3. QED  BY <3>1, <3>2
    <2>2. QED  BY <2>1, <1>2 DEF Fn
  <1> HIDE DEF fn, f, ds2
  <1>5. /\ f \in Frame /\ f.kind = "function" /\ f.kind \notin Ifs /\ f.fn = g
        /\ Range(f.locals) = DOMAIN ds2 \ DOMAIN decls /\ SelfOf(f) = {} /\ ChildOf(f) = {}
    BY <1>3 DEF LambdaLocals
  <1>6. /\ t \in Seq(Frame) /\ Len(t) = n + 1 /\ t[n + 1] = f /\ \A i \in 1..n : t[i] = frames[i]
    BY <1>2, <1>5, Pushed
  <1>7. /\ gs2 \in Seq(Fn) /\ DOMAIN gs2 = DOMAIN fns \cup {g} /\ gs2[g] = fn
        /\ \A k \in DOMAIN fns : gs2[k] = fns[k]
    <2>1. gs2 \in Seq(Fn) /\ Len(gs2) = g /\ DOMAIN gs2 = 1..g /\ gs2[g] = fn
          /\ \A k \in 1..Len(fns) : gs2[k] = fns[k]
      BY <1>2, <1>4
    <2>2. 1..g = (1..Len(fns)) \cup {g}
      BY <1>2
    <2>3. QED  BY <2>1, <2>2, <1>2
  <1>8. Good(decls, fns, cr, n, Fns(frames), Heads(frames), Locs(frames), Selfs(frames),
             Childs(frames), uses, flags)
        /\ DOMAIN fns = DOMAIN cr /\ Len(cr) = Len(fns)
    <2>1. cr = [k \in 1..Len(fns) |-> fns[k].creator]
      BY <1>2 DEF Creators
    <2>2. Len(cr) = Len(fns)
      BY <2>1, <1>2
    <2>3. QED  BY <2>1, <2>2, <1>2 DEF Scouting, Scouted
  <1> HIDE DEF t, gs2
  <1>9. cr2 = Append(cr, Fns(frames)[n])
    <2>1. Fns(frames)[n] = Top.fn
      BY <1>2, Views
    <2>2. cr = [k \in 1..Len(fns) |-> fns[k].creator] /\ cr \in Seq(Nat)
      <3>1. cr = [k \in 1..Len(fns) |-> fns[k].creator]
        BY <1>2 DEF Creators
      <3>2. \A k \in 1..Len(fns) : fns[k] \in Fn
        BY <1>2
      <3>4. \A d \in Fn : d.creator \in Nat
        BY DEF Fn
      <3>3. QED  BY <3>1, <3>2, <3>4, <1>2
    <2>3. cr2 = [k \in 1..g |-> gs2[k].creator]
      <3>1. DOMAIN gs2 = 1..g
        BY <1>2, <1>7
      <3>2. QED  BY <3>1 DEF Creators
    <2> DEFINE a == Append(cr, Top.fn)
    <2>4. a \in Seq(Nat) /\ DOMAIN a = 1..g /\ a[g] = Top.fn /\ \A k \in 1..Len(fns) : a[k] = fns[k].creator
      <3>1. Len(cr) = Len(fns) /\ \A k \in 1..Len(fns) : cr[k] = fns[k].creator
        BY <2>2, <1>2
      <3>2. QED  BY <2>2, <3>1, <1>2
    <2> HIDE DEF a
    <2>5. cr2 = a
      <3>1. a = [k \in 1..g |-> a[k]]
        BY <2>4
      <3>2. \A k \in 1..g : a[k] = gs2[k].creator
        <4> TAKE k \in 1..g
        <4>1. k = g \/ k \in 1..Len(fns)
          BY <1>2
        <4>2. QED  BY <4>1, <2>4, <1>2, <1>4, <1>7
      <3>3. QED  BY <3>1, <3>2, <2>3
    <2>6. QED  BY <2>1, <2>5 DEF a
  <1> HIDE DEF cr, cr2
  <1>10. Creates(decls, fns, cr, n, Fns(frames), Heads(frames), Locs(frames), Selfs(frames), Childs(frames),
                 ds2, gs2, cr2, Fns(t), Heads(t), Locs(t), Selfs(t), Childs(t))
    <2>1. \A i \in 1..n : /\ Fns(t)[i] = Fns(frames)[i] /\ Locs(t)[i] = Locs(frames)[i]
                          /\ Selfs(t)[i] = Selfs(frames)[i] /\ Childs(t)[i] = Childs(frames)[i]
                          /\ (i \in Heads(t) <=> i \in Heads(frames))
      <3> TAKE i \in 1..n
      <3>1. i \in 1..Len(t) /\ t[i] = frames[i]
        BY <1>2, <1>6
      <3>2. /\ Fns(t)[i] = t[i].fn /\ Locs(t)[i] = Range(t[i].locals) /\ Selfs(t)[i] = SelfOf(t[i])
            /\ Childs(t)[i] = ChildOf(t[i]) /\ (i \in Heads(t) <=> t[i].kind = "function")
        BY <3>1, <1>6, Views
      <3>3. /\ Fns(frames)[i] = frames[i].fn /\ Locs(frames)[i] = Range(frames[i].locals)
            /\ Selfs(frames)[i] = SelfOf(frames[i]) /\ Childs(frames)[i] = ChildOf(frames[i])
            /\ (i \in Heads(frames) <=> frames[i].kind = "function")
        BY <1>2, Views
      <3> HIDE DEF n
      <3>4. QED  BY <3>1, <3>2, <3>3
    <2>2. /\ Fns(t)[n + 1] = g /\ Locs(t)[n + 1] = DOMAIN ds2 \ DOMAIN decls
          /\ Selfs(t)[n + 1] = {} /\ Childs(t)[n + 1] = {} /\ n + 1 \in Heads(t)
      <3>1. n + 1 \in 1..Len(t)
        BY <1>2, <1>6
      <3>2. QED  BY <3>1, <1>5, <1>6, Views
    <2>3. /\ DOMAIN decls \subseteq DOMAIN ds2 /\ \A l \in DOMAIN decls : ds2[l] = decls[l]
          /\ \A l \in DOMAIN ds2 \ DOMAIN decls : ds2[l].fn = g /\ ds2[l].sort # "magic"
          /\ \A l, m \in DOMAIN ds2 \ DOMAIN decls : l = m
      BY <1>3 DEF LambdaLocals
    <2>4. Len(cr) + 1 = g
      BY <1>8
    <2> HIDE DEF n, g
    <2>5. QED  BY <2>1, <2>2, <2>3, <2>4, <1>4, <1>7, <1>9 DEF Creates
  <1>11. Scouted(ds2, gs2, t, uses, flags)
    <2>1. Good(ds2, gs2, cr2, n + 1, Fns(t), Heads(t), Locs(t), Selfs(t), Childs(t), uses, flags)
      BY <1>8, <1>10, GoodCreates
    <2>2. ds2 \in Seq(LocalVar)
      BY <1>3 DEF LambdaLocals
    <2>3. QED  BY <2>1, <2>2, <1>6, <1>7 DEF Scouted, cr2
  <1>12. Shape(t)
    <2>1. \A i \in 1..n : SameShape(frames[i], t[i])
      BY <1>6 DEF SameShape
    <2>2. Fits(frames[n].kind, t[n + 1])
      BY <1>5, <1>6 DEF Fits, Ifs
    <2>3. Shape(frames)
      BY DEF Scouting
    <2>4. QED  BY <2>1, <2>2, <2>3, <1>2, <1>6, ShapePushed
  <1>13. QED  BY <1>1, <1>11, <1>12, StillScouting

\* The innermost function's uses of locals around it, and its underscores.
LEMMA EscapingUses ==
  /\ OfParent = Outer(decls, Range(Top.locals), BlockUses(frames).self \cup BlockUses(frames).child)
  /\ Magic = OwnMagic(decls, Range(Top.locals), BlockUses(frames).self)
  BY DEF OfParent, Magic, Outer, OwnMagic, Escaping, FromAbove, all_uses

\* A lambda without members uses what its frame says, and no constructor.
LEMMA LambdaUses ==
  ASSUME Scouting, Top.kind = "function", Members(Top) = {}
  PROVE  /\ BlockUses(frames) = [self |-> SelfOf(Top), child |-> ChildOf(Top)]
         /\ BlockUses(frames) \in Uses
  <1>1. Top \in Frame /\ Last(frames) = Top
    BY TopFn
  <1>2. Top.uses \in Uses
    BY <1>1, FrameFields
  <1>3. Top.kind \notin Ifs
    BY DEF Ifs
  <1>4. ConstructorUses(frames) = {}
    BY <1>1 DEF ConstructorUses
  <1>5. BlockUses(frames) = [self |-> Top.uses.self, child |-> Top.uses.child]
    BY <1>1, <1>4 DEF BlockUses, then_merge
  <1>6. SelfOf(Top) = Top.uses.self /\ ChildOf(Top) = Top.uses.child
    BY <1>3 DEF SelfOf, ChildOf
  <1>7. QED  BY <1>2, <1>5, <1>6 DEF Uses

\* The typing pass finds a capture where the lambda is created.
LEMMA GivenTyped ==
  ASSUME Scouting, Top.kind = "function", Top.fn # 1,
         NEW x \in SelfOf(Top) \cup ChildOf(Top), x[1] \notin Range(Top.locals),
         decls[x[1]].sort = "var"
  PROVE  /\ x[1] \in DOMAIN decls
         /\ get_variable(Front(frames), decls[x[1]].name, "var")
              = IF decls[x[1]].fn = fns[Top.fn].creator THEN x[1] ELSE Outside
  <1> DEFINE n == Len(frames)
             cr == Creators(fns)
             front == Front(frames)
             p == n - 1
             l == x[1]
  <1>1. /\ frames \in Seq(Frame) /\ frames # <<>> /\ n \in Nat /\ n > 0 /\ n \in 1..n /\ Top = frames[n]
        /\ frames[1].fn = 1
        /\ \A i, j \in 1..n : i <= j => frames[i].fn <= frames[j].fn
    BY TopFn, ScoutedFacts DEF Scouting, Scouted
  <1>2. n > 1 /\ p \in Nat /\ p > 0 /\ p \in 1..p /\ \A i \in 1..p : i \in 1..n /\ i # n
    <2>1. n # 1
      BY <1>1
    <2>2. QED  BY <2>1, <1>1
  <1>3. Good(decls, fns, cr, n, Fns(frames), Heads(frames), Locs(frames), Selfs(frames), Childs(frames),
             uses, flags)
    BY DEF Scouting, Scouted
  <1>4. /\ Fns(frames)[n] = Top.fn /\ Locs(frames)[n] = Range(Top.locals)
        /\ Selfs(frames)[n] = SelfOf(Top) /\ Childs(frames)[n] = ChildOf(Top) /\ n \in Heads(frames)
        /\ \A i \in 1..n : Fns(frames)[i] = frames[i].fn /\ Locs(frames)[i] = Range(frames[i].locals)
    BY <1>1, Views
  <1>5. PICK i \in 1..p : /\ l \in Locs(frames)[i] /\ l \in DOMAIN decls
                          /\ \A k \in 1..p : i < k => \A m \in Locs(frames)[k] : ~SameVar(decls, l, m)
    <2>1. x \in Selfs(frames)[n] \cup Childs(frames)[n] /\ x[1] \notin Locs(frames)[n]
          /\ decls[x[1]].sort # "magic"
      BY <1>4
    <2>2. \E i \in 1..n - 1 :
            /\ x[1] \in Locs(frames)[i] /\ Fns(frames)[i] < Fns(frames)[n] /\ x[1] \in DOMAIN decls
            /\ decls[x[1]].fn = Fns(frames)[i]
            /\ \A k \in 1..n - 1 : i < k => \A m \in Locs(frames)[k] : ~SameVar(decls, x[1], m)
      BY <2>1, <1>2, <1>3, <1>4, OuterInScope
    <2>3. QED  BY <2>2
  <1>6. /\ front \in Seq(Frame) /\ Len(front) = p /\ \A k \in 1..p : front[k] = frames[k]
    BY <1>1, Popped
  <1> HIDE DEF front, l
  <1>7. front # <<>> /\ Last(front) = frames[p]
    BY <1>2, <1>6 DEF Last
  <1>8. \A k \in 1..p : Fns(front)[k] = frames[k].fn /\ Locs(front)[k] = Range(frames[k].locals)
    <2>1. \A k \in 1..p : Fns(front)[k] = front[k].fn /\ Locs(front)[k] = Range(front[k].locals)
      BY <1>6, Views
    <2> HIDE DEF p
    <2>2. QED  BY <2>1, <1>6
  <1>9. LocalsScoped(decls, cr, p, Fns(front), Locs(front))
    <2>1. LocalsScoped(decls, cr, n, Fns(frames), Locs(frames))
      BY <1>3 DEF Good
    <2>2. \A k \in 1..p : Fns(front)[k] = Fns(frames)[k] /\ Locs(front)[k] = Locs(frames)[k]
      BY <1>2, <1>4, <1>8
    <2> HIDE DEF p, n
    <2>3. QED  BY <2>1, <2>2, <1>2 DEF LocalsScoped
  <1>10. \A j, k \in 1..Len(front) : j <= k => front[j].fn <= front[k].fn
    <2> TAKE j, k \in 1..Len(front)
    <2>1. j \in 1..n /\ k \in 1..n /\ front[j] = frames[j] /\ front[k] = frames[k]
      BY <1>2, <1>6
    <2>2. QED  BY <2>1, <1>1
  <1>11. /\ i \in 1..Len(front) /\ l \in Range(front[i].locals) /\ decls[l].sort \in {"var", "member"}
         /\ \A k \in 1..Len(front) : i < k /\ front[i].fn # front[k].fn =>
              \A m \in Range(front[k].locals) : ~SameVar(decls, l, m)
    <2>1. \A k \in 1..p : Locs(frames)[k] = Range(front[k].locals)
      BY <1>2, <1>4, <1>6
    <2>2. QED  BY <2>1, <1>5, <1>6 DEF l
  <1>12. get_variable(front, decls[l].name, decls[l].sort) = IF decls[l].fn = Last(front).fn THEN l ELSE Outside
    BY <1>6, <1>7, <1>9, <1>10, <1>11, TypedOfScoped
  <1>13. Last(front).fn = fns[Top.fn].creator
    <2>1. n \in 2..n
      BY <1>2
    <2>2. \A i2 \in 2..n : IF frames[i2].kind = "function" THEN fns[frames[i2].fn].creator = frames[i2 - 1].fn
                           ELSE frames[i2].fn = frames[i2 - 1].fn
      BY ScoutedFacts DEF Scouting
    <2>3. QED  BY <2>1, <2>2, <1>1, <1>7
  <1>14. QED  BY <1>5, <1>12, <1>13 DEF l, front

\* What the end of lambda q writes down of it.
EndsAs(gs, gs2, q, captured, magic, given) ==
  /\ gs2 \in Seq(Fn) /\ DOMAIN gs2 = DOMAIN gs /\ \A k \in DOMAIN gs : k # q => gs2[k] = gs[k]
  /\ gs2[q].captured = captured /\ gs2[q].magic = magic /\ gs2[q].given = given
  /\ gs2[q].creator = gs[q].creator

\* The end of a function changes what is known of it and of no other.
LEMMA FnEnds ==
  ASSUME NEW gs \in Seq(Fn), NEW q \in DOMAIN gs,
         NEW captured \in SUBSET Nat, NEW magic \in SUBSET Nat,
         NEW given \in SUBSET [local : Nat, typed : Nat]
  PROVE  EndsAs(gs, [gs EXCEPT ![q].captured = captured, ![q].magic = magic, ![q].given = given],
                q, captured, magic, given)
  <1> DEFINE gs2 == [gs EXCEPT ![q].captured = captured, ![q].magic = magic, ![q].given = given]
             d == [gs[q] EXCEPT !.captured = captured, !.magic = magic, !.given = given]
  <1>1. gs[q] \in Fn
    OBVIOUS
  <1>2. /\ d \in Fn /\ d.captured = captured /\ d.magic = magic /\ d.given = given
        /\ d.creator = gs[q].creator
    BY <1>1 DEF Fn
  <1>3. gs2 = [gs EXCEPT ![q] = d]
    OBVIOUS
  <1> HIDE DEF d, gs2
  <1>4. gs2 \in Seq(Fn) /\ DOMAIN gs2 = DOMAIN gs /\ gs2[q] = d /\ \A k \in DOMAIN gs : k # q => gs2[k] = gs[k]
    BY <1>2, <1>3
  <1>5. QED  BY <1>2, <1>4 DEF EndsAs, gs2

\* A lambda ends.
LEMMA LeaveLambdaKeeps ==
  ASSUME Scouting, LeaveLambda
  PROVE  ScoutInv'
  <1>1. CASE \E result \in {"panicked", "error"} : Fail(result)
    BY <1>1, FailKeeps
  <1>2. CASE /\ Members(Top) = {} /\ ~BadCaptures
             /\ frames' = Receive(Front(frames), [self |-> {}, child |-> OfParent])
             /\ flags' = flags \cup LocalFlags(Range(Top.locals) \cup Magic, BlockUses(frames))
             /\ fns' = [fns EXCEPT ![Top.fn].captured = Captured, ![Top.fn].magic = Magic,
                                   ![Top.fn].given = Given]
             /\ UNCHANGED <<bounds, decls, uses, outcome>>
    <2> DEFINE n == Len(frames)
               p == n - 1
               q == Top.fn
               cr == Creators(fns)
               ls == Range(Top.locals)
               s == SelfOf(Top)
               c == ChildOf(Top)
               outer == Outer(decls, ls, s \cup c)
               own == OwnMagic(decls, ls, s)
               u == [self |-> {}, child |-> outer]
               front == Front(frames)
               t == frames'
               gs2 == fns'
    <2>1. /\ Top.kind = "function" /\ q # 1
          /\ frames \in Seq(Frame) /\ frames # <<>> /\ n \in Nat /\ n > 0 /\ n \in 1..n /\ Top = frames[n]
          /\ frames[1].fn = 1 /\ Top \in Frame /\ q \in Nat
          /\ fns \in Seq(Fn) /\ decls \in Seq(LocalVar) /\ q \in DOMAIN fns
          /\ DOMAIN fns = DOMAIN cr /\ DOMAIN decls \subseteq Nat
      <3>1. Top.kind = "function" /\ q # 1
        BY DEF LeaveLambda
      <3>2. /\ frames \in Seq(Frame) /\ frames # <<>> /\ n \in Nat /\ n > 0 /\ n \in 1..n /\ Top = frames[n]
            /\ Top \in Frame /\ q \in Nat
        BY TopFn
      <3>3. fns \in Seq(Fn) /\ decls \in Seq(LocalVar)
        BY DEF Scouting, Scouted
      <3>4. /\ frames[1].fn = 1 /\ \A i \in 1..n : frames[i].fn \in DOMAIN fns
            /\ DOMAIN decls = 1..Len(decls) /\ DOMAIN Creators(fns) = DOMAIN fns
        BY ScoutedFacts DEF Scouting
      <3>5. q \in DOMAIN fns /\ DOMAIN decls \subseteq Nat
        BY <3>2, <3>4
      <3>6. QED  BY <3>1, <3>2, <3>3, <3>4, <3>5
    <2>2. n > 1 /\ p \in Nat /\ p > 0 /\ p \in 1..p /\ p \in 1..n /\ \A i \in 1..p : i \in 1..n /\ i # n
      <3>1. n # 1
        BY <2>1
      <3>2. QED  BY <3>1, <2>1
    <2>3. /\ BlockUses(frames) = [self |-> s, child |-> c] /\ s \subseteq Use /\ c \subseteq Use
          /\ OfParent = outer /\ Magic = own
      <3>1. BlockUses(frames) = [self |-> s, child |-> c] /\ BlockUses(frames) \in Uses
        BY <1>2, <2>1, LambdaUses
      <3>2. BlockUses(frames).self = s /\ BlockUses(frames).child = c
        BY <3>1
      <3>3. s \subseteq Use /\ c \subseteq Use
        BY <3>1, <3>2 DEF Uses
      <3>4. OfParent = outer /\ Magic = own
        BY <3>2, EscapingUses
      <3>5. QED  BY <3>1, <3>3, <3>4
    <2>4. Captured = { x[1] : x \in outer }
      BY <2>3 DEF Captured
    <2>5. \A x \in outer : /\ x \in s \cup c /\ x[1] \notin ls /\ decls[x[1]].sort = "var"
      <3>1. \A x \in outer : x[1] \in Captured
        BY <2>4
      <3>2. \A x \in outer : decls[x[1]].sort = "var"
        BY <1>2, <3>1 DEF BadCaptures
      <3>3. QED  BY <3>2 DEF Outer
    <2> HIDE DEF q, cr, ls, s, c
    <2>6. \A x \in outer :
            /\ x[1] \in DOMAIN decls
            /\ get_variable(front, decls[x[1]].name, "var")
                 = IF decls[x[1]].fn = fns[q].creator THEN x[1] ELSE Outside
      BY <2>1, <2>5, GivenTyped DEF q, ls, s, c
    <2> HIDE DEF outer, own
    <2>7. \A g \in Given : /\ g.local \in DOMAIN decls
                           /\ g.typed = IF decls[g.local].fn = fns[q].creator THEN g.local ELSE Outside
      BY <2>4, <2>6 DEF Given
    <2>8. Captured \in SUBSET Nat /\ own \in SUBSET Nat /\ Given \in SUBSET [local : Nat, typed : Nat]
      <3>1. Captured \in SUBSET Nat
        BY <2>1, <2>4, <2>6
      <3>2. own \in SUBSET Nat
        <4>1. \A x \in s : x[1] \in Nat
          BY <2>3 DEF Use
        <4>2. QED  BY <4>1 DEF own, OwnMagic
      <3>3. \A g \in Given : g = [local |-> g.local, typed |-> g.typed]
        BY DEF Given
      <3>4. \A g \in Given : g.local \in Nat /\ g.typed \in Nat
        BY <2>1, <2>7 DEF Outside
      <3>5. QED  BY <3>1, <3>2, <3>3, <3>4
    <2>9. EndsAs(fns, gs2, q, Captured, own, Given)
      BY <1>2, <2>1, <2>3, <2>8, FnEnds DEF q
    <2>10. u \in Uses /\ u.self = {} /\ u.child = outer
      <3>1. outer \subseteq Use
        BY <2>3, <2>5
      <3>2. QED  BY <3>1 DEF Uses
    <2>11. t = Receive(front, u)
      BY <1>2, <2>3
    <2> HIDE DEF u
    <2>12. /\ front \in Seq(Frame) /\ Len(front) = p /\ \A k \in 1..p : front[k] = frames[k]
           /\ front # <<>>
      <3>1. front \in Seq(Frame) /\ Len(front) = p /\ \A k \in 1..p : front[k] = frames[k]
        BY <2>1, Popped
      <3>2. QED  BY <3>1, <2>2
    <2> HIDE DEF front, t, gs2
    <2>13. /\ t \in Seq(Frame) /\ Len(t) = p
           /\ t[p].kind = front[p].kind /\ t[p].fn = front[p].fn /\ t[p].locals = front[p].locals
           /\ SelfOf(t[p]) = SelfOf(front[p]) \cup u.self
           /\ ChildOf(t[p]) = ChildOf(front[p]) \cup u.child
           /\ \A i \in 1..p : i # p => t[i] = front[i]
      <3> DEFINE r == Receive(front, u)
      <3>1. /\ r \in Seq(Frame) /\ Len(r) = Len(front)
            /\ r[Len(front)].kind = front[Len(front)].kind /\ r[Len(front)].fn = front[Len(front)].fn
            /\ r[Len(front)].locals = front[Len(front)].locals
            /\ SelfOf(r[Len(front)]) = SelfOf(front[Len(front)]) \cup u.self
            /\ ChildOf(r[Len(front)]) = ChildOf(front[Len(front)]) \cup u.child
            /\ \A i \in 1..Len(front) : i # Len(front) => r[i] = front[i]
        BY <2>10, <2>12, Received
      <3> HIDE DEF r, p
      <3>2. t = r
        BY <2>11 DEF r
      <3>3. QED  BY <3>1, <3>2, <2>12
    <2>14. \A i \in 1..p : /\ t[i].kind = frames[i].kind /\ t[i].fn = frames[i].fn
                           /\ t[i].locals = frames[i].locals /\ SelfOf(t[i]) = SelfOf(frames[i])
                           /\ ChildOf(t[i]) = ChildOf(frames[i]) \cup IF i = p THEN outer ELSE {}
      <3> TAKE i \in 1..p
      <3> HIDE DEF p
      <3>1. CASE i = p
        BY <3>1, <2>10, <2>12, <2>13
      <3>2. CASE i # p
        BY <3>2, <2>12, <2>13
      <3>3. QED  BY <3>1, <3>2
    <2>15. Shape(t)
      <3>1. DropsTop(frames, Receive(Front(frames), u))
        BY <2>1, <2>2, <2>10, ReceivedDrops
      <3>2. DropsTo(frames, t, Len(frames) - 1)
        BY <3>1, <2>1, <2>11, DropsOne DEF front
      <3>3. frames[(Len(frames) - 1) + 1].kind # "block"
        BY <2>1
      <3>4. QED  BY <3>2, <3>3, <2>1, ShapeDropped DEF Scouting
    <2>16. Good(decls, fns, cr, n, Fns(frames), Heads(frames), Locs(frames), Selfs(frames), Childs(frames),
                uses, flags)
      BY DEF Scouting, Scouted, cr
    <2>17. Creators(gs2) = cr
      BY <2>9 DEF EndsAs, Creators, cr
    <2>18. \A i \in 1..p :
             /\ (i \in Heads(t) <=> i \in Heads(frames)) /\ Fns(t)[i] = Fns(frames)[i]
             /\ Locs(t)[i] = Locs(frames)[i] /\ Selfs(t)[i] = Selfs(frames)[i]
             /\ Childs(t)[i] = Childs(frames)[i] \cup IF i = p THEN outer ELSE {}
      <3> TAKE i \in 1..p
      <3>1. /\ Fns(t)[i] = t[i].fn /\ Locs(t)[i] = Range(t[i].locals) /\ Selfs(t)[i] = SelfOf(t[i])
            /\ Childs(t)[i] = ChildOf(t[i]) /\ (i \in Heads(t) <=> t[i].kind = "function")
        BY <2>13, Views
      <3>2. i \in 1..n
        BY <2>2
      <3>3. /\ Fns(frames)[i] = frames[i].fn /\ Locs(frames)[i] = Range(frames[i].locals)
            /\ Selfs(frames)[i] = SelfOf(frames[i]) /\ Childs(frames)[i] = ChildOf(frames[i])
            /\ (i \in Heads(frames) <=> frames[i].kind = "function")
        BY <3>2, <2>1, Views
      <3> HIDE DEF p
      <3>4. QED  BY <3>1, <3>3, <2>14
    <2>19. /\ Fns(frames)[n] = q /\ Locs(frames)[n] = ls /\ Selfs(frames)[n] = s
           /\ Childs(frames)[n] = c /\ n \in Heads(frames)
      BY <2>1, Views DEF q, ls, s, c
    <2>20. flags' = flags \cup LocalFlags(ls \cup own, [self |-> s, child |-> c])
      BY <1>2, <2>3 DEF ls
    <2>21. Finishes(decls, fns, n, Fns(frames), Heads(frames), Locs(frames), Selfs(frames), Childs(frames),
                    flags, gs2, Fns(t), Heads(t), Locs(t), Selfs(t), Childs(t), flags')
      <3>1. gs2[q].captured = { x[1] : x \in outer } /\ gs2[q].magic = own
            /\ gs2[q].given = Given /\ gs2[q].creator = fns[q].creator
            /\ DOMAIN gs2 = DOMAIN fns /\ \A k \in DOMAIN fns : k # q => gs2[k] = fns[k]
        BY <2>4, <2>9 DEF EndsAs
      <3>2. \A x \in outer : decls[x[1]].sort = "var"
        BY <2>5
      <3>3. outer = Outer(decls, ls, s \cup c) /\ own = OwnMagic(decls, ls, s)
        BY DEF outer, own
      <3> HIDE DEF n
      <3>4. QED  BY <3>1, <3>2, <3>3, <2>2, <2>7, <2>18, <2>19, <2>20 DEF Finishes
    <2>22. Good(decls, gs2, cr, n - 1, Fns(t), Heads(t), Locs(t), Selfs(t), Childs(t), uses, flags')
      BY <2>1, <2>16, <2>21, GoodFinishes
    <2>23. Scouted(decls, gs2, t, uses, flags')
      BY <2>1, <2>9, <2>13, <2>17, <2>22 DEF Scouted, EndsAs
    <2>24. QED
      BY <1>2, <2>15, <2>23, StillScouting DEF t, gs2
  <1>3. QED  BY <1>1, <1>2 DEF LeaveLambda

\* With one frame left, of whose uses none is of a local around it, all uses are flagged.
LEMMA GoodEnds ==
  ASSUME NEW ds, NEW gs, NEW cr, NEW F, NEW H, NEW L, NEW S, NEW C, NEW us, NEW fl,
         Good(ds, gs, cr, 1, F, H, L, S, C, us, fl),
         \A x \in S[1] \cup C[1] : x[1] \in L[1],
         NEW inner, inner = [self |-> S[1], child |-> C[1]]
  PROVE  fl \cup LocalFlags(L[1], inner) = { Flag(ds, u) : u \in us }
  <1> DEFINE new == LocalFlags(L[1], inner)
  <1>0. 1 \in 1..1 /\ \A i \in 1..1 : i = 1
    OBVIOUS
  <1>1. F[1] = 1
    BY DEF Good, Chain
  <1>2. \A l \in L[1] : ds[l].fn = 1
    BY <1>0, <1>1 DEF Good, LocalsScoped
  <1>3. /\ \A x \in S[1] : x[1] \in L[1] =>
             [local |-> x[1], child |-> FALSE, how |-> x[2]] \in new
        /\ \A x \in C[1] : x[1] \in L[1] =>
             [local |-> x[1], child |-> TRUE, how |-> x[2]] \in new
        /\ \A f \in new :
              \/ \E x \in S[1] : x[1] \in L[1] /\ f = [local |-> x[1], child |-> FALSE, how |-> x[2]]
              \/ \E x \in C[1] : x[1] \in L[1] /\ f = [local |-> x[1], child |-> TRUE, how |-> x[2]]
    BY FlagsOfLocals
  <1> HIDE DEF new
  <1>4. ASSUME NEW u \in us  PROVE Flag(ds, u) \in fl \cup new
    <2>1. (\E j \in 1..1 : Pends(cr, 1, F, S, C, u, j)) \/ IsFlagged(ds, cr, 1, F, fl, u)
      BY DEF Good, AllBooked
    <2>2. CASE IsFlagged(ds, cr, 1, F, fl, u)
      BY <2>2 DEF IsFlagged
    <2>3. CASE Pends(cr, 1, F, S, C, u, 1)
      <3> DEFINE x == <<u.local, u.how>>
      <3>1. x[1] = u.local /\ x[2] = u.how
        OBVIOUS
      <3>2. (u.fn = 1 /\ x \in S[1]) \/ (u.fn # 1 /\ x \in C[1])
        BY <2>3, <1>1 DEF Pends
      <3> HIDE DEF x
      <3>3. x[1] \in L[1] /\ ds[u.local].fn = 1
        BY <3>1, <3>2, <1>2
      <3>4. CASE u.fn = 1 /\ x \in S[1]
        <4>1. Flag(ds, u) = [local |-> x[1], child |-> FALSE, how |-> x[2]]
          BY <3>1, <3>3, <3>4 DEF Flag
        <4>2. QED  BY <4>1, <3>3, <3>4, <1>3
      <3>5. CASE u.fn # 1 /\ x \in C[1]
        <4>1. Flag(ds, u) = [local |-> x[1], child |-> TRUE, how |-> x[2]]
          BY <3>1, <3>3, <3>5 DEF Flag
        <4>2. QED  BY <4>1, <3>3, <3>5, <1>3
      <3>6. QED  BY <3>2, <3>4, <3>5
    <2>4. QED  BY <2>1, <2>2, <2>3, <1>0
  <1>5. ASSUME NEW f \in new  PROVE \E u \in us : f = Flag(ds, u)
    <2>1. CASE \E x \in S[1] : x[1] \in L[1] /\ f = [local |-> x[1], child |-> FALSE, how |-> x[2]]
      <3>1. PICK x \in S[1] : x[1] \in L[1] /\ f = [local |-> x[1], child |-> FALSE, how |-> x[2]]
        BY <2>1
      <3>2. PICK u \in us : u.fn = F[1] /\ x = <<u.local, u.how>>
        BY <1>0 DEF Good, PendingBooked
      <3>3. QED  BY <3>1, <3>2, <1>1, <1>2 DEF Flag
    <2>2. CASE \E x \in C[1] : x[1] \in L[1] /\ f = [local |-> x[1], child |-> TRUE, how |-> x[2]]
      <3>1. PICK x \in C[1] : x[1] \in L[1] /\ f = [local |-> x[1], child |-> TRUE, how |-> x[2]]
        BY <2>2
      <3>2. PICK u \in us : u.fn # F[1] /\ x = <<u.local, u.how>>
        BY <1>0 DEF Good, PendingBooked
      <3>3. QED  BY <3>1, <3>2, <1>1, <1>2 DEF Flag
    <2>3. QED  BY <2>1, <2>2, <1>3
  <1>6. \A f \in fl : \E u \in us : f = Flag(ds, u)
    BY DEF Good, FlagsBooked
  <1>7. QED  BY <1>4, <1>5, <1>6 DEF new

\* The program is done, and what is written down of it is exact.
LEMMA LeaveFunctionKeeps ==
  ASSUME Scouting, LeaveFunction
  PROVE  ScoutInv'
  <1>1. CASE Fail("panicked")
    BY <1>1, FailKeeps
  <1>2. CASE /\ Magic = {} /\ Captured = {}
             /\ flags' = flags \cup LocalFlags(Range(Top.locals), BlockUses(frames))
             /\ uses' = uses \cup Seen(frames, ConstructorUses(frames))
             /\ outcome' = "done"
             /\ UNCHANGED <<bounds, frames, decls, fns>>
    <2> DEFINE n == Len(frames)
               cons == ConstructorUses(frames)
               t == Marked(frames, cons)
               us2 == uses \cup Seen(frames, cons)
               u == BlockUses(frames)
               ls == Range(Top.locals)
               cr == Creators(fns)
    <2>1. /\ Top.kind = "function" /\ Top.fn = 1
          /\ frames \in Seq(Frame) /\ frames # <<>> /\ n \in Nat /\ n > 0 /\ n \in 1..n
          /\ Top = frames[n] /\ Last(frames) = frames[n] /\ Top \in Frame
      <3>1. Top.kind = "function" /\ Top.fn = 1
        BY DEF LeaveFunction
      <3>2. QED  BY <3>1, TopFn
    <2>2. n = 1
      <3>1. /\ \A i, j \in 1..n : i < j /\ frames[j].kind = "function" => frames[i].fn < frames[j].fn
            /\ frames[1].fn = 1
        BY ScoutedFacts DEF Scouting
      <3>2. 1 \in 1..n /\ (n # 1 => 1 < n)
        <4>1. \A m \in Nat : m > 0 => 1 \in 1..m /\ (m # 1 => 1 < m)
          OBVIOUS
        <4>2. n \in Nat /\ n > 0
          BY <2>1
        <4> HIDE DEF n
        <4>3. QED  BY <4>1, <4>2
      <3>3. n # 1 => 1 < 1
        BY <3>1, <3>2, <2>1
      <3>4. QED  BY <3>3
    <2>3. cons \in SUBSET Use /\ \A x \in cons : IsNearest(frames, x[1])
      BY ConstructorScoped DEF Scouting
    <2> HIDE DEF cons
    <2>4. Scouted(decls, fns, t, us2, flags)
      BY <2>3, ScoutedMarks DEF Scouting
    <2>5. /\ t \in Seq(Frame) /\ Len(t) = n /\ t[n].kind = frames[n].kind /\ t[n].fn = frames[n].fn
          /\ t[n].locals = frames[n].locals
          /\ t[n].uses = then_merge(frames[n].uses, [self |-> cons, child |-> {}])
          /\ t[n] \in Frame
      BY <2>1, <2>3, MarkedFrames DEF SameShape
    <2> HIDE DEF t
    <2>6. t[n].uses = u /\ u \in Uses
      <3>1. u = then_merge(frames[n].uses, [self |-> cons, child |-> {}])
        BY <2>1 DEF BlockUses, cons
      <3>2. QED  BY <3>1, <2>5, FrameFields
    <2> HIDE DEF u
    <2>7. SelfOf(t[n]) = u.self /\ ChildOf(t[n]) = u.child
      <3>1. t[n].kind \notin Ifs
        BY <2>1, <2>5 DEF Ifs
      <3>2. QED  BY <3>1, <2>6 DEF SelfOf, ChildOf
    <2>8. /\ Fns(t)[1] = 1 /\ Locs(t)[1] = ls /\ Selfs(t)[1] = u.self /\ Childs(t)[1] = u.child
      <3>1. 1 \in 1..Len(t)
        BY <2>2, <2>5
      <3>2. QED  BY <3>1, <2>1, <2>2, <2>5, <2>7, Views
    <2>9. Good(decls, fns, cr, 1, Fns(t), Heads(t), Locs(t), Selfs(t), Childs(t), us2, flags)
      BY <2>2, <2>4, <2>5 DEF Scouted
    <2>10. ASSUME NEW x \in u.self \cup u.child  PROVE x[1] \in ls
      <3>0. 1 \in 1..1 /\ \A i \in 1..1 : i = 1
        OBVIOUS
      <3>1. \/ x[1] \in ls
            \/ decls[x[1]].sort = "magic" /\ x \notin u.child
        BY <3>0, <2>8, <2>9 DEF Good, UsesScoped
      <3>2. Magic = OwnMagic(decls, ls, u.self)
        BY EscapingUses DEF u
      <3>3. x \in u.self /\ x[1] \notin ls /\ decls[x[1]].sort = "magic" => x[1] \in Magic
        BY <3>2 DEF OwnMagic
      <3>4. QED  BY <3>1, <3>3, <1>2
    <2>11. u = [self |-> u.self, child |-> u.child]
      BY <2>6 DEF Uses
    <2>12. flags \cup LocalFlags(Locs(t)[1], u) = { Flag(decls, v) : v \in us2 }
      <3>1. \A x \in Selfs(t)[1] \cup Childs(t)[1] : x[1] \in Locs(t)[1]
        BY <2>8, <2>10
      <3>2. u = [self |-> Selfs(t)[1], child |-> Childs(t)[1]]
        BY <2>8, <2>11
      <3>3. QED  BY <3>1, <3>2, <2>9, GoodEnds
    <2>13. flags' = { Flag(decls, v) : v \in us2 }
      BY <1>2, <2>8, <2>12 DEF u
    <2>14. uses' = us2 /\ decls' = decls /\ fns' = fns /\ frames' = frames /\ outcome' = "done"
      BY <1>2 DEF cons
    <2> HIDE DEF us2, cr
    <2>15. FlagsAreExact'
      BY <2>13, <2>14 DEF FlagsAreExact, Flag
    <2>16. LambdasAreExact'
      <3> SUFFICES ASSUME NEW k \in 2..Len(fns)', IsFinished(k)'
                   PROVE  /\ fns'[k].captured =
                               { v.local : v \in { w \in uses' : w.fn \in Within(k)'
                                                     /\ decls'[w.local].fn \notin Within(k)' } }
                          /\ \A l, m \in fns'[k].captured : decls'[l].name = decls'[m].name => l = m
                          /\ fns'[k].magic = { l \in DOMAIN decls' : decls'[l].sort = "magic" /\ decls'[l].fn = k }
        BY DEF LambdasAreExact
      <3>1. Within(k)' = Within(k)
        BY <2>14 DEF Within
      <3>2. Within(k) = In(cr, k)
        BY WithinIsIn DEF cr
      <3>3. k \in DOMAIN fns /\ k # 1
        <4>1. DOMAIN fns = 1..Len(fns) /\ Len(fns) \in Nat
          BY ScoutedFacts DEF Scouting
        <4>2. QED  BY <4>1, <2>14
      <3>4. \A i \in 1..1 : Fns(t)[i] # k
        BY <2>8, <3>3
      <3>5. IsExact(fns[k], decls, cr, k, us2)
        BY <2>9, <3>3, <3>4 DEF Good, LambdasExact
      <3>6. QED  BY <3>1, <3>2, <3>5, <2>14 DEF IsExact
    <2>17. NamesAgree'
      <3>1. GivenAgree(fns, decls) /\ UsesOK(decls, cr, us2)
        BY <2>9 DEF Good
      <3>2. QED  BY <3>1, <2>14 DEF GivenAgree, UsesOK, NamesAgree
    <2>18. QED  BY <2>14, <2>15, <2>16, <2>17 DEF ScoutInv, Properties
  <1>3. QED  BY <1>1, <1>2 DEF LeaveFunction

-----------------------------------------------------------------------------
(* The theorems                                                            *)

\* The invariant holds at the start.
LEMMA InitKeeps == ASSUME Init  PROVE ScoutInv
  <1> PICK params \in {<<>>} \cup { <<n>> : n \in Name } :
             /\ decls = [k \in DOMAIN params |-> Local(params[k], "var", 1)]
             /\ frames = <<Block("function", 1, [k \in DOMAIN params |-> k])>>
    BY DEF Init
  <1> DEFINE f == Block("function", 1, [k \in DOMAIN params |-> k])
             d == [creator |-> 0, params |-> 0, captured |-> {}, magic |-> {}, given |-> {}]
             cr == Creators(fns)
             F == Fns(frames)
             H == Heads(frames)
             L == Locs(frames)
             S == Selfs(frames)
             C == Childs(frames)
  <1>1. /\ params \in Seq(Name) /\ DOMAIN params = 1..Len(params) /\ Len(params) \in Nat
    <2>1. CASE params = <<>>
      BY <2>1
    <2>2. CASE params # <<>>
      <3>1. PICK n \in Name : params = <<n>>
        BY <2>2
      <3>2. QED  BY <3>1
    <2>3. QED  BY <2>1, <2>2
  <1>2. /\ frames = <<f>> /\ fns = <<d>> /\ uses = {} /\ flags = {} /\ outcome = "scouting"
    BY DEF Init
  <1>3. LambdaLocals(<<>>, decls, f, 1)
    <2> DEFINE new == [k \in DOMAIN params |-> Local(params[k], "var", 1)]
               ix == [k \in DOMAIN params |-> Len(<<>>) + k]
    <2>1. LambdaLocals(<<>>, <<>> \o new, Block("function", 1, ix), 1)
      <3>1. <<>> \in Seq(LocalVar) /\ 1 \in Nat
        OBVIOUS
      <3>2. \A e \in Seq(LocalVar) :
              LambdaLocals(e, e \o [k \in DOMAIN params |-> Local(params[k], "var", 1)],
                           Block("function", 1, [k \in DOMAIN params |-> Len(e) + k]), 1)
        BY <3>1, ParamLocals
      <3>3. QED  BY <3>1, <3>2
    <2>2. new \in Seq(LocalVar)
      BY <1>1 DEF Local, LocalVar, Sorts
    <2> HIDE DEF new
    <2>3. <<>> \o new = new
      BY <2>2
    <2>4. ix = [k \in DOMAIN params |-> k]
      BY <1>1
    <2>5. decls = new
      BY DEF new
    <2>6. Block("function", 1, ix) = f
      BY <2>4
    <2> HIDE DEF ix, f
    <2>7. QED  BY <2>1, <2>3, <2>5, <2>6
  <1> HIDE DEF f, d
  <1>4. /\ decls \in Seq(LocalVar) /\ f \in Frame /\ f.kind = "function" /\ f.kind \notin Ifs /\ f.fn = 1
        /\ Range(f.locals) = DOMAIN decls /\ SelfOf(f) = {} /\ ChildOf(f) = {}
        /\ \A l \in DOMAIN decls : decls[l].fn = 1 /\ decls[l].sort # "magic"
        /\ \A l, m \in DOMAIN decls : l = m
    <2>1. DOMAIN <<>> = {}
      OBVIOUS
    <2>2. QED  BY <2>1, <1>3 DEF LambdaLocals
  <1>5. /\ frames \in Seq(Frame) /\ Len(frames) = 1 /\ frames[1] = f
    BY <1>2, <1>4
  <1>6. /\ fns \in Seq(Fn) /\ DOMAIN fns = {1} /\ fns[1] = d /\ d.creator = 0 /\ d.given = {}
    <2>1. d \in Fn /\ d.creator = 0 /\ d.given = {}
      BY DEF d, Fn
    <2>2. QED  BY <2>1, <1>2
  <1>7. cr \in Seq(Nat) /\ DOMAIN cr = {1} /\ cr[1] = 0
    <2>1. cr = [k \in 1..1 |-> 0]
      BY <1>6 DEF Creators
    <2>2. QED  BY <2>1
  <1>8. F[1] = 1 /\ 1 \in H /\ L[1] = DOMAIN decls /\ S[1] = {} /\ C[1] = {}
    <2>1. 1 \in 1..Len(frames)
      BY <1>5
    <2>2. QED  BY <2>1, <1>4, <1>5, Views
  <1> HIDE DEF cr, F, H, L, S, C
  <1>9. 1 \in 1..1 /\ (\A i \in 1..1 : i = 1) /\ 2..1 = {} /\ 1 \in Nat
    OBVIOUS
  <1>10. Good(decls, fns, cr, 1, F, H, L, S, C, {}, {})
    <2>1. Chain(cr, 1, F, H)
      <3>1. Tree(cr)
        BY <1>7 DEF Tree
      <3>2. 1 \in In(cr, 1)
        BY <1>7, InClosed
      <3>3. QED  BY <3>1, <3>2, <1>7, <1>8, <1>9 DEF Chain
    <2>2. LocalsScoped(decls, cr, 1, F, L)
      BY <1>4, <1>7, <1>8, <1>9 DEF LocalsScoped
    <2>3. UsesScoped(decls, 1, F, L, S, C)
      BY <1>8, <1>9 DEF UsesScoped
    <2>4. PendingBooked(cr, 1, F, S, C, {})
      BY <1>8, <1>9 DEF PendingBooked
    <2>5. MagicPends(decls, 1, F, S)
      BY <1>4 DEF MagicPends
    <2>6. LambdasExact(fns, decls, cr, 1, F, {})
      BY <1>6, <1>8, <1>9 DEF LambdasExact
    <2>7. GivenAgree(fns, decls)
      BY <1>6 DEF GivenAgree
    <2>8. QED
      BY <2>1, <2>2, <2>3, <2>4, <2>5, <2>6, <2>7 DEF Good, AllBooked, FlagsBooked, UsesOK
  <1>11. Scouted(decls, fns, frames, uses, flags)
    BY <1>2, <1>4, <1>5, <1>6, <1>10 DEF Scouted, cr, F, H, L, S, C
  <1>12. Shape(frames)
    BY <1>4, <1>5, <1>9 DEF Shape, ShapeAt
  <1>13. QED  BY <1>2, <1>11, <1>12 DEF ScoutInv

\* Every step keeps it.
LEMMA StepKeeps == ASSUME ScoutInv, [Next]_vars  PROVE ScoutInv'
  <1>1. CASE UNCHANGED vars
    <2>1. UNCHANGED <<frames, decls, fns, flags, uses, outcome>>
      BY <1>1 DEF vars
    <2>2. Properties' = Properties
      <3>1. \A k : Within(k)' = Within(k) /\ IsFinished(k)' = IsFinished(k)
        BY <2>1 DEF Within, IsFinished
      <3>2. FlagsAreExact' = FlagsAreExact
        BY <2>1 DEF FlagsAreExact
      <3>3. LambdasAreExact' = LambdasAreExact
        BY <2>1, <3>1 DEF LambdasAreExact
      <3>4. NamesAgree' = NamesAgree
        BY <2>1 DEF NamesAgree
      <3>5. QED  BY <3>2, <3>3, <3>4 DEF Properties
    <2>3. QED  BY <2>1, <2>2 DEF ScoutInv
  <1>2. CASE Next
    <2>1. Scouting
      <3>1. outcome = "scouting"
        BY <1>2 DEF Next, Mention, MentionMember, MagicParam, LocalMutate, Unlet, LetSetting, Let, LetMember,
              EnterBlock, LeaveBlock, EnterIf, EnterAnd, EnterOr, BeginArms, LeaveArm, EnterWhile, BeginBody,
              EnterEach, LeaveLoop, StartRounds, EnterLambda, LeaveLambda, LeaveFunction, May, IsOpen
      <3>2. QED  BY <3>1 DEF Scouting, ScoutInv
    <2>2. CASE \E n \in Name, load \in Loads : Mention(n, load)
      BY <2>1, <2>2, MentionKeeps
    <2>3. CASE \E m \in Member, load \in Loads : MentionMember(m, load)
      BY <2>1, <2>3, MentionMemberKeeps
    <2>4. CASE \E load \in Loads : MagicParam(load)
      BY <2>1, <2>4, MagicParamKeeps
    <2>5. CASE \E n \in Name : LocalMutate(n) \/ Unlet(n) \/ LetSetting(n)
      BY <2>1, <2>5, LocalMutateKeeps, UnletKeeps, LetSettingKeeps
    <2>6. CASE \E names \in Patterns : Let(names)
      BY <2>1, <2>6, LetKeeps
    <2>7. CASE \E m \in Member : LetMember(m)
      BY <2>1, <2>7, LetMemberKeeps
    <2>8. CASE EnterBlock \/ EnterIf \/ EnterAnd \/ EnterOr \/ EnterWhile \/ BeginBody \/ EnterEach
      BY <2>1, <2>8, EnterKeeps
    <2>9. CASE LeaveBlock
      BY <2>1, <2>9, LeaveBlockKeeps
    <2>10. CASE BeginArms
      BY <2>1, <2>10, BeginArmsKeeps
    <2>11. CASE LeaveArm
      BY <2>1, <2>11, LeaveArmKeeps
    <2>12. CASE LeaveLoop
      BY <2>1, <2>12, LeaveLoopKeeps
    <2>13. CASE \E names \in Patterns : StartRounds(names)
      BY <2>1, <2>13, StartRoundsKeeps
    <2>14. CASE \E params \in {<<>>} \cup { <<n>> : n \in Name } : EnterLambda(params)
      BY <2>1, <2>14, EnterLambdaKeeps
    <2>15. CASE LeaveLambda
      BY <2>1, <2>15, LeaveLambdaKeeps
    <2>16. CASE LeaveFunction
      BY <2>1, <2>16, LeaveFunctionKeeps
    <2>17. QED
      BY <1>2, <2>2, <2>3, <2>4, <2>5, <2>6, <2>7, <2>8, <2>9, <2>10, <2>11, <2>12, <2>13, <2>14, <2>15, <2>16
      DEF Next
  <1>3. QED  BY <1>1, <1>2

\* ScoutInv is inductive.
LEMMA AlwaysScoutInv == Spec => []ScoutInv
  <1>1. Init => ScoutInv
    BY InitKeeps
  <1>2. ScoutInv /\ [Next]_vars => ScoutInv'
    BY StepKeeps
  <1>3. QED  BY <1>1, <1>2, PTL DEF Spec

\* When a function is scouted to its end, its LocalS say of every local exactly how the
\* function's own code and its lambdas use it: new_block, new_if and scout_lambda lose no
\* use, invent none and book none on another local or level, whatever the program.
THEOREM FlagsAlwaysExact == Spec => []FlagsAreExact
  <1>1. ScoutInv => FlagsAreExact
    BY ScoutInvHolds DEF Properties
  <1>2. QED  BY <1>1, AlwaysScoutInv, PTL

\* A lambda that is scouted to its end captures the locals around it that it or a lambda in
\* it uses, no others and no two of a name, and its magic parameters are its own
\* underscores: scout_body's closured names and the closure struct made from them.
THEOREM LambdasAlwaysExact == Spec => []LambdasAreExact
  <1>1. ScoutInv => LambdasAreExact
    BY ScoutInvHolds DEF Properties
  <1>2. QED  BY <1>1, AlwaysScoutInv, PTL

\* find_variable of the postparser and get_variable of the typing pass, which look names up
\* by different rules, mean the same local at every use and at every capture.
THEOREM NamesAlwaysAgree == Spec => []NamesAgree
  <1>1. ScoutInv => NamesAgree
    BY ScoutInvHolds DEF Properties
  <1>2. QED  BY <1>1, AlwaysScoutInv, PTL
=============================================================================
