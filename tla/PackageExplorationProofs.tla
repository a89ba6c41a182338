---------------------- MODULE PackageExplorationProofs ----------------------
(***************************************************************************)
(* Theorems about PackageExploration, for every set of packages and of     *)
(* files and every source that is well packed: its files belong to one     *)
(* package each, and what they import is a package.  Nothing is assumed of *)
(* what imports what, of which packages there are, or of the order in      *)
(* which packages and files are met.                                       *)
(*                                                                         *)
(* The inductive invariant is that of a graph search: what was started or  *)
(* waits is reachable; what a handled file imports was started or waits;   *)
(* the files of the packages that were started wait, are at hand or were   *)
(* handled, and are one of the three.  Of the file at hand it says that    *)
(* its denizens are what was handled followed by what is left, and that    *)
(* its imports come first as far as it was read.                           *)
(***************************************************************************)
EXTENDS PackageExploration, TLAPS

-----------------------------------------------------------------------------
(* Sequences of whatever they hold                                         *)

IsASeq(s) == s \in Seq(ToSet(s))

\* Appending to a sequence, and taking its tail.
LEMMA AppendedSeq ==
  ASSUME NEW s, IsASeq(s), NEW x
  PROVE  LET t == Append(s, x) IN
           /\ IsASeq(t)
           /\ Len(s) \in Nat /\ Len(t) = Len(s) + 1
           /\ DOMAIN s = 1..Len(s) /\ DOMAIN t = 1..Len(s) + 1
           /\ \A i \in 1..Len(s) : t[i] = s[i]
           /\ t[Len(s) + 1] = x
           /\ ToSet(t) = ToSet(s) \cup {x}
  <1> DEFINE t == Append(s, x)
             S == ToSet(s) \cup {x}
  <1>1. s \in Seq(S)
    BY DEF IsASeq
  <1> HIDE DEF S
  <1>2. x \in S
    BY DEF S
  <1>3. /\ Len(s) \in Nat /\ Len(t) = Len(s) + 1
        /\ DOMAIN s = 1..Len(s) /\ DOMAIN t = 1..Len(s) + 1
        /\ \A i \in 1..Len(s) : t[i] = s[i]
        /\ t[Len(s) + 1] = x /\ t \in Seq(S)
    BY <1>1, <1>2
  <1> HIDE DEF t
  <1>4. ToSet(t) = ToSet(s) \cup {x}
    <2>1. \A i \in 1..Len(s) + 1 : i \in 1..Len(s) \/ i = Len(s) + 1
      BY <1>3
    <2>2. \A i \in 1..Len(s) : i \in 1..Len(s) + 1
      BY <1>3
    <2>3. Len(s) + 1 \in 1..Len(s) + 1
      BY <1>3
    <2>4. QED  BY <1>3, <2>1, <2>2, <2>3 DEF ToSet
  <1>5. IsASeq(t)
    BY <1>3, <1>4 DEF IsASeq, S
  <1>6. QED  BY <1>3, <1>4, <1>5 DEF t

LEMMA TailSeq ==
  ASSUME NEW s, IsASeq(s), s # <<>>
  PROVE  /\ IsASeq(Tail(s))
         /\ Len(s) \in Nat /\ Len(s) > 0 /\ Len(Tail(s)) = Len(s) - 1
         /\ DOMAIN s = 1..Len(s) /\ Head(s) = s[1]
         /\ \A i \in 1..Len(s) - 1 : Tail(s)[i] = s[i + 1]
  <1> DEFINE t == Tail(s)
             S == ToSet(s)
  <1>1. s \in Seq(S)
    BY DEF IsASeq
  <1> HIDE DEF S
  <1>2. /\ Len(s) \in Nat /\ Len(s) > 0 /\ Len(t) = Len(s) - 1
        /\ DOMAIN s = 1..Len(s) /\ Head(s) = s[1]
        /\ \A i \in 1..Len(s) - 1 : t[i] = s[i + 1]
        /\ t \in Seq(S) /\ DOMAIN t = 1..Len(t)
    BY <1>1
  <1> HIDE DEF t
  <1>3. IsASeq(t)
    <2>1. t \in [1..Len(t) -> ToSet(t)]
      BY <1>2 DEF ToSet
    <2>2. Len(t) \in Nat
      BY <1>2
    <2>3. QED  BY <2>1, <2>2 DEF IsASeq
  <1>4. QED  BY <1>2, <1>3 DEF t

-----------------------------------------------------------------------------
(* What is reachable                                                       *)

\* What the proofs need of the source.
Fit == source \in Sources /\ roots \in source.asked

\* The files of a package are files, and what they import are packages.
LEMMA FilesAreFit ==
  ASSUME Fit
  PROVE  /\ roots \subseteq Package
         /\ \A p \in DOMAIN source.files : source.files[p] \subseteq File \cap DOMAIN source.denizens
         /\ \A f \in DOMAIN source.denizens : FileImports(f) \subseteq Package
  <1>1. WellPacked(source)
    BY SourcesAssumption DEF Fit
  <1>2. roots \subseteq Package
    BY <1>1 DEF Fit, WellPacked
  <1>3. \A f \in DOMAIN source.denizens : FileImports(f) \subseteq Package
    BY <1>1 DEF WellPacked, FileImports
  <1>4. QED  BY <1>1, <1>2, <1>3 DEF WellPacked

\* The roots are reachable, and what a reachable package imports.
LEMMA ReachableIsClosed ==
  ASSUME Fit
  PROVE  /\ Reachable \subseteq Package
         /\ roots \subseteq Reachable
         /\ \A q \in Reachable \cap DOMAIN source.files :
              \A f \in source.files[q] : FileImports(f) \subseteq Reachable
  <1>1. Reachable \subseteq Package /\ roots \subseteq Reachable
    BY FilesAreFit DEF Reachable
  <1>2. ASSUME NEW q \in Reachable \cap DOMAIN source.files, NEW f \in source.files[q],
               NEW d \in FileImports(f)
        PROVE  d \in Reachable
    <2>1. d \in Imports(q)
      BY DEF Imports
    <2>2. d \in Package
      BY FilesAreFit
    <2>3. QED  BY <2>1, <2>2 DEF Reachable
  <1>3. QED  BY <1>1, <1>2

-----------------------------------------------------------------------------
(* The invariant                                                           *)

\* The imports come first in what was read of a file, as far as n.
ImportsFirst(ds, n) ==
  \A i, j \in 1..n : i < j /\ IsImport(ds[j]) => IsImport(ds[i])

\* The denizens of a file: n were handled, and what is left follows.
ReadUpTo(ds, n, left, found, open, handled) ==
  /\ IsASeq(left) /\ IsASeq(handled) /\ IsASeq(found)
  /\ n + Len(left) = Len(ds)
  /\ \A j \in 1..Len(left) : left[j] = ds[n + j]
  /\ ToSet(found) = { ds[j] : j \in { j \in 1..n : IsImport(ds[j]) } }
  /\ \A j \in 1..n :
       /\ handled[j].denizen = ds[j]
       /\ ~ IsImport(ds[j]) => handled[j].imports = ToSet(found)
       /\ ds[j].kind = "function" =>
            ds[j].reading.is = "good" /\ handled[j].tree = ds[j].reading.got
  /\ ImportsFirst(ds, n)
  /\ open => \A j \in 1..n : IsImport(ds[j])
  /\ ~ open => \E j \in 1..n : ~ IsImport(ds[j])
  /\ open \/ handled # <<>>

\* The file at hand.
AtHand(s, lx) ==
  /\ lx = [file |-> lx.file, left |-> lx.left, found |-> lx.found, open |-> lx.open,
           handled |-> lx.handled]
  /\ lx.file \in File /\ lx.file \in DOMAIN s.denizens
  /\ ReadUpTo(s.denizens[lx.file], Len(lx.handled), lx.left, lx.found, lx.open, lx.handled)

LexedFile == IF lexing = NoFile THEN {} ELSE {lexing.file}

\* Where the files of the packages are that were started.
FilesInHand ==
  /\ \A f \in File :
       f \in FilesOf(started) <=> f \in pending \/ f \in LexedFile \/ f \in Files
  /\ pending \cap LexedFile = {} /\ pending \cap Files = {} /\ LexedFile \cap Files = {}
  /\ \A i, j \in DOMAIN parsed : parsed[i].file = parsed[j].file => i = j

\* What was handled was handled whole, and what it imports was not forgotten.
ParsedWhole ==
  /\ IsASeq(parsed)
  /\ \A i \in DOMAIN parsed :
       /\ parsed[i].file \in File
       /\ HandledAll(parsed[i].file, parsed[i].handled)
       /\ FileImports(parsed[i].file) \subseteq started \cup unexplored
       /\ ~ LateImport(parsed[i].file)

\* The roots and what waits; a package that was started does not wait again.
Walk ==
  /\ roots \subseteq started \cup unexplored
  /\ started \cup unexplored \subseteq Reachable
  /\ started \cap unexplored = {}

\* How the search may have ended.
Ends ==
  /\ exploration = "explored" => unexplored = {} /\ pending = {} /\ lexing = NoFile
  /\ exploration = "failed" => \E f \in FilesOf(Reachable) : "unlexable" \in Reads(f)
  /\ exploration = "panicked" =>
       \/ ~ Reachable \subseteq DOMAIN source.files
       \/ \E f \in FilesOf(Reachable) :
            LateImport(f) \/ Reads(f) \cap {"none", "bad", "panicked"} # {}

\* The inductive invariant.
SearchInv ==
  /\ Fit /\ ExplorerTypeOK
  /\ lexing # NoFile => AtHand(source, lexing)
  /\ FilesInHand /\ ParsedWhole /\ Walk /\ Ends

\* It holds before anything was looked at.
LEMMA InitSearches ==
  ASSUME ExplorerInit
  PROVE  SearchInv
  <1>1. Fit
    BY DEF ExplorerInit, Fit
  <1>2. roots \subseteq Package /\ roots \subseteq Reachable
    BY <1>1, FilesAreFit, ReachableIsClosed
  <1>3. ExplorerTypeOK /\ Walk /\ Ends
    BY <1>2 DEF ExplorerInit, ExplorerTypeOK, Walk, Ends
  <1>4. FilesInHand /\ ParsedWhole
    BY DEF ExplorerInit, FilesInHand, ParsedWhole, FilesOf, Files, LexedFile, IsASeq, ToSet
  <1>5. QED  BY <1>1, <1>3, <1>4 DEF SearchInv, ExplorerInit

-----------------------------------------------------------------------------
(* Steps                                                                   *)

\* Stopping changes nothing else; what is to be shown is that it is justified.
LEMMA StoppingKeeps ==
  ASSUME SearchInv, NEW how \in {"explored", "failed", "panicked"}, Stop(how), Ends'
  PROVE  SearchInv'
  <1>1. UNCHANGED <<source, roots, unexplored, started, pending, lexing, parsed>>
        /\ exploration' = how
    BY DEF Stop
  <1>2. Fit' /\ ExplorerTypeOK' /\ (lexing' # NoFile => AtHand(source', lexing'))
    BY <1>1 DEF SearchInv, Fit, ExplorerTypeOK
  <1>3. FilesInHand' /\ Walk'
    BY <1>1 DEF SearchInv, FilesInHand, Walk, FilesOf, Files, LexedFile, Reachable, Imports,
                FileImports
  <1>4. ParsedWhole'
    BY <1>1 DEF SearchInv, ParsedWhole, HandledAll, FileImports, LateImport
  <1>5. QED  BY <1>2, <1>3, <1>4 DEF SearchInv

\* A package that is taken was not started, so its files are new.
LEMMA TakePackageKeeps ==
  ASSUME SearchInv, NEW p \in Package, TakePackage(p)
  PROVE  SearchInv'
  <1>1. /\ pending = {} /\ lexing = NoFile /\ p \in unexplored /\ p \in Reachable
        /\ exploration = "exploring" /\ p \notin started
    BY DEF TakePackage, Exploring, SearchInv, Walk
  <1>2. CASE p \notin DOMAIN source.files
    <2>1. Stop("panicked")
      BY <1>2 DEF TakePackage
    <2>2. ~ Reachable' \subseteq DOMAIN source'.files /\ exploration' = "panicked"
      BY <1>1, <1>2, <2>1 DEF Stop, Reachable, Imports, FileImports
    <2>3. Ends'
      BY <2>2 DEF Ends
    <2>4. QED  BY <2>1, <2>3, StoppingKeeps
  <1>3. CASE p \in DOMAIN source.files
    <2>1. /\ unexplored' = unexplored \ {p} /\ started' = started \cup {p}
          /\ pending' = source.files[p]
          /\ UNCHANGED <<source, roots, lexing, parsed, exploration>>
      BY <1>3 DEF TakePackage
    <2>2. /\ source.files[p] \subseteq File
          /\ \A q \in DOMAIN source.files : q # p => source.files[p] \cap source.files[q] = {}
      BY <1>3, SourcesAssumption DEF SearchInv, Fit, WellPacked
    <2>3. Fit' /\ ExplorerTypeOK'
      BY <1>3, <2>1, <2>2 DEF SearchInv, Fit, ExplorerTypeOK
    <2>4. Walk'
      BY <1>1, <2>1 DEF SearchInv, Walk, Reachable, Imports, FileImports
    <2>5. FilesOf(started)' = FilesOf(started) \cup source.files[p]
      BY <1>3, <2>1 DEF FilesOf
    <2>6. source.files[p] \cap FilesOf(started) = {}
      BY <1>1, <2>2 DEF FilesOf
    <2>7. Files \subseteq FilesOf(started)
      BY DEF SearchInv, FilesInHand, ParsedWhole, Files
    <2>8. LexedFile = {} /\ LexedFile' = {} /\ Files' = Files
      BY <1>1, <2>1 DEF LexedFile, Files
    <2>9. FilesInHand'
      BY <1>1, <2>1, <2>2, <2>5, <2>6, <2>7, <2>8 DEF SearchInv, FilesInHand
    <2>10. started' \cup unexplored' = started \cup unexplored
      BY <1>1, <2>1
    <2>11. ParsedWhole'
      BY <2>1, <2>10 DEF SearchInv, ParsedWhole, HandledAll, FileImports, LateImport
    <2>12. Ends'
      BY <1>1, <2>1 DEF Ends
    <2>13. QED  BY <1>1, <2>1, <2>3, <2>4, <2>9, <2>11, <2>12 DEF SearchInv
  <1>4. QED  BY <1>2, <1>3

\* A file that waited is at hand, and nothing of it was read.
LEMMA OpenFileKeeps ==
  ASSUME SearchInv, NEW f \in File, OpenFile(f)
  PROVE  SearchInv'
  <1>1. /\ lexing = NoFile /\ f \in pending /\ exploration = "exploring"
        /\ pending' = pending \ {f}
        /\ lexing' = [file |-> f, left |-> source.denizens[f], found |-> <<>>, open |-> TRUE,
                      handled |-> <<>>]
        /\ UNCHANGED <<source, roots, unexplored, started, parsed, exploration>>
    BY DEF OpenFile, Exploring
  <1>2. f \in FilesOf(started) /\ f \in DOMAIN source.denizens
    BY <1>1, FilesAreFit DEF SearchInv, FilesInHand, FilesOf
  <1>3. source.denizens[f] \in Seq(ToSet(source.denizens[f]))
    BY <1>2, SourcesAssumption DEF SearchInv, Fit, WellPacked
  <1>4. lexing' # NoFile /\ lexing'.file = f
    BY <1>1 DEF NoFile
  <1>5. AtHand(source, lexing)'
    <2>1. /\ lexing'.file = f /\ lexing'.left = source.denizens[f] /\ lexing'.found = <<>>
          /\ lexing'.open = TRUE /\ lexing'.handled = <<>>
          /\ Len(lexing'.handled) = 0 /\ ToSet(lexing'.found) = {}
      BY <1>1 DEF ToSet
    <2>2. IsASeq(lexing'.left) /\ IsASeq(lexing'.handled) /\ IsASeq(lexing'.found)
      BY <1>3, <2>1 DEF IsASeq
    <2>3. /\ 0 + Len(lexing'.left) = Len(source.denizens[f])
          /\ \A j \in 1..Len(lexing'.left) : lexing'.left[j] = source.denizens[f][0 + j]
          /\ 1..0 = {}
      BY <1>3, <2>1
    <2>4. QED  BY <1>1, <1>2, <2>1, <2>2, <2>3 DEF AtHand, ReadUpTo, ImportsFirst
  <1>6. Fit' /\ ExplorerTypeOK'
    BY <1>1, <1>4 DEF SearchInv, Fit, ExplorerTypeOK
  <1>7. Walk'
    BY <1>1 DEF SearchInv, Walk, Reachable, Imports, FileImports
  <1>8. FilesInHand'
    <2>1. LexedFile = {} /\ LexedFile' = {f} /\ Files' = Files /\ FilesOf(started)' = FilesOf(started)
      BY <1>1, <1>4 DEF LexedFile, Files, FilesOf
    <2>2. QED  BY <1>1, <2>1 DEF SearchInv, FilesInHand
  <1>9. ParsedWhole'
    BY <1>1 DEF SearchInv, ParsedWhole, HandledAll, FileImports, LateImport
  <1>10. Ends'
    BY <1>1 DEF Ends
  <1>11. QED  BY <1>5, <1>6, <1>7, <1>8, <1>9, <1>10 DEF SearchInv

\* Reading one more of k.
LEMMA OneMore ==
  ASSUME NEW n \in Nat, NEW m \in Nat, NEW k \in Nat, n + m = k, m > 0
  PROVE  1 \in 1..m /\ n + 1 \in 1..k /\ n + 1 + (m - 1) = k
  OBVIOUS

\* The file at hand is reachable, and the next of its denizens is the one that
\* what was handled leads up to.
LEMMA FileAtHand ==
  ASSUME SearchInv, lexing # NoFile
  PROVE  LET ds == source.denizens[lexing.file]
             n == Len(lexing.handled)
         IN /\ AtHand(source, lexing)
            /\ lexing.file \in FilesOf(started)
            /\ lexing.file \in FilesOf(Reachable)
            /\ lexing.file \notin Files
            /\ n \in Nat /\ Len(lexing.left) \in Nat
            /\ DOMAIN lexing.handled = 1..n /\ DOMAIN ds = 1..Len(ds)
            /\ lexing.left # <<>> =>
                 /\ n + 1 \in DOMAIN ds /\ Head(lexing.left) = ds[n + 1]
                 /\ Head(lexing.left) \in ToSet(ds)
            /\ lexing.left = <<>> => n = Len(ds)
  <1> DEFINE ds == source.denizens[lexing.file]
             n == Len(lexing.handled)
  <1>1. AtHand(source, lexing) /\ lexing.file \in LexedFile
    BY DEF SearchInv, LexedFile
  <1>2. lexing.file \in File /\ lexing.file \in DOMAIN source.denizens
    BY <1>1 DEF AtHand
  <1>3. lexing.file \in FilesOf(started) /\ lexing.file \notin Files
    BY <1>1, <1>2 DEF SearchInv, FilesInHand
  <1>4. lexing.file \in FilesOf(Reachable)
    BY <1>3 DEF SearchInv, Walk, FilesOf
  <1>5. ds \in Seq(ToSet(ds))
    BY <1>2, SourcesAssumption DEF SearchInv, Fit, WellPacked
  <1>6. IsASeq(lexing.left) /\ IsASeq(lexing.handled) /\ n + Len(lexing.left) = Len(ds)
        /\ \A j \in 1..Len(lexing.left) : lexing.left[j] = ds[n + j]
    BY <1>1 DEF AtHand, ReadUpTo
  <1> HIDE DEF ds
  <1>7. Len(ds) \in Nat /\ DOMAIN ds = 1..Len(ds)
    BY <1>5
  <1>8. /\ n \in Nat /\ DOMAIN lexing.handled = 1..n
        /\ Len(lexing.left) \in Nat /\ (lexing.left = <<>> => Len(lexing.left) = 0)
    BY <1>6, AppendedSeq
  <1>9. ASSUME lexing.left # <<>>
        PROVE  /\ n + 1 \in DOMAIN ds /\ Head(lexing.left) = ds[n + 1]
               /\ Head(lexing.left) \in ToSet(ds)
    <2>1. Len(lexing.left) > 0 /\ Head(lexing.left) = lexing.left[1]
      BY <1>6, <1>9, TailSeq
    <2> HIDE DEF n
    <2>2. 1 \in 1..Len(lexing.left) /\ n + 1 \in 1..Len(ds)
      <3> DEFINE m == Len(lexing.left)
                 k == Len(ds)
      <3>1. n \in Nat /\ m \in Nat /\ k \in Nat /\ n + m = k /\ m > 0
        BY <1>6, <1>7, <1>8, <2>1
      <3> HIDE DEF m, k
      <3>2. 1 \in 1..m /\ n + 1 \in 1..k
        BY <3>1, OneMore
      <3>3. QED  BY <3>2 DEF m, k
    <2>3. n + 1 \in DOMAIN ds /\ Head(lexing.left) = ds[n + 1]
      BY <1>6, <1>7, <2>1, <2>2
    <2>4. QED  BY <2>3 DEF ToSet, n
  <1>10. lexing.left = <<>> => n = Len(ds)
    BY <1>6, <1>7, <1>8
  <1>11. QED  BY <1>1, <1>3, <1>4, <1>7, <1>8, <1>9, <1>10 DEF ds

\* Handling a denizen moves the line between what was handled and what is left.
LEMMA HandledDenizen ==
  ASSUME SearchInv, lexing # NoFile, lexing.left # <<>>,
         NEW d, d = Head(lexing.left), NEW imports, NEW tree, Handle(d, imports, tree),
         IsImport(d) => lexing.open,
         ~ IsImport(d) => imports = ToSet(lexing.found),
         d.kind = "function" => d.reading.is = "good" /\ tree = d.reading.got
  PROVE  AtHand(source, lexing') /\ lexing' # NoFile /\ lexing'.file = lexing.file
  <1> DEFINE ds == source.denizens[lexing.file]
             n == Len(lexing.handled)
             r == [denizen |-> d, imports |-> imports, tree |-> tree]
             found == IF IsImport(d) THEN Append(lexing.found, d) ELSE lexing.found
             handled == Append(lexing.handled, r)
             left == Tail(lexing.left)
  <1>1. AtHand(source, lexing)
    BY FileAtHand
  <1>2. lexing' = [file |-> lexing.file, left |-> left, found |-> found, open |-> IsImport(d),
                   handled |-> handled]
    <2>1. lexing = [file |-> lexing.file, left |-> lexing.left, found |-> lexing.found,
                    open |-> lexing.open, handled |-> lexing.handled]
      BY <1>1 DEF AtHand
    <2>2. QED  BY <2>1 DEF Handle
  <1>3. /\ n \in Nat /\ n + 1 \in 1..Len(ds) /\ d = ds[n + 1] /\ Len(lexing.left) \in Nat
    BY FileAtHand
  <1>4. IsASeq(lexing.left) /\ IsASeq(lexing.handled) /\ IsASeq(lexing.found)
        /\ n + Len(lexing.left) = Len(ds)
        /\ \A j \in 1..Len(lexing.left) : lexing.left[j] = ds[n + j]
    BY <1>1 DEF AtHand, ReadUpTo
  <1>5. /\ IsASeq(left) /\ Len(left) = Len(lexing.left) - 1
        /\ \A i \in 1..Len(lexing.left) - 1 : left[i] = lexing.left[i + 1]
    BY <1>4, TailSeq
  <1>6. /\ IsASeq(handled) /\ Len(handled) = n + 1
        /\ \A i \in 1..n : handled[i] = lexing.handled[i]
        /\ handled[n + 1] = r
    BY <1>4, AppendedSeq
  <1>7. IsASeq(found) /\ ToSet(found) = ToSet(lexing.found) \cup IF IsImport(d) THEN {d} ELSE {}
    BY <1>4, AppendedSeq
  <1>8. \A j \in 1..n + 1 : j \in 1..n \/ j = n + 1
    BY <1>3
  <1>9. 1..n \subseteq 1..n + 1 /\ n + 1 \in 1..n + 1 /\ \A j \in 1..n : j < n + 1
    BY <1>3
  <1> HIDE DEF ds, n, left, found, handled
  <1>10. n + 1 + Len(left) = Len(ds) /\ \A j \in 1..Len(left) : left[j] = ds[n + 1 + j]
    <2>1. n + 1 + Len(left) = Len(ds)
      <3> DEFINE m == Len(lexing.left)
                 k == Len(ds)
      <3>1. n \in Nat /\ m \in Nat /\ n + m = k /\ Len(left) = m - 1
        BY <1>3, <1>4, <1>5
      <3> HIDE DEF m, k
      <3>2. n + 1 + (m - 1) = k
        BY <3>1
      <3>3. QED  BY <3>1, <3>2 DEF m, k
    <2>2. ASSUME NEW j \in 1..Len(left) PROVE left[j] = ds[n + 1 + j]
      <3>1. j \in 1..Len(lexing.left) - 1 /\ j + 1 \in 1..Len(lexing.left)
        BY <1>3, <1>5, <2>2
      <3>2. left[j] = ds[n + (j + 1)]
        BY <1>4, <1>5, <3>1
      <3>3. n + (j + 1) = n + 1 + j
        BY <1>3, <3>1
      <3>4. QED  BY <3>2, <3>3
    <2>3. QED  BY <2>1, <2>2
  <1>11. /\ ToSet(lexing.found) = { ds[j] : j \in { j \in 1..n : IsImport(ds[j]) } }
         /\ \A j \in 1..n :
              /\ lexing.handled[j].denizen = ds[j]
              /\ ~ IsImport(ds[j]) => lexing.handled[j].imports = ToSet(lexing.found)
              /\ ds[j].kind = "function" =>
                   ds[j].reading.is = "good" /\ lexing.handled[j].tree = ds[j].reading.got
         /\ ImportsFirst(ds, n)
         /\ lexing.open => \A j \in 1..n : IsImport(ds[j])
         /\ ~ lexing.open => \E j \in 1..n : ~ IsImport(ds[j])
    BY <1>1 DEF AtHand, ReadUpTo, ds, n
  <1>12. ToSet(found) = { ds[j] : j \in { j \in 1..n + 1 : IsImport(ds[j]) } }
    <2>1. CASE IsImport(d)
      BY <1>3, <1>7, <1>8, <1>9, <1>11, <2>1
    <2>2. CASE ~ IsImport(d)
      BY <1>3, <1>7, <1>8, <1>9, <1>11, <2>2
    <2>3. QED  BY <2>1, <2>2
  <1>13. ASSUME NEW j \in 1..n + 1
         PROVE  /\ handled[j].denizen = ds[j]
                /\ ~ IsImport(ds[j]) => handled[j].imports = ToSet(found)
                /\ ds[j].kind = "function" =>
                     ds[j].reading.is = "good" /\ handled[j].tree = ds[j].reading.got
    <2>1. CASE j \in 1..n
      <3>1. handled[j] = lexing.handled[j]
        BY <1>6, <2>1
      <3>2. ~ IsImport(ds[j]) => ToSet(found) = ToSet(lexing.found)
        BY <1>7, <1>11, <2>1
      <3>3. QED  BY <1>11, <2>1, <3>1, <3>2
    <2>2. CASE j = n + 1
      <3>1. ~ IsImport(d) => imports = ToSet(found)
        BY <1>7
      <3>2. handled[j].denizen = d /\ handled[j].imports = imports /\ handled[j].tree = tree
        BY <1>6, <2>2
      <3>3. QED  BY <1>3, <2>2, <3>1, <3>2
    <2>3. QED  BY <1>8, <2>1, <2>2
  <1>14. ImportsFirst(ds, n + 1)
    <2>1. ASSUME NEW i \in 1..n + 1, NEW j \in 1..n + 1, i < j, IsImport(ds[j])
          PROVE  IsImport(ds[i])
      <3>1. i \in 1..n
        BY <1>3, <2>1
      <3>2. CASE j = n + 1
        BY <1>3, <1>11, <2>1, <3>1, <3>2
      <3>3. CASE j \in 1..n
        BY <1>11, <2>1, <3>1, <3>3 DEF ImportsFirst
      <3>4. QED  BY <1>8, <3>2, <3>3
    <2>2. QED  BY <2>1 DEF ImportsFirst
  <1>15. /\ IsImport(d) => \A j \in 1..n + 1 : IsImport(ds[j])
         /\ ~ IsImport(d) => \E j \in 1..n + 1 : ~ IsImport(ds[j])
    BY <1>3, <1>8, <1>9, <1>11
  <1>16. handled # <<>>
    <2>1. Len(<<>>) = 0 /\ Len(handled) # 0
      BY <1>3, <1>6
    <2>2. QED  BY <2>1
  <1>17. lexing.file \in File /\ lexing.file \in DOMAIN source.denizens
    BY <1>1 DEF AtHand
  <1>18. /\ lexing'.file = lexing.file /\ lexing'.left = left /\ lexing'.found = found
         /\ lexing'.open = IsImport(d) /\ lexing'.handled = handled
    BY <1>2
  <1>19. AtHand(source, lexing')
    <2>1. ReadUpTo(ds, n + 1, left, found, IsImport(d), handled)
      BY <1>5, <1>6, <1>7, <1>10, <1>12, <1>13, <1>14, <1>15, <1>16 DEF ReadUpTo
    <2>2. Len(handled) = n + 1
      BY <1>6
    <2>3. ReadUpTo(source.denizens[lexing'.file], Len(lexing'.handled), lexing'.left,
                   lexing'.found, lexing'.open, lexing'.handled)
      BY <1>18, <2>1, <2>2 DEF ds
    <2>4. QED  BY <1>2, <1>17, <1>18, <2>3 DEF AtHand
  <1>20. lexing' # NoFile
    BY <1>16, <1>18 DEF NoFile
  <1>21. QED  BY <1>18, <1>19, <1>20

\* What was handled stays so as long as nothing is forgotten.
LEMMA ParsedStays ==
  ASSUME ParsedWhole, UNCHANGED <<source, parsed>>,
         started \cup unexplored \subseteq (started \cup unexplored)'
  PROVE  ParsedWhole'
  BY DEF ParsedWhole, HandledAll, FileImports, LateImport

\* A step within the file at hand.
LEMMA ReadingOnKeeps ==
  ASSUME SearchInv, exploration = "exploring", lexing # NoFile,
         AtHand(source, lexing'), lexing' # NoFile, lexing'.file = lexing.file,
         UNCHANGED <<source, roots, unexplored, started, pending, parsed, exploration>>
  PROVE  SearchInv'
  <1>1. Fit' /\ ExplorerTypeOK'
    BY DEF SearchInv, Fit, ExplorerTypeOK
  <1>2. LexedFile' = LexedFile
    BY DEF LexedFile
  <1>3. FilesInHand' /\ Walk'
    BY <1>2 DEF SearchInv, FilesInHand, Walk, FilesOf, Files, Reachable, Imports, FileImports
  <1>4. ParsedWhole'
    BY ParsedStays DEF SearchInv
  <1>5. Ends'
    BY DEF Ends
  <1>6. AtHand(source', lexing')
    OBVIOUS
  <1>7. QED  BY <1>1, <1>3, <1>4, <1>5, <1>6 DEF SearchInv

\* A stop for something that the file at hand has in it.
LEMMA StoppingForFile ==
  ASSUME SearchInv, lexing # NoFile, NEW how \in {"failed", "panicked"}, Stop(how),
         how = "failed" => "unlexable" \in Reads(lexing.file),
         how = "panicked" =>
           LateImport(lexing.file) \/ Reads(lexing.file) \cap {"none", "bad", "panicked"} # {}
  PROVE  SearchInv'
  <1>1. lexing.file \in FilesOf(Reachable)
    BY FileAtHand
  <1>2. exploration' = how /\ UNCHANGED <<source, roots, lexing>>
    BY DEF Stop
  <1>3. /\ FilesOf(Reachable)' = FilesOf(Reachable)
        /\ LateImport(lexing.file)' = LateImport(lexing.file)
        /\ Reads(lexing.file)' = Reads(lexing.file)
    BY <1>2 DEF FilesOf, Reachable, Imports, FileImports, LateImport, Reads
  <1>4. Ends'
    BY <1>1, <1>2, <1>3 DEF Ends, LateImport, Reads
  <1>5. QED  BY <1>4, StoppingKeeps

\* Where there is no file at hand there is no denizen.
LEMMA NoFileLeavesNothing == NoFile.left = <<>>
  BY DEF NoFile

\* An import after another denizen is the one thing wrong with an import.
LEMMA LexImportKeeps ==
  ASSUME SearchInv, LexImport
  PROVE  SearchInv'
  <1> DEFINE d == Head(lexing.left)
             ds == source.denizens[lexing.file]
             n == Len(lexing.handled)
  <1>1. exploration = "exploring" /\ lexing # NoFile /\ lexing.left # <<>> /\ IsImport(d)
    BY NoFileLeavesNothing DEF LexImport, AtDenizen, Exploring, IsImport
  <1>2. CASE lexing.open
    <2>1. /\ Handle(d, {}, <<>>)
          /\ UNCHANGED <<source, roots, unexplored, started, pending, parsed, exploration>>
      BY <1>2 DEF LexImport
    <2>2. d.kind # "function"
      BY <1>1 DEF IsImport
    <2>3. AtHand(source, lexing') /\ lexing' # NoFile /\ lexing'.file = lexing.file
      BY <1>1, <1>2, <2>1, <2>2, HandledDenizen
    <2>4. QED  BY <1>1, <2>1, <2>3, ReadingOnKeeps
  <1>3. CASE ~ lexing.open
    <2>1. Stop("panicked")
      BY <1>3 DEF LexImport
    <2>2. \E j \in 1..n : ~ IsImport(ds[j])
      BY <1>1, <1>3, FileAtHand DEF AtHand, ReadUpTo
    <2>3. n \in Nat /\ DOMAIN ds = 1..Len(ds) /\ n + 1 \in DOMAIN ds /\ d = ds[n + 1]
      BY <1>1, FileAtHand
    <2>4. PICK j \in 1..n : ~ IsImport(ds[j])
      BY <2>2
    <2> HIDE DEF ds, n, d
    <2>5. j \in DOMAIN ds /\ j < n + 1 /\ IsImport(ds[n + 1])
      BY <1>1, <2>3
    <2>6. LateImport(lexing.file)
      BY <2>3, <2>4, <2>5 DEF LateImport, ds
    <2>7. QED  BY <1>1, <2>1, <2>6, StoppingForFile
  <1>4. QED  BY <1>2, <1>3

LEMMA LexOtherKeeps ==
  ASSUME SearchInv, LexOther
  PROVE  SearchInv'
  <1> DEFINE d == Head(lexing.left)
  <1>1. /\ exploration = "exploring" /\ lexing # NoFile /\ lexing.left # <<>>
        /\ ~ IsImport(d) /\ d.kind # "function"
        /\ Handle(d, ToSet(lexing.found), <<>>)
        /\ UNCHANGED <<source, roots, unexplored, started, pending, parsed, exploration>>
    BY NoFileLeavesNothing DEF LexOther, AtDenizen, Exploring, IsImport
  <1>2. AtHand(source, lexing') /\ lexing' # NoFile /\ lexing'.file = lexing.file
    BY <1>1, HandledDenizen
  <1>3. QED  BY <1>1, <1>2, ReadingOnKeeps

LEMMA HandleFunctionKeeps ==
  ASSUME SearchInv, HandleFunction
  PROVE  SearchInv'
  <1> DEFINE d == Head(lexing.left)
  <1>1. /\ exploration = "exploring" /\ lexing # NoFile /\ lexing.left # <<>>
        /\ ~ IsImport(d) /\ d.kind = "function"
    BY NoFileLeavesNothing DEF HandleFunction, AtDenizen, Exploring, IsImport
  <1>2. d.reading.is \in Reads(lexing.file)
    BY <1>1, FileAtHand DEF Reads
  <1>3. CASE d.reading.is = "unlexable"
    <2>1. Stop("failed")
      BY <1>3 DEF HandleFunction
    <2>2. QED  BY <1>1, <1>2, <1>3, <2>1, StoppingForFile
  <1>4. CASE d.reading.is \in {"none", "bad", "panicked"}
    <2>1. Stop("panicked")
      BY <1>4 DEF HandleFunction
    <2>2. Reads(lexing.file) \cap {"none", "bad", "panicked"} # {}
      BY <1>2, <1>4
    <2>3. QED  BY <1>1, <2>1, <2>2, StoppingForFile
  <1>5. CASE d.reading.is = "good"
    <2>1. /\ Handle(d, ToSet(lexing.found), d.reading.got)
          /\ UNCHANGED <<source, roots, unexplored, started, pending, parsed, exploration>>
      BY <1>5 DEF HandleFunction
    <2>2. AtHand(source, lexing') /\ lexing' # NoFile /\ lexing'.file = lexing.file
      BY <1>1, <1>5, <2>1, HandledDenizen
    <2>3. QED  BY <1>1, <2>1, <2>2, ReadingOnKeeps
  <1>6. d.reading.is \in {"good", "unlexable", "none", "bad", "panicked"}
    <2>1. WellPacked(source) /\ lexing.file \in DOMAIN source.denizens
      BY <1>1, FileAtHand, SourcesAssumption DEF AtHand, SearchInv, Fit
    <2>2. d \in ToSet(source.denizens[lexing.file])
      BY <1>1, FileAtHand
    <2>3. QED  BY <1>1, <2>1, <2>2 DEF WellPacked
  <1>7. QED  BY <1>3, <1>4, <1>5, <1>6

\* A file that was read to its end was handled whole.
LEMMA FileRead ==
  ASSUME SearchInv, lexing # NoFile, lexing.left = <<>>
  PROVE  /\ HandledAll(lexing.file, lexing.handled)
         /\ ~ LateImport(lexing.file)
         /\ ToExplore = FileImports(lexing.file)
  <1> DEFINE ds == source.denizens[lexing.file]
             n == Len(lexing.handled)
             handled == lexing.handled
  <1>1. /\ n \in Nat /\ DOMAIN handled = 1..n /\ DOMAIN ds = 1..n
    BY FileAtHand
  <1>2. /\ ToSet(lexing.found) = { ds[j] : j \in { j \in 1..n : IsImport(ds[j]) } }
        /\ \A j \in 1..n :
             /\ handled[j].denizen = ds[j]
             /\ ~ IsImport(ds[j]) => handled[j].imports = ToSet(lexing.found)
             /\ ds[j].kind = "function" =>
                  ds[j].reading.is = "good" /\ handled[j].tree = ds[j].reading.got
        /\ ImportsFirst(ds, n)
    BY FileAtHand DEF AtHand, ReadUpTo
  <1> HIDE DEF ds, n, handled
  <1>3. ToSet(lexing.found) = { e \in ToSet(ds) : IsImport(e) }
    <2>1. ToSet(ds) = { ds[j] : j \in 1..n }
      BY <1>1 DEF ToSet
    <2>2. QED  BY <1>2, <2>1
  <1>4. HandledAll(lexing.file, handled)
    BY <1>1, <1>2, <1>3 DEF HandledAll, ds
  <1>5. ~ LateImport(lexing.file)
    BY <1>1, <1>2 DEF LateImport, ImportsFirst, ds
  <1>6. { d \in ToSet(lexing.found) : d.kind = "import" } = { d \in ToSet(ds) : d.kind = "import" }
    BY <1>3 DEF IsImport
  <1>7. ToExplore = FileImports(lexing.file)
    BY <1>6 DEF ToExplore, FileImports, ds
  <1>8. QED  BY <1>4, <1>5, <1>7 DEF handled

\* A file that is closed was not handled before, and what it imports waits.
LEMMA CloseFileKeeps ==
  ASSUME SearchInv, CloseFile
  PROVE  SearchInv'
  <1> DEFINE f == lexing.file
             r == [file |-> f, handled |-> lexing.handled]
  <1>1. exploration = "exploring" /\ lexing # NoFile /\ lexing.left = <<>>
    BY DEF CloseFile, Exploring
  <1>2. f \in FilesOf(started) /\ f \notin Files /\ f \in File
    BY <1>1, FileAtHand DEF AtHand
  <1>3. /\ unexplored' = unexplored \cup (ToExplore \ started)
        /\ parsed' = Append(parsed, r)
        /\ lexing' = NoFile
        /\ UNCHANGED <<source, roots, started, pending, exploration>>
    BY <1>2 DEF CloseFile, Files
  <1>4. /\ HandledAll(f, lexing.handled) /\ ~ LateImport(f) /\ ToExplore = FileImports(f)
    BY <1>1, FileRead
  <1>5. /\ IsASeq(parsed') /\ Len(parsed) \in Nat
        /\ DOMAIN parsed = 1..Len(parsed) /\ DOMAIN parsed' = 1..Len(parsed) + 1
        /\ \A i \in 1..Len(parsed) : parsed'[i] = parsed[i]
        /\ parsed'[Len(parsed) + 1] = r
    BY <1>3, AppendedSeq DEF SearchInv, ParsedWhole
  <1>6. ToExplore \subseteq Reachable
    <2>1. PICK q \in started \cap DOMAIN source.files : f \in source.files[q]
      BY <1>2 DEF FilesOf
    <2>2. q \in Reachable
      BY <2>1 DEF SearchInv, Walk
    <2>3. QED  BY <1>4, <2>1, <2>2, ReachableIsClosed DEF SearchInv
  <1>7. Walk'
    <2>1. Reachable' = Reachable
      BY <1>3 DEF Reachable, Imports, FileImports
    <2>2. QED  BY <1>3, <1>6, <2>1 DEF SearchInv, Walk
  <1>8. Fit' /\ ExplorerTypeOK'
    <2>1. ToExplore \subseteq Package
      BY <1>6, ReachableIsClosed DEF SearchInv
    <2>2. QED  BY <1>3, <2>1 DEF SearchInv, Fit, ExplorerTypeOK
  <1>9. \A i \in 1..Len(parsed) + 1 : i \in 1..Len(parsed) \/ i = Len(parsed) + 1
    BY <1>5
  <1>10. /\ \A i \in 1..Len(parsed) : i \in DOMAIN parsed /\ i \in DOMAIN parsed'
         /\ Len(parsed) + 1 \in DOMAIN parsed'
    BY <1>5
  <1>11. r.file = f /\ r.handled = lexing.handled
    OBVIOUS
  <1> HIDE DEF f, r
  <1>12. FilesInHand'
    <2>1. LexedFile = {f} /\ LexedFile' = {}
      BY <1>1, <1>3 DEF LexedFile, f
    <2>2. Files' = Files \cup {f}
      BY <1>5, <1>9, <1>10, <1>11 DEF Files
    <2>3. FilesOf(started)' = FilesOf(started)
      BY <1>3 DEF FilesOf
    <2>4. ASSUME NEW i \in DOMAIN parsed', NEW j \in DOMAIN parsed', parsed'[i].file = parsed'[j].file
          PROVE  i = j
      <3>1. CASE i = Len(parsed) + 1 /\ j # Len(parsed) + 1
        BY <1>2, <1>5, <1>9, <1>10, <1>11, <2>4, <3>1 DEF Files
      <3>2. CASE i # Len(parsed) + 1 /\ j = Len(parsed) + 1
        BY <1>2, <1>5, <1>9, <1>10, <1>11, <2>4, <3>2 DEF Files
      <3>3. CASE i # Len(parsed) + 1 /\ j # Len(parsed) + 1
        BY <1>5, <1>9, <1>10, <2>4, <3>3 DEF SearchInv, FilesInHand
      <3>4. QED  BY <3>1, <3>2, <3>3
    <2>5. /\ \A g \in File : g \in FilesOf(started) <=> g \in pending \/ g \in LexedFile \/ g \in Files
          /\ pending \cap LexedFile = {} /\ pending \cap Files = {} /\ LexedFile \cap Files = {}
      BY DEF SearchInv, FilesInHand
    <2>6. /\ \A g \in File : g \in FilesOf(started)' <=> g \in pending' \/ g \in LexedFile' \/ g \in Files'
          /\ pending' \cap LexedFile' = {} /\ pending' \cap Files' = {} /\ LexedFile' \cap Files' = {}
      BY <1>3, <2>1, <2>2, <2>3, <2>5
    <2>7. QED  BY <2>4, <2>6 DEF FilesInHand
  <1>13. ParsedWhole'
    <2>1. started \cup unexplored \subseteq started' \cup unexplored'
      BY <1>3
    <2>2. FileImports(f) \subseteq started' \cup unexplored'
      BY <1>3, <1>4
    <2>3. ASSUME NEW i \in DOMAIN parsed'
          PROVE  /\ parsed'[i].file \in File
                 /\ HandledAll(parsed'[i].file, parsed'[i].handled)
                 /\ FileImports(parsed'[i].file) \subseteq started' \cup unexplored'
                 /\ ~ LateImport(parsed'[i].file)
      <3>1. CASE i \in DOMAIN parsed
        BY <1>5, <2>1, <3>1 DEF SearchInv, ParsedWhole
      <3>2. CASE i = Len(parsed) + 1
        BY <1>2, <1>4, <1>5, <1>11, <2>2, <3>2 DEF f
      <3>3. QED  BY <1>5, <1>9, <3>1, <3>2
    <2>4. ASSUME NEW i \in DOMAIN parsed'
          PROVE  /\ HandledAll(parsed[i].file, parsed[i].handled)'
                 /\ FileImports(parsed[i].file)' = FileImports(parsed'[i].file)
                 /\ ~ LateImport(parsed[i].file)'
      <3>1. /\ source' = source
            /\ HandledAll(parsed'[i].file, parsed'[i].handled)
            /\ ~ LateImport(parsed'[i].file)
        BY <1>3, <2>3
      <3>2. HandledAll(parsed[i].file, parsed[i].handled)'
        BY <3>1 DEF HandledAll
      <3>3. FileImports(parsed[i].file)' = FileImports(parsed'[i].file)
        BY <3>1 DEF FileImports
      <3>4. ~ LateImport(parsed[i].file)'
        BY <3>1 DEF LateImport
      <3>5. QED  BY <3>2, <3>3, <3>4
    <2>5. QED  BY <1>5, <2>3, <2>4 DEF ParsedWhole
  <1>14. Ends'
    BY <1>1, <1>3 DEF Ends
  <1>15. QED  BY <1>3, <1>7, <1>8, <1>12, <1>13, <1>14 DEF SearchInv

\* The end of the search.
LEMMA ExploredKeeps ==
  ASSUME SearchInv, Explored
  PROVE  SearchInv'
  <1>1. unexplored = {} /\ pending = {} /\ lexing = NoFile /\ Stop("explored")
    BY DEF Explored
  <1>2. Ends'
    BY <1>1 DEF Ends, Stop
  <1>3. QED  BY <1>1, <1>2, StoppingKeeps

\* The invariant is inductive.
LEMMA NextSearches == SearchInv /\ [ExplorerNext]_exploring => SearchInv'
  <1> SUFFICES ASSUME SearchInv, [ExplorerNext]_exploring PROVE SearchInv'
    OBVIOUS
  <1>1. ASSUME NEW p \in Package, TakePackage(p) PROVE SearchInv'
    BY <1>1, TakePackageKeeps
  <1>2. ASSUME NEW f \in File, OpenFile(f) PROVE SearchInv'
    BY <1>2, OpenFileKeeps
  <1>3. CASE LexImport \/ LexOther \/ HandleFunction \/ CloseFile \/ Explored
    BY <1>3, LexImportKeeps, LexOtherKeeps, HandleFunctionKeeps, CloseFileKeeps, ExploredKeeps
  <1>4. CASE UNCHANGED exploring
    <2>1. UNCHANGED <<source, roots, unexplored, started, pending, lexing, parsed, exploration>>
      BY <1>4 DEF exploring
    <2>2. Fit' /\ ExplorerTypeOK' /\ (lexing' # NoFile => AtHand(source', lexing'))
      BY <2>1 DEF SearchInv, Fit, ExplorerTypeOK
    <2>3. FilesInHand'
      BY <2>1 DEF SearchInv, FilesInHand, FilesOf, Files, LexedFile
    <2>4. Walk'
      BY <2>1 DEF SearchInv, Walk, Reachable, Imports, FileImports
    <2>5. ParsedWhole'
      BY <2>1, ParsedStays DEF SearchInv
    <2>6. Ends'
      <3>1. FilesOf(Reachable)' = FilesOf(Reachable)
        BY <2>1 DEF FilesOf, Reachable, Imports, FileImports
      <3>2. \A f : (LateImport(f)' <=> LateImport(f)) /\ Reads(f)' = Reads(f)
        BY <2>1 DEF LateImport, Reads
      <3>3. Reachable' = Reachable
        BY <2>1 DEF Reachable, Imports, FileImports
      <3>4. QED  BY <2>1, <3>1, <3>2, <3>3 DEF SearchInv, Ends
    <2>7. QED  BY <2>2, <2>3, <2>4, <2>5, <2>6 DEF SearchInv
  <1>5. QED  BY <1>1, <1>2, <1>3, <1>4 DEF ExplorerNext

\* What a search that came to its end has started is closed, and so all there
\* is to reach.
LEMMA SearchIsExact ==
  ASSUME SearchInv
  PROVE  ExplorationIsExact
  <1>1. ASSUME exploration = "explored"
        PROVE  /\ started = Reachable /\ Reachable \subseteq DOMAIN source.files
               /\ Files = FilesOf(Reachable)
               /\ \A i, j \in DOMAIN parsed : parsed[i].file = parsed[j].file => i = j
               /\ \A i \in DOMAIN parsed : HandledAll(parsed[i].file, parsed[i].handled)
               /\ \A f \in FilesOf(Reachable) : ~ LateImport(f)
    <2>1. unexplored = {} /\ pending = {} /\ lexing = NoFile /\ LexedFile = {}
      BY <1>1 DEF SearchInv, Ends, LexedFile
    <2>2. /\ started \subseteq Package /\ started \subseteq DOMAIN source.files
          /\ roots \subseteq started /\ started \subseteq Reachable
      BY <2>1 DEF SearchInv, ExplorerTypeOK, Walk
    <2>3. FilesOf(started) \subseteq File
      BY FilesAreFit DEF SearchInv, FilesOf
    <2>4. Files = FilesOf(started)
      BY <2>1, <2>3 DEF SearchInv, FilesInHand, ParsedWhole, Files
    <2>5. \A f \in Files : FileImports(f) \subseteq started /\ ~ LateImport(f)
      BY <2>1 DEF SearchInv, ParsedWhole, Files
    <2>6. \A q \in started \cap DOMAIN source.files : Imports(q) \subseteq started
      BY <2>4, <2>5 DEF Imports, FilesOf
    <2>7. Reachable \subseteq started
      BY <2>2, <2>6 DEF Reachable
    <2>8. started = Reachable
      BY <2>2, <2>7
    <2>9. QED  BY <2>2, <2>4, <2>5, <2>8 DEF SearchInv, FilesInHand, ParsedWhole
  <1>2. QED  BY <1>1 DEF SearchInv, Ends, ExplorationIsExact

-----------------------------------------------------------------------------

\* Whatever order the hash set of packages and the maps of files hand things
\* out in, and however imports go round, exploring ends with exactly the
\* packages that can be reached, every file of theirs handled once, each denizen
\* with all the imports of its file; and it fails only for something reachable.
THEOREM ExploresExactly == ExplorerSpec => []ExplorationIsExact
  <1>1. ExplorerInit => SearchInv
    BY InitSearches
  <1>2. SearchInv => ExplorationIsExact
    BY SearchIsExact
  <1>3. QED  BY <1>1, <1>2, NextSearches, PTL DEF ExplorerSpec

\* The search keeps to its types: only packages that the source knows are
\* started, whatever files import.
THEOREM TypeCorrect == ExplorerSpec => []ExplorerTypeOK
  <1>1. ExplorerInit => SearchInv
    BY InitSearches
  <1>2. SearchInv => ExplorerTypeOK
    BY DEF SearchInv
  <1>3. QED  BY <1>1, <1>2, NextSearches, PTL DEF ExplorerSpec
=============================================================================
