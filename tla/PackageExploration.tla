------------------------- MODULE PackageExploration -------------------------
(***************************************************************************)
(* Import-driven discovery of packages (lexing/lex_and_explore.rs): the    *)
(* packages asked for are lexed, and so is every package they import, in   *)
(* the order a hash set hands them out.  A file's imports come first, so   *)
(* that each of its other denizens can be handled with all of them.        *)
(* Handling a function is parsing it.                                      *)
(***************************************************************************)
EXTENDS Naturals, Sequences, SequencesExt, FiniteSets

CONSTANTS
  Package,
  File,
  Sources    \* what the code source may hold: its packages, files and denizens

\* A source has the files of the packages it knows and the denizens of each
\* file: what the file imports, then its functions, of which it has the text
\* from the name on and what reading that comes to, and other denizens.  It
\* also says which packages may be asked for.

IsImport(d) == d.kind \in {"import", "rustImport"}

\* A file belongs to one package, by its coordinate.
WellPacked(s) ==
  /\ s.asked \subseteq SUBSET Package
  /\ \A p \in DOMAIN s.files : s.files[p] \subseteq File \cap DOMAIN s.denizens
  /\ \A p, q \in DOMAIN s.files : p # q => s.files[p] \cap s.files[q] = {}
  /\ \A f \in DOMAIN s.denizens :
       /\ s.denizens[f] \in Seq(ToSet(s.denizens[f]))
       /\ \A d \in ToSet(s.denizens[f]) :
            /\ d.kind \in {"import", "rustImport", "function", "other"}
            /\ d.kind = "import" => d.package \in Package
            /\ d.kind = "function" =>
                 d.reading.is \in {"good", "unlexable", "none", "bad", "panicked"}

ASSUME SourcesAssumption == \A s \in Sources : WellPacked(s)

VARIABLES
  source,
  roots,         \* the packages asked for
  unexplored,    \* unexplored_packages
  started,       \* started_packages
  pending,       \* the files of the package at hand that are still to be lexed
  lexing,        \* the file being lexed
  parsed,        \* files_acc: the files that were handled, in order
  exploration    \* how it is going

exploring == <<source, roots, unexplored, started, pending, lexing, parsed, exploration>>

NoFile == [file |-> "none", left |-> <<>>, found |-> <<>>, open |-> FALSE, handled |-> <<>>]

ExplorerInit ==
  /\ source \in Sources
  /\ roots \in source.asked
  /\ unexplored = roots
  /\ started = {}
  /\ pending = {}
  /\ lexing = NoFile
  /\ parsed = <<>>
  /\ exploration = "exploring"

Exploring == exploration = "exploring"

Stop(how) ==
  /\ exploration' = how
  /\ UNCHANGED <<source, roots, unexplored, started, pending, lexing, parsed>>

\* Whichever package the set gives first.  One without a source is fatal.
TakePackage(p) ==
  /\ Exploring
  /\ pending = {} /\ lexing = NoFile
  /\ p \in unexplored
  /\ IF p \notin DOMAIN source.files THEN Stop("panicked")
     ELSE /\ unexplored' = unexplored \ {p}
          /\ started' = started \cup {p}
          /\ pending' = source.files[p]
          /\ UNCHANGED <<source, roots, lexing, parsed, exploration>>

\* A file of the package, whichever its map gives first.
OpenFile(f) ==
  /\ Exploring
  /\ lexing = NoFile
  /\ f \in pending
  /\ pending' = pending \ {f}
  /\ lexing' = [file |-> f, left |-> source.denizens[f], found |-> <<>>, open |-> TRUE,
                handled |-> <<>>]
  /\ UNCHANGED <<source, roots, unexplored, started, parsed, exploration>>

AtDenizen(kinds) ==
  /\ Exploring
  /\ lexing.left # <<>>
  /\ Head(lexing.left).kind \in kinds

\* What was found, with the imports it was handled with and, of a function, its tree.
Handle(denizen, imports, tree) ==
  lexing' =
    [lexing EXCEPT
       !.left = Tail(@),
       !.open = IsImport(denizen),
       !.found = IF IsImport(denizen) THEN Append(@, denizen) ELSE @,
       !.handled = Append(@, [denizen |-> denizen, imports |-> imports, tree |-> tree])]

\* Imports are handled with no imports.  One after another denizen is fatal.
LexImport ==
  /\ AtDenizen({"import", "rustImport"})
  /\ IF ~ lexing.open THEN Stop("panicked")
     ELSE /\ Handle(Head(lexing.left), {}, <<>>)
          /\ UNCHANGED <<source, roots, unexplored, started, pending, parsed, exploration>>

\* The first other denizen closes the list of imports.
LexOther ==
  /\ AtDenizen({"other"})
  /\ Handle(Head(lexing.left), ToSet(lexing.found), <<>>)
  /\ UNCHANGED <<source, roots, unexplored, started, pending, parsed, exploration>>

\* What cannot be lexed is reported; what cannot be parsed is fatal (expect_parsed).
HandleFunction ==
  /\ AtDenizen({"function"})
  /\ LET read == Head(lexing.left).reading IN
       CASE read.is = "unlexable" -> Stop("failed")
         [] read.is \in {"none", "bad", "panicked"} -> Stop("panicked")
         [] read.is = "good" ->
              /\ Handle(Head(lexing.left), ToSet(lexing.found), read.got)
              /\ UNCHANGED <<source, roots, unexplored, started, pending, parsed, exploration>>

\* Rust's are not packages on disk.
ToExplore == { d.package : d \in { d \in ToSet(lexing.found) : d.kind = "import" } }

\* Mutant: a package that was started is explored again.
CloseFileRevisiting ==
  /\ Exploring
  /\ lexing # NoFile /\ lexing.left = <<>>
  /\ IF \E i \in DOMAIN parsed : parsed[i].file = lexing.file THEN Stop("panicked")
     ELSE /\ unexplored' = unexplored \cup ToExplore
          /\ parsed' = Append(parsed, [file |-> lexing.file, handled |-> lexing.handled])
          /\ lexing' = NoFile
          /\ UNCHANGED <<source, roots, started, pending, exploration>>

\* The packages a file imports wait their turn, unless it has come already.
\* A file that was put into the map of files before is fatal.
CloseFile ==
  /\ Exploring
  /\ lexing # NoFile /\ lexing.left = <<>>
  /\ IF \E i \in DOMAIN parsed : parsed[i].file = lexing.file THEN Stop("panicked")
     ELSE /\ unexplored' = unexplored \cup (ToExplore \ started)
          /\ parsed' = Append(parsed, [file |-> lexing.file, handled |-> lexing.handled])
          /\ lexing' = NoFile
          /\ UNCHANGED <<source, roots, started, pending, exploration>>

Explored ==
  /\ Exploring
  /\ unexplored = {} /\ pending = {} /\ lexing = NoFile
  /\ Stop("explored")

ExplorerNext ==
  \/ \E p \in Package : TakePackage(p)
  \/ \E f \in File : OpenFile(f)
  \/ LexImport \/ LexOther \/ HandleFunction \/ CloseFile
  \/ Explored

ExplorerSpec == ExplorerInit /\ [][ExplorerNext]_exploring

-----------------------------------------------------------------------------
(* Correctness.                                                            *)

ExplorerTypeOK ==
  /\ source \in Sources /\ roots \in source.asked
  /\ unexplored \subseteq Package
  /\ started \subseteq Package \cap DOMAIN source.files
  /\ pending \subseteq File
  /\ lexing # NoFile => lexing.file \in File
  /\ exploration \in {"exploring", "explored", "failed", "panicked"}

FileImports(f) ==
  { d.package : d \in { d \in ToSet(source.denizens[f]) : d.kind = "import" } }

Imports(p) == UNION { FileImports(f) : f \in source.files[p] }

\* The packages that imports lead to from the roots.
Reachable ==
  { p \in Package :
      \A ps \in SUBSET Package :
        roots \subseteq ps /\ (\A q \in ps \cap DOMAIN source.files : Imports(q) \subseteq ps)
          => p \in ps }

FilesOf(packages) == UNION { source.files[p] : p \in packages \cap DOMAIN source.files }

LateImport(f) ==
  \E i, j \in DOMAIN source.denizens[f] :
    i < j /\ ~ IsImport(source.denizens[f][i]) /\ IsImport(source.denizens[f][j])

Reads(f) ==
  { d.reading.is : d \in { d \in ToSet(source.denizens[f]) : d.kind = "function" } }

Files == { parsed[i].file : i \in DOMAIN parsed }

\* Each denizen was handled, and each but the imports with all the imports of its file.
HandledAll(f, handled) ==
  /\ DOMAIN handled = DOMAIN source.denizens[f]
  /\ \A j \in DOMAIN handled :
       LET d == source.denizens[f][j] IN
         /\ handled[j].denizen = d
         /\ ~ IsImport(d) => handled[j].imports = { e \in ToSet(source.denizens[f]) : IsImport(e) }
         /\ d.kind = "function" => d.reading.is = "good" /\ handled[j].tree = d.reading.got

\* Wherever the walk begins and whatever order it takes, it ends well exactly
\* when all that is reachable can be lexed, having handled every file of every
\* reachable package once, and no other, and having given each denizen all the
\* imports of its file; and it ends badly only for something reachable.
ExplorationIsExact ==
  /\ exploration = "explored" =>
       /\ started = Reachable /\ Reachable \subseteq DOMAIN source.files
       /\ Files = FilesOf(Reachable)
       /\ \A i, j \in DOMAIN parsed : parsed[i].file = parsed[j].file => i = j
       /\ \A i \in DOMAIN parsed : HandledAll(parsed[i].file, parsed[i].handled)
       /\ \A f \in FilesOf(Reachable) : ~ LateImport(f)
  /\ exploration = "failed" => \E f \in FilesOf(Reachable) : "unlexable" \in Reads(f)
  /\ exploration = "panicked" =>
       \/ ~ Reachable \subseteq DOMAIN source.files
       \/ \E f \in FilesOf(Reachable) :
            LateImport(f) \/ Reads(f) \cap {"none", "bad", "panicked"} # {}
=============================================================================
