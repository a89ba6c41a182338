------------------------------ MODULE Frontend ------------------------------
(***************************************************************************)
(* Package exploration and the typing pass, one after the other: what the  *)
(* one found, in the order it found it, is what the other compiles.  The   *)
(* order comes out of hash sets and hash maps, so nobody chose it; the     *)
(* typing pass compiles packages and files in that order.                  *)
(***************************************************************************)
EXTENDS TypingPass, PackageExploration, Grammar

\* What a file declares, once it is postparsed.  What else there is to know of
\* a program, a source carries in its field `program`.
CONSTANTS
  Declares,    \* [File -> [package : Package, citizens : Seq(Citizen), functions : Seq(Fn)]]
  RustDeclares \* what importing from Rust declares, in a package of its own

\* The denizens of a file.
Import(p) == [kind |-> "import", package |-> p]
RustImport == [kind |-> "rustImport", package |-> "rust"]
Function(name, text, reading) ==
  [kind |-> "function", package |-> name, text |-> text, reading |-> reading]
Other(name) == [kind |-> "other", package |-> name]

\* Whether the tree is what the text says: its operators bind as their precedence says,
\* reading what is written of it gives it again, and no token of the text is lost in it.
Says(text, tree) ==
  AllBracketed(tree) /\ Read(Write(tree)).got = tree /\ SameSkeleton(text, Write(tree))

\* What the parser makes of a text, and whether that is what the text says.
Reading(text) ==
  LET read == Read(text) IN
  [is |-> read.is, got |-> read.got, says |-> read.is = "good" => Says(text, read.got)]

FunctionsOf(s) ==
  { d \in UNION { ToSet(s.denizens[f]) : f \in DOMAIN s.denizens } : d.kind = "function" }

ASSUME ReadingsAssumption == \A s \in Sources : \A d \in FunctionsOf(s) : d.reading = Reading(d.text)

-----------------------------------------------------------------------------

\* The namespaces of the packages, by their first files.
Namespaces(files) ==
  LET packages == FoldLeft(LAMBDA acc, f : IF Declares[f].package \in ToSet(acc) THEN acc
                                           ELSE Append(acc, Declares[f].package),
                           <<>>, files)
      Joined(p, Field(_)) == FoldLeft(LAMBDA acc, f : IF Declares[f].package = p
                                                  THEN acc \o Field(Declares[f]) ELSE acc,
                                  <<>>, files)
  IN [i \in DOMAIN packages |->
        [citizens  |-> Joined(packages[i], LAMBDA d : d.citizens),
         functions |-> Joined(packages[i], LAMBDA d : d.functions)]]

Handled == [i \in DOMAIN parsed |-> parsed[i].file]

ImportsRust ==
  \E i \in DOMAIN parsed : \E j \in DOMAIN parsed[i].handled :
    parsed[i].handled[j].denizen.kind = "rustImport"

\* The program that postparsing the parsed files makes.
Assembled ==
  [packages |-> Namespaces(Handled) \o IF ImportsRust THEN <<RustDeclares>> ELSE <<>>]
    @@ source.program

Explore == ExplorerNext /\ UNCHANGED vars
Compile == Continue /\ UNCHANGED exploring
HandOver ==
  /\ exploration = "explored" /\ outcome = "waiting"
  /\ \E p \in {Assembled} : Evaluate(p)
  /\ UNCHANGED exploring

FrontendInit == ExplorerInit /\ Init
FrontendNext == Explore \/ HandOver \/ Compile
FrontendSpec ==
  /\ FrontendInit /\ [][FrontendNext]_<<exploring, vars>>
  /\ WF_<<exploring, vars>>(FrontendNext)

-----------------------------------------------------------------------------
(* Correctness.                                                            *)

\* Reading a function is exact.  A tree that is written down, whatever its constructs and
\* however its operators bind, is read back as it was, and a text that is read at all means
\* what can be written: its operators bind as their precedence says, reading what is written
\* of it gives it again, and none of the tokens of its statements is lost on the way.
ReadingIsExact ==
  /\ exploration = "panicked" /\ lexing # NoFile /\ lexing.left # <<>> =>
       "written" \notin DOMAIN Head(lexing.left)
  /\ lexing.handled # <<>> =>
       LET handled == Last(lexing.handled)
           denizen == handled.denizen
       IN denizen.kind = "function" =>
            /\ "written" \in DOMAIN denizen => handled.tree = denizen.written
            /\ handled.tree = denizen.reading.got /\ denizen.reading.says

\* A program is explored and compiled in finitely many steps: imports that go
\* round are followed once, and bodies that call each other are queued once.
Terminates ==
  <>(exploration \in {"failed", "panicked"} \/ outcome \in {"done", "failed", "panicked"})
=============================================================================
