----------------------------- MODULE MCFrontend -----------------------------
(* Sources for TLC: three packages that import each other, one of them spread *)
(* over two files, with every kind of function; and packages of one function  *)
(* each, which is written from a tree or put together at random.              *)
EXTENDS Frontend, MCTexts

NameFn == {"main", "helper", "make", "puts", "get", "view", "lam", "inner", "lamdrop", "clean", "rfn", "rget"}

MCDeclares ==
  [ mainF |-> [package |-> "app",  citizens |-> <<>>,        functions |-> <<"main", "puts">>],
    viewF |-> [package |-> "lib",  citizens |-> <<"IView">>, functions |-> <<"helper">>],
    itemF |-> [package |-> "lib",  citizens |-> <<"_Item">>, functions |-> <<"make">>],
    toolF |-> [package |-> "tool", citizens |-> <<"Tool">>,  functions |-> <<>>],
    textF |-> [package |-> "text", citizens |-> <<>>,        functions |-> <<>>] ]

MCRustDeclares == [citizens |-> <<"RVec">>, functions |-> <<"rfn">>]

Call(f) == [op |-> "call", fn |-> f]
Closure(f) == [op |-> "closure", fn |-> f]

NoFns == [c \in Citizen |-> <<>>]

Base ==
  [ interfaces  |-> {"IView"},
    underscored |-> <<"_Item">>,
    methods     |-> [NoFns EXCEPT !["IView"] = <<"view">>, !["_Item"] = <<"clean", "get">>,
                                  !["RVec"] = <<"rget">>],
    kind        |-> [main |-> "code", helper |-> "code", make |-> "generated", puts |-> "extern",
                     get |-> "code", clean |-> "generated", view |-> "generated", lam |-> "lambda", inner |-> "lambda",
                     lamdrop |-> "drop", rfn |-> "rust", rget |-> "rust"],
    steps       |-> [[f \in Fn |-> <<>>] EXCEPT
                      !["main"] = <<Call("helper"), Closure("lamdrop"), Call("lam"), Call("puts")>>,
                      !["helper"] = <<Call("make"), Call("helper"), Call("view")>>,
                      !["lam"] = <<Call("inner"), Call("rfn"), Call("main")>>,
                      !["inner"] = <<Call("get")>>,
                      !["clean"] = <<Call("rget")>>,
                      !["get"] = <<Call("rget")>>],
    returns     |-> [[f \in Fn |-> {}] EXCEPT !["view"] = {"_Item"}, !["helper"] = {"_Item"},
                                              !["make"] = {"_Item"}],
    rejected    |-> {},
    exported    |-> {"main"},
    witnesses   |-> [NoFns EXCEPT !["_Item"] = <<"get">>],
    overrides   |-> [NoFns EXCEPT !["IView"] = <<"view", "get">>] ]

Fun(name, text) == Function(name, text, Reading(text))
Code(name, header) == Fun(name, header \o <<" ", "{", "a", "(", ")", "}">>)
Extern(name, header) == Fun(name, header \o <<";">>)
Parens == <<"(", ")">>

Uses == <<Import("lib"), RustImport, Import("app")>>

Tree ==
  [ files    |-> [app |-> {"mainF"}, lib |-> {"viewF", "itemF"}, tool |-> {"toolF"}],
    denizens |-> [ mainF |-> Uses \o <<Code("main", Parens), Extern("puts", <<"(", "a", " ", "str", ")">>)>>,
                   viewF |-> <<Import("tool"), Other("IView"), Code("helper", Parens \o <<" ", "_Item">>)>>,
                   itemF |-> <<RustImport, Other("_Item")>>,
                   toolF |-> <<Import("lib"), Other("Tool")>> ],
    program  |-> Base,
    asked    |-> SUBSET {"app", "lib", "tool"} \ {{}} ]

Holds(f, denizens) == [Tree EXCEPT !.denizens[f] = denizens]

TreeSources ==
  { Tree,
    \* What is borrow-checked may be refused.
    [Tree EXCEPT !.program.rejected = {"inner"}],
    [Tree EXCEPT !.program.rejected = {"helper", "make"}],
    \* What a bound resolves to may be Rust's, and called by nothing else.
    [Tree EXCEPT !.program.witnesses["Tool"] = <<"rfn">>,
                 !.program.steps["lam"] = <<Call("inner")>>,
                 !.program.exported = {"main", "make", "helper"}],
    \* A lambda instance may be called twice, a closure made in a lambda.
    [Tree EXCEPT !.program.steps["main"] = <<Call("lam"), Call("lam")>>,
                 !.program.steps["inner"] = <<Closure("lamdrop"), Call("get"), Call("lamdrop")>>],
    \* A lambda may be handed itself.
    [Tree EXCEPT !.program.steps["inner"] = <<Call("get"), Call("lam")>>, !.asked = {{"app"}}],
    \* Sources that cannot be explored to the end.
    [Tree EXCEPT !.files = [app |-> {"mainF"}, lib |-> {"viewF", "itemF"}]],
    Holds("itemF", <<Import("tool"), Fun("make", <<"(", ")", " ", "{", "(", "}">>)>>),
    Holds("itemF", <<Extern("make", <<"(", "&", ")">>), Other("_Item")>>),
    Holds("toolF", <<Other("Tool"), Import("lib")>>),
    \* An interface's method returns a struct of a package its own imports.
    [Tree EXCEPT !.program.returns["view"] = {"Tool"}] }

\* A package of one function, in a program of nothing else.
OneFunction(function) ==
  [ files    |-> [text |-> {"textF"}],
    denizens |-> [textF |-> <<function>>],
    program  |-> [Base EXCEPT !.underscored = <<>>, !.exported = {}],
    asked    |-> {{"text"}} ]

Written(tree) == Fun("text", Write(tree)) @@ [written |-> tree]

TextSources ==
  { OneFunction(Written(tree)) : tree \in Trees }
    \cup { OneFunction(Fun("text", text)) : text \in Texts }

MCSources == LET texts == TextSources IN TreeSources \cup texts

\* Every order the files can be met in, package by package: lib and tool import each
\* other, and app, which nobody imports, imports lib.
Arrangements ==
  UNION { SetToSeqs(files) : files \in {File \ {"textF"}, File \ {"textF", "mainF"}} }

MCPrograms ==
  { [packages |-> Namespaces(a) \o rust] @@ s.program :
      a \in Arrangements, rust \in {<<>>, <<MCRustDeclares>>}, s \in TreeSources }
    \cup { [packages |-> Namespaces(<<"textF">>)] @@ s.program : s \in {OneFunction(Other("none"))} }
=============================================================================
