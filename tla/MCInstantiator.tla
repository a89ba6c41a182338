--------------------------- MODULE MCInstantiator ---------------------------
(***************************************************************************)
(* Small programs for Instantiator: an exported main; a generic show, whose *)
(* bound is a function print, with two lambdas; a generic interface Shape   *)
(* with two methods and two impls; use, whose bound is an impl.  Their      *)
(* bodies vary.                                                            *)
(***************************************************************************)
EXTENDS Instantiator

MCFn == {"main", "show", "lamA", "lamB", "print", "area", "name", "use",
         "sqArea", "sqName", "ciArea", "ciName"}
MCImpl == {"ImplSq", "ImplCi"}
MCCitizen == {"Shape", "Sq", "Ci", "Box"}

Step(op, of, kind, fn, impl) == [op |-> op, of |-> of, kind |-> kind, fn |-> fn, impl |-> impl]
Call(of, kind) == Step("call", of, kind, None, None)
CallShow(kind, fn) == Step("call", "show", kind, fn, None)
CallUse == Step("call", "use", <<"Sq", "int">>, None, "ImplSq")
CallBound == Step("callBound", "print", <<"T">>, None, None)
CallImplBound == Step("callImplBound", "area", <<"T">>, None, None)
Upcast(impl, kind) == Step("upcast", None, kind, None, impl)

OfT == <<"T">>
OfInt == <<"int">>
OfBox == <<"Box", "int">>

Bodies(main, show, lamA, lamB, sqArea, ciArea) ==
  [f \in MCFn |->
    CASE f = "main" -> main [] f = "show" -> show
      [] f = "lamA" -> lamA [] f = "lamB" -> lamB
      [] f = "sqArea" -> sqArea [] f = "ciArea" -> ciArea
      [] f = "use" -> <<CallImplBound>>
      [] OTHER -> <<>>]

Program(body, parentOfB) ==
  [ exports |-> <<"main">>,
    body |-> body,
    parent |-> [f \in MCFn |-> CASE f = "lamA" -> "show" [] f = "lamB" -> parentOfB [] OTHER -> None],
    interface |-> [f \in MCFn |-> IF f \in {"area", "name"} THEN "Shape" ELSE None],
    methods |-> "Shape" :> <<"area", "name">>,
    overrides |-> [ImplSq |-> [area |-> [of |-> "sqArea", kind |-> OfT], name |-> [of |-> "sqName", kind |-> OfT]],
                   ImplCi |-> [area |-> [of |-> "ciArea", kind |-> OfT], name |-> [of |-> "ciName", kind |-> OfT]]],
    super |-> [i \in MCImpl |-> "Shape"],
    sub |-> [ImplSq |-> "Sq", ImplCi |-> "Ci"],
    members |-> [Shape |-> {}, Sq |-> {OfBox}, Ci |-> {OfT}, Box |-> {OfT}],
    externs |-> {} ]

\* Bounds: who calls show, and what show and its lambdas call.
BoundPrograms ==
  { Program(Bodies(main, show, lamA, lamB, <<>>, <<>>), parent) :
      main \in { <<CallShow(OfInt, "print")>>, <<CallShow(OfBox, "print")>>,
                 <<CallShow(OfInt, "print"), CallShow(OfBox, "print"), CallShow(OfInt, "print")>> },
      show \in { <<CallBound>>, <<Call("lamA", OfT)>>, <<Call("lamA", OfT), Call("lamB", OfT), CallBound>>,
                 <<CallBound, CallShow(OfT, "own")>> },
      lamA \in { <<>>, <<CallBound>>, <<Call("lamB", OfT)>>, <<CallShow(OfT, "own")>> },
      lamB \in { <<>>, <<CallBound>> },
      parent \in {"show", "lamA"} }

\* Itables: what is upcast and called, by main and by the overrides.
MainSteps ==
  { Upcast("ImplSq", OfInt), Upcast("ImplCi", OfBox), Call("area", OfInt), Call("name", OfInt),
    CallUse, CallShow(OfInt, "print") }
MainBodies == { s \in UNION { [1..n -> MainSteps] : n \in 1..3 } : IsInjective(s) }

ItablePrograms ==
  { Program(Bodies(main, <<CallBound>>, <<>>, <<>>, sqArea, ciArea), "show") :
      main \in MainBodies,
      sqArea \in { <<>>, <<Upcast("ImplCi", OfT)>>, <<Call("name", OfT), CallShow(OfT, "print")>>,
                   <<Upcast("ImplCi", OfBox), Call("name", OfBox)>> },
      ciArea \in { <<>>, <<Call("area", OfT)>>, <<Upcast("ImplSq", OfInt)>> } }

MCPrograms == BoundPrograms \cup ItablePrograms

\* A function that calls itself for another kind.
RecursivePrograms ==
  { Program(Bodies(<<CallShow(OfBox, "print")>>, <<CallBound, CallShow(OfInt, "print")>>,
                   <<>>, <<>>, <<>>, <<>>), "show") }

-----------------------------------------------------------------------------
(* What a program needs, in whatever order it is found.                    *)

Overrides(needed) ==
  { Override(x[1], x[2]) : x \in { y \in needed.impls \X needed.fns :
      IsAbstract(y[2].of) /\ SuperOf(y[1]) = InterfaceOf(y[2].of, y[2].kind) } }

RECURSIVE Close(_, _)
Close(needed, dispatched) ==
  LET bodies == { TranslateBody(d) : d \in needed.fns }
      more == [fns |-> needed.fns \cup UNION { ToSet(b.fns) : b \in bodies }
                         \cup IF dispatched THEN Overrides(needed) ELSE {},
               impls |-> needed.impls \cup UNION { ToSet(b.impls) : b \in bodies }]
  IN IF more = needed THEN needed ELSE Close(more, dispatched)

Start == [fns |-> { Demand(f, <<>>, NoBounds) : f \in ToSet(prog.exports) }, impls |-> {}]
Needed == Close(Start, TRUE)

\* The result is what the program needs and no more: its functions, each calling
\* what its body says for the bounds somebody gave it, its impls, and an override
\* of each impl for each abstract function of its interface.
ResultIsLinked ==
  outcome = "done" =>
    \E needed \in {Needed} :
      /\ Instances = { Name(d) : d \in needed.fns }
      /\ impls = needed.impls
      /\ \A f \in Instances :
           /\ ToSet(functions[f]) \subseteq Instances \cup { Instance(e, f.kind) : e \in prog.externs }
           /\ \E d \in needed.fns : Name(d) = f /\ functions[f] = TranslateBody(d).calls
      /\ \A i \in impls, d \in needed.fns :
           IsAbstract(d.of) /\ SuperOf(i) = InterfaceOf(d.of, d.kind) =>
             vtable[<<i, Name(d)>>] = Name(Override(i, d))

\* An impl that only an override asks for comes after the abstract function whose
\* overrides were filled in.
HasLateImpl ==
  \E i \in Needed.impls \ Close(Start, FALSE).impls : MethodsOf(SuperOf(i)) # {}

\* A lambda that calls a bound of the function around it, called by a lambda beside it.
HasSiblingBound ==
  \E d, caller \in Needed.fns :
    /\ prog.parent[d.of] # None /\ ~ Within(d.of, caller.of)
    /\ d.of \in { s.of : s \in ToSet(prog.body[caller.of]) }
    /\ TranslateBody(d).fails

\* The instantiator panics on those two shapes alone: on any other program every
\* `expect` of a bound and of an itable entry is met.
PanicsAreJustified == outcome = "panicked" => HasLateImpl \/ HasSiblingBound

\* "If we're instantiating something whose name starts with our name, then we're
\* instantiating our lambda" (instantiator.rs): what is called through the bound of
\* a function is for that function's kind.
BoundsFitTheirKind ==
  \A f \in Instances : \A c \in ToSet(functions[f]) : c.of = "print" => c.kind = f.kind
=============================================================================
