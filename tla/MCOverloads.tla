---------------------------- MODULE MCOverloads -----------------------------
(***************************************************************************)
(* Small programs for OverloadResolution, with one to three functions of   *)
(* the called name.                                                        *)
(***************************************************************************)
EXTENDS OverloadResolution

MCPrimitive == {"int"}
MCText == {"str"}
MCStruct == {"Ship", "Pin"}
MCInterface == {"IShip", "ICrew"}
MCPlaceholder == {"T"}
MCShared == {"Pin"}
MCImplements == {<<"Ship", "IShip">>, <<"T", "IShip">>, <<"T", "ICrew">>}

Param(refs, slot) == [refs |-> refs, slot |-> slot]
Ref(slot) == Param(1, slot)
Val(slot) == Param(0, slot)

Declaration(home, method, path, runes, params, allowed) ==
  [home |-> home, method |-> method, path |-> path, runes |-> runes, params |-> params, allowed |-> allowed]
Func(params) == Declaration("package", FALSE, <<>>, <<>>, params, {})
Generic(params, allowed) == Declaration("package", FALSE, <<>>, <<"A">>, params, allowed)
Sibling(home, params) == Declaration(home, FALSE, <<>>, <<>>, params, {})
Method(home, params) == Declaration(home, TRUE, <<>>, <<>>, params, {})
BoundOf(path, params) == Declaration("bound", FALSE, path, <<>>, params, {})

ArgTypes ==
  { [refs |-> [i \in 1..n |-> "&"], kind |-> k] :
      n \in 0..2, k \in {"int", "Ship", "IShip", "Pin", "T"} }
    \cup { Bare("never"), Bare("str"), Wrap(<<"@">>, Bare("str")), Borrow(Bare("str")) }

Copyable == { type \in ArgTypes : IsBorrow(type) \/ ImplicitlyCloneable(type) }

UnaryDecl ==
  [ int      |-> Func(<<Val("int")>>),
    refInt   |-> Func(<<Ref("int")>>),
    str      |-> Func(<<Val("str")>>),
    ship     |-> Func(<<Val("Ship")>>),
    pin      |-> Func(<<Val("Pin")>>),
    iship    |-> Func(<<Val("IShip")>>),
    refIShip |-> Func(<<Ref("IShip")>>),
    any      |-> Generic(<<Val("A")>>, Copyable),
    refAny   |-> Generic(<<Ref("A")>>, ArgTypes),
    refShip  |-> Sibling("Ship", <<Ref("Ship")>>),
    sail     |-> Method("IShip", <<Ref("IShip")>>),
    rest     |-> Method("ICrew", <<Ref("ICrew")>>),
    bound    |-> BoundOf(<<"main">>, <<Ref("T")>>),
    bound2   |-> BoundOf(<<"main">>, <<Ref("ICrew")>>),
    bound3   |-> BoundOf(<<"main">>, <<Ref("IShip")>>),
    inner    |-> BoundOf(<<"main", "lambda">>, <<Ref("IShip")>>) ]

BinaryDecl ==
  [ copyFirst  |-> Func(<<Val("int"), Ref("int")>>),
    copySecond |-> Func(<<Ref("int"), Val("int")>>),
    same       |-> Generic(<<Val("A"), Val("A")>>, ArgTypes),
    refSame    |-> Generic(<<Ref("A"), Ref("A")>>, ArgTypes),
    board      |-> Generic(<<Ref("IShip"), Val("A")>>, ArgTypes),
    race       |-> Method("IShip", <<Ref("IShip"), Ref("IShip")>>),
    crash      |-> Sibling("Ship", <<Ref("Ship"), Ref("IShip")>>),
    boundBoth  |-> BoundOf(<<"main">>, <<Ref("T"), Val("int")>>) ]

MCDecl == UnaryDecl @@ BinaryDecl
MCCallee == DOMAIN MCDecl

Programs(callees) == { {a, b, c} : a, b, c \in callees }
CallOf(args, explicit, exact, program) ==
  [args |-> args, explicit |-> explicit, exact |-> exact, program |-> program]

UnaryCalls ==
  { CallOf(<<arg>>, explicit, exact, program) :
      arg \in ArgTypes, explicit \in {<<>>}, exact \in BOOLEAN, program \in Programs(DOMAIN UnaryDecl) }

BinaryCalls ==
  { CallOf(<<a, b>>, explicit, FALSE, program) :
      a, b \in { type \in ArgTypes : Len(type.refs) < 2 /\ type.kind \in {"int", "Ship", "IShip", "T"} },
      explicit \in {<<>>, <<Borrow(Bare("int"))>>},
      program \in Programs(DOMAIN BinaryDecl) }

\* The wrong number of arguments, of type arguments, and type arguments that disagree.
OddCalls ==
  { CallOf(args, explicit, FALSE, program) :
      args \in {<<>>, <<Bare("int")>>, <<Borrow(Bare("Ship")), Bare("int")>>},
      explicit \in {<<>>, <<Bare("int")>>, <<Bare("int"), Bare("int")>>},
      program \in Programs({"int", "any", "refAny", "copyFirst", "same", "bound"}) }

MCCalls == UnaryCalls \cup BinaryCalls \cup OddCalls
=============================================================================
