------------------------------ MODULE MCVivem ------------------------------
(* Programs of the TestVM for TLC: their struct and array types, the locals *)
(* of a call, the functions, and what each run's programs are made of.      *)
EXTENDS VivemMachine

IntT == Bare(Prim)
Engine == Bare("Engine")
Ship == Bare("Ship")
Fleet == Bare("Fleet")

MCStructKinds == {"Engine", "Ship"}
MCArrayKinds == {"Fleet"}
MCMembers == [Engine |-> <<IntT>>, Ship |-> <<Engine>>]
MCElement == [Fleet |-> Engine]

MCLocalType == [ e |-> Engine, f |-> Engine, s |-> Ship, n |-> IntT, m |-> IntT, a |-> Fleet,
                 r |-> Wrap("Borrow", Engine), w |-> Wrap("Weak", Engine) ]

MCFunctions == [ main   |-> [params |-> <<>>, result |-> IntT],
                 refit  |-> [params |-> <<Engine, Wrap("Borrow", Engine)>>, result |-> Engine] ]

Moves == {"ConstantInt", "Discard", "LetNormal", "Unlet", "LocalLookup", "Construct", "Destroy"}

\* Structs that are borrowed, read and stored into.
StructPrograms ==
  [ expressions |-> Moves \cup {"LetAndLend", "Deref", "MemberLookup", "Mutate", "MutateDeref",
                                "ExternFunctionCall", "Return"},
    locals |-> {"e", "n", "r"}, lookedUp |-> {"e", "n", "r"}, values |-> {0, 1},
    maxAllocations |-> 5, maxRegisters |-> 2, maxDepth |-> 1 ]

\* An array whose elements are pushed, popped and replaced.
ArrayPrograms ==
  [ expressions |-> Moves \cup {"Array", "Mutate", "Return"},
    locals |-> {"a", "e", "n"}, lookedUp |-> {"a"}, values |-> {0},
    maxAllocations |-> 7, maxRegisters |-> 2, maxDepth |-> 1 ]

\* Calls, and weak references that are locked.
CallPrograms ==
  [ expressions |-> Moves \cup {"FunctionCall", "ArgLookup", "Weak", "CopyPrim", "Return"},
    locals |-> {"e", "n", "w"}, lookedUp |-> {"e", "n"}, values |-> {0},
    maxAllocations |-> 4, maxRegisters |-> 2, maxDepth |-> 2 ]

AllPrograms == {StructPrograms, ArrayPrograms, CallPrograms}
============================================================================
