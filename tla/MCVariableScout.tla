--------------------------- MODULE MCVariableScout --------------------------
(* VariableScout on small programs: every bound leaves out some constructs so *)
(* that those it has can be combined.                                         *)
EXTENDS VariableScout

CONSTANTS other, m1

MCName == {self, other}
MCMember == {m1}

Program(constructs, names, loads, locals, lambdas, depth, n) ==
  [constructs |-> constructs, names |-> names, loads |-> loads,
   locals |-> locals, lambdas |-> lambdas, depth |-> depth, uses |-> n]

Nesting == Program({"use", "let", "block", "lambda"}, MCName, {"Use"}, 3, 2, 4, 2)
Branching == Program({"use", "let", "if", "lambda"}, {self}, {"Use", "LoadAsBorrow"}, 2, 1, 5, 3)
ShortCircuits == Program({"use", "set", "unlet", "set pattern", "let", "and", "or", "lambda"},
                         MCName, {"Move", "LoadAsWeak"}, 2, 1, 4, 2)
Underscores == Program({"use", "magic", "lambda", "block"}, {self}, {"Use", "LoadAsBorrow"}, 3, 2, 4, 4)
Constructors == Program({"member", "let", "block", "lambda"}, {self}, {"Use", "LoadAsBorrow", "Move"}, 3, 1, 3, 2)
Whiles == Program({"use", "let", "while", "block"}, MCName, {"Use"}, 3, 0, 5, 2)
Foreachs == Program({"use", "let", "foreach", "lambda"}, MCName, {"Use"}, 6, 1, 5, 6)

MCBounds == {Nesting, Branching, ShortCircuits, Underscores, Constructors, Whiles, Foreachs}
=============================================================================
