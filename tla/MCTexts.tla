------------------------------ MODULE MCTexts -------------------------------
(* Functions for TLC: trees that are written down and texts that are put     *)
(* together at random, whatever they mean.                                   *)
EXTENDS Grammar

Function_(generics, params, return, effects, rules, region, body) ==
  Of("function", <<generics, Of("params", params), return, Of("effects", effects), rules,
                   Node("block", region, <<body>>)>>)
WithBody(body) == Function_(Absent, <<>>, Absent, <<>>, Absent, <<>>, body)

Name_(x) == Leaf("lookup", <<x>>)
Three == Leaf("int", <<"3">>)
Local(x, type, parts) == Of("pattern", <<Leaf("local", <<x>>), type, parts>>)
Block(statements) == IF Len(statements) = 1 THEN statements[1] ELSE Of("consecutor", statements)

\* Four operands with three operators between them, bracketed in every way that is allowed.
Operators == {<<"*">>, <<"-">>, <<"mod">>, <<"<", "=">>, <<"and">>}
Operands == <<Name_("a"), Three, Of("borrow", <<Name_("b")>>), Leaf("bool", <<"true">>)>>
Chains ==
  LET a == Operands[1] b == Operands[2] c == Operands[3] d == Operands[4]
  IN { tree \in UNION { { Binary(r, Binary(q, Binary(p, a, b), c), d),
                          Binary(r, Binary(p, a, Binary(q, b, c)), d),
                          Binary(q, Binary(p, a, b), Binary(r, c, d)),
                          Binary(p, a, Binary(r, Binary(q, b, c), d)),
                          Binary(p, a, Binary(q, b, Binary(r, c, d))) } :
                        p \in Operators, q \in Operators, r \in Operators } : AllBracketed(tree) }

Lambda == Of("lambda", <<Of("params", <<Of("parameter", <<Local("x", Absent, Absent)>>)>>), Name_("x")>>)
Sum == Binary(<<"+">>, Name_("a"), Three)
Atoms ==
  { Name_("a"), Node("lookup", <<"a">>, <<Of("args", <<Leaf("name", <<"t">>)>>)>>), Three, Of("magic", <<>>),
    Of("sub", <<Sum>>), Of("tuple", <<>>), Of("tuple", <<Sum>>), Of("tuple", <<Lambda, Three>>), Lambda,
    Of("lambda", <<Absent, Of("consecutor", <<Name_("a"), Void>>)>>),
    Of("construct", <<Of("static", <<Leaf("int", <<"3">>)>>), Absent, Lambda>>),
    Of("construct", <<Of("runtime", <<>>), Leaf("name", <<"t">>), Three, Lambda>>),
    Leaf("double", <<"3", ".", "7">>), Leaf("str", <<"a", " ", "{">>),
    Of("interpolate", <<Leaf("str", <<"a">>), Sum, Of("interpolate", <<>>)>>) }
Suffixed(trees) ==
  { Of("functionCall", <<t, Sum>>) : t \in { t \in trees : t.kind # "dot" } } \cup
  UNION { { Of("braceCall", <<t, Three>>), Node("dot", <<"x">>, <<t>>),
            Node("dot", <<"3">>, <<t>>), Of("borrow", <<t>>), Of("range", <<t, Name_("b")>>),
            Of("methodCall", <<t, Node("lookup", <<"<", "=">>, <<Of("args", <<Leaf("name", <<"t">>)>>)>>)>>) } :
          t \in trees }
Prefixed(trees) ==
  UNION { { Of("not", <<t>>), Of("move", <<t>>), Of("borrow", <<t>>), Of("weak", <<t>>),
            Node("transmigrate", <<"r">>, <<t>>), Of("destruct", <<t>>) } : t \in trees }
Calls == Suffixed(Atoms) \cup Suffixed(Suffixed({Name_("a"), Three, Lambda}))
Elements == Calls \cup Prefixed(Suffixed({Name_("a"), Three})) \cup Prefixed(Suffixed(Suffixed({Name_("a")})))
              \cup { Of("not", <<t>>) : t \in Prefixed({Name_("a")}) \ {Of("destruct", <<Name_("a")>>)} }

\* Statements one after the other; a return or a break is followed by nothing, or by more.
OneOf ==
  { Name_("a"), Sum, Lambda,
    Of("let", <<Local("a", Leaf("name", <<"t">>), Absent), Sum>>),
    Of("let", <<Of("pattern", <<Absent, Absent, Of("destructure", <<Local("a", Absent, Absent),
                                Of("pattern", <<Leaf("ignored", <<>>), Absent, Absent>>)>>)>>), Three>>),
    Of("let", <<Of("pattern", <<Node("member", <<"a">>, <<Of("set", <<>>)>>), Absent, Absent>>), Lambda>>),
    Of("mutate", <<Node("dot", <<"x">>, <<Name_("a")>>), Of("mutate", <<Name_("b"), Three>>)>>),
    Of("if", <<Sum, Name_("a"), Void>>),
    Of("if", <<Name_("a"), Of("consecutor", <<Three, Void>>), Of("if", <<Name_("b"), Void, Three>>)>>),
    Of("while", <<Of("consecutor", <<Name_("a"), Of("sub", <<Lambda>>)>>), Void>>),
    Of("each", <<Local("a", Absent, Absent), Of("range", <<Three, Name_("b")>>), Name_("a")>>),
    Of("block", <<Of("consecutor", <<Of("return", <<Sum>>), Void>>)>>),
    Of("return", <<Lambda>>), Of("break", <<>>), Leaf("unlet", <<"a">>), Of("destruct", <<Sum>>) }
\* None of them is told from what follows by anything but a semicolon.
Bodies == { Of("consecutor", <<s, Sum>>) : s \in OneOf } \cup
          { Of("consecutor", <<s, t, Void>>) : s \in OneOf,
              t \in { t \in OneOf : t.kind \notin {"if", "while", "each"} } } \cup
          { Of("if", <<s, s, t>>) : s \in { s \in OneOf : s.kind \notin {"return", "break", "lambda", "mutate"} },
                                    t \in {Void, Sum} }

T == Leaf("name", <<"t">>)
TypeAtoms == { T, Leaf("anonymous", <<>>), Of("array", <<T>>), Of("tuple", <<T, T>>), Of("call", <<T, T>>) }
TypeTrees ==
  TypeAtoms \cup UNION { { Of("borrow", <<t>>), Of("borrow", <<t, Node("member", <<"b">>, <<Leaf("group", <<"a">>)>>)>>),
                           Of("weak", <<t>>), Of("array", <<t>>), Of("call", <<T, t, Leaf("int", <<"3">>)>>),
                           Of("tuple", <<t>>), Node("func", <<"==">>, <<t>>),
                           Node("func", <<"a">>, <<T, t>>), Node("func", <<"__call">>, <<T, t, T>>) } : t \in TypeAtoms }
Types_ == { t \in TypeTrees : t.kind # "func" \/ Len(t.kids) > 1 }

Param(pattern) == Of("parameter", <<pattern>>)
Elements_ == Of("elements", <<Node("member", <<"b">>, <<Leaf("group", <<"a">>)>>)>>)
Generics ==
  { Node("rune", <<"t">>, <<Absent, Absent, Absent>>), Node("rune", <<"t">>, <<Leaf("region", <<"r">>), Absent, Absent>>),
    Node("rune", <<"t">>, <<Absent, Leaf("type", <<"Int">>), Of("imm", <<>>), T>>),
    Node("groupRune", <<"r">>, <<Absent, Absent, Absent>>),
    Node("groupRune", <<"r">>, <<Absent, Absent, Of("imm", <<>>), Absent>>),
    Node("groupRune", <<"r">>, <<Absent, Of("borrow", <<T>>), Absent>>) }
Effects_ == { Of("mut", <<Leaf("group", <<"a">>)>>), Of("notMut", <<Elements_>>),
              Of("mut", <<Of("ellipsis", <<Elements_>>)>>) }
Rules_ == { Of("equals", <<T, Of("call", <<T, T>>)>>), Node("ruleCall", <<"a">>, <<T, Node("typed", <<"t">>, <<Leaf("type", <<"Int">>)>>)>>),
            Node("func", <<"a">>, <<T, T>>), Node("typed", <<"t">>, <<Leaf("type", <<"RefList">>)>>) }
Headers ==
  { Function_(Absent, <<Param(Local("a", t, Absent))>>, t, <<>>, Absent, <<>>, Void) : t \in Types_ } \cup
  { Function_(Of("generics", <<g, h>>), <<>>, Absent, <<>>, Absent, <<>>, Void) : g \in Generics, h \in Generics } \cup
  { Function_(Absent, <<Param(Of("self_borrow", <<>>)), Of("parameter", <<Of("virtual", <<>>), Local("b", T, Absent)>>)>>,
              r, <<e, f>>, Of("rules", <<s, u>>), b, Void) :
      r \in {Absent, T}, e \in Effects_, f \in Effects_, s \in Rules_, u \in Rules_, b \in {<<>>, <<"r">>} } \cup
  { Function_(Absent, <<Param(Local("a", T, Of("destructure", <<Local("b", t, Absent), Local("x", Absent, Absent)>>)))>>,
              t, <<>>, Of("rules", <<s>>), <<"r">>, Void) : t \in Types_ \ {Of("borrow", <<T>>)}, s \in Rules_ }

Trees == Headers \cup { WithBody(b) : b \in Chains \cup Elements \cup Bodies }

-----------------------------------------------------------------------------
\* Pieces of a body, in any order; none of the words is next to another.
Chunks(pieces, n) == { <<"(", ")", " ", "{">> \o FlattenSeq(p) \o <<"}">> : p \in UNION { [1..k -> pieces] : k \in 0..n } }
Texts == UNION {
  Chunks({<<" ", "-", " ">>, <<" ", "a">>, <<"-">>, <<" ", "3">>, <<"(", "b", ")">>, <<".">>}, 4),
  Chunks({<<" ", "a", " ", "=", " ">>, <<" ", "set">>, <<" ", "b">>, <<";">>, <<"{", "}">>, <<" ", "=", ">">>}, 4),
  Chunks({<<" ", "if">>, <<" ", "a">>, <<"{", "b", "}">>, <<" ", "else">>, <<";">>, <<" ", "+", " ">>}, 4) }
=============================================================================
