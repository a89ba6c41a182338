------------------------------- MODULE Grammar ------------------------------
(***************************************************************************)
(* What a function's text ought to mean: how each tree is written, which   *)
(* trees the precedence of the operators allows, and which tokens of a     *)
(* body no tree may lose.  Reading is correct when what is written is read *)
(* back, whatever else it was read from.                                   *)
(***************************************************************************)
EXTENDS Parser

IsPresent(tree) == tree # Absent
Kid(tree, k) == tree.kids[k]
KidsFrom(tree, k) == SubSeq(tree.kids, k, Len(tree.kids))

Enclose(open, text) == <<open>> \o text \o <<Closing[open]>>
Each_(trees, Text(_)) == [k \in DOMAIN trees |-> Text(trees[k])]
List(trees, Text(_)) ==
  FlattenSeq([k \in DOMAIN trees |-> (IF k = 1 THEN <<>> ELSE <<",", " ">>) \o Text(trees[k])])
When(condition, text) == IF condition THEN text ELSE <<>>

RECURSIVE Type(_), Group(_), Pattern(_), Rule(_), Expression(_), Element(_), Subject(_), Statements(_)

-----------------------------------------------------------------------------
(* Headers.                                                                *)

Group(tree) ==
  CASE tree.kind = "group" -> tree.name
    [] tree.kind = "member" -> Group(Kid(tree, 1)) \o <<".">> \o tree.name
    [] tree.kind = "elements" -> Group(Kid(tree, 1)) \o <<"[", "]">>
    [] tree.kind = "ellipsis" -> Group(Kid(tree, 1)) \o <<".", ".", ".">>

Type(tree) ==
  CASE tree.kind \in {"name", "int", "bool"} -> tree.name
    [] tree.kind = "anonymous" -> <<"_">>
    [] tree.kind = "str" -> <<"\"">> \o tree.name \o <<"\"">>
    [] tree.kind = "region" -> tree.name \o <<"'">>
    [] tree.kind \in {"weak", "own", "held"} -> <<tree.kind, " ">> \o Type(Kid(tree, 1))
    [] tree.kind = "borrow" -> <<"&">> \o Type(Kid(tree, 1))
                                 \o When(Len(tree.kids) = 2, <<" ", "in", " ">> \o Group(Last(tree.kids)))
    [] tree.kind = "array" -> <<"[", "]">> \o Type(Kid(tree, 1))
    [] tree.kind = "tuple" -> Enclose("(", List(tree.kids, Type))
    [] tree.kind = "call" -> Type(Kid(tree, 1)) \o Enclose("<", List(KidsFrom(tree, 2), Type))
    [] tree.kind = "func" -> <<"func">> \o When(tree.name # <<"__call">>, <<" ">> \o tree.name)
                               \o Enclose("(", List(Front(tree.kids), Type)) \o Type(Last(tree.kids))

Pattern(tree) ==
  LET dest == Kid(tree, 1)
      name == CASE dest.kind = "absent" -> <<>>
                [] dest.kind = "ignored" -> <<"_">>
                [] OTHER -> When(dest.kind = "member", <<"self", ".">>)
                              \o When(dest.kids # <<>>, <<"set", " ">>) \o dest.name
      type == When(IsPresent(Kid(tree, 2)), Type(Kid(tree, 2)))
      parts == When(IsPresent(Kid(tree, 3)), Enclose("[", List(Kid(tree, 3).kids, Pattern)))
  IN name \o When(name # <<>> /\ type \o parts # <<>>, <<" ">>) \o type \o parts

Parameter(tree) ==
  When(Kid(tree, 1).kind = "virtual", <<"virtual", " ">>)
    \o IF Last(tree.kids).kind = "self_borrow" THEN <<"&", "self">> ELSE Pattern(Last(tree.kids))

GenericParameter(tree) ==
  LET prefix == When(IsPresent(Kid(tree, 1)), Type(Kid(tree, 1)))
      type == IF IsPresent(Kid(tree, 2)) THEN Type(Kid(tree, 2)) ELSE <<>>
      imm == When(Len(tree.kids) = 4, <<" ", "imm">>)
  IN prefix \o tree.name
       \o (IF tree.kind = "rune" THEN When(IsPresent(Kid(tree, 2)), <<" ">> \o Kid(tree, 2).name) \o imm
           ELSE <<"'">> \o imm \o When(IsPresent(Kid(tree, 2)), <<":", " ">> \o type))
       \o When(IsPresent(Last(tree.kids)), <<" ", "=", " ">> \o Type(Last(tree.kids)))

Effect(tree) ==
  IF tree.kind = "mut" THEN <<" ", "mut">> \o Enclose("(", Group(Kid(tree, 1)))
  ELSE <<" ", "not">> \o Enclose("(", <<"mut">> \o Enclose("(", Group(Kid(tree, 1))))

Rule(tree) ==
  CASE tree.kind = "equals" -> Rule(Kid(tree, 1)) \o <<" ", "=", " ">> \o Rule(Kid(tree, 2))
    [] tree.kind = "ruleCall" -> tree.name \o Enclose("(", List(tree.kids, Rule))
    [] tree.kind = "typed" -> tree.name \o <<" ">> \o Kid(tree, 1).name
    [] OTHER -> Type(tree)

-----------------------------------------------------------------------------
(* Expressions.                                                            *)

\* An operator has a gap on both sides.
Expression(tree) ==
  IF tree.kind \in {"binary", "and", "or"}
  THEN Expression(Kid(tree, 1)) \o <<" ">> \o (IF tree.kind = "binary" THEN tree.name ELSE <<tree.kind>>)
         \o <<" ">> \o Expression(Kid(tree, 2))
  ELSE Element(tree)

Braces(tree) == Enclose("{", Statements(tree))
Types(tree) == Enclose("<", List(tree.kids, Type))
\* A symbol that is a name keeps away from others.
Name(tree) == IF tree.name[1] \in Symbols THEN <<" ">> \o tree.name \o <<" ">> ELSE tree.name
Literal(name) ==
  FlattenSeq([k \in DOMAIN name |-> When(name[k] \in {"\"", "\\", "{"}, <<"\\">>) \o <<name[k]>>])
Part(tree) == IF tree.kind = "str" THEN Literal(tree.name) ELSE Enclose("{", Expression(tree))

\* Where a suffix follows, a borrow is a suffix, and a number keeps away from a dot.
Subject(tree) ==
  CASE tree.kind = "borrow" -> Subject(Kid(tree, 1)) \o <<"&">>
    [] tree.kind \in {"int", "double"} -> tree.name \o <<" ">>
    [] OTHER -> Element(tree)

Control(tree) ==
  CASE tree.kind = "if" -> <<"if", " ">> \o Statements(Kid(tree, 1)) \o <<" ">> \o Braces(Kid(tree, 2))
                             \o When(Kid(tree, 3) # Void, <<" ", "else", " ">> \o Braces(Kid(tree, 3)))
    [] tree.kind = "while" -> <<"while", " ">> \o Statements(Kid(tree, 1)) \o <<" ">> \o Braces(Kid(tree, 2))
    [] tree.kind = "each" -> <<"foreach", " ">> \o Pattern(Kid(tree, 1)) \o <<" ", "in", " ">>
                               \o Statements(Kid(tree, 2)) \o <<" ">> \o Braces(Kid(tree, 3))

Element(tree) ==
  CASE tree.kind \in {"if", "while", "each"} -> Control(tree)
    [] tree.kind \in {"int", "double", "bool"} -> tree.name
    [] tree.kind = "void" -> <<>>
    [] tree.kind = "magic" -> <<"_">>
    [] tree.kind = "lookup" -> Name(tree) \o When(tree.kids # <<>>, Types(Kid(tree, 1)))
    [] tree.kind = "str" -> <<"\"">> \o Literal(tree.name) \o <<"\"">>
    [] tree.kind = "interpolate" -> <<"\"">> \o FlattenSeq(Each_(tree.kids, Part)) \o <<"\"">>
    [] tree.kind = "sub" -> Enclose("(", Expression(Kid(tree, 1)))
    [] tree.kind = "tuple" -> Enclose("(", List(tree.kids, Expression) \o When(Len(tree.kids) = 1, <<",">>))
    [] tree.kind = "functionCall" -> Subject(Kid(tree, 1)) \o Enclose("(", List(KidsFrom(tree, 2), Expression))
    [] tree.kind = "braceCall" -> Subject(Kid(tree, 1)) \o Enclose("[", List(KidsFrom(tree, 2), Expression))
    [] tree.kind = "methodCall" ->
         Subject(Kid(tree, 1)) \o <<".">> \o Kid(tree, 2).name
           \o When(Kid(tree, 2).kids # <<>>, Types(Kid(Kid(tree, 2), 1)))
           \o Enclose("(", List(KidsFrom(tree, 3), Expression))
    [] tree.kind = "dot" -> Subject(Kid(tree, 1)) \o <<".">> \o tree.name
    [] tree.kind = "range" -> Subject(Kid(tree, 1)) \o <<".", ".", " ">> \o Element(Kid(tree, 2))
    [] tree.kind = "borrow" -> <<"&">> \o Element(Kid(tree, 1))
    [] tree.kind = "move" -> <<"^">> \o Element(Kid(tree, 1))
    [] tree.kind \in {"weak", "not"} -> <<tree.kind, " ">> \o Element(Kid(tree, 1))
    [] tree.kind = "destruct" -> <<"destruct", " ">> \o Expression(Kid(tree, 1))
    [] tree.kind = "unlet" -> <<"unlet", " ">> \o tree.name
    [] tree.kind = "transmigrate" -> tree.name \o <<"'">> \o Subject(Kid(tree, 1))
    [] tree.kind = "block" -> <<"unsafe", " ", "block", " ">> \o Braces(Kid(tree, 1))
    [] tree.kind = "lambda" ->
         When(IsPresent(Kid(tree, 1)), Enclose("(", List(Kid(tree, 1).kids, Parameter)) \o <<" ", "=", ">", " ">>)
           \o (IF Kid(tree, 2) = Leaf("lookup", <<";">>) THEN <<";">> ELSE Braces(Kid(tree, 2)))
    [] tree.kind = "construct" ->
         LET size == Kid(tree, 1)
         IN Enclose("[", When(size.kind = "static",
                              <<"#">> \o When(size.kids # <<>>, Type(Last(size.kids)))))
              \o When(IsPresent(Kid(tree, 2)), Type(Kid(tree, 2)))
              \o Enclose("(", List(KidsFrom(tree, 3), Expression))
    [] tree.kind = "mutate" -> <<"set", " ">> \o Expression(Kid(tree, 1)) \o <<" ", "=", " ">>
                                 \o Expression(Kid(tree, 2))

Statement(tree) ==
  CASE tree.kind = "let" -> Pattern(Kid(tree, 1)) \o <<" ", "=", " ">> \o Expression(Kid(tree, 2))
    [] tree.kind = "return" -> <<"return", " ">> \o Expression(Kid(tree, 1)) \o <<";">>
    [] tree.kind = "break" -> <<"break", ";">>
    [] OTHER -> Expression(tree)

\* A return, a break and what ends with braces need no semicolon to end them.
Statements(tree) ==
  LET statements == IF tree.kind = "consecutor" THEN tree.kids ELSE <<tree>>
      Ends(k) == k = Len(statements) \/ statements[k].kind \in {"if", "while", "each", "return", "break"}
  IN FlattenSeq([k \in DOMAIN statements |->
       Statement(statements[k]) \o (IF k = Len(statements) THEN <<>> ELSE IF Ends(k) THEN <<" ">> ELSE <<";", " ">>)])

Write(tree) ==
  LET generics == Kid(tree, 1)
      rules == Kid(tree, 5)
      body == Kid(tree, 6)
  IN When(IsPresent(generics), Enclose("<", List(generics.kids, GenericParameter)))
       \o Enclose("(", List(Kid(tree, 2).kids, Parameter))
       \o When(IsPresent(Kid(tree, 3)), <<" ">> \o Type(Kid(tree, 3)))
       \o FlattenSeq(Each_(Kid(tree, 4).kids, Effect))
       \o When(IsPresent(rules), <<" ", "where", " ">> \o List(rules.kids, Rule))
       \o (IF IsPresent(body) THEN When(body.name # <<>>, <<" ">> \o body.name \o <<"'">>) \o <<" ">>
                                     \o Braces(Kid(body, 1))
           ELSE <<";">>)

-----------------------------------------------------------------------------
(* Precedence.                                                             *)

\* From the loosest to the tightest.  Words other than `and` and `or` are operators, too,
\* looser than sums and tighter than comparisons.
Rank(tree) ==
  LET operator == IF tree.kind = "binary" THEN tree.name ELSE <<tree.kind>>
  IN CASE tree.kind \notin {"binary", "and", "or"} -> 6
       [] operator \in {<<"and">>, <<"or">>} -> 1
       [] operator \in {<<"+">>, <<"-">>} -> 4
       [] operator \in {<<"*">>, <<"/">>} -> 5
       [] OTHER -> IF IsIdentifier(operator[1]) THEN 3 ELSE 2

\* The tighter of two operators goes first and of two that are as tight the left one.
Bracketed(tree) ==
  tree.kind \in {"binary", "and", "or"} =>
    Rank(Kid(tree, 1)) >= Rank(tree) /\ Rank(Kid(tree, 2)) > Rank(tree)

RECURSIVE AllBracketed(_)
AllBracketed(tree) == Bracketed(tree) /\ \A k \in DOMAIN tree.kids : AllBracketed(Kid(tree, k))

-----------------------------------------------------------------------------
(* What a body may not lose.                                               *)

SpacedEquals(nodes, k) ==
  /\ k \in 2..Len(nodes) - 1
  /\ IsSymbol(nodes[k], "=") /\ Apart(nodes[k - 1], nodes[k]) /\ Apart(nodes[k], nodes[k + 1])

Follows(nodes, k, c) == k < Len(nodes) /\ IsSymbol(nodes[k + 1], c)

\* The tokens that leave no trace: separators, keywords that say nothing, regions, the star
\* of a call on each element, an `unlet` of nothing and what stands left of an equals sign.
IsSilent(nodes, k) ==
  \/ SymbolIn(nodes[k], {";", "'"})
  \/ \E w \in {"else", "unsafe", "parallel"} : IsWord(nodes[k], w)
  \/ IsWord(nodes[k], "unlet") /\ (k < Len(nodes) => nodes[k + 1].kind # "word")
  \/ Follows(nodes, k, "'") \/ (k > 1 /\ IsSymbol(nodes[k - 1], "'"))
  \/ IsSymbol(nodes[k], "*") /\ Follows(nodes, k, ".")
  \/ Follows(nodes, k, "=") /\ Follows(nodes, k + 1, ">")
  \/ \E e \in k + 1..Len(nodes) : SpacedEquals(nodes, e) /\ \A j \in k..e : ~ IsSymbol(nodes[j], ";")

RECURSIVE Skeleton(_)
Skeleton(nodes) ==
  FlattenSeq([k \in DOMAIN nodes |->
    CASE IsSilent(nodes, k) /\ nodes[k].kind # "{" -> <<>>
      [] nodes[k].kind = "{" -> Skeleton(nodes[k].inner.nodes)
      [] OTHER -> IF nodes[k].name = <<>> THEN <<nodes[k].kind>> ELSE nodes[k].name])

Count(items, item) == Cardinality({ k \in DOMAIN items : items[k] = item })

\* The tokens of the body's statements and blocks, however often each occurs.
SameSkeleton(text, other) ==
  LET Body_(t) == LexFunction(t).node.body
      s == IF Body_(text) = NoToken THEN <<>> ELSE Skeleton(Body_(text).inner.nodes)
      t == IF Body_(other) = NoToken THEN <<>> ELSE Skeleton(Body_(other).inner.nodes)
  IN \A item \in ToSet(s) \cup ToSet(t) : Count(s, item) = Count(t, item)
=============================================================================
