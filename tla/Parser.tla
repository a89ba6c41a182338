------------------------------- MODULE Parser -------------------------------
(***************************************************************************)
(* What the parser makes of types, patterns and bodies (parsing/*.rs).  It *)
(* tries one construct after another; each is there, not there or          *)
(* malformed, and some are asserted to be there.  A construct that is not  *)
(* there may have moved the iterator all the same.                         *)
(*                                                                         *)
(* A tree has the kind of its node, its name and its parts; it leaves out  *)
(* ranges, except where parsing looks at them.                             *)
(***************************************************************************)
EXTENDS Lexer

Node(kind, name, kids) == [kind |-> kind, name |-> name, kids |-> kids]
Of(kind, kids) == Node(kind, <<>>, kids)
Leaf(kind, name) == Node(kind, name, <<>>)
Void == Of("void", <<>>)
Absent == Of("absent", <<>>)

(* Iterators over a scramble, or over a piece of one. *)
Iter(scramble) == [nodes |-> scramble.nodes, i |-> 1, end |-> Len(scramble.nodes)]
HasNext(it) == it.i <= it.end
Peek(it, k) == IF it.i + k <= it.end THEN it.nodes[it.i + k] ELSE NoToken
PrevEnd(it) == IF it.i = 1 THEN 0 ELSE it.nodes[it.i - 1].e
Past(it, n) == [it EXCEPT !.i = @ + n]

IsWord(token, w) == token.kind = "word" /\ token.name = <<w>>
IsSymbol(token, c) == token.kind = "symbol" /\ token.name = <<c>>
AtWord(it, w) == IsWord(Peek(it, 0), w)
AtSymbols(it, cs) == \A k \in DOMAIN cs : IsSymbol(Peek(it, k - 1), cs[k])
SymbolIn(token, cs) == token.kind = "symbol" /\ token.name[1] \in cs
Apart(a, b) == a.e < b.s
NameOf(it, n) == FlattenSeq([k \in 1..n |-> Peek(it, k - 1).name])

\* split_on_symbol: an empty piece at the end counts only where the caller wants it.
Split(it, needle, include_empty_trailing) ==
  LET cuts == SetToSortSeq({ j \in it.i..it.end : IsSymbol(it.nodes[j], needle) }, <)
      bounds == <<it.i - 1>> \o cuts \o <<it.end + 1>>
      pieces == [k \in 1..Len(cuts) + 1 |-> [it EXCEPT !.i = bounds[k] + 1, !.end = bounds[k + 1] - 1]]
  IN IF HasNext(Last(pieces)) \/ include_empty_trailing THEN pieces ELSE Front(pieces)

\* Whether the search for a sign stops at this token: a symbol or a bracket among these.
Stops(token, stops) == token.kind \in stops \/ SymbolIn(token, stops)

\* try_skip_past_equals_while: the tokens before an equals sign that has a gap on both sides.
EqualsIn(it, stops) ==
  { j \in it.i..it.end - 2 :
      /\ \A k \in it.i..j : ~ Stops(it.nodes[k], stops)
      /\ IsSymbol(it.nodes[j + 1], "=")
      /\ Apart(it.nodes[j], it.nodes[j + 1]) /\ Apart(it.nodes[j + 1], it.nodes[j + 2]) }

\* try_skip_past_keyword_while: the same for a keyword.
KeywordIn(it, keyword, stops) ==
  { j \in it.i..it.end :
      IsWord(it.nodes[j], keyword) /\ \A k \in it.i..j : ~ Stops(it.nodes[k], stops) }

UpTo(it, j) == [it EXCEPT !.end = j]
After(it, j) == [it EXCEPT !.i = j + 1]

(* Results. *)
Result(is, got, it, why) == [is |-> is, got |-> got, it |-> it, why |-> why]
Nowhere == [nodes |-> <<>>, i |-> 1, end |-> 0]
Good(got, it) == Result("good", got, it, "")
None(it) == Result("none", Absent, it, "")
Bad(why) == Result("bad", Absent, Nowhere, why)
Fatal == Result("panicked", Absent, Nowhere, "")

Then(result, Use(_, _)) ==
  LET r == result IN IF r.is = "good" THEN Use(r.got, r.it) ELSE r
Else(result, Try(_)) ==
  LET r == result IN IF r.is = "none" THEN Try(r.it) ELSE r
Optional(result, Use(_, _)) ==
  LET r == result IN IF r.is \in {"good", "none"} THEN Use(r.got, r.it) ELSE r
Made(result, Make(_)) == Then(result, LAMBDA got, it : Good(Make(got), it))

\* Each piece on its own.  That it is used up is not asked.
Each(pieces, Parse(_)) ==
  FoldLeft(LAMBDA acc, piece : Then(acc, LAMBDA done, at :
             Then(Parse(piece), LAMBDA got, rest : Good(Append(done, got), at))),
           Good(<<>>, Nowhere), pieces)

\* The elements between the brackets that come next, if they are of this kind: parse_pack,
\* parse_square_pack, parse_brace_pack, parse_chevron_pack, parse_template_call_args.
PackElements(it) == Split(Iter(Peek(it, 0).inner), ",", FALSE)
Pack(it, open, Parse(_)) ==
  IF Peek(it, 0).kind # open THEN None(it)
  ELSE Then(Each(PackElements(it), Parse),
            LAMBDA elements, rest : Good(elements, Past(it, 1)))

\* How many symbols the operator that comes next has.
OperatorWidth(it) ==
  CASE AtSymbols(it, <<"=", "=", "=">>) \/ AtSymbols(it, <<"<", "=", ">">>) -> 3
    [] SymbolIn(Peek(it, 0), {"=", "!", "<", ">"}) /\ IsSymbol(Peek(it, 1), "=") -> 2
    [] SymbolIn(Peek(it, 0), {"+", "-", "*", "/", "<", ">"}) -> 1
    [] OTHER -> 0

RECURSIVE parse_templex(_), parse_group_steps(_, _), parse_pattern(_, _, _),
          parse_block_contents(_, _), parse_statements(_, _, _), parse_if_ladder(_),
          parse_elements(_, _, _, _), parse_expression_data_element(_, _),
          parse_atom(_, _), parse_suffixes(_, _, _), descramble_elements(_, _, _, _),
          descramble_level(_, _, _, _, _), parse_rule(_), parse_effect_clauses(_, _)

\* An expression is operands with operators between them.
parse_expression(it, stop_on_curlied) ==
  IF HasNext(it) THEN parse_elements(it, stop_on_curlied, <<>>, <<>>) ELSE Bad("BadExpressionBegin")

-----------------------------------------------------------------------------
(* Types (templex_parser.rs, parse_utils.rs).                              *)

parse_region(it) ==
  CASE AtSymbols(it, <<"'">>) -> Good(Leaf("region", <<>>), Past(it, 1))
    [] Peek(it, 0).kind = "word" /\ IsSymbol(Peek(it, 1), "'") ->
         Good(Leaf("region", Peek(it, 0).name), Past(it, 2))
    [] OTHER -> None(it)

parse_ending_region(it) ==
  LET r == parse_region(it) IN IF HasNext(r.it) THEN None(it) ELSE r

\* A name and a path from it: a member, an element or, at the end, all that is below.
parse_group(it) ==
  IF Peek(it, 0).kind # "word" THEN Bad("BadTypeExpression")
  ELSE parse_group_steps(Past(it, 1), Leaf("group", Peek(it, 0).name))

parse_group_steps(it, base) ==
  CASE AtSymbols(it, <<".", ".", ".">>) -> Good(Of("ellipsis", <<base>>), Past(it, 3))
    [] AtSymbols(it, <<".">>) /\ ~ AtSymbols(it, <<".", ".", ".">>) ->
         IF Peek(it, 1).kind # "word" THEN Bad("BadTypeExpression")
         ELSE parse_group_steps(Past(it, 2), Node("member", Peek(it, 1).name, <<base>>))
    [] Peek(it, 0).kind = "[" /\ ~ HasNext(Iter(Peek(it, 0).inner)) ->
         parse_group_steps(Past(it, 1), Of("elements", <<base>>))
    [] OTHER -> Good(base, it)

parse_group_in_parens(it) ==
  IF Peek(it, 0).kind # "(" THEN Bad("BadTypeExpression")
  ELSE Then(parse_group(Iter(Peek(it, 0).inner)), LAMBDA group, rest :
         IF HasNext(rest) THEN Bad("MultipleGroupsInEffectClause") ELSE Good(group, Past(it, 1)))

parse_ref_prefix(it) ==
  LET Inner(kind) == Made(parse_templex(Past(it, 1)), LAMBDA t : Of(kind, <<t>>))
  IN CASE AtWord(it, "weak") -> Inner("weak")
       [] AtWord(it, "own") -> Inner("own")
       [] AtWord(it, "held") -> Inner("held")
       [] AtSymbols(it, <<"&">>) ->
            Then(parse_templex(Past(it, 1)), LAMBDA t, rest :
              IF ~ AtWord(rest, "in") THEN Good(Of("borrow", <<t>>), rest)
              ELSE Made(parse_group(Past(rest, 1)), LAMBDA group : Of("borrow", <<t, group>>)))
       [] OTHER -> None(it)

parse_function_name(it) ==
  CASE Peek(it, 0).kind = "word" -> Good(NameOf(it, 1), Past(it, 1))
    [] OperatorWidth(it) > 0 -> Good(NameOf(it, OperatorWidth(it)), Past(it, OperatorWidth(it)))
    [] Peek(it, 0).kind = "(" -> Good(<<"__call">>, it)
    [] OTHER -> Bad("BadPrototypeName")

\* Here, other than in a tuple, nothing but `mut` may follow a parameter's type.
parse_prototype(it) ==
  IF ~ AtWord(it, "func") THEN None(it)
  ELSE Then(parse_function_name(Past(it, 1)), LAMBDA name, params :
       Then(Else(Pack(params, "(", LAMBDA param : Then(parse_templex(param), LAMBDA t, rest :
                   IF HasNext(IF AtWord(rest, "mut") THEN Past(rest, 1) ELSE rest)
                   THEN Bad("BadPrototypeParams") ELSE Good(t, rest))),
                 LAMBDA at : Bad("BadPrototypeParams")), LAMBDA types, return :
       Made(parse_templex(return), LAMBDA t : Node("func", name, Append(types, t)))))

\* Brackets with something in them are not an array's.
parse_array_type(it) ==
  IF Peek(it, 0).kind # "[" \/ HasNext(Iter(Peek(it, 0).inner)) THEN None(it)
  ELSE Made(parse_templex(Past(it, 1)), LAMBDA t : Of("array", <<t>>))

parse_literal_type(it) ==
  LET token == Peek(it, 0)
      Is(kind) == Good(Leaf(kind, token.name), Past(it, 1))
  IN CASE token.kind = "string" ->
            IF Len(token.inner) = 1 /\ token.inner[1].kind = "literal"
            THEN Good(Leaf("str", token.inner[1].name), Past(it, 1)) ELSE Bad("BadStringInTemplex")
       [] token.kind = "int" -> Is("int")
       [] token.kind = "double" -> Bad("RangedInternalError")
       [] token.kind = "word" -> Is("name")
       [] OTHER -> Bad("BadTypeExpression")

parse_templex_atom(it) ==
  CASE AtWord(it, "_") -> Good(Leaf("anonymous", <<>>), Past(it, 1))
    [] AtWord(it, "true") \/ AtWord(it, "false") -> Good(Leaf("bool", Peek(it, 0).name), Past(it, 1))
    [] OTHER -> Else(Else(Else(parse_prototype(it),
                  LAMBDA at : Made(Pack(at, "(", parse_templex), LAMBDA ts : Of("tuple", ts))),
                  parse_array_type), parse_literal_type)

parse_templex_atom_and_call(it) ==
  Then(parse_templex_atom(it), LAMBDA atom, rest :
    Optional(Pack(rest, "<", parse_templex), LAMBDA args, at :
      Good(IF Peek(rest, 0).kind = "<" THEN Of("call", <<atom>> \o args) ELSE atom, at)))

\* A type is asserted to be there, and not to be called `in`.
parse_templex(it) ==
  IF ~ HasNext(it) \/ AtWord(it, "in") THEN Fatal
  ELSE Else(Else(parse_ending_region(it), parse_ref_prefix), parse_templex_atom_and_call)

-----------------------------------------------------------------------------
(* Patterns (pattern_parser.rs).                                           *)

\* What the value is bound to: a local, a member under construction or nothing.  A name is
\* followed by a gap; what is not is a type.
parse_destination(it, is_constructing, mutates) ==
  LET first == Peek(it, 0)
      Bound(kind, name) == Good(Node(kind, name, mutates), Past(it, 1))
  IN CASE ~ HasNext(it) -> Fatal
       [] HasNext(it) /\ HasNext(Past(it, 1)) /\ ~ Apart(first, Peek(it, 1)) -> Good(Absent, it)
       [] first.kind = "[" -> Good(Absent, it)
       [] first.kind = "word" ->
            IF first.name = <<"_">> THEN Bound("ignored", <<>>)
            ELSE Bound(IF is_constructing THEN "member" ELSE "local", first.name)
       [] OTHER -> Bad("BadLocalName")

\* After the elements of a destructure, nothing is looked at.
parse_destructure(it) ==
  IF ~ HasNext(it) THEN Good(Absent, it)
  ELSE Else(Made(Pack(it, "[", LAMBDA element : parse_pattern(element, <<>>, "local")),
                 LAMBDA patterns : Of("destructure", patterns)),
            LAMBDA at : Bad("BadThingAfterTypeInPattern"))

\* The place is a local's, a parameter's or a lambda's parameter's.
parse_pattern(it, name, place) ==
  IF ~ HasNext(it) /\ name = <<>> THEN Bad("EmptyPattern")
  ELSE
  LET is_constructing == AtWord(it, "self") /\ IsSymbol(Peek(it, 1), ".")
      named == IF is_constructing THEN Past(it, 2) ELSE it
      mutates == AtWord(named, "set")
      begin == IF mutates THEN Past(named, 1) ELSE named
      destination ==
        CASE mutates /\ ~ HasNext(begin) -> Bad("CantUseThatLocalName")
          [] name = <<"_">> -> Good(Of("ignored", <<>>), begin)
          [] name \notin {<<>>, <<"_">>} -> Good(Leaf("local", name), begin)
          [] OTHER -> parse_destination(begin, is_constructing,
                                        IF mutates THEN <<Of("set", <<>>)>> ELSE <<>>)
  IN Then(destination, LAMBDA dest, typed :
     LET next_is_type == HasNext(typed) /\ (Peek(typed, 0).kind = "[" => HasNext(Past(typed, 1)))
     IN Then(IF next_is_type THEN parse_templex(typed)
             ELSE IF place = "parameter" THEN Bad("LightFunctionMustHaveParamTypes")
             ELSE Good(Absent, typed), LAMBDA type, rest :
        Made(parse_destructure(IF place # "local" /\ AtWord(rest, "mut") THEN Past(rest, 1) ELSE rest),
             LAMBDA destructure : Of("pattern", <<dest, type, destructure>>))))

parse_parameter(it, place) ==
  IF ~ HasNext(it) THEN Bad("EmptyPattern")
  ELSE
  LET virtuality == IF AtWord(it, "virtual") THEN <<Of("virtual", <<>>)>> ELSE <<>>
      begin == Past(it, Len(virtuality))
      Parameter(pattern) == Of("parameter", virtuality \o <<pattern>>)
      first == Peek(begin, 0)
  IN CASE ~ HasNext(begin) -> Bad("EmptyParameter")
       [] IsSymbol(first, "&") /\ IsWord(Peek(begin, 1), "self") ->
            Good(Parameter(Of("self_borrow", <<>>)), Past(begin, 2))
       [] first.kind = "[" \/ (first.kind = "word" /\ Peek(begin, 1).kind = "[") ->
            Made(parse_pattern(begin, <<>>, place), Parameter)
       [] first.kind = "word" /\ Peek(begin, 1).kind # "[" ->
            Made(parse_pattern(Past(begin, 1), first.name, place), Parameter)
       [] OTHER -> Bad("BadLocalName")

-----------------------------------------------------------------------------
(* Statements (expression_parser.rs).                                      *)

\* The braces that a construct asks for.
Body(it, why) ==
  IF Peek(it, 0).kind # "{" THEN Bad(why)
  ELSE Then(parse_block_contents(Iter(Peek(it, 0).inner), FALSE),
            LAMBDA contents, rest : Good(contents, Past(it, 1)))

\* What comes before the braces of an if, a while or a foreach may be statements too.
Condition(it) == parse_block_contents(it, TRUE)

parse_while(it) ==
  IF ~ AtWord(it, "while") THEN None(it)
  ELSE Then(Condition(Past(it, 1)), LAMBDA condition, begin :
       Made(Body(begin, "BadExpressionBegin"), LAMBDA body : Of("while", <<condition, body>>)))

\* parse_explicit_block and, in expressions, parse_lone_block
parse_explicit_block(it) ==
  IF ~ AtWord(it, "block") THEN None(it)
  ELSE Made(Body(Past(it, 1), "BadExpressionBegin"), LAMBDA inner : Of("block", <<inner>>))

parse_lone_block(it) ==
  LET begin == IF AtWord(it, "unsafe") THEN Past(it, 1) ELSE it
  IN IF AtWord(begin, "block") THEN parse_explicit_block(begin) ELSE None(it)

parse_foreach(it) ==
  LET begin == IF AtWord(it, "parallel") THEN Past(it, 1) ELSE it
      pattern == Past(begin, 1)
      ins == KeywordIn(pattern, "in", {";", "{"})
  IN CASE ~ AtWord(begin, "foreach") -> None(it)
       [] AtWord(begin, "foreach") /\ ins = {} -> Bad("BadForeachInError")
       [] OTHER ->
            Then(parse_pattern(UpTo(pattern, Min(ins) - 1), <<>>, "local"), LAMBDA entry, at :
            Then(Condition(After(pattern, Min(ins))), LAMBDA iterable, rest :
            Made(Body(rest, "BadStartOfWhileBody"), LAMBDA body : Of("each", <<entry, iterable, body>>))))

\* An else that is not there is one that does nothing.
parse_if_ladder(it) ==
  IF ~ AtWord(it, "if") THEN None(it)
  ELSE Then(Condition(Past(it, 1)), LAMBDA condition, begin :
       Then(Body(begin, "BadExpressionBegin"), LAMBDA then, rest :
       Made(CASE AtWord(rest, "else") /\ IsWord(Peek(rest, 1), "if") -> parse_if_ladder(Past(rest, 1))
              [] AtWord(rest, "else") /\ ~ IsWord(Peek(rest, 1), "if") ->
                   Body(Past(rest, 1), "BadExpressionBegin")
              [] OTHER -> Good(Void, rest),
            LAMBDA else : Of("if", <<condition, then, else>>))))

next_is_set_expr(it) ==
  AtWord(it, "set") /\ HasNext(Past(it, 1)) /\ Apart(Peek(it, 0), Peek(it, 1))

\* What is left over before the equals sign is not looked at.
parse_mut_expr(it, stop_on_curlied) ==
  IF ~ next_is_set_expr(it) THEN None(it)
  ELSE LET mutatee == Past(it, 1)
           equals == EqualsIn(mutatee, {";"})
       IN IF equals = {} THEN Bad("BadMutateEqualsError")
          ELSE Then(parse_expression(UpTo(mutatee, Min(equals)), stop_on_curlied), LAMBDA to, at :
               Made(parse_expression(After(mutatee, Min(equals) + 1), stop_on_curlied),
                    LAMBDA source : Of("mutate", <<to, source>>)))

parse_let(pattern_iter, it, stop_on_curlied) ==
  Then(parse_pattern(pattern_iter, <<>>, "local"), LAMBDA pattern, at :
    IF pattern.kids[1] = Leaf("local", <<"set">>) THEN Fatal
    ELSE Made(parse_expression(it, stop_on_curlied), LAMBDA source : Of("let", <<pattern, source>>)))

parse_return(it, stop_on_curlied) ==
  IF ~ AtWord(it, "return") THEN None(it)
  ELSE Then(parse_expression(Past(it, 1), stop_on_curlied), LAMBDA inner, rest :
         IF AtSymbols(rest, <<";">>) THEN Good(Of("return", <<inner>>), Past(rest, 1))
         ELSE Bad("BadExpressionEnd"))

parse_break(it) ==
  CASE ~ AtWord(it, "break") -> None(it)
    [] AtWord(it, "break") /\ IsSymbol(Peek(it, 1), ";") -> Good(Of("break", <<>>), Past(it, 2))
    [] OTHER -> Bad("BadExpressionEnd")

\* A statement with an equals sign of its own is a let.
parse_let_or_lone_expr(it, stop_on_curlied) ==
  LET equals == EqualsIn(it, IF stop_on_curlied THEN {";", "{"} ELSE {";"})
      let == parse_let(UpTo(it, Min(equals)), After(it, Min(equals) + 1), stop_on_curlied)
  IN CASE next_is_set_expr(it) -> parse_mut_expr(it, stop_on_curlied)
       [] ~ next_is_set_expr(it) /\ equals = {} -> parse_expression(it, stop_on_curlied)
       [] OTHER -> IF let.why = "BadThingAfterTypeInPattern" THEN Bad("ForgotSetKeyword") ELSE let

at_expression_end(it, stop_on_curlied) ==
  \/ ~ HasNext(it)
  \/ AtSymbols(it, <<";">>)
  \/ Peek(it, 0).kind = "{" /\ stop_on_curlied

EndStatement(result, stop_on_curlied) ==
  Then(result, LAMBDA statement, rest :
    CASE AtSymbols(rest, <<";">>) -> Good(statement, Past(rest, 1))
      [] at_expression_end(rest, stop_on_curlied) /\ ~ AtSymbols(rest, <<";">>) -> result
      [] OTHER -> Bad("BadExpressionEnd"))

parse_statement(it, stop_on_curlied) ==
  LET while == parse_while(it)
      block == parse_explicit_block(while.it)
      if == parse_if_ladder(block.it)
      each == parse_foreach(if.it)
      break == parse_break(each.it)
      return == parse_return(break.it, stop_on_curlied)
  IN IF while.is # "none" THEN while
     ELSE IF block.is # "none" THEN block
     ELSE IF if.is # "none" THEN if
     ELSE IF each.is # "none" THEN each
     ELSE IF break.is # "none" THEN break
     ELSE IF return.is # "none" THEN return
     ELSE EndStatement(parse_let_or_lone_expr(return.it, stop_on_curlied), stop_on_curlied)

parse_statements(it, stop_on_curlied, statements) ==
  IF HasNext(it) /\ ~ (Peek(it, 0).kind = "{" /\ stop_on_curlied)
  THEN Then(parse_statement(it, stop_on_curlied), LAMBDA statement, rest :
         parse_statements(rest, stop_on_curlied, Append(statements, statement)))
  ELSE Good(IF ~ HasNext(it) /\ it.i > 1 /\ IsSymbol(it.nodes[it.i - 1], ";")
            THEN Append(statements, Void) ELSE statements, it)

\* After a last semicolon comes nothing, which counts as a statement.
parse_block_contents(it, stop_on_curlied) ==
  Made(parse_statements(it, stop_on_curlied, <<>>), LAMBDA statements :
    CASE Len(statements) = 0 -> Void
      [] Len(statements) = 1 -> statements[1]
      [] OTHER -> Of("consecutor", statements))

-----------------------------------------------------------------------------
(* Expressions (expression_parser.rs).                                     *)

get_precedence(operator) ==
  CASE operator \in {<<"*">>, <<"/">>} -> 5
    [] operator \in {<<"+">>, <<"-">>} -> 4
    [] operator[1] \in {"<", ">", "=", "!"} -> 2
    [] operator \in {<<"and">>, <<"or">>} -> 1
    [] OTHER -> 3

Binary(operator, left, right) ==
  IF operator \in {<<"and">>, <<"or">>} THEN Of(operator[1], <<left, right>>)
  ELSE Node("binary", operator, <<left, right>>)

\* The expression that begins with this operand and has no operator that binds less tightly
\* than the minimum, and the operator after it.
descramble_elements(data, ops, begin, min) ==
  IF begin = Len(data) \/ min = 6 THEN [got |-> data[begin], next |-> begin]
  ELSE LET left == descramble_elements(data, ops, begin, min + 1)
       IN descramble_level(data, ops, left.got, left.next, min)

\* Mutant of descramble_level: an operator takes what is right of it first.
descramble_right(data, ops, left, next, min) ==
  IF next > Len(ops) \/ get_precedence(ops[next]) # min THEN [got |-> left, next |-> next]
  ELSE LET right == descramble_elements(data, ops, next + 1, min)
       IN descramble_level(data, ops, Binary(ops[next], left, right.got), right.next, min)

descramble_level(data, ops, left, next, min) ==
  IF next > Len(ops) THEN [got |-> left, next |-> next]
  ELSE IF get_precedence(ops[next]) # min THEN [got |-> left, next |-> next]
  ELSE LET right == descramble_elements(data, ops, next + 1, min + 1)
       IN descramble_level(data, ops, Binary(ops[next], left, right.got), right.next, min)

\* A lookup's range ends with its name.
RECURSIVE EndsAtName(_)
EndsAtName(tree) ==
  \/ tree.kind = "lookup" /\ tree.kids # <<>>
  \/ tree.kind = "not" /\ EndsAtName(tree.kids[1])

\* Where there is no operator the expression ends, and what is next is its caller's.
parse_elements(it, stop_on_curlied, data, ops) ==
  Then(parse_expression_data_element(it, stop_on_curlied), LAMBDA element, rest :
    LET elements == Append(data, element)
        width == IF Peek(rest, 0).kind = "word" THEN 1 ELSE OperatorWidth(rest)
        next == Past(rest, width)
        ends == at_expression_end(rest, stop_on_curlied)
        touches == PrevEnd(rest) = Peek(rest, 0).s /\ ~ EndsAtName(element)
    IN IF ~ ends /\ touches THEN Bad("NeedWhitespaceAroundBinaryOperator")
       ELSE IF ends \/ width = 0 THEN Good(descramble_elements(elements, ops, 1, 1).got, rest)
       ELSE IF ~ HasNext(next) THEN Bad("BadExpressionEnd")
       ELSE IF PrevEnd(next) = Peek(next, 0).s THEN Bad("NeedWhitespaceAroundBinaryOperator")
       ELSE parse_elements(next, stop_on_curlied, elements, Append(ops, NameOf(rest, width))))

Arguments(it, open) == Pack(it, open, LAMBDA argument : parse_expression(argument, FALSE))

\* Any symbol may be a name.
parse_lookup(it) ==
  LET width == CASE AtSymbols(it, <<"<", "=", ">">>) -> 3
                 [] SymbolIn(Peek(it, 0), {"=", ">", "<", "!"}) /\ IsSymbol(Peek(it, 1), "=")
                      /\ ~ AtSymbols(it, <<"<", "=", ">">>) -> 2
                 [] OTHER -> 1
  IN IF Peek(it, 0).kind \in {"word", "symbol"}
     THEN Good(Leaf("lookup", NameOf(it, width)), Past(it, width)) ELSE None(it)

\* Literals.  A string with expressions in it is an interpolation, and so is an empty one.
parse_literal(it) ==
  LET token == Peek(it, 0)
      Is(kind, name) == Good(Leaf(kind, name), Past(it, 1))
  IN CASE token.kind \in {"int", "double"} -> Is(token.kind, token.name)
       [] token.kind = "string" ->
            IF Len(token.inner) = 1 /\ token.inner[1].kind = "literal" THEN Is("str", token.inner[1].name)
            ELSE Then(Each(token.inner, LAMBDA part :
                        IF part.kind = "literal" THEN Good(Leaf("str", part.name), Nowhere)
                        ELSE parse_expression(Iter(part.inner), FALSE)),
                      LAMBDA parts, rest : Good(Of("interpolate", parts), Past(it, 1)))
       [] AtWord(it, "true") \/ AtWord(it, "false") -> Is("bool", token.name)
       [] OTHER -> None(it)

\* Brackets with something after them other than a dot, which begins a range or a call.  Of
\* those of an array whose size is not known yet, the contents are not looked at.
parse_array(it) ==
  LET typed == Past(it, 1)
      sizer == Iter(Peek(it, 0).inner)
      size == CASE ~ AtSymbols(sizer, <<"#">>) -> Good(Of("runtime", <<>>), sizer)
                [] AtSymbols(sizer, <<"#">>) /\ ~ HasNext(Past(sizer, 1)) -> Good(Of("static", <<>>), sizer)
                [] OTHER -> Made(parse_templex(Past(sizer, 1)), LAMBDA t : Of("static", <<t>>))
  IN IF Peek(it, 0).kind # "[" \/ ~ HasNext(typed) \/ AtSymbols(typed, <<".">>) THEN None(it)
     ELSE Then(size, LAMBDA sized, at :
          Then(IF Peek(typed, 0).kind = "(" THEN Good(Absent, typed) ELSE parse_templex(typed),
               LAMBDA type, begin :
          Made(Else(Arguments(begin, "("), LAMBDA other : Bad("BadArraySpecifier")),
               LAMBDA arguments : Of("construct", <<sized, type>> \o arguments))))

\* The braces of a lambda without parameters are its body.
parse_lambda(it) ==
  LET param == Of("parameter", <<Of("pattern", <<Leaf("local", Peek(it, 0).name), Absent, Absent>>)>>)
      params == CASE Peek(it, 0).kind = "{" -> Good(Absent, it)
                  [] Peek(it, 0).kind = "word" -> Good(Of("params", <<param>>), it)
                  [] OTHER -> Made(Pack(it, "(", LAMBDA p : parse_parameter(p, "lambda")),
                                   LAMBDA ps : Of("params", ps))
      Lambda(begin) ==
        Then(params, LAMBDA ps, at :
        Made(CASE ~ HasNext(begin) -> Fatal
               [] Peek(begin, 0).kind = "{" -> Body(begin, "BadStartOfBlock")
               [] HasNext(begin) /\ Peek(begin, 0).kind # "{" -> parse_expression(begin, FALSE),
             LAMBDA body : Of("lambda", <<ps, body>>)))
  IN CASE Peek(it, 0).kind = "{" -> Lambda(it)
       [] Peek(it, 0).kind \in {"word", "("} /\ IsSymbol(Peek(it, 1), "=") /\ IsSymbol(Peek(it, 2), ">") ->
            IF Apart(Peek(it, 1), Peek(it, 2)) THEN Bad("BadLambdaBegin") ELSE Lambda(Past(it, 3))
       [] OTHER -> None(it)

\* One piece without a comma is an expression in parentheses.
parse_tuple_or_sub_expression(it) ==
  LET pieces == Split(Iter(Peek(it, 0).inner), ",", TRUE)
      used == IF HasNext(Last(pieces)) THEN pieces ELSE Front(pieces)
  IN IF Peek(it, 0).kind # "(" THEN None(it)
     ELSE Then(Each(used, LAMBDA piece : parse_expression(piece, FALSE)), LAMBDA elements, rest :
            Good(Of(IF Len(pieces) = 1 /\ used # <<>> THEN "sub" ELSE "tuple", elements), Past(it, 1)))

parse_compound_atom(it, stop_on_curlied) ==
  LET each == parse_foreach(it)
      mutate == parse_mut_expr(each.it, stop_on_curlied)
      literal == parse_literal(mutate.it)
      array == parse_array(literal.it)
      lambda == parse_lambda(array.it)
      lookup == parse_lookup(lambda.it)
  IN IF each.is # "none" THEN each
     ELSE IF mutate.is # "none" THEN mutate
     ELSE IF literal.is # "none" THEN literal
     ELSE IF array.is # "none" THEN array
     ELSE IF lambda.is # "none" THEN lambda
     ELSE IF lookup.is # "none" THEN lookup
     ELSE Else(parse_tuple_or_sub_expression(lookup.it), LAMBDA at : Bad("BadExpressionBegin"))

\* An atom is asserted to be there.
parse_atom(it, stop_on_curlied) ==
  CASE ~ HasNext(it) -> Fatal
    [] AtWord(it, "break") -> Bad("CantUseBreakInExpression")
    [] AtWord(it, "return") -> Bad("CantUseReturnInExpression")
    [] AtWord(it, "while") -> Bad("CantUseWhileInExpression")
    [] AtWord(it, "_") -> Good(Of("magic", <<>>), Past(it, 1))
    [] OTHER -> parse_compound_atom(it, stop_on_curlied)

-----------------------------------------------------------------------------
(* What may follow an atom.                                                *)

parse_member_name(it) ==
  LET token == Peek(it, 0)
      name == NameOf(it, OperatorWidth(it))
  IN CASE token.kind = "int" -> IF Len(token.name) = 1 THEN Good(token.name, Past(it, 1)) ELSE Bad("BadDot")
       [] token.kind = "word" -> Good(token.name, Past(it, 1))
       [] OTHER -> IF name \in {<<>>, <<"<">>, <<">">>} THEN Bad("BadDot") ELSE Good(name, Past(it, Len(name)))

\* Arguments make a call of it; template arguments need them.
parse_member(it, subject) ==
  Then(parse_member_name(it), LAMBDA name, at :
  Optional(Pack(at, "<", parse_templex), LAMBDA types, begin :
    LET args == IF Peek(at, 0).kind = "<" THEN <<Of("args", types)>> ELSE <<>>
    IN IF Peek(begin, 0).kind = "("
       THEN Made(Arguments(begin, "("), LAMBDA arguments :
                   Of("methodCall", <<subject, Node("lookup", name, args)>> \o arguments))
       ELSE IF args # <<>> THEN Bad("CantTemplateCallMember")
       ELSE Good(Node("dot", name, <<subject>>), begin)))

\* The right side of a range is an atom, without suffixes.
parse_spree_step(it, stop_on_curlied, subject) ==
  CASE AtSymbols(it, <<"&">>) -> Good(Of("borrow", <<subject>>), Past(it, 1))
    [] Peek(it, 0).kind = "<" ->
         Then(Pack(it, "<", parse_templex), LAMBDA types, rest :
           IF subject.kind = "lookup" /\ subject.kids = <<>>
           THEN Good([subject EXCEPT !.kids = <<Of("args", types)>>], rest)
           ELSE Bad("BadTemplateCallee"))
    [] Peek(it, 0).kind = "(" ->
         Made(Arguments(it, "("), LAMBDA arguments : Of("functionCall", <<subject>> \o arguments))
    [] Peek(it, 0).kind = "[" ->
         Made(Arguments(it, "["), LAMBDA arguments : Of("braceCall", <<subject>> \o arguments))
    [] AtSymbols(it, <<".", ".">>) ->
         Made(parse_atom(Past(it, 2), stop_on_curlied), LAMBDA to : Of("range", <<subject, to>>))
    [] AtSymbols(it, <<"*", ".">>) -> parse_member(Past(it, 2), subject)
    [] AtSymbols(it, <<".">>) /\ ~ AtSymbols(it, <<".", ".">>) -> parse_member(Past(it, 1), subject)
    [] OTHER -> None(it)

parse_suffixes(it, stop_on_curlied, subject) ==
  LET step == parse_spree_step(it, stop_on_curlied, subject)
  IN IF ~ HasNext(it) \/ step.is = "none" THEN Good(subject, it)
     ELSE Then(step, LAMBDA tree, rest : parse_suffixes(rest, stop_on_curlied, tree))

parse_atom_and_tight_suffixes(it, stop_on_curlied) ==
  Then(parse_atom(it, stop_on_curlied), LAMBDA atom, rest : parse_suffixes(rest, stop_on_curlied, atom))

\* Without a name, the keyword is gone all the same.
parse_unlet(it) ==
  CASE ~ AtWord(it, "unlet") -> None(it)
    [] AtWord(it, "unlet") /\ Peek(it, 1).kind # "word" -> None(Past(it, 1))
    [] OTHER -> Good(Leaf("unlet", Peek(it, 1).name), Past(it, 2))

parse_prefixed(it, stop_on_curlied) ==
  LET transmigrates == Peek(it, 0).kind = "word" /\ IsSymbol(Peek(it, 1), "'")
      Inner(kind) == Made(parse_expression_data_element(Past(it, 1), stop_on_curlied),
                          LAMBDA inner : Of(kind, <<inner>>))
  IN CASE transmigrates -> Made(parse_atom_and_tight_suffixes(Past(it, 2), stop_on_curlied),
                                LAMBDA inner : Node("transmigrate", Peek(it, 0).name, <<inner>>))
       [] AtSymbols(it, <<"^">>) -> Inner("move")
       [] AtSymbols(it, <<"&">>) -> Inner("borrow")
       [] AtWord(it, "weak") /\ ~ transmigrates -> Inner("weak")
       [] OTHER -> parse_atom_and_tight_suffixes(it, stop_on_curlied)

parse_compound_element(it, stop_on_curlied) ==
  LET block == parse_lone_block(it)
      if == parse_if_ladder(block.it)
      each == parse_foreach(if.it)
      unlet == parse_unlet(each.it)
  IN IF block.is # "none" THEN block
     ELSE IF if.is # "none" THEN if
     ELSE IF each.is # "none" THEN each
     ELSE IF unlet.is # "none" THEN unlet
     ELSE parse_prefixed(unlet.it, stop_on_curlied)

\* An operand is asserted to be there.  The region it is prefixed with is not kept.
parse_expression_data_element(it, stop_on_curlied) ==
  CASE ~ HasNext(it) -> Fatal
    [] AtSymbols(it, <<"'">>) /\ Peek(it, 1).kind = "word" ->
         parse_expression_data_element(Past(it, 2), stop_on_curlied)
    [] AtWord(it, "not") -> Made(parse_expression_data_element(Past(it, 1), stop_on_curlied),
                                 LAMBDA inner : Of("not", <<inner>>))
    [] AtWord(it, "destruct") -> Made(parse_expression(Past(it, 1), stop_on_curlied),
                                      LAMBDA inner : Of("destruct", <<inner>>))
    [] OTHER -> parse_compound_element(it, stop_on_curlied)

-----------------------------------------------------------------------------
(* Functions (parser.rs, templex_parser.rs).                               *)

parse_rune_type(it) ==
  CASE ~ HasNext(it) -> Good(Absent, it)
    [] AtWord(it, "Int") \/ AtWord(it, "Region") \/ AtWord(it, "RefList") ->
         Good(Leaf("type", Peek(it, 0).name), Past(it, 1))
    [] OTHER -> Bad("BadRuneTypeError")

\* A region that the parameter's name touches.
parse_prefixing_region(it) ==
  LET r == parse_region(it)
      next == Peek(r.it, 0)
  IN IF r.is = "good" /\ HasNext(r.it) /\ ~ IsSymbol(next, ":") /\ PrevEnd(r.it) = next.s
     THEN r ELSE None(it)

\* A parameter is a rune or a region, and uses up its piece.
parse_generic_parameter(it) ==
  Optional(parse_prefixing_region(it), LAMBDA prefix, begin :
    LET region == parse_region(begin)
        Imm(at) == IF AtWord(at, "imm") THEN <<Of("imm", <<>>)>> ELSE <<>>
        rune ==
          IF Peek(begin, 0).kind # "word" THEN Bad("BadRuneNameError")
          ELSE Then(parse_rune_type(Past(begin, 1)), LAMBDA type, at :
                 Good(Node("rune", Peek(begin, 0).name, <<prefix, type>> \o Imm(at)), Past(at, Len(Imm(at)))))
        group ==
          LET imm == Imm(region.it)
              at == Past(region.it, Len(imm))
              typed == IF AtSymbols(at, <<":">>) THEN parse_templex(Past(at, 1)) ELSE Good(Absent, at)
          IN IF region.got.name = <<>> THEN Bad("BadRuneNameError")
             ELSE Made(typed, LAMBDA type : Node("groupRune", region.got.name, <<prefix, type>> \o imm))
    IN Then(IF region.is = "none" THEN rune ELSE group, LAMBDA main, at :
       Then(IF AtSymbols(at, <<"=">>) THEN parse_templex(Past(at, 1)) ELSE Good(Absent, at),
            LAMBDA default, rest :
              IF HasNext(rest) THEN Fatal ELSE Good([main EXCEPT !.kids = Append(@, default)], rest))))

\* What follows the inner clause of a `not` is not looked at.
parse_not_mut_group(it) ==
  LET inner == Iter(Peek(it, 0).inner)
  IN IF Peek(it, 0).kind # "(" THEN Bad("BadTypeExpression")
     ELSE IF ~ AtWord(inner, "mut") THEN Bad("BadTypeExpression")
     ELSE Then(parse_group_in_parens(Past(inner, 1)), LAMBDA group, rest : Good(group, Past(it, 1)))

parse_effect_clauses(it, effects) ==
  LET Clause(kind, group) ==
        Then(group, LAMBDA g, rest : parse_effect_clauses(rest, Append(effects, Of(kind, <<g>>))))
  IN CASE AtWord(it, "mut") -> Clause("mut", parse_group_in_parens(Past(it, 1)))
       [] AtWord(it, "not") -> Clause("notMut", parse_not_mut_group(Past(it, 1)))
       [] OTHER -> Good(effects, it)

\* A call of a rule is found by looking ahead, and nothing is looked at after it.
parse_rule_atom(it) ==
  LET named == Peek(it, 0).kind = "word" /\ ~ AtWord(it, "func")
  IN CASE named /\ Peek(it, 1).kind = "(" ->
            Made(Each(Split(Iter(Peek(it, 1).inner), ",", FALSE), parse_rule),
                 LAMBDA args : Node("ruleCall", Peek(it, 0).name, args))
       [] named /\ Peek(it, 1).kind = "word" ->
            Made(parse_rune_type(Past(it, 1)), LAMBDA type : Node("typed", Peek(it, 0).name, <<type>>))
       [] OTHER -> parse_templex(it)

parse_rule(it) ==
  LET equals == EqualsIn(it, {",", "{"})
  IN IF equals = {} THEN parse_rule_atom(it)
     ELSE Then(parse_rule_atom(UpTo(it, Min(equals))), LAMBDA left, at :
          Made(parse_rule_atom(After(it, Min(equals) + 1)), LAMBDA right : Of("equals", <<left, right>>)))

\* parse_body_default_region: the last two tokens before the body.
DefaultRegion(it) ==
  LET last == [it EXCEPT !.i = it.end - 1] IN
  IF it.end >= 2 /\ Peek(last, 0).kind = "word" /\ AtSymbols(Past(last, 1), <<"'">>)
  THEN Peek(last, 0).name ELSE <<>>

\* The return type and the effects, before `where` and the rules.
parse_trailing(it) ==
  LET wheres == KeywordIn(it, "where", {})
      before == IF wheres = {} THEN it ELSE UpTo(it, Min(wheres) - 1)
      rules == IF wheres = {} THEN Good(Absent, it)
               ELSE Made(Each(Split(After(it, Min(wheres)), ",", FALSE), parse_rule),
                         LAMBDA rs : Of("rules", rs))
  IN Then(IF ~ HasNext(before) \/ AtWord(before, "mut") \/ AtWord(before, "not")
          THEN Good(Absent, before) ELSE parse_templex(before), LAMBDA type, at :
     Then(parse_effect_clauses(at, <<>>), LAMBDA effects, rest :
     Made(rules, LAMBDA rs : <<type, Of("effects", effects), rs>>)))

parse_function(function) ==
  LET generics == function.generics
      trailing == Iter(function.trailing)
      region == DefaultRegion(trailing)
      header == IF region = <<>> THEN trailing ELSE UpTo(trailing, trailing.end - 2)
  IN Then(IF generics = NoToken THEN Good(Absent, Nowhere)
          ELSE Made(Each(Split(Iter(generics.inner), ",", FALSE), parse_generic_parameter),
                    LAMBDA gs : Of("generics", gs)), LAMBDA gs, a :
     Then(Each(Split(Iter(function.params.inner), ",", FALSE),
               LAMBDA p : parse_parameter(p, "parameter")), LAMBDA ps, b :
     Then(parse_trailing(header), LAMBDA ts, c :
     Made(IF function.body = NoToken THEN Good(Absent, Nowhere)
          ELSE Made(parse_block_contents(Iter(function.body.inner), FALSE),
                    LAMBDA contents : Node("block", region, <<contents>>)), LAMBDA body :
     Of("function", <<gs, Of("params", ps)>> \o ts \o <<body>>)))))

\* What becomes of a function's text, from its name on.
Read(text) ==
  LET lexed == LexFunction(text)
      parsed == parse_function(lexed.node)
  IN IF lexed.ok THEN [is |-> parsed.is, got |-> parsed.got] ELSE [is |-> "unlexable", got |-> Absent]
=============================================================================
