------------------------------- MODULE Lexer --------------------------------
(***************************************************************************)
(* What the lexer makes of a text (lexing/lexer.rs, lexing_iterator.rs):   *)
(* a scramble, which is a list of words, numbers, strings and symbols with *)
(* everything between two brackets as one element, a scramble again.       *)
(*                                                                         *)
(* A text is a sequence of characters, except that an identifier or a run  *)
(* of digits is one item, so no two of those stand next to each other; the *)
(* digits before an integer's suffix do.  `<<` and `>>` stand for the      *)
(* chevrons of a comment.  No letter follows a float, and no escape of a   *)
(* string is a unicode one.                                                *)
(***************************************************************************)
EXTENDS Naturals, Sequences, SequencesExt, FiniteSetsExt

Spaces == {" ", "\n"}
DigitRuns == {"0", "3", "7"}
BitWidths == {"i32", "i64"}
Closing == [open \in {"(", "[", "{", "<"} |->
              CASE open = "(" -> ")" [] open = "[" -> "]" [] open = "{" -> "}" [] OTHER -> ">"]
Symbols == {"(", ")", "[", "]", "{", "}", "<", ">", "+", "-", "*", "/", "=", "!", "&", "^",
            "'", ".", ",", ";", ":", "#", "\"", "\\", "<<", ">>"}
IsIdentifier(item) == item \notin Symbols \cup Spaces \cup DigitRuns \cup {"end"}

\* What is there is read from this item on, up to the one before that.
Token(kind, name, s, e, inner) == [kind |-> kind, name |-> name, s |-> s, e |-> e, inner |-> inner]
Lexed(node, at) == [ok |-> TRUE, node |-> node, at |-> at]
LexError == [ok |-> FALSE, at |-> 0]

At(text, i) == IF i \in DOMAIN text THEN text[i] ELSE "end"

\* skip_to_past
PastNext(text, i, needle) ==
  LET there == { j \in i..Len(text) : text[j] = needle }
  IN IF there = {} THEN Len(text) + 1 ELSE Min(there) + 1

\* consume_comments_and_whitespace
RECURSIVE Skip(_, _)
Skip(text, i) ==
  CASE At(text, i) \in Spaces -> Skip(text, i + 1)
    [] At(text, i) = "/" /\ At(text, i + 1) = "/" -> Skip(text, PastNext(text, i, "\n"))
    [] At(text, i) = "<<" -> Skip(text, PastNext(text, i, ">>"))
    [] OTHER -> i

\* angle_is_open_or_close: a comparison is part of an arrow, `<=` or `>=`, or stands alone.
AngleIsBracket(text, i) ==
  /\ At(text, i) \in {"<", ">"}
  /\ At(text, i + 1) # "="
  /\ ~ (At(text, i) = ">" /\ At(text, i - 1) = "=")
  /\ ~ (At(text, i - 1) \in Spaces /\ At(text, i + 1) \in Spaces)

\* Mutant of AngleIsBracket: a space on one side makes a comparison.
AngleTouches(text, i) ==
  /\ At(text, i) \in {"<", ">"}
  /\ At(text, i + 1) # "="
  /\ ~ (At(text, i) = ">" /\ At(text, i - 1) = "=")
  /\ At(text, i - 1) \notin Spaces /\ At(text, i + 1) \notin Spaces

\* A header is lexed up to its body or its semicolon.
AtEnd(text, i, stops) ==
  \/ At(text, i) \in {"end", ")", "}", "]"} \cup stops
  \/ At(text, i) = ">" /\ AngleIsBracket(text, i)

\* A minus belongs to the digits after it, but not to those of a name or before a range.
LexNumber(text, i) ==
  LET digits == IF At(text, i) = "-" THEN i + 1 ELSE i
      after == digits + 1
      Integer(name, at) == Lexed(Token("int", name, i, at, <<>>), at)
  IN CASE At(text, i - 1) = "." \/ (At(text, after) = "." /\ At(text, after + 1) = ".") ->
            Integer(<<text[digits]>>, after)
       [] At(text, after) = "." ->
            LET at == IF At(text, after + 1) \in DigitRuns THEN after + 2 ELSE after + 1
            IN Lexed(Token("double", SubSeq(text, i, at - 1), i, at, <<>>), at)
       [] At(text, after) \in BitWidths -> Integer(SubSeq(text, i, after), after + 1)
       [] OTHER -> Integer(SubSeq(text, i, digits), after)

RECURSIVE LexNodes(_, _, _, _, _), LexString(_, _, _, _, _, _)

\* lex_scramble
LexScramble(text, i, stops) == LexNodes(text, i, Skip(text, i), stops, <<>>)

\* lex_parend, lex_curlied, lex_squared, lex_angled
LexBracket(text, i) ==
  LET inside == LexScramble(text, Skip(text, i + 1), {})
      close == Skip(text, inside.at)
  IN IF inside.ok /\ At(text, close) = Closing[text[i]]
     THEN Lexed(Token(text[i], <<>>, i, close + 1, inside.node), close + 1)
     ELSE LexError

LexNode(text, i) ==
  CASE At(text, i) \in {"(", "[", "{"} \/ (At(text, i) = "<" /\ AngleIsBracket(text, i)) ->
         LexBracket(text, i)
    [] At(text, i) \in DigitRuns \/ (At(text, i) = "-" /\ At(text, i + 1) \in DigitRuns) ->
         LexNumber(text, i)
    [] At(text, i) = "\"" ->
         LET width == IF At(text, i + 1) = "\"" /\ At(text, i + 2) = "\"" THEN 3 ELSE 1
         IN LexString(text, i, width, i + width, <<>>, <<>>)
    [] IsIdentifier(At(text, i)) -> Lexed(Token("word", <<text[i]>>, i, i + 1, <<>>), i + 1)
    [] OTHER -> Lexed(Token("symbol", <<text[i]>>, i, i + 1, <<>>), i + 1)

LexNodes(text, begin, i, stops, nodes) ==
  IF AtEnd(text, i, stops)
  THEN Lexed([nodes |-> nodes, s |-> begin, e |-> i], i)
  ELSE LET node == LexNode(text, i)
       IN IF ~ node.ok THEN node
          ELSE LexNodes(text, begin, Skip(text, node.at), stops, Append(nodes, node.node))

\* The parts between the quotes are literals and, in braces, scrambles.  The end of the
\* text ends a string as a quote does.  A brace before the end of a line is a literal.
LexString(text, begin, width, i, parts, literal) ==
  LET Flushed == IF literal = <<>> THEN parts
                 ELSE Append(parts, Token("literal", literal, begin, i, <<>>))
      Continue(at, item) == LexString(text, begin, width, at, parts, Append(literal, item))
  IN CASE i > Len(text) -> Lexed(Token("string", <<>>, begin, i, Flushed), i)
       [] i <= Len(text) /\ \A k \in 0..width - 1 : At(text, i + k) = "\"" ->
            Lexed(Token("string", <<>>, begin, i + width, Flushed), i + width)
       [] At(text, i) = "{" /\ At(text, i + 1) # "\n" ->
            LET continued == At(text, i + 1) = "\\" /\ At(text, i + 2) = "\n"
                inside == LexScramble(text, IF continued THEN i + 3 ELSE i + 1, {})
            IN IF inside.ok /\ At(text, inside.at) = "}"
               THEN LexString(text, begin, width, inside.at + 1,
                              Append(Flushed, Token("expr", <<>>, i, inside.at + 1, inside.node)), <<>>)
               ELSE LexError
       [] At(text, i) = "\\" -> Continue(i + 2, At(text, i + 1))
       [] OTHER -> Continue(i + 1, text[i])

NoToken == Token("none", <<>>, 0, 0, <<>>)

\* lex_function, from the name on: generic parameters, parameters, the rest of the header
\* and a body.
LexFunction(text) ==
  LET generics == IF At(text, 1) = "<" /\ AngleIsBracket(text, 1) THEN LexBracket(text, 1)
                  ELSE Lexed(NoToken, 1)
      begin == Skip(text, generics.at)
      params == LexBracket(text, begin)
      trailing == LexScramble(text, Skip(text, params.at), {"{", ";"})
      end == trailing.at
      body == CASE At(text, end) = ";" -> Lexed(NoToken, end + 1)
                [] At(text, end) = "{" -> LexBracket(text, end)
                [] OTHER -> LexError
  IN IF /\ generics.ok
        /\ At(text, begin) = "(" /\ params.ok
        /\ body.ok /\ Skip(text, body.at) > Len(text)
     THEN Lexed([generics |-> generics.node, params |-> params.node,
                 trailing |-> trailing.node, body |-> body.node], body.at)
     ELSE LexError
=============================================================================
