---------------------------- MODULE MCCheckUsages ---------------------------
(***************************************************************************)
(* Small functions for the walk of CheckUsages, and its properties against *)
(* the executions of BorrowSemantics.                                      *)
(*                                                                         *)
(* Every function has two arrays a and b, a parameter p borrowed in the    *)
(* group g, e = &a[0], x = &a[0], z = &b[0] and q = &p[0]; statements,     *)
(* picked below, come between this prelude and the final return.          *)
(* A node's position is where its text starts, so that the order of the    *)
(* positions is the order of the program.                                  *)
(***************************************************************************)
EXTENDS CheckUsages

CONSTANTS Plain,    \* straight-line statements, four in a row
          Around,   \* statements before and after a branch or a loop
          Arms,     \* statements of an arm of an if
          Rounds,   \* statements of the body of a loop
          Leaving,  \* statements under an if in the body of a loop
          Few,      \* statements of a branch or loop next to another
          Special   \* statements about temporaries, holders and arguments

MCLocals == {"a", "b", "p", "e", "x", "z", "q", "y", "h", "r"}
MCRunes == {"g"}

S == INSTANCE BorrowSemantics

In(x) == {Path(<<x, ELEM>>)}
TypeOf(x) ==
  CASE x \in {"a", "b"} -> Value
    [] x = "p" -> BorrowOf({Path(<<"g">>)}, Value)
    [] x \in {"e", "x", "r"} -> BorrowOf(In("a"), Value)
    [] x = "z" -> BorrowOf(In("b"), Value)
    [] x = "q" -> BorrowOf(In("g"), Value)
    [] x = "y" -> BorrowOf({PathWithin(<<"a">>)}, Value)
    [] x = "h" -> Holding(In("a"))

Lend(x, at) == LocalLookup(x, TypeOf(x), at)
Read(x, at) == Deref(Lend(x, at), at)
Element(x, at) == RuntimeSizedArrayLookup(IF x = "p" THEN Read(x, at) ELSE Lend(x, at),
                                          Const(at + 1), at)
Observe(x, at) == Call(<<Read(x, at + 1)>>, Value, <<>>, <<NoRune>>, {}, at)
ChurnOf(x, at) ==
  IF x = "p" THEN Call(<<Read(x, at + 1)>>, Value, <<<<"g">>>>, <<"s">>, {"s"}, at)
  ELSE Call(<<Lend(x, at + 1)>>, Value, <<<<x>>>>, <<"s">>, {"s"}, at)
First(x, type, at) == Call(<<Lend(x, at + 1)>>, type, <<>>, <<NoRune>>, {}, at)
Two(l, r, runes, mutated, paths, at) == Call(<<l, r>>, Value, paths, runes, mutated, at)

Statement(s, k) ==
  CASE s = "churn a" -> ChurnOf("a", k)
    [] s = "churn b" -> ChurnOf("b", k)
    [] s = "churn p" -> ChurnOf("p", k)
    [] s = "observe e" -> Observe("e", k)
    [] s = "observe x" -> Observe("x", k)
    [] s = "observe z" -> Observe("z", k)
    [] s = "observe q" -> Observe("q", k)
    [] s = "set x = e" -> Discard(Mutate(Lend("x", k), Read("e", k + 1), k), k)
    [] s = "set x = &a[0]" -> Discard(Mutate(Lend("x", k), Element("a", k + 1), k), k)
    [] s = "set e.hp = 1" -> Discard(Mutate(MemberLookup(Read("e", k), "hp", k), Const(k + 1), k), k)
    [] s = "set e.hp = churn a" ->
         Discard(Mutate(MemberLookup(Read("e", k), "hp", k), ChurnOf("a", k + 1), k), k)
    [] s = "e.hp" -> Discard(CopyPrim(MemberLookup(Read("e", k), "hp", k), k), k)
    [] s = "*e" -> Discard(Deref(Read("e", k), k), k)
    [] s = "e" -> Discard(Read("e", k), k)
    [] s = "return e" -> Return(Read("e", k + 1), k)
    [] s = "nothing" -> Const(k)
    [] s = "break" -> Block(Break(k), k)
    [] s = "use(first a, churn a)" ->
         Two(First("a", TypeOf("e"), k + 1), ChurnOf("a", k + 3), <<NoRune, NoRune>>, {}, <<>>, k)
    [] s = "use(churn a, first a)" ->
         Two(ChurnOf("a", k + 1), First("a", TypeOf("e"), k + 3), <<NoRune, NoRune>>, {}, <<>>, k)
    [] s = "first a" -> Discard(First("a", TypeOf("e"), k), k)
    [] s = "extern(e, churn b)" -> OpaqueCall(<<Read("e", k + 1), ChurnOf("b", k + 2)>>, k)
    [] s = "e[churn a]" -> Discard(RuntimeSizedArrayLookup(Read("e", k), ChurnOf("a", k + 1), k), k)
    [] s = "grow(a, e)" -> Two(Lend("a", k + 1), Read("e", k + 2), <<"s", "t">>, {"s"}, <<<<"a">>>>, k)
    [] s = "heal(a, e)" -> Two(Lend("a", k + 1), Read("e", k + 2), <<"s", "s">>, {"s"}, <<<<"a">>>>, k)
    [] s = "take(a, ^a)" ->
         Two(Lend("a", k + 1), Unlet("a", Value, k + 2), <<NoRune, NoRune>>, {}, <<>>, k)
    [] s = "y = first a..." -> LetNormal("y", First("a", TypeOf("y"), k + 1), k)
    [] s = "observe ^y" -> Call(<<Unlet("y", TypeOf("y"), k + 1)>>, Value, <<>>, <<NoRune>>, {}, k)
    [] s = "h = Holder(e)" -> LetNormal("h", Consume(<<Read("e", k + 1)>>, TypeOf("h"), k), k)
    [] s = "[r] = h" -> Destroy(Unlet("h", TypeOf("h"), k + 1), {"r"}, k)
    [] s = "observe r" -> Observe("r", k)
    [] s = "observe(if first a else e)" ->
         Call(<<If(Const(k + 1), Element("a", k + 2), Cast(Read("e", k + 4), k + 4), k + 1)>>,
              Value, <<>>, <<NoRune>>, {}, k)

Prelude == <<
  LetNormal("a", Consume(<<>>, Value, 1), 1),
  LetNormal("b", Consume(<<>>, Value, 2), 2),
  LetNormal("p", Arg(TypeOf("p"), 3), 3),
  LetNormal("e", Element("a", 5), 4),
  LetNormal("x", Element("a", 8), 7),
  LetAndLend("z", Element("b", 11), 10),
  Restackify("q", Element("p", 14), 13) >>

(* A function is named by its slots, of twenty positions each, and by what *)
(* it declares mut.  A slot is a statement, an if with two arms, a loop    *)
(* with two statements, the second possibly under an if, or a loop around  *)
(* a loop.  A while lowers to a loop that breaks unless its condition      *)
(* holds.                                                                  *)
If1(then, else, k) == If(Const(k), Statement(then, k + 1), Statement(else, k + 7), k)
While1(statements, k) ==
  While(Block(Consecutor(<<If(Const(k), Const(k + 1), Block(Break(k + 1), k + 1), k)>>
                         \o statements, k), k), k)
Slot(slot, k) ==
  CASE slot[1] = "do" -> Statement(slot[2], k)
    [] slot[1] = "if" -> If1(slot[2], slot[3], k)
    [] slot[1] = "while" -> While1(<<Statement(slot[2], k + 2), Statement(slot[3], k + 8)>>, k)
    [] slot[1] = "while if" ->
         While1(<<Statement(slot[2], k + 2), If1(slot[3], "nothing", k + 8)>>, k)
    [] slot[1] = "while while" ->
         While1(<<Statement(slot[2], k + 2), While1(<<Statement(slot[3], k + 10)>>, k + 8)>>, k)

Do(names) == {<<"do", s>> : s \in names}
Control ==
  {"if"} \X Arms \X (Arms \ {"return e"}) \union {"while", "while while"} \X Rounds \X Rounds
  \union {"while if"} \X Rounds \X Leaving

Pairable == {c \in Control : c[2] \in Few /\ c[3] \in Few}

Functions(slots) == [slots : slots, declared : {{}}]
MCPrograms ==
  Functions([1..4 -> Do(Plain)])
  \union Functions(Do(Around) \X Control \X Do(Around))
  \union Functions(Do(Around) \X Do(Around) \X Control)
  \union Functions(Pairable \X Pairable \X Do(Around))
  \union Functions(Do(Around) \X Do(Special) \X Do(Around))
  \union Functions({<<"do", "y = first a...">>} \X Do(Around) \X {<<"do", "observe ^y">>})
  \union Functions({<<"do", "h = Holder(e)">>} \X Do(Around) \X {<<"do", "[r] = h">>} \X
                   Do(Around) \X {<<"do", "observe r">>})
  \union [slots : Do(Around) \X Do({"churn p"}) \X Do(Around \union {"observe q"}),
          declared : {{}, {<<"g">>}, {<<"g", ELEM>>}}]

Statements(f) == [i \in DOMAIN f.slots |-> Slot(f.slots[i], 20 * i)]
MCBody(f) == Block(Consecutor(Prelude \o Statements(f) \o <<Return(Const(141), 140)>>, 0), 0)
MCDeclared(f) == f.declared

-----------------------------------------------------------------------------
UseReports == {i \in DOMAIN errors : errors[i].kind \in {"UseAfterChurn", "UseAfterChurnTemporary"}}

(* A function the walk accepts has no execution that uses a reference to   *)
(* something a churn - its own or, inside a call, its callee's - destroyed *)
(* (check_usages returning Ok).                                            *)
AcceptedIsSound == finished /\ errors = <<>> => S!StaleUses(Body(program)) = {}

(* A use after churn the walk reports happens: some execution uses there a *)
(* value that the churn named by the report destroyed.                     *)
ReportsAreReal ==
  finished => LET stale == S!StaleUses(Body(program))
              IN  \A i \in UseReports : <<errors[i].at, errors[i].churned_at>> \in stale

(* Every pending use is traced to the birth of its value: when the walk    *)
(* has reached the start of the function, nothing is pending.              *)
BirthsAreFound == agenda = <<>> => pending = <<>>

(* What an accepted function churns of its caller's groups is in the mut   *)
(* effects its signature declares, which is all its callers look at.       *)
ChurnsAreDeclared ==
  finished /\ errors = <<>> =>
    \A t \in S!Executions(Body(program)) : \A c \in t.churned :
      IsParamRooted(c) => \E d \in Declared(program) : IsPrefix(d, c)
=============================================================================
