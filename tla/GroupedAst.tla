----------------------------- MODULE GroupedAst -----------------------------
(***************************************************************************)
(* The grouped body of a function: the tree that groupify_function builds  *)
(* from the typed body and that check_usages walks                         *)
(* (typing/borrow_checker/experimental/grouped_ast.rs, groupify.rs).       *)
(*                                                                         *)
(* A group path is a root - a local, or a group rune of the function's     *)
(* signature - followed by child steps.  ELEM is the only step that leads  *)
(* to something destroyed separately from what holds it (an element of a   *)
(* runtime-sized array); a member is stored inline.  A path with an        *)
(* ellipsis means "somewhere in the territory of the path".                *)
(*                                                                         *)
(* A type is abstracted to the groups it mentions: the layers of a borrow, *)
(* outermost first, and the groups held in the arguments of a citizen.     *)
(***************************************************************************)
EXTENDS Integers, Sequences, SequencesExt

CONSTANTS Locals,   \* the names of locals
          Runes     \* the group runes of the checked function's signature

ELEM == "[]"
NoName == "-"
NoRune == "-"

Path(steps) == [steps |-> steps, ellipsis |-> FALSE]
PathWithin(steps) == [steps |-> steps, ellipsis |-> TRUE]

Value == [layers |-> <<>>, held |-> {}, never |-> FALSE]
Never == [Value EXCEPT !.never = TRUE]
Holding(paths) == [Value EXCEPT !.held = paths]
BorrowOf(paths, type) == [type EXCEPT !.layers = <<paths>> \o @]

IsBorrow(type) == type.layers # <<>>
Referent(type) == [type EXCEPT !.layers = Tail(@)]

(* Every group path a value of the type may point into.                    *)
MentionsOf(type) == UNION Range(type.layers) \union type.held

(* The groups one step below those of a borrow; "..." is kept.             *)
GroupPathChild(paths, step) == {[p EXCEPT !.steps = Append(@, step)] : p \in paths}

-----------------------------------------------------------------------------
(***************************************************************************)
(* Nodes.  reads, use_at and place say what the code finds by peeling a    *)
(* node: the local read through any decays, the range a use of the node is *)
(* reported at, and the local a place expression is rooted in.  churns is  *)
(* what a call itself churns, churns_in what the whole subtree churns.     *)
(***************************************************************************)
Node(op, at, type, kids) ==
  [op |-> op, at |-> at, type |-> type, kids |-> kids,
   reads |-> NoName, use_at |-> at, place |-> NoName, var |-> NoName,
   drops |-> {}, churns |-> <<>>, runes |-> <<>>, mutated |-> {},
   churns_in |-> FoldLeft(LAMBDA churns, kid : churns \o kid.churns_in, <<>>, kids)]

Const(at) == Node("const", at, Value, <<>>)
Arg(type, at) == Node("arg", at, type, <<>>)

(* A local lookup is a reference to the local's slot.                      *)
LocalLookup(x, type, at) ==
  [Node("local", at, BorrowOf({Path(<<x>>)}, type), <<>>)
     EXCEPT !.reads = x, !.var = x, !.place = x]
Unlet(x, type, at) ==
  [Node("unlet", at, type, <<>>) EXCEPT !.reads = x, !.var = x]

Deref(inner, at) ==
  [Node("deref", at, Referent(inner.type), <<inner>>)
     EXCEPT !.reads = inner.reads, !.use_at = inner.use_at, !.place = inner.place]

CopyPrim(inner, at) == Node("copyprim", at, Value, <<inner>>)

(* An element or member place.  The elements of a static-sized array are   *)
(* inline and share its group; a member is looked up under every decay.    *)
Lookup(paths, kids, at) ==
  [Node("lookup", at, BorrowOf(paths, Value), kids) EXCEPT !.place = kids[1].place]
RuntimeSizedArrayLookup(array, index, at) ==
  Lookup(GroupPathChild(Head(array.type.layers), ELEM), <<array, index>>, at)
StaticSizedArrayLookup(array, index, at) ==
  Lookup(Head(array.type.layers), <<array, index>>, at)
MemberLookup(struct, member, at) ==
  Lookup(GroupPathChild(Last(struct.type.layers), member), <<struct>>, at)

(* A call to a function whose signature is known: the paths it churns, the *)
(* rune each parameter's group is named by, the runes its effects mutate.  *)
Call(args, type, paths, runes, mutated, at) ==
  LET own == FoldLeft(LAMBDA churns, p : Append(churns, [path |-> p, at |-> at]), <<>>, paths)
      node == Node("call", at, type, args)
  IN  [node EXCEPT !.churns = own, !.runes = runes, !.mutated = mutated,
                   !.churns_in = own \o @]
OpaqueCall(args, at) == Node("opaque", at, Value, args)

LetNormal(x, init, at) == [Node("let", at, Value, <<init>>) EXCEPT !.var = x]
LetAndLend(x, init, at) ==
  [Node("let", at, BorrowOf({Path(<<x>>)}, init.type), <<init>>) EXCEPT !.var = x]
Restackify(x, init, at) == LetNormal(x, init, at)
Mutate(dest, source, at) == Node("mutate", at, Referent(dest.type), <<dest, source>>)
Discard(inner, at) == Node("discard", at, Value, <<inner>>)
Destroy(inner, xs, at) == [Node("destroy", at, Value, <<inner>>) EXCEPT !.drops = xs]
Cast(inner, at) == Node("forward", at, inner.type, <<inner>>)
Block(inner, at) == Cast(inner, at)
Consume(kids, type, at) == Node("consume", at, type, kids)

Return(inner, at) == Node("return", at, Never, <<inner>>)
Break(at) == Node("break", at, Never, <<>>)
Consecutor(kids, at) ==
  Node("seq", at, IF \E i \in DOMAIN kids : kids[i].type.never THEN Never ELSE Last(kids).type, kids)
If(cond, then, else, at) ==
  Node("if", at, IF then.type.never THEN else.type ELSE then.type, <<cond, then, else>>)
While(body, at) == Node("while", at, Value, <<body>>)
=============================================================================
