---------------------------- MODULE VivemMachine ----------------------------
(***************************************************************************)
(* The TestVM's expression walk over the heap (src/testvm/                 *)
(* expression_vivem.rs, function_vivem.rs, call.rs, vivem.rs).             *)
(*                                                                         *)
(* execute_node evaluates the operands of an expression, left to right,    *)
(* and then performs the expression itself on their results.  An action    *)
(* below is that last part: it takes its operands from the end of the      *)
(* current frame's "registers", the references the interpreter holds in    *)
(* its own variables, and leaves its result there.  The interpreted        *)
(* program is any well-typed one: the next expression is chosen freely     *)
(* among those whose operands have the right static types.                 *)
(***************************************************************************)
EXTENDS VivemHeap

CONSTANTS
    Programs,       \* the kinds of programs that are run, see below
    LocalType,      \* LocalType[x]: the declared type of local x
    Functions       \* Functions[f]: its [params, result]; "main" is one

VARIABLES
    program,        \* the program that runs, a member of Programs
    heap,           \* HeapV.objects_by_id, with the way the program ended
    frames          \* call_id_stack: innermost call last, none once main is done

vars == <<program, heap, frames>>

\* What a program is written with, and how far it is followed.
Expressions == program.expressions      \* the expressions in it
Locals == program.locals                \* its locals
LookedUp == program.lookedUp            \* those it borrows; it only moves the others
Values == program.values                \* the primitive values it computes
MaxAllocations == program.maxAllocations  \* bound on the objects it allocates
MaxRegisters == program.maxRegisters    \* bound on the operands in flight in one call
MaxDepth == program.maxDepth            \* bound on the calls in progress

Here == Len(frames)                     \* the call id, one call per depth
NewFrame(f, args) == [function |-> f, args |-> args, locals |-> <<>>, registers |-> <<>>]
Frame == IF frames = <<>> THEN NewFrame("main", <<>>) ELSE frames[Here]
Regs == Frame.registers

\* The n-th operand counted from the end.
Operand(n) == Regs[Len(Regs) - n + 1]
Entry(ref, type) == [ref |-> ref, type |-> type]

\* The program still runs, contains this expression, and its operands, the last
\* of which is on top, have these types.
Operands(expression, types) ==
    /\ frames # <<>>
    /\ heap.fault = "none"
    /\ expression \in Expressions
    /\ Len(Regs) >= Len(types)
    /\ \A i \in DOMAIN types : Operand(Len(types) - i + 1).type = types[i]

TopIs(expression, Test(_)) ==
    /\ Operands(expression, <<>>)
    /\ Regs # <<>>
    /\ Test(Operand(1).type)

Room(n) == heap.next_id + n <= MaxAllocations + 1

Push(n, entries) == SubSeq(Regs, 1, Len(Regs) - n) \o entries

\* n operands are used up, the results are left, the call's locals become f.
Become(h, n, results, locals) ==
    /\ Len(Push(n, results)) <= MaxRegisters
    /\ heap' = h
    /\ frames' = [frames EXCEPT ![Here].registers = Push(n, results),
                                ![Here].locals = locals]
    /\ UNCHANGED program

Produce(h, n, results) == Become(h, n, results, Frame.locals)

Hold(h, ref) == increment_ref_count(h, Register(Here), ref)
Release(h, ref) == decrement_ref_count(h, Register(Here), ref)
Discarded(h, entry) == discard(h, Here, entry.type, entry.ref)

ReleaseAll(h, entries) == FoldLeft(LAMBDA g, e : Release(g, e.ref), h, entries)
Top(n) == SubSeq(Regs, Len(Regs) - n + 1, Len(Regs))
RefsOf(entries) == [i \in DOMAIN entries |-> entries[i].ref]

\* transmute: the same object, seen as another type.
As(ref, type) == [ref EXCEPT !.own = outer_ownership(type)]
Borrow(ref, type) == Entry(As(ref, Wrap("Borrow", type)), Wrap("Borrow", type))

(***************************************************************************)
(* Who holds what: every reference a live part of the program keeps, with  *)
(* its static type.  "at" tells the registers of one call apart.           *)
(***************************************************************************)
Holding(from, at, ref, type) == [from |-> from, at |-> at, ref |-> ref, type |-> type]

TypeOfSlot(id, i) ==
    LET kind == heap.objects[id].kind IN
    IF kind \in StructKinds THEN Members[kind][i] ELSE Element[kind]

Holdings ==
    UNION {
      {Holding(Variable(d, x), 0, frames[d].locals[x], LocalType[x]) :
          x \in DOMAIN frames[d].locals}
      \cup {Holding(Argument(d, i), 0, frames[d].args[i],
                    Functions[frames[d].function].params[i]) : i \in DOMAIN frames[d].args}
      \cup {Holding(Register(d), i, frames[d].registers[i].ref, frames[d].registers[i].type) :
                i \in DOMAIN frames[d].registers} : d \in DOMAIN frames}
    \cup UNION {
      {Holding(Slot(id, i), 0, heap.objects[id].refs[i], TypeOfSlot(id, i)) :
          i \in DOMAIN heap.objects[id].refs} : id \in DOMAIN heap.objects}

\* The borrow checker's promise to the VM: an owner is not given up while a
\* borrow of it is alive.
Unborrowed(entry) ==
    entry.type.wraps = <<>> =>
      \A b \in Holdings : b.ref.num = entry.ref.num => outer_ownership(b.type) # "Borrow"

(***************************************************************************)
(* Values and calculation                                                  *)
(***************************************************************************)
make_primitive(h, v) == Hold(add(h, Prim, v, <<>>), Owned(h.next_id))

ConstantInt ==
    \E v \in Values :
      /\ Operands("ConstantInt", <<>>) /\ Room(1)
      /\ Produce(make_primitive(heap, v), 0, <<Entry(Owned(heap.next_id), Bare(Prim))>>)

\* An extern may not touch reference counts: its result is allocated and held,
\* and its arguments are dropped after it.
ExternFunctionCall ==
    \E v \in Values :
      /\ Operands("ExternFunctionCall", <<Bare(Prim), Bare(Prim)>>) /\ Room(1)
      /\ Unborrowed(Operand(1)) /\ Unborrowed(Operand(2))
      /\ Produce(Discarded(Discarded(make_primitive(heap, v), Operand(2)), Operand(1)),
                 2, <<Entry(Owned(heap.next_id), Bare(Prim))>>)

\* The result of a copy is the reference to the original.
CopyPrim ==
    /\ Operands("CopyPrim", <<Wrap("Borrow", Bare(Prim))>>)
    /\ Produce(heap, 1, <<Entry(Operand(1).ref, Bare(Prim))>>)

Discard ==
    /\ TopIs("Discard", LAMBDA t : t.wraps # <<>> \/ IsPrim(t))
    /\ Unborrowed(Operand(1))
    /\ Produce(Discarded(heap, Operand(1)), 1, <<>>)

(***************************************************************************)
(* Locals                                                                  *)
(***************************************************************************)
add_local(h, x, ref) ==
    increment_ref_count(check_reference(h, LocalType[x], ref), Variable(Here, x), ref)

remove_local(h, x, ref) ==
    decrement_ref_count(check_reference(h, LocalType[x], ref), Variable(Here, x), ref)

LetNormal ==
    \E x \in Locals \ DOMAIN Frame.locals :
      /\ Operands("LetNormal", <<LocalType[x]>>)
      /\ Become(Discarded(add_local(heap, x, Operand(1).ref), Operand(1)), 1, <<>>,
                Frame.locals @@ (x :> Operand(1).ref))

LetAndLend ==
    \E x \in LookedUp \ DOMAIN Frame.locals :
      LET lent == Borrow(Operand(1).ref, LocalType[x]) IN
      /\ Operands("LetAndLend", <<LocalType[x]>>)
      /\ Become(Hold(Discarded(add_local(heap, x, Operand(1).ref), Operand(1)), lent.ref),
                1, <<lent>>, Frame.locals @@ (x :> Operand(1).ref))

\* The local is moved into a register.
Unlet ==
    /\ Operands("Unlet", <<>>)
    /\ \E x \in DOMAIN Frame.locals :
         LET ref == Frame.locals[x] IN
         Become(remove_local(Hold(heap, ref), x, ref), 0, <<Entry(ref, LocalType[x])>>,
                RestrictDomain(Frame.locals, LAMBDA y : y # x))

\* The result is a borrow of the local's storage, hence of its object.
LocalLookup ==
    /\ Operands("LocalLookup", <<>>)
    /\ \E x \in DOMAIN Frame.locals \cap LookedUp :
         LET lent == Borrow(Frame.locals[x], LocalType[x]) IN
         Produce(Hold(check_reference(heap, LocalType[x], Frame.locals[x]), lent.ref), 0, <<lent>>)

\* Peels one wrap and moves the register's count to the peeled strength.
Deref ==
    /\ TopIs("Deref", LAMBDA t : Len(t.wraps) = 2)
    /\ LET peeled == As(Operand(1).ref, Peel(Operand(1).type)) IN
       Produce(Hold(Release(heap, Operand(1).ref), peeled), 1,
               <<Entry(peeled, Peel(Operand(1).type))>>)

(***************************************************************************)
(* Structs                                                                 *)
(***************************************************************************)
Construct ==
    \E s \in StructKinds :
      LET n == Len(Members[s]) IN
      /\ Operands("Construct", Members[s]) /\ Room(1)
      /\ Produce(Hold(new_aggregate(ReleaseAll(heap, Top(n)), s, RefsOf(Top(n))),
                      Owned(heap.next_id)),
                 n, <<Entry(Owned(heap.next_id), Bare(s))>>)

BorrowOf(kinds, t) == t.wraps = <<"Borrow">> /\ t.kind \in kinds

\* dereference, then get_reference_from_struct or _array: the container is live,
\* and so is what it holds there, which is lent.
Lend(container, ref, type) ==
    LET dereferenced == Checked(heap, contains_live_object(heap, container.num), heap) IN
    Hold(check_reference(dereferenced, type, ref), Borrow(ref, type).ref)

MemberLookup ==
    /\ TopIs("MemberLookup", LAMBDA t : BorrowOf(StructKinds, t))
    /\ \E i \in DOMAIN Members[Operand(1).type.kind] :
         LET type == Members[Operand(1).type.kind][i]
             member == heap.objects[Operand(1).ref.num].refs[i]
         IN  Produce(Discarded(Lend(Operand(1).ref, member, type), Operand(1)),
                     1, <<Borrow(member, type)>>)

\* Mutant of Destroy: the count is checked before the operand's own register
\* is released.
DestroyCheckingFirst ==
    /\ TopIs("Destroy", IsInline)
    /\ heap.objects[Operand(1).ref.num].strong # EmptyBag
    /\ Become(Faulted(heap, "constraint"), 1, <<>>, Frame.locals)

\* Destroy moves the members into locals of the member types.
Destroy ==
    /\ TopIs("Destroy", IsInline)
    /\ LET ref == Operand(1).ref
           types == Members[Operand(1).type.kind]
           released == Release(heap, ref)
           refs == heap.objects[ref.num].refs
       IN  \E xs \in [DOMAIN types -> Locals \ DOMAIN Frame.locals] :
             /\ IsInjective(xs)
             /\ \A i \in DOMAIN types : LocalType[xs[i]] = types[i]
             /\ Become(
                  IF released.objects[ref.num].strong # EmptyBag
                  THEN Faulted(released, "constraint")
                  ELSE FoldLeftDomain(LAMBDA g, i : add_local(g, xs[i], refs[i]),
                                      destructure(released, ref), refs),
                  1, <<>>,
                  Frame.locals @@ [x \in Range(xs) |-> refs[CHOOSE i \in DOMAIN xs : xs[i] = x]])

(***************************************************************************)
(* Mutate: the displaced value is the result                               *)
(***************************************************************************)

MutateLocal ==
    \E x \in DOMAIN Frame.locals :
      LET type == LocalType[x]
          old == Frame.locals[x]
          source == Operand(1)
          checked == check_reference(heap, type, source.ref)
          written == IF IsInline(type)
                     THEN overwrite_struct_in_place(checked, old, source.ref)
                     ELSE increment_ref_count(
                              decrement_ref_count(checked, Variable(Here, x), old),
                              Variable(Here, x), source.ref)
          displaced == Displaced(heap, type, old)
      IN  /\ Operands("Mutate", <<type>>) /\ Room(1)
          /\ Unborrowed(source)
          /\ Become(Discarded(Hold(written, displaced), source),
                    1, <<Entry(displaced, type)>>,
                    IF IsInline(type) THEN Frame.locals
                    ELSE [Frame.locals EXCEPT ![x] = source.ref])

\* A member or an element of the borrowed object below the new value.
MutateSlot ==
    /\ Operands("Mutate", <<>>) /\ Len(Regs) >= 2 /\ Room(1) /\ Unborrowed(Operand(1))
    /\ LET owner == Operand(2)
           source == Operand(1)
       IN  /\ BorrowOf(StructKinds \cup ArrayKinds, owner.type)
           /\ \E i \in DOMAIN heap.objects[owner.ref.num].refs :
                LET kind == owner.type.kind
                    type == IF kind \in StructKinds THEN Members[kind][i] ELSE Element[kind]
                    displaced == Displaced(heap, type, heap.objects[owner.ref.num].refs[i])
                    written == Hold(mutate_slot(heap, owner.ref.num, i, type, source.ref), displaced)
                IN  /\ source.type = type
                    /\ Produce(
                         IF kind \in StructKinds
                         THEN Discarded(Discarded(written, owner), source)
                         ELSE Discarded(Discarded(written, source), owner),
                         2, <<Entry(displaced, type)>>)

\* Through a borrow: a struct is overwritten in place, a primitive's allocation
\* takes the new value and a fresh one the old.
MutateDeref ==
    /\ Operands("MutateDeref", <<>>) /\ Len(Regs) >= 2 /\ Room(1) /\ Unborrowed(Operand(1))
    /\ LET target == Operand(2)
           source == Operand(1)
           type == source.type
           fresh == Owned(heap.next_id)
           written ==
             IF IsInline(type) THEN overwrite_struct_in_place(heap, target.ref, source.ref)
             ELSE [add(heap, Prim, heap.objects[target.ref.num].value, <<>>)
                     EXCEPT !.objects[target.ref.num].value = heap.objects[source.ref.num].value]
       IN  /\ IsInline(type) \/ IsPrim(type)
           /\ target.type = Wrap("Borrow", type)
           /\ Produce(Discarded(Discarded(Hold(written, fresh), source), target),
                      2, <<Entry(fresh, type)>>)

(***************************************************************************)
(* Arrays                                                                  *)
(***************************************************************************)
NewRuntimeSizedArray ==
    \E a \in ArrayKinds :
      /\ Operands("Array", <<Bare(Prim)>>) /\ Room(1) /\ Unborrowed(Operand(1))
      /\ Produce(Discarded(Hold(add(heap, a, 0, <<>>), Owned(heap.next_id)), Operand(1)),
                 1, <<Entry(Owned(heap.next_id), Bare(a))>>)

PushRuntimeSizedArray ==
    \E a \in ArrayKinds :
      /\ Operands("Array", <<Wrap("Borrow", Bare(a)), Element[a]>>)
      /\ Len(heap.objects[Operand(2).ref.num].refs) < Capacity
      /\ Produce(Discarded(initialize_array_element(Release(heap, Operand(1).ref),
                                                    Operand(2).ref, Operand(1).ref),
                           Operand(2)), 2, <<>>)

PopRuntimeSizedArray ==
    \E a \in ArrayKinds :
      LET array == Operand(1)
          element == Last(heap.objects[array.ref.num].refs)
      IN  /\ Operands("Array", <<Wrap("Borrow", Bare(a))>>)
          /\ heap.objects[array.ref.num].refs # <<>>
          /\ Produce(Discarded(Hold(deinitialize_array_element(heap, array.ref), element), array),
                     1, <<Entry(element, Element[a])>>)

ArrayLookup ==
    \E a \in ArrayKinds :
      /\ Operands("Array", <<Wrap("Borrow", Bare(a))>>)
      /\ \E i \in DOMAIN heap.objects[Operand(1).ref.num].refs :
           LET element == heap.objects[Operand(1).ref.num].refs[i] IN
           Produce(Discarded(Lend(Operand(1).ref, element, Element[a]), Operand(1)),
                   1, <<Borrow(element, Element[a])>>)

\* Only an empty array that nothing else refers to may be destroyed.
DestroyRuntimeSizedArray ==
    \E a \in ArrayKinds :
      LET ref == Operand(1).ref
          released == Release(heap, ref)
      IN  /\ Operands("Array", <<Bare(a)>>)
          /\ heap.objects[ref.num].refs = <<>>
          /\ Produce(
               IF get_total_ref_count(released, ref) # 0 THEN Faulted(released, "constraint")
               ELSE deallocate_if_no_weak_refs(zero(released, ref), ref), 1, <<>>)

(***************************************************************************)
(* Weak references                                                         *)
(***************************************************************************)
BorrowToWeak ==
    /\ TopIs("Weak", LAMBDA t : BorrowOf(StructKinds, t))
    /\ LET type == Wrap("Weak", Peel(Operand(1).type))
           weak == As(Operand(1).ref, type)
       IN  Produce(Discarded(Hold(heap, weak), Operand(1)), 1, <<Entry(weak, type)>>)

\* The lock hands a borrow of a live object to the Some constructor; for a dead
\* object it drops the weak reference and calls the None constructor.  The
\* option's own allocation is left out: its payload is what the program goes on
\* to use.
LockWeak ==
    /\ TopIs("Weak", LAMBDA t : t.wraps = <<"Weak">>)
    /\ LET weak == Operand(1)
           type == Wrap("Borrow", Peel(weak.type))
           locked == As(weak.ref, type)
       IN  IF contains_live_object(heap, weak.ref.num)
           THEN Produce(Hold(Release(heap, weak.ref), locked), 1, <<Entry(locked, type)>>)
           ELSE Produce(Discarded(heap, weak), 1, <<>>)

(***************************************************************************)
(* Calls                                                                   *)
(***************************************************************************)
\* execute_function: the arguments leave the caller's registers and are held by
\* the new frame until its body takes them.
FunctionCall ==
    \E f \in DOMAIN Functions \ {"main"} :
      LET n == Len(Functions[f].params)
          args == Top(n)
          called == FoldLeftDomain(
              LAMBDA g, i : increment_ref_count(g, Argument(Here + 1, i), args[i].ref),
              ReleaseAll(heap, args), args)
      IN  /\ Operands("FunctionCall", Functions[f].params)
          /\ Here < MaxDepth
          /\ heap' = called
          /\ frames' = Append([frames EXCEPT ![Here].registers = Push(n, <<>>)],
                              NewFrame(f, RefsOf(args)))
          /\ UNCHANGED program

\* take_argument: an argument can be taken once.
ArgLookup ==
    /\ Operands("ArgLookup", <<>>)
    /\ Len(Regs) < MaxRegisters
    /\ \E i \in DOMAIN Frame.args :
         LET ref == Frame.args[i]
             type == Functions[Frame.function].params[i]
         IN  /\ heap' = Hold(decrement_ref_count(check_reference(heap, type, ref),
                                                 Argument(Here, i), ref), ref)
             /\ frames' = [frames EXCEPT
                  ![Here].args = RestrictDomain(@, LAMBDA j : j # i),
                  ![Here].registers = Append(@, Entry(ref, type))]
             /\ UNCHANGED program

\* Mutant of Return: the callee's register stays counted.
ReturnKeepingRegister ==
    /\ Here > 1
    /\ Operands("Return", <<Functions[Frame.function].result>>)
    /\ Len(Regs) = 1 /\ Frame.locals = <<>> /\ Frame.args = <<>>
    /\ Len(frames[Here - 1].registers) < MaxRegisters
    /\ heap' = Hold(heap, Operand(1).ref)
    /\ frames' = [Front(frames) EXCEPT ![Here - 1].registers = Append(@, Operand(1))]
    /\ UNCHANGED program

\* The compiled body ends with its locals and arguments moved out and the
\* result in a register (prepare_to_die asserts it); possess_callee_return
\* moves the register to the caller.
Return ==
    /\ Here > 1
    /\ Operands("Return", <<Functions[Frame.function].result>>)
    /\ Len(Regs) = 1 /\ Frame.locals = <<>> /\ Frame.args = <<>>
    /\ Len(frames[Here - 1].registers) < MaxRegisters
    /\ heap' = increment_ref_count(Release(heap, Operand(1).ref), Register(Here - 1), Operand(1).ref)
    /\ frames' = [Front(frames) EXCEPT ![Here - 1].registers = Append(@, Operand(1))]
    /\ UNCHANGED program

\* inner_execute, once main returned: its result is discarded and the heap must
\* be empty.
EndProgram ==
    /\ Here = 1
    /\ Operands("Return", <<Functions["main"].result>>)
    /\ Len(Regs) = 1 /\ Frame.locals = <<>> /\ Frame.args = <<>>
    /\ heap' = check_for_leaks(Discarded(heap, Operand(1)))
    /\ frames' = <<>>
    /\ UNCHANGED program

(***************************************************************************)
(* The machine                                                             *)
(***************************************************************************)
Init ==
    /\ program \in Programs
    /\ heap = EmptyHeap
    /\ frames = <<NewFrame("main", <<>>)>>

Next ==
    \/ ConstantInt \/ ExternFunctionCall \/ CopyPrim \/ Discard
    \/ LetNormal \/ LetAndLend \/ Unlet \/ LocalLookup \/ Deref
    \/ Construct \/ MemberLookup \/ Destroy
    \/ MutateLocal \/ MutateSlot \/ MutateDeref
    \/ NewRuntimeSizedArray \/ PushRuntimeSizedArray \/ PopRuntimeSizedArray
    \/ ArrayLookup \/ DestroyRuntimeSizedArray
    \/ BorrowToWeak \/ LockWeak
    \/ FunctionCall \/ ArgLookup \/ Return \/ EndProgram

Spec == Init /\ [][Next]_vars

(***************************************************************************)
(* What must hold                                                          *)
(***************************************************************************)
Running == heap.fault = "none"

\* The referrer bags of every object are exactly the references the program
\* holds, register by register, and no reference dangles: the bookkeeping of
\* increment_ref_count and decrement_ref_count, spread over every expression,
\* never drifts from the truth.
ReferrersAreExact ==
    Running =>
      /\ \A h \in Holdings : Exists(heap, h.ref)
      /\ \A id \in DOMAIN heap.objects : \A strength \in {"strong", "weak"} :
           LET held == {h \in Holdings : h.ref.num = id /\ Strength(h.ref) = strength} IN
           heap.objects[id][strength] =
             [from \in {h.from : h \in held} |-> Cardinality({h \in held : h.from = from})]

\* A struct or an array lives exactly as long as it has an owner, and it has
\* one; a primitive, whose allocation copies share, lives while some place of
\* primitive type still refers to it.  This is what check_for_leaks and
\* contains_live_object (a weak lock) rely on.
LiveMeansOwned ==
    Running =>
      \A id \in DOMAIN heap.objects :
        LET object == heap.objects[id]
            owners == {h \in Holdings : h.ref.num = id /\ h.type.wraps = <<>>}
        IN  IF object.kind = Prim THEN owners # {}
            ELSE Cardinality(owners) = IF object.live THEN 1 ELSE 0

\* No assertion of the heap fails and check_for_leaks finds nothing.
NeverPanics == heap.fault # "panic"

\* "Constraint violated" is raised only when a borrow really outlives the owner
\* that is being destroyed (deallocate_if_no_weak_refs, ensure_ref_count).
ErrorsAreJustified ==
    [][heap'.fault = "constraint" =>
         \E h \in Holdings : /\ h.ref.num = Operand(1).ref.num
                             /\ outer_ownership(h.type) = "Borrow"]_vars

\* The pointer to an inline struct never changes (testvm-design.md, Handling
\* Inline Structs): a local, member or element of struct type keeps its
\* allocation for as long as it exists, whatever is assigned to it, so a borrow
\* of it sees the new value.
InlineStructsStayPut ==
    [][\A h \in Holdings, k \in Holdings' :
         /\ h.from = k.from
         /\ h.from[1] \in {"variable", "slot"}
         /\ IsInline(h.type)
         => h.ref.num = k.ref.num]_vars
=============================================================================
