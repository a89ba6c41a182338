----------------------------- MODULE VivemHeap -----------------------------
(***************************************************************************)
(* The heap of the TestVM, the in-process interpreter of instantiated Vale *)
(* programs (src/testvm/heap.rs, values.rs).  Every value, a struct held   *)
(* inline by another struct included, is an allocation of its own, and     *)
(* every allocation records who refers to it: a bag of strong referrers    *)
(* and a bag of weak ones.  Locals, members, elements and arguments are    *)
(* referrers that may appear once; a call's registers may appear often.    *)
(*                                                                         *)
(* A heap is a record; an operation maps a heap to a heap.  An assertion   *)
(* or panic of the code, and a VmRuntimeError, end the program: the        *)
(* operation then only sets "fault", and later operations change nothing.  *)
(*                                                                         *)
(* The typed kinds are abstracted to one primitive, structs and arrays.    *)
(* Interfaces are views that leave the reference counting alone, and the   *)
(* Void singleton takes part in no counting (AllocationV returns early).   *)
(***************************************************************************)
EXTENDS Integers, SequencesExt

CONSTANTS
    StructKinds,    \* the struct definitions of the program
    ArrayKinds,     \* its runtime-sized array types
    Members,        \* Members[s]: the types of the members of struct s
    Element,        \* Element[a]: the element type of array type a
    Capacity        \* the capacity of every array

Prim == "int"

\* A type is an onion: reference wraps, outermost first, around a kind.
Bare(kind) == [wraps |-> <<>>, kind |-> kind]
Wrap(w, type) == [type EXCEPT !.wraps = <<w>> \o @]
Peel(type) == [type EXCEPT !.wraps = Tail(@)]
outer_ownership(type) == IF type.wraps = <<>> THEN "Own" ELSE Head(type.wraps)

IsInline(type) == type.wraps = <<>> /\ type.kind \in StructKinds
IsPrim(type) == type.wraps = <<>> /\ type.kind = Prim

ASSUME KindsAssumption ==
    /\ Prim \notin StructKinds \cup ArrayKinds
    /\ StructKinds \cap ArrayKinds = {}
    /\ \A s \in StructKinds : \A i \in DOMAIN Members[s] :
         Members[s][i].kind \in {Prim} \cup StructKinds \cup ArrayKinds
    /\ Capacity \in Nat

EmptyHeap == [objects |-> <<>>, next_id |-> 1, fault |-> "none"]

Faulted(h, why) == [h EXCEPT !.fault = IF @ = "none" THEN why ELSE @]

\* The outcome of an operation whose assertions are ok.
Checked(h, ok, result) ==
    IF h.fault # "none" THEN h ELSE IF ok THEN result ELSE Faulted(h, "panic")

(***************************************************************************)
(* Objects and their referrers                                             *)
(***************************************************************************)
Variable(call, name) == <<"variable", call, name>>
Argument(call, i) == <<"argument", call, i>>
Register(call) == <<"register", call>>
Slot(id, i) == <<"slot", id, i>>     \* member i of a struct, or element i

contains_live_object(h, id) == id \in DOMAIN h.objects /\ h.objects[id].live
contains_live_or_undead_object(h, id) == id \in DOMAIN h.objects

\* Only a weak reference may point at an object that was zeroed.
Exists(h, ref) ==
    IF ref.own = "Weak" THEN contains_live_or_undead_object(h, ref.num)
    ELSE contains_live_object(h, ref.num)

Strength(ref) == IF ref.own = "Weak" THEN "weak" ELSE "strong"
Referrers(h, ref) == h.objects[ref.num][Strength(ref)]

get_total_ref_count(h, ref) ==
    Cardinality(BagToSet(h.objects[ref.num].strong))
      + Cardinality(BagToSet(h.objects[ref.num].weak))

increment_ref_count(h, from, ref) ==
    Checked(h,
        /\ Exists(h, ref)
        /\ from[1] = "register" \/ ~BagIn(from, Referrers(h, ref)),
        [h EXCEPT !.objects[ref.num][Strength(ref)] = @ (+) SetToBag({from})])

decrement_ref_count(h, from, ref) ==
    Checked(h,
        Exists(h, ref) /\ BagIn(from, Referrers(h, ref)),
        [h EXCEPT !.objects[ref.num][Strength(ref)] = @ (-) SetToBag({from})])

\* The referrer key of every contained reference, counted up or down in order.
IncrementSlots(h, id, refs) ==
    FoldLeftDomain(LAMBDA g, i : increment_ref_count(g, Slot(id, i), refs[i]), h, refs)
DecrementSlots(h, id, refs) ==
    FoldLeftDomain(LAMBDA g, i : decrement_ref_count(g, Slot(id, i), refs[i]), h, refs)

check_reference(h, type, ref) ==
    Checked(h,
        /\ Exists(h, ref)
        /\ type.kind = h.objects[ref.num].kind
        /\ type.kind = Prim \/ ref.own = outer_ownership(type),
        h)

(***************************************************************************)
(* Creating objects                                                        *)
(***************************************************************************)
\* add: a fresh id, no referrers.  "value" is a primitive's, "refs" what a
\* struct or an array contains.
add(h, kind, value, refs) ==
    Checked(h, TRUE,
        [h EXCEPT !.next_id = @ + 1,
                  !.objects = @ @@ (h.next_id :>
                      [kind |-> kind, live |-> TRUE, value |-> value, refs |-> refs,
                       strong |-> EmptyBag, weak |-> EmptyBag])])

Owned(num) == [num |-> num, own |-> "Own"]

\* new_struct and add_array: the new object refers to each of its contents.
new_aggregate(h, kind, refs) == IncrementSlots(add(h, kind, 0, refs), h.next_id, refs)

initialize_array_element(h, array, ref) ==
    LET size == Len(h.objects[array.num].refs) IN
    Checked(increment_ref_count(h, Slot(array.num, size + 1), ref),
        contains_live_object(h, array.num) /\ size < Capacity,
        [increment_ref_count(h, Slot(array.num, size + 1), ref)
            EXCEPT !.objects[array.num].refs = Append(@, ref)])

deinitialize_array_element(h, array) ==
    LET refs == h.objects[array.num].refs IN
    IF refs = <<>> THEN Faulted(h, "panic")
    ELSE decrement_ref_count([h EXCEPT !.objects[array.num].refs = Front(@)],
                             Slot(array.num, Len(refs)), Last(refs))

(***************************************************************************)
(* Ending objects                                                          *)
(***************************************************************************)
\* Mutant of zero: the object passes for a live one.
zero_staying_live(h, ref) ==
    Checked(h, h.objects[ref.num].strong = EmptyBag, [h EXCEPT !.objects[ref.num].refs = <<>>])

zero(h, ref) ==
    Checked(h, h.objects[ref.num].strong = EmptyBag,
        [h EXCEPT !.objects[ref.num].live = (@ /\ h.objects[ref.num].kind \notin StructKinds),
                  !.objects[ref.num].refs = <<>>])

\* Mutant of deallocate_if_no_weak_refs: weak referrers are ignored.
deallocate_despite_weak_refs(h, ref) ==
    IF h.fault # "none" THEN h
    ELSE IF h.objects[ref.num].strong # EmptyBag THEN Faulted(h, "constraint")
    ELSE [h EXCEPT !.objects = RestrictDomain(@, LAMBDA id : id # ref.num)]

deallocate_if_no_weak_refs(h, ref) ==
    IF h.fault # "none" THEN h
    ELSE IF ref.own = "Own" /\ h.objects[ref.num].strong # EmptyBag
         THEN Faulted(h, "constraint")
    ELSE IF get_total_ref_count(h, ref) = 0
         THEN [h EXCEPT !.objects = RestrictDomain(@, LAMBDA id : id # ref.num)]
    ELSE h

destructure(h, ref) ==
    IF ~contains_live_object(h, ref.num) THEN Faulted(h, "panic")
    ELSE deallocate_if_no_weak_refs(
             zero(DecrementSlots(h, ref.num, h.objects[ref.num].refs), ref), ref)

\* destructure_array takes the elements out from the last to the first.
destructure_array(h, ref) ==
    IF ~contains_live_object(h, ref.num) THEN Faulted(h, "panic")
    ELSE FoldLeft(LAMBDA g, i : deinitialize_array_element(g, ref), h,
                  h.objects[ref.num].refs)

\* cleanup: what is left of a reference once its last counted use is gone,
\* directed by the type the program sees it as.
RECURSIVE cleanup(_, _, _)
CleanupAll(h, types, refs) ==
    FoldLeftDomain(LAMBDA g, i : cleanup(g, types[i], refs[i]), h, refs)

cleanup(h, type, ref) ==
    IF h.fault # "none" THEN h
    ELSE IF ~Exists(h, ref) THEN Faulted(h, "panic")
    ELSE IF get_total_ref_count(h, ref) # 0 \/ outer_ownership(type) = "Borrow" THEN h
    ELSE IF outer_ownership(type) = "Weak" THEN deallocate_if_no_weak_refs(h, ref)
    ELSE LET refs == h.objects[ref.num].refs
             kind == h.objects[ref.num].kind
         IN  IF kind \in StructKinds
             THEN CleanupAll(destructure(h, ref), Members[kind], refs)
             ELSE deallocate_if_no_weak_refs(
                      zero(CleanupAll(
                               IF kind \in ArrayKinds THEN destructure_array(h, ref) ELSE h,
                               [i \in DOMAIN refs |-> Element[kind]], refs), ref), ref)

\* discard: give up a register of the call, then clean up.
discard(h, call, type, ref) ==
    cleanup(decrement_ref_count(h, Register(call), ref), type, ref)

(***************************************************************************)
(* Overwriting                                                             *)
(***************************************************************************)

\* Slot i of the object leaves the old reference and takes the new one.
Repoint(h, id, i, ref) ==
    LET old == h.objects[id].refs[i]
        moved == [decrement_ref_count(h, Slot(id, i), old) EXCEPT !.objects[id].refs[i] = ref]
    IN  increment_ref_count(moved, Slot(id, i), ref)

\* An inline struct is never repointed: a new struct takes over its old fields
\* and its allocation takes the fields of the source.  The new struct is the
\* next id.
overwrite_struct_in_place(h, old, source) ==
    IF ~contains_live_object(h, old.num) \/ ~contains_live_object(h, source.num)
    THEN Faulted(h, "panic")
    ELSE LET old_fields == h.objects[old.num].refs
             new_fields == h.objects[source.num].refs
         IN  FoldLeftDomain(LAMBDA g, i : Repoint(g, old.num, i, new_fields[i]),
                            new_aggregate(h, h.objects[old.num].kind, old_fields), old_fields)

\* Mutant of mutate_slot: an inline struct is repointed like any other reference.
mutate_repointing(h, id, i, type, ref) ==
    IF ~contains_live_object(h, id) THEN Faulted(h, "panic") ELSE Repoint(h, id, i, ref)

\* mutate_struct and mutate_array: slot i, of the given type, of an object.
mutate_slot(h, id, i, type, ref) ==
    IF ~contains_live_object(h, id) \/ i \notin DOMAIN h.objects[id].refs
    THEN Faulted(h, "panic")
    ELSE IF IsInline(type) THEN overwrite_struct_in_place(h, h.objects[id].refs[i], ref)
    ELSE Repoint(h, id, i, ref)

\* What the slot held before, as the expression's result.
Displaced(h, type, old) == IF IsInline(type) THEN Owned(h.next_id) ELSE old

check_for_leaks(h) == Checked(h, DOMAIN h.objects = {}, h)
============================================================================
