---------------------------- MODULE Instantiator ----------------------------
(***************************************************************************)
(* The instantiator (instantiating/instantiator.rs): from the exported     *)
(* functions on, every function, impl and abstract function that is asked  *)
(* for is put on one of three queues and translated for the kinds it is    *)
(* asked for with.  Functions are drained first, then impls, then abstract *)
(* functions, which fill the itables of the impls known by then.           *)
(*                                                                         *)
(* A function, citizen or impl has at most one template parameter, T.  A   *)
(* kind is the sequence of templates it is made of, <<"Box", "int">>, the  *)
(* empty one where there is no parameter; in a pattern the last may be     *)
(* "T".  A function may have one function bound and one impl bound; the    *)
(* bounds of citizens, which only enqueue more functions, are left out.    *)
(***************************************************************************)
EXTENDS Naturals, Sequences, FiniteSets, SequencesExt, TLC

CONSTANTS
  Fn,        \* function templates
  Impl,      \* impl templates
  Citizen,   \* struct and interface templates
  Programs,  \* what the typing pass hands over
  KindDepth  \* members of members are followed this far at least

None == "none"

\* What a body asks for, in order.  call: a function, what its bounds are
\* resolved to (None, "own", or a function and an impl).  callBound and
\* callImplBound: through the bounds of this function.
Steps == {"call", "callBound", "callImplBound", "upcast"}

VARIABLES
  prog,          \* hinputs
  functions,     \* instance -> what its body calls, in order
  structs,       \* the kinds that were translated (structs and interfaces)
  impls,         \* the impls that were translated
  interfaceToImpls,  \* interface kind -> its impls, in order of discovery
  implIds,       \* instantiated_impl_to_typed_impl_and_bounds: those ever mentioned
  abstracts,     \* interface_to_abstract_func_to_virtual_index: instance -> its slot
  vtable,        \* <<impl, abstract function>> -> override
  newFunctions, newImpls, newAbstractFuncs,
  blueprint,     \* of the result: interface kind -> its methods, in slot order
  outcome

outputs == <<functions, structs, impls, interfaceToImpls, implIds, abstracts, vtable>>
queues == <<newFunctions, newImpls, newAbstractFuncs>>
vars == <<prog, outputs, queues, blueprint, outcome>>

-----------------------------------------------------------------------------
(* Instances.                                                              *)

Substitute(pattern, kind) ==
  IF pattern # <<>> /\ Last(pattern) = "T" THEN Front(pattern) \o kind ELSE pattern

Instance(of, kind) == [of |-> of, kind |-> kind]

\* What a denizen was given for its bounds.
NoInstance == Instance(None, <<>>)
Bounds(fn, impl) == [fn |-> fn, impl |-> impl]
NoBounds == Bounds(NoInstance, NoInstance)

\* The interface kind an impl is of; an impl passes its parameter on.
SuperOf(impl) == <<prog.super[impl.of]>> \o impl.kind
SubOf(impl) == <<prog.sub[impl.of]>> \o impl.kind

\* A queued function: its bounds are not part of its name.
Demand(of, kind, bounds) == [of |-> of, kind |-> kind, bounds |-> bounds]
Name(demand) == Instance(demand.of, demand.kind)

\* is `f` declared inside `g`, or `g` itself?
Within(f, g) ==
  \/ f = g
  \/ prog.parent[f] = g
  \/ prog.parent[f] # None /\ prog.parent[prog.parent[f]] = g

InterfaceOf(f, kind) == <<prog.interface[f]>> \o kind
IsAbstract(f) == prog.interface[f] # None

\* translate_kind: a citizen's members are translated with it, once.
Members(kind) ==
  IF kind # <<>> /\ Head(kind) \in DOMAIN prog.members
  THEN { Substitute(m, Tail(kind)) : m \in prog.members[Head(kind)] } ELSE {}

Closure(kinds) ==
  LET Reach[n \in 0..KindDepth] ==
        IF n = 0 THEN kinds
        ELSE Reach[n - 1] \cup UNION { Members(k) : k \in Reach[n - 1] }
  IN { k \in Reach[KindDepth] : k # <<>> /\ Head(k) \in Citizen }

-----------------------------------------------------------------------------
(* What translating a body adds to the outputs.                            *)

NothingYet == [fns |-> <<>>, impls |-> <<>>, kinds |-> {}, calls |-> <<>>, fails |-> FALSE]

\* translate_bound_args_for_callee: a bound of ours is passed on, anything else is
\* translated, and so enqueued.
SuppliedFn(step, env, kind) ==
  IF step.fn = None THEN NoInstance
  ELSE IF step.fn = "own" THEN env.fn
  ELSE Instance(step.fn, kind)

SuppliedImpl(step, env, kind) ==
  IF step.impl = None THEN NoInstance
  ELSE IF step.impl = "own" THEN env.impl
  ELSE Instance(step.impl, Tail(kind))

\* Mutant: the functions supplied for the bounds are named and not asked for.
translate_prototypeOnlyNamesBounds(acc, demand, step) ==
  LET kind == Substitute(step.kind, demand.kind)
      supplied == Bounds(SuppliedFn(step, demand.bounds, kind),
                         SuppliedImpl(step, demand.bounds, kind))
      bounds == IF Within(step.of, demand.of) THEN demand.bounds ELSE supplied
  IN [acc EXCEPT
        !.fns = IF step.of \in prog.externs THEN @ ELSE Append(@, Demand(step.of, kind, bounds)),
        !.impls = IF step.impl \in Impl THEN Append(@, supplied.impl) ELSE @,
        !.kinds = @ \cup {kind},
        !.calls = Append(@, Instance(step.of, kind))]

\* translate_prototype: nothing is enqueued for an extern; a function that is
\* declared inside the one being translated gets the bounds of that one.
translate_prototype(acc, demand, step) ==
  LET kind == Substitute(step.kind, demand.kind)
      supplied == Bounds(SuppliedFn(step, demand.bounds, kind),
                         SuppliedImpl(step, demand.bounds, kind))
      bounds == IF Within(step.of, demand.of) THEN demand.bounds ELSE supplied
      suppliedFns == IF step.fn \in Fn THEN <<Demand(step.fn, kind, NoBounds)>> ELSE <<>>
  IN [acc EXCEPT
        !.fns = @ \o suppliedFns
                  \o IF step.of \in prog.externs THEN <<>>
                     ELSE <<Demand(step.of, kind, bounds)>>,
        !.impls = IF step.impl \in Impl THEN Append(@, supplied.impl) ELSE @,
        !.kinds = @ \cup {kind},
        !.calls = Append(@, Instance(step.of, kind)),
        !.fails = \/ @
                  \/ step.fn = "own" /\ supplied.fn = NoInstance
                  \/ step.impl = "own" /\ supplied.impl = NoInstance]

\* resolve_override_prototype: the override has the impl's kind, and of the
\* bounds what the abstract function was given.
Override(impl, abstract) ==
  LET over == prog.overrides[impl.of][abstract.of]
  IN  Demand(over.of, Substitute(over.kind, impl.kind), Bounds(abstract.bounds.fn, NoInstance))

\* One step of a body.  A bound that nobody supplied is an `expect`.
TranslateStep(acc, demand, step) ==
  CASE step.op = "call" -> translate_prototype(acc, demand, step)
    [] step.op = "callBound" ->
         IF demand.bounds.fn = NoInstance THEN [acc EXCEPT !.fails = TRUE]
         ELSE [acc EXCEPT !.calls = Append(@, demand.bounds.fn)]
    [] step.op = "callImplBound" ->
         IF demand.bounds.impl = NoInstance THEN [acc EXCEPT !.fails = TRUE]
         ELSE LET over == Override(demand.bounds.impl, Demand(step.of, demand.kind, NoBounds))
              IN [acc EXCEPT !.fns = Append(@, over), !.calls = Append(@, Name(over))]
    [] step.op = "upcast" ->
         LET impl == Instance(step.impl, Substitute(step.kind, demand.kind)) IN
         [acc EXCEPT !.impls = Append(@, impl),
                     !.kinds = @ \cup {SuperOf(impl)}]

\* An abstract function's body is its virtual call: to itself, by slot.
AbstractBody(demand) ==
  [NothingYet EXCEPT !.fns = <<demand>>, !.calls = <<Name(demand)>>,
                     !.kinds = {InterfaceOf(demand.of, demand.kind)}]

TranslateBody(demand) ==
  IF IsAbstract(demand.of) THEN AbstractBody(demand)
  ELSE FoldLeft(LAMBDA acc, step : TranslateStep(acc, demand, step),
                [NothingYet EXCEPT !.kinds = {demand.kind}], prog.body[demand.of])

Translated(body) ==
  /\ structs' = structs \cup Closure(body.kinds)
  /\ implIds' = implIds \cup ToSet(body.impls)
  /\ newImpls' = newImpls \o body.impls

Panic ==
  /\ outcome' = "panicked"
  /\ UNCHANGED <<prog, outputs, queues, blueprint>>

-----------------------------------------------------------------------------

Init ==
  /\ prog \in Programs
  /\ functions = [x \in {} |-> <<>>]
  /\ structs = {} /\ impls = {} /\ implIds = {}
  /\ interfaceToImpls = [x \in {} |-> <<>>]
  /\ abstracts = [x \in {} |-> 0]
  /\ vtable = [x \in {} |-> None]
  /\ newFunctions = <<>> /\ newImpls = <<>> /\ newAbstractFuncs = <<>>
  /\ blueprint = [x \in {} |-> <<>>]
  /\ outcome = "exporting"

\* instantiate_exported_function, for each export.
InstantiateExports ==
  /\ outcome = "exporting"
  /\ newFunctions' = [i \in DOMAIN prog.exports |-> Demand(prog.exports[i], <<>>, NoBounds)]
  /\ outcome' = "draining"
  /\ UNCHANGED <<prog, outputs, newImpls, newAbstractFuncs, blueprint>>

\* A function that is there already is not translated again.  The name does not
\* tell the bounds: the first demand's are used.
TranslateFunction ==
  /\ outcome = "draining"
  /\ newFunctions # <<>>
  /\ LET demand == Head(newFunctions) IN
       IF Name(demand) \in DOMAIN functions
       THEN /\ newFunctions' = Tail(newFunctions)
            /\ UNCHANGED <<prog, outputs, newImpls, newAbstractFuncs, blueprint, outcome>>
       ELSE \E body \in {TranslateBody(demand)} :
            IF body.fails THEN Panic
            ELSE /\ functions' = functions @@ (Name(demand) :> body.calls)
                 /\ newFunctions' = Tail(newFunctions) \o body.fns
                 /\ newAbstractFuncs' = IF IsAbstract(demand.of)
                                        THEN Append(newAbstractFuncs, demand) ELSE newAbstractFuncs
                 /\ Translated(body)
                 /\ UNCHANGED <<prog, impls, interfaceToImpls, abstracts, vtable, blueprint, outcome>>

ImplsOf(interface) ==
  IF interface \in DOMAIN interfaceToImpls THEN interfaceToImpls[interface] ELSE <<>>

WithImpl(impl) ==
  IF impl \in impls THEN interfaceToImpls
  ELSE (SuperOf(impl) :> Append(ImplsOf(SuperOf(impl)), impl)) @@ interfaceToImpls

\* Mutant: an impl that is there already is not taken off the queue.
TranslateImplReturnsEarly ==
  /\ outcome = "draining"
  /\ newFunctions = <<>> /\ newImpls # <<>>
  /\ LET impl == Head(newImpls) IN
       /\ newImpls' = IF impl \in impls THEN newImpls ELSE Tail(newImpls)
       /\ structs' = structs \cup Closure({SubOf(impl), SuperOf(impl)})
       /\ impls' = impls \cup {impl}
       /\ interfaceToImpls' = WithImpl(impl)
  /\ UNCHANGED <<prog, functions, implIds, abstracts, vtable, newFunctions, newAbstractFuncs,
                 blueprint, outcome>>

\* translate_impl_definition: the edge is put together at the end.
TranslateImpl ==
  /\ outcome = "draining"
  /\ newFunctions = <<>> /\ newImpls # <<>>
  /\ LET impl == Head(newImpls) IN
       /\ newImpls' = Tail(newImpls)
       /\ structs' = structs \cup Closure({SubOf(impl), SuperOf(impl)})
       /\ impls' = impls \cup {impl}
       /\ interfaceToImpls' = WithImpl(impl)
  /\ UNCHANGED <<prog, functions, implIds, abstracts, vtable, newFunctions, newAbstractFuncs,
                 blueprint, outcome>>

\* The method's place among the methods of its interface, from 0: index_in_edge.
SlotOf(f) ==
  LET methods == prog.methods[prog.interface[f]]
  IN  (CHOOSE i \in DOMAIN methods : methods[i] = f) - 1

\* Mutant: abstract functions are not left for last.
BeforeAbstractsImpatient == newFunctions = <<>>

\* Everything else there is to do comes before an abstract function.
BeforeAbstracts == newFunctions = <<>> /\ newImpls = <<>>

\* translate_abstract_func: the overrides of the impls there are.  A function
\* is translated once, so an abstract one comes here once.
TranslateAbstractFunc ==
  /\ outcome = "draining"
  /\ BeforeAbstracts /\ newAbstractFuncs # <<>>
  /\ LET abstract == Head(newAbstractFuncs)
         known == ImplsOf(InterfaceOf(abstract.of, abstract.kind))
     IN IF Name(abstract) \in DOMAIN abstracts THEN Panic
        ELSE /\ abstracts' = abstracts @@ (Name(abstract) :> SlotOf(abstract.of))
             /\ vtable' = vtable @@ [x \in { <<impl, Name(abstract)>> : impl \in ToSet(known) } |->
                                       Name(Override(x[1], abstract))]
             /\ newFunctions' = [i \in DOMAIN known |-> Override(known[i], abstract)]
             /\ newAbstractFuncs' = Tail(newAbstractFuncs)
             /\ UNCHANGED <<prog, functions, structs, impls, interfaceToImpls, implIds, newImpls,
                            blueprint, outcome>>

MethodsOf(interface) ==
  { a \in DOMAIN abstracts : InterfaceOf(a.of, a.kind) = interface }

InSlotOrder(methods) ==
  SetToSortSeq(methods, LAMBDA a, b : abstracts[a] < abstracts[b])

EdgesAreComplete ==
  \A impl \in impls : \A a \in MethodsOf(SuperOf(impl)) : <<impl, a>> \in DOMAIN vtable

\* assemble_hinputs: the methods in slot order, and an override expected of every
\* impl for every method.
AssembleHinputs ==
  /\ outcome = "draining"
  /\ newFunctions = <<>> /\ newImpls = <<>> /\ newAbstractFuncs = <<>>
  /\ IF ~ EdgesAreComplete THEN Panic
     ELSE /\ blueprint' = [i \in { k \in structs : Head(k) \in DOMAIN prog.methods } |->
                            InSlotOrder(MethodsOf(i))]
          /\ outcome' = "done"
          /\ UNCHANGED <<prog, outputs, queues>>

Next ==
  \/ InstantiateExports
  \/ TranslateFunction \/ TranslateImpl \/ TranslateAbstractFunc
  \/ AssembleHinputs

Spec == Init /\ [][Next]_vars
FairSpec == Spec /\ WF_vars(Next)

-----------------------------------------------------------------------------
(* Properties.                                                             *)

Instances == DOMAIN functions

\* drain_instantiation_queue ends: every program is instantiated or given up.
Terminates == <>(outcome \in {"done", "panicked"})

\* "so the blueprint, internal_methods and edges below all emit in the order the
\* call sites' index_in_edge uses" (instantiator.rs:458): the slot a virtual call
\* was given is its function's place in the blueprint.
CallsFindTheirSlot ==
  outcome = "done" =>
    \A a \in DOMAIN abstracts :
      LET methods == blueprint[InterfaceOf(a.of, a.kind)] IN
      abstracts[a] + 1 \in DOMAIN methods /\ methods[abstracts[a] + 1] = a
=============================================================================
