---------------------------- MODULE CompileOnce ----------------------------
(***************************************************************************)
(* What compiling a program's functions promises, whatever queues and      *)
(* recursion it is done with: a function that something refers to is       *)
(* requested, a requested function is compiled, once, and the pass is done *)
(* only when nothing that was requested is left.                           *)
(***************************************************************************)
CONSTANT Fn

VARIABLES requested, compiled, outcome

vars == <<requested, compiled, outcome>>

TypeOK ==
  /\ requested \subseteq Fn
  /\ compiled \subseteq requested
  /\ outcome \in {"waiting", "running", "done", "failed"}

Init ==
  /\ requested = {}
  /\ compiled = {}
  /\ outcome = "waiting"

Begin ==
  /\ outcome = "waiting"
  /\ outcome' = "running"
  /\ UNCHANGED <<requested, compiled>>

Request(f) ==
  /\ outcome = "running"
  /\ f \notin requested
  /\ requested' = requested \cup {f}
  /\ UNCHANGED <<compiled, outcome>>

\* A function may be requested and compiled at once.
Compile(f) ==
  /\ outcome = "running"
  /\ f \notin compiled
  /\ requested' = requested \cup {f}
  /\ compiled' = compiled \cup {f}
  /\ UNCHANGED outcome

Finish ==
  /\ outcome = "running"
  /\ requested = compiled
  /\ outcome' = "done"
  /\ UNCHANGED <<requested, compiled>>

Fail ==
  /\ outcome = "running"
  /\ outcome' = "failed"
  /\ UNCHANGED <<requested, compiled>>

Next ==
  \/ Begin
  \/ \E f \in Fn : Request(f) \/ Compile(f)
  \/ Finish
  \/ Fail

Spec == Init /\ [][Next]_vars
=============================================================================
