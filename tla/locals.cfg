SPECIFICATION Spec
CONSTANTS
  MaxLocals = 2
  MaxDepth = 3
  Admitted = {}
INVARIANTS TypeOK NothingMishandled NeverIsUnreachable NeverPanics RejectionsAreJustified HeldIsTracked
\* A translated body stops.
CHECK_DEADLOCK FALSE
