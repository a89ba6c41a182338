SPECIFICATION Spec
CONSTANTS
  MaxLocals = 2
  MaxDepth = 3
  Admitted = {"LoopEndsInReturn"}
INVARIANT NeverIsUnreachable
\* A translated body stops.
CHECK_DEADLOCK FALSE
