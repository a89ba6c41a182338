SPECIFICATION Spec
CONSTANTS
  Fn <- MCFn
  Impl <- MCImpl
  Citizen <- MCCitizen
  Programs <- RecursivePrograms
  KindDepth = 3
INVARIANT BoundsFitTheirKind
CHECK_DEADLOCK FALSE
