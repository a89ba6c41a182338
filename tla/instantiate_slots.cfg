SPECIFICATION Spec
CONSTANTS
  Fn <- MCFn
  Impl <- MCImpl
  Citizen <- MCCitizen
  Programs <- MCPrograms
  KindDepth = 3
INVARIANT CallsFindTheirSlot
CHECK_DEADLOCK FALSE
