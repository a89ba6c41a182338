SPECIFICATION FairSpec
CONSTANTS
  Fn <- MCFn
  Impl <- MCImpl
  Citizen <- MCCitizen
  Programs <- MCPrograms
  KindDepth = 3
INVARIANTS ResultIsLinked PanicsAreJustified
PROPERTIES Terminates
\* A pass that is over stops.
CHECK_DEADLOCK FALSE
