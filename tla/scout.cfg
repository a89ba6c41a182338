\* The end of the function is the end of the scout.
CHECK_DEADLOCK FALSE
CONSTANTS
  self = self
  other = other
  m1 = m1
  Name <- MCName
  Member <- MCMember
  Bounds <- MCBounds
SPECIFICATION Spec
INVARIANTS FlagsAreExact LambdasAreExact NamesAgree
