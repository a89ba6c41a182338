SPECIFICATION Spec
CONSTANTS
  StructKinds <- MCStructKinds
  ArrayKinds <- MCArrayKinds
  Members <- MCMembers
  Element <- MCElement
  LocalType <- MCLocalType
  Functions <- MCFunctions
  Capacity = 2
  Programs <- AllPrograms
INVARIANTS ReferrersAreExact LiveMeansOwned NeverPanics
PROPERTIES ErrorsAreJustified InlineStructsStayPut
\* A program stops when it returns, panics or has spent its bounds.
CHECK_DEADLOCK FALSE
