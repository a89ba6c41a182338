SPECIFICATION TypedFairSpec
CONSTANTS
  Rune <- MCRune
  Rule <- MCRule
  Programs <- SolverPrograms
  ArrayTemplates = {"Arr"}
  Overloads <- MCOverloads
  TemplateParams <- MCTemplateParams
  Givens <- MCGivens
  Assignments <- SolverAssignments
INVARIANTS TypingIsReference ConclusionsHaveTheirTypes PanicsHaveCauses ClosedRulesHold ConclusionsForced FailuresJustified SolvedIsSolution StopsAtClosure
PROPERTIES ConclusionsAreFinal FillsOnlyUnderivable Ends
\* A solve that is over stops.
CHECK_DEADLOCK FALSE
