SPECIFICATION FrontendSpec
CONSTANTS
  Fn <- NameFn
  Citizen = {"IView", "_Item", "Tool", "RVec"}
  Package = {"app", "lib", "tool", "text"}
  File = {"mainF", "viewF", "itemF", "toolF", "textF"}
  Sources <- MCSources
  Declares <- MCDeclares
  RustDeclares <- MCRustDeclares
  Programs <- MCPrograms
INVARIANTS PanicsAreOrderOrRecursion ResultIsComplete ExplorationIsExact ReadingIsExact
PROPERTIES RefinesCompileOnce Terminates
\* A pass that is over stops.
CHECK_DEADLOCK FALSE
