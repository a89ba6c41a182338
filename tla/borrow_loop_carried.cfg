SPECIFICATION Spec
CONSTANTS
  Locals <- MCLocals
  Runes <- MCRunes
  Programs <- MCPrograms
  Body <- MCBody
  Declared <- MCDeclared
  Plain = {"churn a", "set x = &a[0]"}
  Around = {"churn a", "set x = &a[0]"}
  Arms = {"nothing", "set x = &a[0]"}
  Rounds = {"observe x", "set x = e"}
  Leaving = {"break"}
  Few = {"nothing", "set x = &a[0]", "observe x", "set x = e"}
  Special = {"set x = &a[0]"}
INVARIANT AcceptedIsSound
CHECK_DEADLOCK FALSE
