SPECIFICATION Spec
CONSTANTS
  Locals <- MCLocals
  Runes <- MCRunes
  Programs <- MCPrograms
  Body <- MCBody
  Declared <- MCDeclared
  Plain = {"churn a", "observe e", "observe x", "set x = e", "set x = &a[0]", "set e.hp = 1"}
  Around = {"churn a", "observe e", "observe x", "set x = e"}
  Arms = {"nothing", "churn a", "observe e", "set x = e", "set x = &a[0]", "return e"}
  Rounds = {"churn a", "observe e", "observe x", "nothing"}
  Leaving = {"break", "return e", "churn a"}
  Few = {"nothing", "churn a", "observe x", "set x = e"}
  Special = {"e.hp", "*e", "e", "use(first a, churn a)", "use(churn a, first a)", "first a",
             "extern(e, churn b)", "e[churn a]", "grow(a, e)", "heal(a, e)", "take(a, ^a)", "observe z",
             "churn b", "observe(if first a else e)"}
INVARIANTS
  AcceptedIsSound ReportsAreReal BirthsAreFound ChurnsAreDeclared
CHECK_DEADLOCK FALSE
