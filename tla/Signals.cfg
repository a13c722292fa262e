SPECIFICATION Spec
CONSTANTS
  Signals = {clicked, moved}
  LuaFunctions = {f, g}
  QObjects = {obj}
  MaxMethods = 4
  MaxRef = 6
  Nil = Nil
  Fresh = TRUE
INVARIANTS
  TypeOK
  InvokesAFunction
  CalledAsOftenAsConnected
PROPERTIES
  ReferencesHold
CHECK_DEADLOCK FALSE
