SPECIFICATION Spec
CONSTANTS
  Signals = {clicked, moved}
  LuaFunctions = {f, g}
  QObjects = {obj}
  MaxMethods = 4
  MaxRef = 6
  Nil = Nil
  Fresh = FALSE
INVARIANT DisconnectedIsSilent
CHECK_DEADLOCK FALSE
