SPECIFICATION FairObjectsSpec
CONSTANTS
  clicked = clicked
  moved = moved
  Signals = {clicked, moved}
  LuaFunctions = {f}
  button = button
  label = label
  QObjects = {button, label}
  Emitter <- MCEmitter
  MaxTables = 2
  OneTable = FALSE
  MaxMethods = 2
  MaxRef = 4
  Nil = Nil
  Fresh = TRUE
INVARIANT
  HasItsMethods
CHECK_DEADLOCK FALSE
