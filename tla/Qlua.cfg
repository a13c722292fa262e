SPECIFICATION FairObjectsSpec
CONSTANTS
  clicked = clicked
  moved = moved
  Signals = {clicked, moved}
  LuaFunctions = {f}
  button = button
  label = label
  QObjects = {button, label}
  Emitter <- MCEmitter
  MaxTables = 2
  OneTable = TRUE
  MaxMethods = 2
  MaxRef = 4
  Nil = Nil
  Fresh = TRUE
INVARIANTS
  ObjectsTypeOK
  HasItsMethods
  OneDeleter
PROPERTIES
  AbandonedIsDeleted
CHECK_DEADLOCK FALSE
