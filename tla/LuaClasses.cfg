SPECIFICATION FairSpec
CONSTANTS
  Side = Side
  Foo = Foo
  Ext = Ext
  Bar = Bar
  Baz = Baz
  Qux = Qux
  CppClasses = {Side, Foo, Ext}
  LuaClasses = {Bar, Baz, Qux}
  UsesSuper = {Bar, Baz}
  Bases <- MCBases
  Members = {"__init", "name"}
  CppMembers <- MCCppMembers
  ScriptMembers <- MCScriptMembers
  Instantiated = {Ext, Baz, Qux}
  MaxInstances = 3
  SuperFirst = TRUE
  Nil = Nil
INVARIANTS TypeOK MembersAreInherited SuperIsMine InitialisedOnce
PROPERTIES DroppedIsCollected
CHECK_DEADLOCK FALSE
