SPECIFICATION Spec
CONSTANTS
  Types = {0, 1, 2, 3, 5, 6}
  Declared = {0, 1, 2, 3, 6}
  Poly <- MCPoly
  BasesOf <- MCBasesOf
  WrapperOf <- MCWrapperOf
  Layout <- MCLayout
  CastFunction <- MCCastFunction
  NoType = NoType
  NoPtr = NoPtr
  NoId = NoId
  LocalBase = 10
  IntSpan = 256
  PtrSpan = 65536
  MaxLocal = 1
  MaxHolders = 2
  MaxCached = 1
INVARIANTS
  TypeOK
  DynamicIdNamesOneType
  CacheCoherent
  AcceptedLandsOnSubobject
PROPERTIES
  AnswersAreShortest
  ImplementsUncached
CHECK_DEADLOCK FALSE
