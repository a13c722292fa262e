SPECIFICATION Spec
CONSTANTS
  Types = {0, 1, 2, 3}
  Declared = {0, 1, 2, 3}
  Poly <- MCPoly
  BasesOf <- MCBasesOf
  WrapperOf <- MCWrapperOf
  Layout <- MCLayout
  CastFunction <- MCCastFunction
  NoType = NoType
  NoPtr = NoPtr
  NoId = NoId
  LocalBase = 10
  IntSpan = 256
  PtrSpan = 256
  MaxLocal = 1
  MaxHolders = 2
  MaxCached = 2
INVARIANT AcceptedIsConvertible
CHECK_DEADLOCK FALSE
