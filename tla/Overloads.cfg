SPECIFICATION FairSpec
CONSTANTS
  MaxFunctions = 3
  MaxFrames = 4
  MaxCandidates = 10
  MaxArity = 10
  IntMax = 2147483647
  Slots = {base, derived}
  Signatures <- MCSignatures
  ArgLists <- MCArgLists
  None = None
  Other = Other
  NoSignature = NoSignature
INVARIANTS
  TypeOK
  NothingDangles
PROPERTIES
  ImplementsPromise
  CallEnds
CHECK_DEADLOCK FALSE
