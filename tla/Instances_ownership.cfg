SPECIFICATION Spec
CONSTANTS
  Objects = {plain, wrapped, held}
  Wrapped = {wrapped}
  SharedHeld = {held}
  Adoptable = {plain, wrapped, held}
  MaxReps = 3
  RepSize = 1
  Address <- MCAddress
  Asserts = TRUE
  MaxDeps = 0
  Careless = FALSE
  Throwing = {2}
  MayClose = TRUE
  None = None
INVARIANTS TypeOK OneOwner AdoptedKeepsItsPart NullOnlyAfterReturn
CHECK_DEADLOCK FALSE
