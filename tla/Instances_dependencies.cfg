SPECIFICATION FairSpec
CONSTANTS
  Objects = {plain}
  Wrapped = {}
  SharedHeld = {}
  Adoptable = {}
  MaxReps = 3
  RepSize = 1
  Address <- MCAddress
  Asserts = FALSE
  MaxDeps = 2
  Careless = FALSE
  Throwing = {}
  MayClose = FALSE
  None = None
INVARIANTS PatientKeptWhileRunning
PROPERTIES EverythingCollected
CHECK_DEADLOCK FALSE
