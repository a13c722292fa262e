SPECIFICATION Spec
CONSTANTS
  Wrappers = {w1, w2, w3}
  MaxRef = 3
  Nil = Nil
  NoRef = NoRef
  Incremental = FALSE
INVARIANTS
  TypeOK
  IdentityPreserved
  AdoptedKeepsItsPart
  FreeSlotsAreFree
CHECK_DEADLOCK FALSE
