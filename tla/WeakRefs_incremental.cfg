SPECIFICATION Spec
CONSTANTS
  Wrappers = {w1, w2, w3}
  MaxRef = 3
  Nil = Nil
  NoRef = NoRef
  Incremental = TRUE
INVARIANT
  IdentityPreserved
CHECK_DEADLOCK FALSE
