SPECIFICATION Spec
CONSTANTS
  Calls = {c1, c2, c3}
  Targets = {orderapi, inventory}
  Executors = {alice, bob}
  None = None
  UseRedis = TRUE
  MaxFaults = 2
SYMMETRY CallSymmetry
INVARIANTS
  TypeOK
  ErrorHasCause
  NoOrphanedKey
  VerifySeesRollback
PROPERTIES
  KeepsPromise
CHECK_DEADLOCK FALSE
