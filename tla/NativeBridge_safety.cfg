SPECIFICATION Spec
CONSTANTS
  Calls = {a1, a2}
  None = None
  MaxConns = 2
  MaxHosts = 2
  MaxNumber = 4
  Cancels = TRUE
SYMMETRY CallSymmetry
CHECK_DEADLOCK FALSE
INVARIANTS
  TypeOK OwnResponseOfHost InStep PendingAwaited
