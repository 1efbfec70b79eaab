SPECIFICATION Spec
CONSTANTS
  Launchers = {d1, d2}
  Old = {}
  None = None
  MaxCrashes = 0
  MaxSignals = 0
CHECK_DEADLOCK FALSE
INVARIANTS
  LaunchesSerialized
