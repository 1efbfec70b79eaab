SPECIFICATION FairSpec
CONSTANTS
  Launchers = {d0, d1, d2}
  Old = {d0}
  None = None
  MaxCrashes = 1
  MaxSignals = 1
CHECK_DEADLOCK FALSE
INVARIANTS
  TypeOK KeptFromTheLiving ChromeIsDriven
PROPERTIES
  DaemonSettles
