SPECIFICATION FairSpec
CONSTANTS
  Hosts = {h1, h2}
  None = None
  Tabs = {t1}
  Commands = {c1}
  ChromeFails = TRUE
  Requests = {1, 2}
  MaxRevision = 4
  MaxNetwork = 2
INVARIANTS
  TypeOK DisconnectLeavesNothing LatestRequestHolds
PROPERTIES
  DisconnectCompletes LifecycleSettles
