SPECIFICATION FairSpec
CONSTANTS
  Hosts = {h1, h2}
  NetBirdHosts = {h2}
  NoHost = NoHost
  MaxSessions = 2
  ProbeFailureLimit = 2
INVARIANTS
  TypeOK StatusIsTrue CloseReapsAll
PROPERTIES
  StaleSessionSilent SessionsLive KeepsContract
