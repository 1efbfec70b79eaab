SPECIFICATION FairSpec
CONSTANTS
  Hosts = {h1}
  Ports = {p1}
  None = None
  Ops = {"on", "off", "connect", "disconnect", "signin"}
  Challenges = {}
  HelperKinds = {FALSE}
  ChromeFails = FALSE
  Others = TRUE
  MaxRequests = 2
  MaxSessions = 1
  MaxHelpers = 1
PROPERTIES
  OffWins
