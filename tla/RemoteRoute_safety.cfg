SPECIFICATION Spec
CONSTANTS
  Hosts = {h1}
  Ports = {p1, p2}
  None = None
  Ops = {"on", "off", "connect", "disconnect", "signin"}
  Challenges = {}
  HelperKinds = {TRUE, FALSE}
  ChromeFails = TRUE
  Others = TRUE
  MaxRequests = 2
  MaxSessions = 1
  MaxHelpers = 2
INVARIANTS
  TypeOK ActiveProxyIsStored StatusIsOfThisHelper
PROPERTIES
  RouteByConsent
