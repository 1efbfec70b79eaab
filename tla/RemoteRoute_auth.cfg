SPECIFICATION Spec
CONSTANTS
  Hosts = {h1}
  Ports = {p1}
  None = None
  Ops = {"off", "connect"}
  Challenges = {c1}
  HelperKinds = {FALSE}
  ChromeFails = FALSE
  Others = FALSE
  MaxRequests = 2
  MaxSessions = 2
  MaxHelpers = 2
PROPERTIES
  AnswersOwnChallenge
