SPECIFICATION Spec
CONSTANTS
  Tabs = {u, t1, t2}
  UserTabs = {u}
  Groups = {g1}
  Commands = {c1, c2}
  Methods = {"open", "snapshot", "fill", "press", "wait", "close", "status", "switch"}
  Later = {"snapshot"}
  Named = {t1}
  None = None
  Early = FALSE
  MaxRequests = 2
  MaxUser = 1
  MaxMoves = 1
  MaxPolls = 1
INVARIANTS TypeOK RefsOfSeenPage OwnTabs UnmodifiedIsSame AttachmentsShared
CHECK_DEADLOCK FALSE
