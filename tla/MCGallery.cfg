CONSTANTS
  Shots = {a, b, c}
  Viewed = {a, c}
  Old = {o}
  Hosts = {h1, h2}
  NoServer = NoServer
  MaxOpens = 2
  MaxActs = 2
SPECIFICATION GallerySpec
INVARIANTS ServerPathIsCopy RemovedIsGone
CHECK_DEADLOCK FALSE
SYMMETRY Alike
