SPECIFICATION Spec
CONSTANTS
  Tabs = {u, t1, t2}
  First = {u}
  Commands = {c1, c2}
  None = None
  MaxConns = 3
  Brokers = {b1, b2}
  Sessions = {"default", "s"}
  Named = {t1}
  MaxCommands = 2
  MaxEvents = 1
INVARIANTS SessionsIsolated
PROPERTIES LossEndsCall
CHECK_DEADLOCK FALSE
