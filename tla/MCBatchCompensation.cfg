SPECIFICATION Spec
CONSTANTS
  t1 = t1
  t2 = t2
  t3 = t3
  t4 = t4
  Items = {t1, t2}
  Thread = {t1, t2}
  Agents = {a1}
  LeaseIds = {l1, l2}
  Procs = {p1, p2}
  NoId = NoId
  KeyOverlap <- MCKeyOverlap
  Limit = 2
  Commands = {"batch", "input"}
  Decisions = {}
  TTL = 1
  MaxTime = 1
  MaxPush = 0
PROPERTIES
  TerminalLeaseIsFinal
CHECK_DEADLOCK FALSE
