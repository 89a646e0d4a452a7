SPECIFICATION Spec
CONSTANTS
  t1 = t1
  t2 = t2
  t3 = t3
  t4 = t4
  Items = {t1, t2, t3, t4}
  Thread = {t1, t2, t3, t4}
  Agents = {a1}
  LeaseIds = {l1, l2, l3}
  Procs = {p1, p2}
  NoId = NoId
  KeyOverlap <- MCKeyOverlap
  Limit = 2
  Commands = {"batch"}
  Decisions = {"other"}
  TTL = 1
  MaxTime = 1
  MaxPush = 0
SYMMETRY Symmetry
INVARIANTS
  BatchExclusion
  WithinLimit
CHECK_DEADLOCK FALSE
