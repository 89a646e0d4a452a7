SPECIFICATION Spec
CONSTANTS
  t1 = t1
  t2 = t2
  f1 = f1
  Items = {t1, t2}
  Thread = {t1, t2}
  Agents = {a1, a2}
  Roles = {"fixer", "triage"}
  Resolutions = {"fix"}
  Commands = {"next", "submit"}
  LeaseIds = {l1, l2}
  Procs = {p1, p2}
  NoId = NoId
  KeyOverlap <- MCKeyOverlap
  Attempts = 1
  TTL = 1
  MaxTime = 1
  MaxPush = 0
SYMMETRY Symmetry
INVARIANTS
  OneActiveLeasePerItem
  ConflictExclusion
  AdviceIsFollowable
PROPERTIES
  ImplementsLeaseTable
CHECK_DEADLOCK FALSE
