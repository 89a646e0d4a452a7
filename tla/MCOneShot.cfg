SPECIFICATION Spec
CONSTANTS
  t1 = t1
  t2 = t2
  f1 = f1
  Items = {t1}
  Thread = {t1}
  Agents = {a1}
  Roles = {"fixer", "verifier"}
  Resolutions = {"fix", "reject"}
  Commands = {"next", "resolve", "submit"}
  LeaseIds = {l1, l2}
  Procs = {p1, p2}
  NoId = NoId
  KeyOverlap <- MCKeyOverlap
  Attempts = 1
  TTL = 1
  MaxTime = 1
  MaxPush = 1
SYMMETRY Symmetry
INVARIANTS
  HandledHasAcceptedLease
PROPERTIES
  TerminalLeaseIsFinal
CHECK_DEADLOCK FALSE
