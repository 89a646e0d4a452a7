SPECIFICATION Spec
CONSTANTS
  Procs = {p1, p2}
  Nobody = Nobody
  Origins = {"v3"}
  Commands = {"load", "txn"}
  MaxWrites = 1
  MaxFaults = 0
  MaxEdits = 0
INVARIANTS
  InvalidIsCorrupt
CHECK_DEADLOCK FALSE
