SPECIFICATION Spec
CONSTANTS
  Procs = {p1, p2}
  Nobody = Nobody
  Origins = {"v3"}
  Commands = {"load", "txn"}
  MaxWrites = 2
  MaxFaults = 0
  MaxEdits = 0
INVARIANTS
  FailureCommittedNothing
CHECK_DEADLOCK FALSE
