SPECIFICATION FairSpec
CONSTANTS
  Procs = {p1, p2}
  Nobody = Nobody
  Origins = {"empty", "partial", "v1", "v3"}
  Commands = {"load", "create", "txn"}
  MaxWrites = 2
  MaxFaults = 1
  MaxEdits = 1
INVARIANTS
  NothingLost
  RecordsAreTrue
  SuccessIsCommitted
PROPERTIES
  FilesCatchUp
CHECK_DEADLOCK FALSE
