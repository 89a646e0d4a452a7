SPECIFICATION Spec
CONSTANTS
  Threads = {t1}
  Procs = {p1, p2}
  Nobody = Nobody
  Attempts = 2
  LostResponses = FALSE
  MaxRuns = 3
  MaxCrash = 1
INVARIANTS
  TypeOK
  RunningIsInFlight
  AtMostOneReply
PROPERTIES
  SuccessIsFinal
CHECK_DEADLOCK FALSE
