SPECIFICATION MCSpec
CONSTANTS
  t1 = t1
  t2 = t2
  p1 = p1
  p2 = p2
  Threads = {t1, t2}
  Procs = {p1, p2}
  Nobody = Nobody
  Attempts = 2
  LostResponses = TRUE
  MaxRuns = 2
  MaxCrash = 0
INVARIANTS
  AtMostOneReply
CHECK_DEADLOCK FALSE
