SPECIFICATION Spec
CONSTANTS
  Threads = {t1}
  Findings = {}
  Agent = a1
  Procs = {a1, p1}
  Nobody = nobody
  Attempts = 2
  Commands = {"address", "publish", "resolve", "closed", "reply_evidence", "validation", "findings"}
  Events <- Busy
  Waits = {}
  MaxRuns = 2
  MaxEvents = 0
  MaxFaults = 0
  AutoClean = TRUE
INVARIANT OneReply
CHECK_DEADLOCK FALSE
