SPECIFICATION FairSpec
CONSTANTS
  Threads = {t1}
  Findings = {}
  Agent = a1
  Procs = {a1}
  Nobody = nobody
  Attempts = 2
  Commands = {"address", "publish", "resolve", "closed", "reply_evidence", "validation", "findings"}
  Events <- Reopening
  Waits = {}
  MaxRuns = 0
  MaxEvents = 1
  MaxFaults = 0
  AutoClean = FALSE
PROPERTY GatePasses
CHECK_DEADLOCK FALSE
