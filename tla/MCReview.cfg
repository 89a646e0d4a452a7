SPECIFICATION FairSpec
CONSTANTS
  Threads = {t1}
  Findings = {f1}
  Agent = a1
  Procs = {a1, p1}
  Nobody = nobody
  Attempts = 2
  Commands = {"address", "publish", "resolve", "closed", "reply_evidence", "validation", "findings"}
  Events <- Busy
  Waits = {"pending"}
  MaxRuns = 1
  MaxEvents = 1
  MaxFaults = 1
  AutoClean = FALSE
INVARIANTS
  OneReply
  PassIsProven
PROPERTIES
  EvidenceStays
  GatePasses
CHECK_DEADLOCK FALSE
