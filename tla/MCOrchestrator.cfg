SPECIFICATION FairSpec
CONSTANTS
  Items = {1, 2}
  Coordinator = c
  Workers = {w1, w2}
  MaxConcurrency = 1
  Threshold = 2
  MaxFaults = 2
INVARIANTS
  WithinConcurrency
  TokenWorks
PROPERTIES
  AllHandled
CHECK_DEADLOCK FALSE
