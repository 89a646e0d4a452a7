SPECIFICATION Spec
CONSTANTS
  Gates = {"g1", "g2"}
  Writers = {"w1"}
  MaxFaults = 0
INVARIANTS ArchiveKeepsAll
CHECK_DEADLOCK FALSE
