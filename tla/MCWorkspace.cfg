SPECIFICATION Spec
CONSTANTS
  Subjects = {"keys", "rows", "batch", "resolve", "telemetry", "gate"}
  a = a
  b = b
  c = c
  d = d
  r1 = r1
  r2 = r2
  x = x
  p = p
  q = q
  l1 = l1
  l2 = l2
  l3 = l3
  None = None
  Procs <- Pair
  \* every pair of items over two paths, with lines up to 2
  Paths = {"p", "q"}
  KeyThreads = {"t"}
  MaxLine = 2
  \* two commands, two conflicting items, four revisions
  Items <- TwoItems
  LeaseIds <- TwoLeases
  Keys = {"k"}
  Conflicts <- OnePair
  MaxRevision = 4
  \* two batch claims of one agent, that may hold two of three leases
  BatchItems <- FourItems
  BatchLeaseIds <- ThreeLeases
  Agents = {agent}
  KeyOverlap <- FieldOverlap
  TTL = 1
  Limit = 2
  Commands = {"batch"}
  Decisions = {"fix"}
  MaxTime = 1
  MaxPush = 0
  \* two agents, two calls
  Order <- TwoThreads
  Path <- PathOf
  Concern <- ConcernOf
  Trivial <- TrivialThread
  Changed <- OneFile
  Forms <- Calls
  MaxCalls = 2
  \* two imports
  Sources = {"codex", "agent"}
  Events <- Reports
  SourceOf <- HostOf
  SessionOf <- IdOf
  Kind <- KindOf
  RunOf <- ExecutionOf
  Runs <- TwoRuns
  Torn = torn
  MaxImports = 2
  \* one final gate archives while two other commands run
  Gates = {"g1"}
  Writers = {"w1", "w2"}
  MaxFaults = 1
SYMMETRY Symmetry
INVARIANTS
  OverlapIsSharedLines
  BatchExclusion
  WithinLimit
  CompleteIsTrue
  NoLeaseLeft
  ReportedOnce
  ArchiveKeepsAll
PROPERTIES
  CommitIsWhole
  MetadataSurvives
CHECK_DEADLOCK FALSE
