SPECIFICATION Spec
CONSTANTS
  None = None
  Subjects = {"stack", "calls", "branch", "bottles", "plugin"}
  \* two members, read in pages of one
  Size = 2
  Selected = 2
  PageSize = 1
  LagReads = 2
  \* forced pushes that bring a commit back are left to MCForcedBack.cfg
  ForcedBack = FALSE
  StackEvents = 2
  \* two processes, one read slot; of three time units, waiting and spacing are one, backoff two
  Callers = {"a", "b"}
  Slots = 1
  Wait = 1
  Spacing = 1
  Window = 2
  MaxTime = 3
  \* one pull request between main and develop
  BranchEvents = 1
  BranchRuns = 2
  \* two versions, two platforms, a rebuild
  Versions = {1, 2}
  Rebuilds = {0, 1}
  Targets = {"arm", "intel"}
  BottleRuns = 2
  \* two versions, three runs of the release workflow
  MaxVersion = 2
  PluginRuns = 3
  Attempts = 2
  MaxFaults = 2
INVARIANTS
  PassIsOneState
  ReportedIsApproved
  TapServesBottles
  AdvertisedIsRecoverable
PROPERTIES
  BackoffHolds
  SummaryKeepsEdits
  ReleasesMoveForward
CHECK_DEADLOCK FALSE
