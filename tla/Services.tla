------------------------------ MODULE Services ------------------------------
(***************************************************************************)
(* The machines that face GitHub and the package repositories, side by     *)
(* side: a behaviour is of one subject, chosen in its first state, and the *)
(* variables of the other machines stay at None.                           *)
(***************************************************************************)
EXTENDS Naturals, Sequences, FiniteSets

CONSTANTS
  Subjects, None,                                      \* the machines, no value
  Size, Selected, PageSize, LagReads,                  \* of StackGate
  ForcedBack, StackEvents,                             \* of StackGate
  Callers, Slots, Wait, Spacing, Window, MaxTime,      \* of GitHubCalls
  BranchEvents, BranchRuns,                            \* of BranchControl
  Versions, Rebuilds, Targets, BottleRuns,             \* of BottleRelease
  MaxVersion, PluginRuns,                              \* of PluginRelease
  Attempts, MaxFaults                                  \* of the last two

VARIABLES
  subject,
  stack, evidence, gate,                               \* of StackGate, with pr and events
  now, until, marked, holder, call, ended,             \* of GitHubCalls
  commits, ref, ci, review, clock, merge, report,      \* of BranchControl, with pr and events
  tap, active, fresh,                                  \* of BottleRelease, with assets, runs and faults
  main, tags, pypi, shown, branch,                     \* of PluginRelease, with assets, runs and faults
  pr, events, assets, runs, faults

Stack == INSTANCE StackGate WITH MaxEvents <- StackEvents
Calls == INSTANCE GitHubCalls
Branch == INSTANCE BranchControl WITH MaxEvents <- BranchEvents, MaxRuns <- BranchRuns
Bottles == INSTANCE BottleRelease WITH MaxRuns <- BottleRuns
Plugin == INSTANCE PluginRelease WITH MaxRuns <- PluginRuns

ASSUME ServicesAssumption ==
  /\ Stack!StackAssumption /\ Calls!CallsAssumption /\ Branch!BranchAssumption
  /\ Bottles!ReleaseAssumption /\ Plugin!PluginAssumption

-----------------------------------------------------------------------------
(* Variables of no other machine, and those that two machines have. *)
OfStack == <<stack, evidence, gate>>
OfCalls == <<now, until, marked, holder, call, ended>>
OfBranch == <<commits, ref, ci, review, clock, merge, report>>
OfBottles == <<tap, active, fresh>>
OfPlugin == <<main, tags, pypi, shown, branch>>
OfPullRequests == <<pr, events>>
OfReleases == <<assets, runs, faults>>
vars == <<subject, OfStack, OfCalls, OfBranch, OfBottles, OfPlugin, OfPullRequests, OfReleases>>

Init ==
  /\ subject \in Subjects
  /\ IF subject = "stack" THEN Stack!Init ELSE stack = None /\ evidence = None /\ gate = None
  /\ IF subject = "calls" THEN Calls!Init
     ELSE now = None /\ until = None /\ marked = None /\ holder = None /\ call = None /\ ended = None
  /\ IF subject = "branch" THEN Branch!Init
     ELSE /\ commits = None /\ ref = None /\ ci = None /\ review = None /\ clock = None
          /\ merge = None /\ report = None
  /\ IF subject = "bottles" THEN Bottles!Init ELSE tap = None /\ active = None /\ fresh = None
  /\ IF subject = "plugin" THEN Plugin!Init
     ELSE main = None /\ tags = None /\ pypi = None /\ shown = None /\ branch = None
  /\ subject \notin {"stack", "branch"} => pr = None /\ events = None
  /\ subject \notin {"bottles", "plugin"} => assets = None /\ runs = None /\ faults = None

Next ==
  /\ UNCHANGED subject
  /\ \/ subject = "stack" /\ Stack!Next /\ UNCHANGED <<OfCalls, OfBranch, OfBottles, OfPlugin, OfReleases>>
     \/ subject = "calls" /\ Calls!Next /\ UNCHANGED <<OfStack, OfBranch, OfBottles, OfPlugin, OfPullRequests, OfReleases>>
     \/ subject = "branch" /\ Branch!Next /\ UNCHANGED <<OfStack, OfCalls, OfBottles, OfPlugin, OfReleases>>
     \/ subject = "bottles" /\ Bottles!Next /\ UNCHANGED <<OfStack, OfCalls, OfBranch, OfPlugin, OfPullRequests>>
     \/ subject = "plugin" /\ Plugin!Next /\ UNCHANGED <<OfStack, OfCalls, OfBranch, OfBottles, OfPullRequests>>

Spec == Init /\ [][Next]_vars

-----------------------------------------------------------------------------
(* The properties are those of the modules, each stated and explained      *)
(* there for the code it is about.                                         *)

(* A stack gate that passes speaks of one state of the stack, and of       *)
(* evidence for every member of it (run_stack_gate).                       *)
PassIsOneState == subject = "stack" => Stack!PassIsOneState

(* The shared backoff window is never shortened, and mutations that share  *)
(* the lane keep their distance (record_rate_limit, _space_mutation).      *)
BackoffHolds == [][subject = "calls" => Calls!LaterWindow /\ Calls!MutationsSpaced']_vars

(* A guarded merge reported as merged is the approved one (verify_merged). *)
ReportedIsApproved == subject = "branch" => Branch!ReportedIsApproved

(* The readiness summary never undoes an edit of the pull request's body   *)
(* (replace_summary).                                                      *)
SummaryKeepsEdits == [][subject = "branch" => Branch!EditsKept]_vars

(* The formula in the tap names published bottles, and what an interrupted *)
(* release left behind is complete enough for a retry (publish_bottles).   *)
TapServesBottles == subject = "bottles" => Bottles!TapServesBottles /\ Bottles!RetryCanFinish

(* The advertised plugin version can be installed and recovered            *)
(* (publish_git).                                                          *)
AdvertisedIsRecoverable == subject = "plugin" => Plugin!AdvertisedIsRecoverable

(* No run takes the tap or the marketplace back to an older release.       *)
ReleasesMoveForward ==
  [][/\ subject = "bottles" => Bottles!TapForward
     /\ subject = "plugin" => Plugin!MarketplaceForward]_vars
=============================================================================
