------------------------------ MODULE Workspace ------------------------------
(***************************************************************************)
(* The machines around one workspace, side by side: a behaviour is of one  *)
(* subject, chosen in its first state, and the variables of the other      *)
(* machines stay at None.  Nothing is shared between subjects but the      *)
(* names of processes.                                                     *)
(***************************************************************************)
EXTENDS Naturals, Sequences, FiniteSets

CONSTANTS
  Subjects, None,                                      \* the machines, no value
  Procs,                                               \* of WorkingSet, AgentBatch and others
  Paths, KeyThreads, MaxLine,                          \* of MCConflictKeys
  Items, LeaseIds, Keys, Conflicts, MaxRevision,       \* of WorkingSet
  BatchItems, BatchLeaseIds, Agents, KeyOverlap,       \* of AgentBatch
  TTL, Limit,
  Commands, Decisions, MaxTime, MaxPush,
  Order, Path, Concern, Trivial, Changed, Forms, MaxCalls,  \* of ResolveCommand, with Limit
  Sources, Events, SourceOf, SessionOf, Kind, RunOf,   \* of Telemetry
  Runs, Torn, MaxImports,
  Gates, Writers, MaxFaults                            \* of FinalGateRun

VARIABLES
  subject,
  candidate, existing,                                 \* of MCConflictKeys
  metadata, events, revision, late,                    \* of WorkingSet, with items, leases and job
  files, clock, tree, fresh,                           \* of AgentBatch, with items, leases, pc and job
  github, rows, lease, report, posted, kept, calls,    \* of ResolveCommand, with pc and job
  ledger, imports, file, tracker, recorded, writable,  \* of Telemetry, with store and job
  dir, inode, inodes, reserved, summary, archive, reported, faults,  \* of FinalGateRun, with store and job
  items, leases, pc, job, store

(* keys: pairs of located items *)
Overlap == INSTANCE MCConflictKeys WITH Threads <- KeyThreads
(* rows: commands that declare the rows they read and write *)
Rows == INSTANCE WorkingSet WITH NoId <- None
(* batch: batch claims and submissions *)
Batch == INSTANCE AgentBatch WITH Items <- BatchItems, Thread <- BatchItems,
                                  LeaseIds <- BatchLeaseIds, NoId <- None
(* resolve: agent resolve, by its flags *)
Resolve == INSTANCE ResolveCommand WITH NoThread <- None, NoConcern <- None
(* telemetry: imports, metrics, the report *)
Usage == INSTANCE Telemetry WITH NoRun <- None
(* gate: final gates that archive while other commands run *)
Gate == INSTANCE FinalGateRun

ASSUME WorkspaceAssumption ==
  /\ Overlap!LineBound /\ Rows!RowsAssumption /\ Resolve!ResolveAssumption /\ Gate!GateRunAssumption
  /\ Usage!TelemetryAssumption
  /\ Batch!ItemsAssumption /\ Batch!NoIdAssumption /\ Batch!OverlapAssumption /\ Batch!BatchAssumption

-----------------------------------------------------------------------------
(* Variables of no other machine, and those that several machines have. *)
OfKeys == <<candidate, existing>>
OfRows == <<metadata, events, revision, late>>
OfBatch == <<files, clock, tree, fresh>>
OfResolve == <<github, rows, lease, report, posted, kept, calls>>
OfTelemetry == <<ledger, imports, file, tracker, recorded, writable>>
OfGate == <<dir, inode, inodes, reserved, summary, archive, reported, faults>>
Tables == <<items, leases>>
vars == <<subject, OfKeys, OfRows, OfBatch, OfResolve, OfTelemetry, OfGate, Tables, pc, job, store>>

Init ==
  /\ subject \in Subjects
  /\ IF subject = "keys" THEN Overlap!Init ELSE candidate = None /\ existing = None
  /\ IF subject = "rows" THEN Rows!Init
     ELSE metadata = None /\ events = None /\ revision = None /\ late = None
  /\ IF subject = "batch" THEN Batch!Init ELSE files = None /\ clock = None /\ tree = None /\ fresh = None
  /\ IF subject = "resolve" THEN Resolve!Init
     ELSE /\ github = None /\ rows = None /\ lease = None /\ report = None
          /\ posted = None /\ kept = None /\ calls = None
  /\ IF subject = "telemetry" THEN Usage!Init
     ELSE /\ ledger = None /\ imports = None /\ file = None
          /\ tracker = None /\ recorded = None /\ writable = None
  /\ IF subject = "gate" THEN Gate!Init
     ELSE /\ dir = None /\ inode = None /\ inodes = None /\ reserved = None
          /\ summary = None /\ archive = None /\ reported = None /\ faults = None
  /\ subject \notin {"rows", "batch"} => items = None /\ leases = None
  /\ subject \notin {"batch", "resolve"} => pc = None
  /\ subject \notin {"telemetry", "gate"} => store = None
  /\ subject = "keys" => job = None

Next ==
  /\ UNCHANGED subject
  /\ \/ /\ subject = "keys" /\ Overlap!Next
        /\ UNCHANGED <<OfRows, OfBatch, OfResolve, OfTelemetry, OfGate, Tables, pc, job, store>>
     \/ /\ subject = "rows" /\ Rows!Next
        /\ UNCHANGED <<OfKeys, OfBatch, OfResolve, OfTelemetry, OfGate, pc, store>>
     \/ /\ subject = "batch" /\ Batch!Next
        /\ UNCHANGED <<OfKeys, OfRows, OfResolve, OfTelemetry, OfGate, store>>
     \/ /\ subject = "resolve" /\ Resolve!Next
        /\ UNCHANGED <<OfKeys, OfRows, OfBatch, OfTelemetry, OfGate, Tables, store>>
     \/ /\ subject = "telemetry" /\ Usage!Next
        /\ UNCHANGED <<OfKeys, OfRows, OfBatch, OfResolve, OfGate, Tables, pc>>
     \/ /\ subject = "gate" /\ Gate!Next
        /\ UNCHANGED <<OfKeys, OfRows, OfBatch, OfResolve, OfTelemetry, Tables, pc>>

Spec == Init /\ [][Next]_vars

-----------------------------------------------------------------------------
(* The properties are those of the modules, each stated and explained      *)
(* there for the code it is about.                                         *)

(* Two items conflict exactly when they share a line of a file or a thread,*)
(* whichever is claimed first, and only shared lines may be exempted for   *)
(* one agent (claim_lease, _hunk_overlap).                                 *)
OverlapIsSharedLines ==
  subject = "keys" =>
    Overlap!OverlapIsSharedLines /\ Overlap!OverlapIsSymmetric /\ Overlap!FileOverlapSharesNoThread

(* Threads claimed in one batch, or in racing ones, keep the exclusion of  *)
(* single claims (issue_batch_action_request).                             *)
BatchExclusion == subject = "batch" => Batch!BatchExclusion

(* However many batch claims of one agent race, from whatever each of them *)
(* read before, the agent ends up with no more leases than it may hold:    *)
(* each counts the leases of the revision it commits to (commit_batch).    *)
WithinLimit == subject = "batch" => Batch!WithinLimit

(* A command on the rows it declared decides and writes what it would on   *)
(* the whole session, and is never stopped as invalid                      *)
(* (transact_working_set).                                                 *)
CommitIsWhole == [][subject = "rows" => Rows!WholeStep /\ Rows!NeverInvalid']_vars

(* A commit changes no metadata key but those its command changed          *)
(* (metadata_delta).                                                       *)
MetadataSurvives == [][subject = "rows" => Rows!OwnKeysStep]_vars

(* A resolve answers the threads it was asked to, and when it reports      *)
(* COMPLETE all of them are answered on GitHub (publish_outcome_status).   *)
CompleteIsTrue == subject = "resolve" => Resolve!CompleteIsTrue /\ Resolve!AnswersWhatIsAsked

(* A resolve that has ended left no lease of its own behind.               *)
NoLeaseLeft == subject = "resolve" => Resolve!NoLeaseLeft

(* Overlapping imports and hosts that report one execution count once in   *)
(* the report, and a recorded execution once in the metrics                *)
(* (_dedupe_events, _dedupe_correlated_events, _record_locked).            *)
ReportedOnce == subject = "telemetry" => Usage!ReportedOnce /\ Usage!MetricsOnce

(* The archive of a passed gate keeps every commit reported as done, if    *)
(* only one gate runs.                                                     *)
ArchiveKeepsAll == subject = "gate" => Gate!ArchiveKeepsAll
=============================================================================
