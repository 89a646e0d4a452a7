# Formal verification of gh-address-cr

TLA+ models, model-checking runs and machine-checked proofs for the runtime of
gh-address-cr: the tool through which AI agents claim review items of a pull
request, submit responses and publish them to GitHub. Paths below are relative to
`src/src/gh_address_cr/`.

## 1. The system

Every command (`agent next`, `agent resolve`, `agent submit`, `agent publish`, ...) is
an operating-system process of its own. Several run at once, for several agents, on
one workspace. All they share is a SQLite database (the runtime store), advisory lock
files, files rendered from the database, and GitHub. There is no daemon and no
in-memory coordination, so correctness rests on what each command re-checks when it
commits.

| Component | State it keeps | Operations | Interacts through | What is hard | What makes it correct |
|---|---|---|---|---|---|
| Runtime store (`core/runtime_store.py`, `core/session.py`) | items, leases, evidence, outbox rows, a revision number | load, transact with or without an expected revision, replace, recover | every component | loads outside transactions, lost races, initialisation races | a commit is based on the revision it names; retries are bounded |
| Leases (`core/leases.py`) | lease records with status, owner, expiry, conflict keys | claim, submit, accept, release, expire, reclaim | called by the protocol inside a store transaction | two claims, expiry against a late answer, range arithmetic | one active lease per item, no two agents on the same lines, terminal is final |
| Agent protocol (`core/agent_protocol*.py`) | request files, claim markers on items | issue request, re-enter, classify, prepare and accept a response, roll back | store, GitHub (stack context, cited commits) | decisions on stale loads, rejection paths that also change state | only accepted work is handled, only the owner's lease is touched |
| Publisher (`core/publisher.py`) | publish plan of a run | plan, reply, reconcile, resolve, save | outbox, GitHub | crash between effect and record, two publishers, lost answers | one reply per thread, nothing recorded that did not happen |
| Outbox (`core/side_effect_outbox.py`, `core/process_lock.py`) | status and owner of every effect, execution locks | plan, begin, finish, reconcile, recover | store, lock files | telling a dead executor from a live one | a running effect belongs to its executor |
| Compatibility artifacts (`_materialize`, `recover_artifacts`) | `session.json`, `evidence.jsonl`, bookkeeping rows | render, recover | store, file system | crash windows, torn reads | the files never run ahead of the store and catch up with it |
| Batch protocol (`core/agent_batch.py`) | several leases under one request | claim, compensate, submit | protocol, store | partial failure | all or exactly its own leases are undone |
| Workflow and intake (`core/workflow*.py`, `intake/`, `commands/`) | items as read from GitHub | sync, reopen, evidence, one-shot commands | store, protocol, GitHub | remote state moving while local state is worked on | no accepted work lost, no resolved thread answered twice |
| Final gate and stacks (`core/gate.py`, `core/runtime_kernel/`, `core/stack_gate.py`) | facts, decision | reconcile, project, decide | store, GitHub | stale or partial facts | the gate passes only when nothing blocks |
| Orchestrator (`orchestrator/`) | queue and dispatch receipts in its own file | start, step, submit, resume, stop | protocol | two stores of truth | receipts agree with leases |
| Throttle (`github/throttle.py`) | mutation lock, read slots, backoff file | gate a call, open the backoff | every GitHub call | waits that give up | spacing and backoff respected when the lock is held |
| Telemetry (`core/telemetry*.py`) | event files, a ledger of fingerprints, summaries | record, import, report | every command, host agents | imports without a lock, torn appends | what happened is counted once |
| Release scripts (`scripts/release/`, beside `src/`) | branches, pull requests, release assets, tap, PyPI, marketplace branch | readiness, guarded merge, bottle and plugin publication, recovery | GitHub, PyPI, CI jobs | no transaction across services, lost answers, jobs that die | what is advertised can be installed, what is merged was approved |

Presentation (CLI, templates, remediation texts) and data classes hold no state the
protocol depends on and are left out. `PROJECT.json` lists every component with its
status, and every hazard of the code at its line with the properties that watch it.

## 2. Modules

| Module | Models | Composition |
|---|---|---|
| `ConflictKeys` | the keys of an item and the overlap test of `claim_lease`; no state | instantiated by the MC modules to compute the conflict relation of their items |
| `LeaseTable` | abstract: at most one holder per item, ids granted once | refined by `AgentProtocol` |
| `Leases` | the lease operators: expiry, claim checks, closing, the claim marker derived for every item; no state | extended by `AgentProtocol` and `AgentBatch` |
| `AgentProtocol` | leases, items, the commands that change them, the store's revision | extends `Leases`; `INSTANCE LeaseTable` with the refinement mapping |
| `LeaseRecovery` | what a refused command tells its agent to do next | extends `Leases`, extended by `AgentProtocol`, which states of its tables that the advice can be followed |
| `AgentBatch` | batch claims with their request files, batch submission, chunks of matching threads | extends `Leases`; a batch of one row stands for `agent submit` |
| `ResolveCommand` | `agent resolve` from its flags to the outcome it reports | above `AgentBatch` and `Publisher`, each reduced to its outcome |
| `Publisher` | publish runs, outbox rows, execution locks, GitHub threads | beside `AgentProtocol`, whose commits it sees as `ForeignCommit` |
| `WorkspaceStore` | the SQLite store, the files rendered from it, initialisation, import, upgrade, recovery | below all of them: what it proves of a commit is what they assume of one step |
| `WorkingSet` | transactions on declared rows, merging of metadata | between the commands and `WorkspaceStore` |
| `ReviewSession` | refresh, answers, evidence, publish, gate and archive over the life of a pull request | composes the commands, one step per load or commit |
| `FinalGateRun` | artifacts, archive and removal after a passed gate | takes the end of `ReviewSession` apart, at the level of files |
| `StackGate` | paged read of a stack, gate over its members, binding of evidence to a head tree | one member's gate is `ReviewSession` |
| `GitHubCalls` | one `gh` call with its locks, retries and shared backoff | below every module that talks to GitHub |
| `Telemetry` | imports, runtime metrics, the efficiency report | beside the rest; nothing reads it back |
| `Orchestrator` | dispatch file and worker packets on top of leases | its grant, submission and expiry are steps of `AgentProtocol` |
| `BranchControl`, `BottleRelease`, `PluginRelease` | the release scripts | independent |
| `MCAgentProtocol`, `MCAgentBatch`, `MCPublisher`, `MCConflictKeys`, `MCReviewSession`, `MCFinalGateRun`, `MCOrchestrator` | instances for TLC | extend the above |
| `Services` | the machines that face GitHub and the package repositories, side by side: a behaviour is of one *subject* chosen in its first state, the variables of the other machines stay at `None` | `INSTANCE` of `StackGate`, `GitHubCalls`, `BranchControl`, `BottleRelease`, `PluginRelease`; constants in `MCServices.cfg` |
| `Workspace` | the machines around one workspace, side by side in the same way: a behaviour is of one subject, so states add up and do not multiply | `INSTANCE` of `MCConflictKeys`, `WorkingSet`, `AgentBatch`, `ResolveCommand`, `Telemetry`, `FinalGateRun`; `MCWorkspace` gives the constants their values |
| `AgentProtocolProofs`, `AgentBatchProofs`, `PublisherProofs`, `WorkspaceStoreProofs`, `ReviewSessionProofs`, `OrchestratorProofs`, `WorkspaceProofs`, `ServicesProofs` | theorems about the module each is named for (section 4) | each extends it |

Definitions named `...Late`, `...Any`, `...Forever` and so on, commented "Mutant:", are
deliberately wrong variants of the definition after them. No specification uses them;
substituting one for its original must make TLC report the property listed with it in
`PROJECT.json`.

### AgentProtocol

`leases` and `items` are the committed tables; `fresh` is the set of processes whose
loaded revision is still the latest one. This replaces the revision counter: a commit
with an expected revision succeeds exactly when its process is in `fresh`, and every
commit empties the set. `pc` and `job` are the position and local variables of the
command each process runs. One step is one load (with the decision taken on it) or one
transaction; everything else may happen in between.

* `NextCommand`, `ResolveCommand`/`ResolveIssue` load and decide as
  `issue_action_request` does: claim, re-enter the agent's own fixer lease (`Reenter`),
  or refuse.
  `CommitClaim`/`ClaimConflict` are `commit_claim`, which carries no expected revision
  and repeats the lease checks with the time noted at the load. `PersistRefusal` writes
  the loaded scope back under its revision.
* `SubmitCommand`/`PrepareSubmission` check a response against a load; `AcceptSubmission`,
  `RefuseSubmission` and `AcceptStale` are the three ends of the accept transaction
  (rebinding to the agent's current lease included); `PersistRejection` and
  `PersistStaleContext` record refusals. `ResolvePublished` and `Rollback` are the rest
  of the one-shot command (`claimed_fixer_lease`).
* `RecordClassification`, `ReclaimLeases`, and the load, reload and save of
  `agent publish` are the other writers.
* `Commit` always applies `Project`, the claim projection the store derives on every
  load and write.
* `Tick` is time, `Push` a push that changes the tree a stacked request is bound to,
  `Crash` a process that dies or unwinds anywhere.

Abstractions. Final states of findings are one state, `handled`. The read-only roles
`review_producer` and `gatekeeper` take part in leasing like `verifier` and are not
listed. A response that fails any data check is the nondeterministic `reject` branch of
`PrepareSubmission`. Lease ids are drawn from a finite set, and a command that may
claim starts only while one is left (`RoomToClaim`). The request binding is a counter
of pushes. Request files, evidence records and lease events are left out.

### AgentBatch

The tables are those of `AgentProtocol` with, for each lease, whether its request file
is on disk (`files`) and, for each item, the classification a batch looks at.
`CommitBatch` is the whole of `commit_batch`: expiry, selection, the limit, the
conflict checks among the threads of the batch and with the table, evidence, claims and
re-entries, in one transaction. `WriteRequest`, `WriteFails`, `Compensate` and `Unlink`
are what follows the commit, one file at a time. `MatchingCommand` to `RollbackRow`
are one chunk of `agent resolve` over matching threads; it submits through the same
`PrepareBatch` and `SaveBatch` as `agent resolve --input`. A lease row that compensation
removes becomes "deleted", so that a response naming it can still be followed to the
lease it is rebound to.

Abstractions. A batch takes threads in the order of the session; the model takes any.
Classification and claim of one matched thread are one step. The file filter, response
skeletons, stale threads and the contents of responses are left out; a response may be
refused for its contents at any time.

### Publisher

`rows` is the outbox table, `lock` the execution locks, `gh` what GitHub holds of each
thread (replies of the publisher, whether the latest comment is one of them,
resolved), `items` the committed flags of the items. A run recovers dead rows, loads,
plans, and for every thread replies and resolves, each under the execution guard and
each recorded in transactions of its own; then it saves the session once.
`ReconcileInFlightReply` and `PublisherNeverReplied` are the two questions asked of
GitHub about an interrupted reply. The operating system frees the locks of a dead
process (`Crash` releases them).

Abstractions. The owner token, a uuid, is the number of the attempt. A lock probe takes
the lock for an instant, so a probe may mistake another probe for an executor; both
places where this shows are nondeterministic. A failing rendering of artifacts after an
outbox commit is a `Crash`. Threads the session already knows to be resolved, and
replies a human wrote with the publisher's login, are not modelled.
`LostResponses` says whether a mutation GitHub applied may look failed to its caller.

### LeaseRecovery

`Recovery` is `calculate_lease_recovery_state`: the advice (`stop`, `refresh_state`,
`reclaim`, `next`, ...) as a function of the lease, its item and the caller.
`AdviceIsFollowable` follows it in every reachable state of `AgentProtocol`. It says
what the next command would find, not that it succeeds: a `reclaim` can still be refused
over an overlapping lease of another item, and `refresh_state` for a released lease of
an item that has been answered meanwhile leads to `NO_ELIGIBLE_ITEM`.

### WorkspaceStore

One step is one autocommit statement, one transaction, or one file written under the
write lock. `Probe`, `Upgrade`, `Import` (`ReadLegacy`, `SetAside`, `PublishBundle`,
`ImportCommit`) open the store; `ReadRevision`, `ReadRows`, `LoadSession`, `LoadItems`
are the separate statements of a load; `SaveProbe`, `SaveExists`, `Bootstrap`, `Replace`,
`Transact` the ways to commit; `TakeLock` to `Record` the rendering of `session.json`
and `evidence.jsonl` with its bookkeeping. The contents of a session are the set of
revisions whose effects it contains, so a lost update is a hole in that set. `Crash`,
`Interrupted`, `RenderFails`, `Edit`, `LegacyWrite` and `Tamper` are the faults.

Abstractions. The metadata file follows `evidence.jsonl`; nothing edits a file while it
is rendered; an older build does not write during an import; the first load of
`open_or_migrate` is one step; recovery of outbox rows is in `Publisher`.

### WorkingSet

`Selected` and `View` are what a command that declares its rows loads, `Results` what
each mutation makes of a view, `Write` what is stored. `CommitIsWhole` compares every
decision and every stored row with those of the same mutation on the whole session.
`LoadClaim` and `LoadSubmission` load long before `Commit`; in between `Refresh` changes
the copy's metadata, and `Merged` (`metadata_delta`) decides which of it is stored.
`active_lease_item_ids` is declared by no command and left out; revisions of rows,
evidence and outbox rows are abstracted.

### ReviewSession

`remote` is GitHub's view of each thread, `items` the session's, `rows` the outbox.
Commands of the load-compute-save kind (`address`, the gate, evidence, findings) are
`StartLoadSave` and `Save`; answers are `StartAnswer`, `Reopen`, `Classify`, `Issue`,
`Claim`, `Accept` or `Rejected`; a publish is `Publish` to `PublishSave`. `NextAction` is
the recovery the gate names for its failure codes, and one process, `Agent`, follows it.
`OnGitHub` is what people do there.

Abstractions. An effect on GitHub and its outbox row are one step (`Publisher` takes
them apart); leases of live commands do not expire; the URL given to
`record_reply_evidence` is taken on trust, as the code does.

### ResolveCommand

`Route` maps flags to exactly one of five routes; `SelectOne`, `SelectInput`,
`SelectFixes`, `SelectStale`, `SelectDeclines` are their selections with every refusal;
`NextChunk`, `Claim`, `Submit`, `Reject`, `GivenBack` the chunks; `Post` and `Status` the
publish and the outcome. Leases are reduced to their holder, agents to processes, a
submit to its outcome, a publish run to two steps.

The code does some things a reader may not expect, and the model does them as well: a
later chunk whose submit is rejected raises without reporting or publishing what earlier
chunks had accepted; declining stale threads with distinct bodies posts one shared reply;
a thread alias is resolved against whatever list the session has now (the docstring of
`resolve_thread_alias` says a stale handle is never mis-resolved); `--closed` reopens the
row, and a refused claim leaves it reopened until the next refresh.

### FinalGateRun

`inode` tells the database files of one path apart, so that a command can hold a
connection to an unlinked one (SQLite refuses to write through it). `WriteArtifacts` and
`WriteStackArtifacts` recreate the directory; `Archive`, `Reserve`, `Name`, `Copy`,
`Backup`, `Remove`, `Rewrite` are `archive_and_clean_workspace` and what follows it.
`rewrite_archived_audit_artifacts` rewrites the details of every audit entry, not only
those of this run; the model keeps only where the summary points.

### StackGate

`Page` reads one page of the stack, `Complete` projects it; `Member` runs the gate of one
member against that opening read; the stack is read again at the end (`Stale`).
`HeadTreeOid` is empty while GitHub still shows the head branch at an older commit
(`CatchUp`), and a base is retargeted when its branch merges. `Pushed` are the commits a
push may bring: new ones, and with `ForcedBack` also the first one again, by force. The
fingerprints of two reads cannot tell a commit that was there all the time from one that
came back, so `PassIsOneState` is checked and proved for `~ForcedBack` only;
`MCForcedBack.cfg` shows what happens otherwise.

### GitHubCalls

`Check`, `Acquire` or `GoWithout`, `Spaced`, `Go`, `Return`, `Marks` and `MayRecord` are
one call through `gh_call_gate`; `Done` classifies the failure and `MayRetry` retries a
read. Two details the model shows and no property forbids: a rate-limit text that also
carries a network marker is classed as network trouble, retried and not recorded; the
mutation lock is released before the backoff is recorded.

### Telemetry

`Load`, `WriteLedger`, `AppendEvents`, `Summarise` are an import, `Record`, `Bind` and
`ReadHistory` the runtime's metrics, `Report` the report. `Writable` and `Tear` are the
file system. An import that dies between ledger and events makes its retry answer
`DUPLICATE_TELEMETRY_IMPORT` for events that were never stored; a torn append makes later
imports `CORRUPTED_TELEMETRY_STORE`; `configure_context` drops metrics it could not persist. `ReportedOnce`
is about counting twice, not about these losses. The coverage label is left out.

### Orchestrator

`file` is `orchestration.json`, `packets` what workers hold. `Sync` is the beginning of
`step` (load, `Reconciled`, `HasRoom`), then `Claim`, `Project`, `Save`; `StartSubmit` to
`Submit` is a worker's submission. The file is written whole, without a revision.

Bounds and abstractions: only the fixer role; items are claimed in order; a version 1
file counts as an empty session; one submission per item at a time; autopilot is left
out. Two overlapping steps can exceed `max_concurrency`
(`tests/test_orchestrator_harness.py:389` accepts it), so the instance has one
coordinator. The message "Session is locked and fully handled" also appears while other
agents hold leases.

### BranchControl, BottleRelease, PluginRelease

`BranchControl`: `Dispatch` to `Redispatch` are the guarded merge with every request to
GitHub a step (`RequestFails`, `Elapse` for the deadline), `StartReport` to `PatchBody`
the readiness report. Readiness and merge run one at a time, and the check of the refs in
`collect_readiness` is atomic. A human edit between the re-read and the PATCH is
overwritten: `SummaryKeepsEdits` compares with the body that was read again. A deadline
that passes after the PUT was accepted is reported as "blocked" although the merge
happened; there is no lock on the base, and the code reports such a merge as an anomaly.

`BottleRelease`: prepare, snapshot, build per platform, merge, publication of immutable
assets, verification and tap, any of which may die (`NewRun` resumes or starts over). An
upload is whole or absent.

`PluginRelease`: tag, PyPI files (`Stage`, `Confirm`), assets, marketplace branch
(`GitFetch`, `Policy`, `GitPush`, `VerifyRemote`) and the recovery of older versions. Once
main has moved past the tag, the failed jobs of a run cannot continue (`check-main.sh`).

## 3. Runs

| Run | Configuration and bounds | Shows |
|---|---|---|
| `contention` | two overlapping threads, two agents, fixer and triage, two leases, two processes | one active lease per item, exclusion of overlapping claims, advice that can be followed, refinement of `LeaseTable`. Two leases are enough for every pairwise conflict, the properties being about pairs |
| `one_shot` | one thread, fixer and verifier, `next`, `resolve` and `submit`, expiry, one push, one attempt (0.9M states) | evidence for handled items, finality of terminal leases, through rejection, rebinding and rollback |
| `lease_liveness` | one thread, all commands, two attempts, fairness; deadlock checked | every command ends, every lease ends |
| `publisher` | two publishers of one thread or one publisher of two threads, two runs, one crash anywhere, fairness (0.24M states) | one reply; recorded successes are real; threads are closed only when published; every publish ends and leaves no lock |
| `batch_rows` | two threads, two leases, one agent, two processes, limit 2, one push, every batch command (1.7M states) | only its own compensation or rollback changes an ended lease; one submit of a file accepts all its rows or none, also when rows are rebound |
| `workspace_store` | two processes, four kinds of starting workspace, two writing commands, one fault, one foreign edit, fairness | no commit lost; bookkeeping, bundle and migration history true; success means committed; the files catch up |
| `review_session` | one thread, one finding, an agent and another process, a pending review or none, one event by people, one fault, two attempts, fairness (0.6M states) | one reply; what a passed gate asserts is true; evidence is real and stays; the gate passes |
| `orchestrator` | two items, two workers, limit one, two faults, fairness | the limit holds; a token is refused only when its lease is gone; every item is handled |
| `workspace` | six subjects, see below (1.0M states) | nine properties |
| `services` | five subjects, see below | seven properties |

Subjects of `workspace`:

| Subject | Bounds | Properties |
|---|---|---|
| `keys` | every pair of items over two paths, lines up to 2, one thread, absent ends and a negative start. Two lines suffice for disjoint, touching, nested and reversed ranges | `OverlapIsSharedLines` (with symmetry and the same-agent exemption) |
| `rows` | two commands, two conflicting items, two leases, one metadata key, four revisions | `CommitIsWhole` (with `NeverInvalid`), `MetadataSurvives` |
| `batch` | four threads of which one overlaps two others, three leases, limit 2, one agent with two processes, failing request files. One lease more than the limit and three threads free of each other, so that two racing batches could exceed it | `BatchExclusion`, `WithinLimit` |
| `resolve` | two threads of one file, one without first comment, two agents, five calls that take every route, chunks of two | `CompleteIsTrue` (with `AnswersWhatIsAsked`), `NoLeaseLeft` |
| `telemetry` | two imports, three events (two hosts report one execution, one malformed), two runtime executions | `ReportedOnce` (with `MetricsOnce`) |
| `gate` | one final gate, two other commands, one fault | `ArchiveKeepsAll` |

Subjects of `services`:

| Subject | Bounds | Properties |
|---|---|---|
| `stack` | two members, pages of one, a head that lags for two reads, two events by people | `PassIsOneState` |
| `calls` | two processes, one read slot, waiting 1, spacing 1, backoff 2 of three time units, two attempts | `BackoffHolds` (with spacing of mutations) |
| `branch` | one pull request, one event by people or CI, two runs | `ReportedIsApproved`, `SummaryKeepsEdits` |
| `bottles` | two versions, two rebuilds, two platforms, two runs, two faults | `TapServesBottles` (with `RetryCanFinish`), `ReleasesMoveForward` |
| `plugin` | two versions, three runs, two faults | `AdvertisedIsRecoverable`, `ReleasesMoveForward` |

`MaxTime`, `MaxPush`, `LeaseIds`, `MaxRuns`, `MaxCrash`, `MaxEvents`, `MaxFaults`,
`MaxWrites` and `MaxEdits` bound the environment, not the protocol; `Attempts` is the
code's own constant `STALE_REVISION_ATTEMPTS`, smaller here. With `TTL = MaxTime = 1` a
lease is granted, is valid and expires within a run. Symmetry is used for processes,
agents and threads in runs without liveness only. These safety runs switch deadlock
checking off because the bounds end the behaviours (no ids left, no more runs); the
liveness run of the leases keeps it on. `moment`, `ended`, `seen`, `report`, `kept` and
`calls`, where a module has them, are history variables.

The modules state more than the listed runs check, with a "Mutant:" operator each: the
type invariants, `RunningIsInFlight` and `SuccessIsFinal` of `Publisher`,
`AcceptOnlyActive` of `AgentBatch`, and others. They hold in the instances above
(or in the configurations below); they are left out of the runs to keep these few.

### Disagreements

Two runs state what the source promises and find the code doing something else;
`PROJECT.json` quotes the lines under "findings".

| Run | Behaviour found |
|---|---|
| `lost_response` | a reply is applied, its answer lost, the row recorded as failed; the next publish replies again |
| `archive_loses` | two gates pass; the artifacts of the second recreate the directory the first removed; a command creates a store there and commits; the second gate, which saw no store and took no reservation, removes it |

A third finding is a text that promises less than the code does, under the passing run
`batch_rows`. `_accepted_item_ids` (`core/agent_batch.py:1029`) says "Batch submit is not
atomic: ... a failure on a later row leaves the earlier ones accepted and persisted". So
do a comment in `_batch_recovery_payload` (`:1122`), the comment of the
chunk's error path (`core/workflow_matching.py:458`, "Rows an earlier part of the same
submit already accepted") and the header of
`tests/contract/test_batch_claim_and_submit_contract.py:17`. `WholeBatch` states the
opposite and holds: `submit_batch_action_response` first prepares every row, with
`lease_submission_rejection_reason` on the same load and at the same `now` as the
acceptance, then checks the stack and the cited commits of every row, and only then
accepts; what `accept_action_response_submission` raises a `WorkflowError` for has been
ruled out by then (`submit_lease` looks at status, expiry, agent, item and hash; the
role is the lease's own; rows name distinct items, so no acceptance ends another row's
lease). Evidence is buffered on the session (`SessionEvidenceLedger`), and there is one
save after the last row. The save in the error path (`:788` to `:803`) would persist
rows accepted before a `WorkflowError`, and the test gets there by patching the acceptance
to fail on its second row (`_fail_on_second_row`); any other exception skips the save.
What the recovery text names as accepted was accepted by an earlier command: the docstring's own
case of a file that is submitted again.
That a *command* may accept some of its threads and not others is no contradiction:
`agent resolve` over matching threads submits one file per chunk and declines one thread
at a time, and `ResolveCommand` has the earlier submits stand.

Further configurations, to be run by hand as
`tlc -config <file> <module>`; the first seven end in a violation.

| Configuration (module) | Property | Behaviour |
|---|---|---|
| `MCStaleContext.cfg` (`MCAgentProtocol`) | `ResetOnlyByOwner` | an accepted response is submitted again after a push: the rejection returns the handled item to claimable (`core/agent_protocol_leases.py:79`; `docs/rfcs/033-lease-state-machine/contracts/lease-transitions.md:118` has the marker reset "only when the marker belongs to that lease") |
| `MCBatchCompensation.cfg` (`MCAgentBatch`) | `TerminalLeaseIsFinal` | a batch is committed, a response for one of its leases is accepted, writing a later file fails: the accepted lease is removed and its item reopened (`core/agent_batch.py:512`; `lease-transitions.md:23`: "A terminal lease never changes status again.") |
| `MCInvalidIsCorrupt.cfg` (`WorkspaceStore`) | `InvalidIsCorrupt` | revision and bookkeeping rows are read around another command's commit and rendering, and the load stops with the non-retryable `PERSISTENCE_INVALID` (`core/runtime_store.py:971`; `skill/references/status-action-map.md:97`: "the store failed an integrity check"). `save_session` can report the same when a first command creates and renders the store between its two looks |
| `MCBusyCommitted.cfg` (`WorkspaceStore`) | `FailureCommittedNothing` | a transaction commits, meets a locked store when it renders, and reports `PERSISTENCE_BUSY` (`core/session.py:368`; `status-action-map.md:90`: "The failed command committed nothing.") |
| `MCReopenedThread.cfg` (`MCReviewSession`) | `GatePasses` | a published thread is reopened: it becomes publish-ready with its old response, cannot be claimed, and every publish reuses the recorded results, so the recovery of `status-action-map.md:144` goes round (`core/publisher.py:747`) |
| `MCArchiveResurrects.cfg` (`MCReviewSession`) | `OneReply` | a save that began before the archive creates the store anew from its old session with an empty outbox; the next publish replies again (`core/session.py:329`; `core/publisher.py:406`: "performs no new mutation for work already done") |
| `MCForcedBack.cfg` (`Services`) | `PassIsOneState` | a member is read with its first commit, pushed to, and before the closing read a forced push brings the first commit back: both reads agree and the gate passes, although at the end of the opening read the member was at a commit it has no evidence for (`core/stack_gate.py:190`). What the gate accepted is what the stack has when it ends |
| `MCBatchClaim.cfg` (`MCAgentBatch`) | `BatchExclusion`, `WithinLimit` | pass: as the subject `batch`, with threads classified otherwise meanwhile (0.4M states) |
| `Publisher.cfg` (`Publisher`) | `TypeOK`, `RunningIsInFlight`, `AtMostOneReply`, `SuccessIsFinal` | pass: two processes, three runs, one crash (0.55M states) |

`TerminalLeaseIsFinal` thus holds for single commands (`one_shot`, and by proof for
`AgentProtocol`) and fails once the compensation of a batch runs beside a submission.

Three properties are stated in the modules but are in no configuration, because they do
not hold; each is one more reading of a decision taken on an older load:

- `ClaimOnlyEligible` (`AgentProtocol`): B loads the open item, A's response for it is
  accepted, B's claim commits, for `commit_claim` repeats the lease checks but not
  `_item_is_open`. The handled item is leased again.
- `RollbackOnlyOwnClaim` (`AgentProtocol`) and `RollbackOnlyCreated` (`AgentBatch`): a
  command notes which leases exist, another process of the same agent claims, the
  command re-enters that lease, fails, and releases it as if it were its own.

`AtMostOneReply` holds with one crash and no lost answer (`publisher`). It fails once
answers are lost (`lost_response`), and also with two crashes: a publisher reads that
no reply exists, another one posts and dies, the row is unknown again, the first
records "no effect" on its old evidence and posts.

Smaller observations, met while translating and part of the models: an earlier manual
comment by the viewer makes publish skip the accepted reply; revisions restart at 1 after an archive; expiry returns an item a refresh had
closed to open, without blocking; `decline_item` lacks the check
`THREAD_ALREADY_RESOLVED` that the fix path makes.

### Fairness

`FairSpec` of `AgentProtocol` assumes that a running command keeps being scheduled
(weak fairness of the steps of each process), that time passes, and that somebody
keeps running a command that expires leases (`agent reclaim`; `agent next` does it as
well). No fairness is assumed for starting commands, for crashes, pushes or for winning
a race. `Publisher` (and `MCSpec` over it) assumes scheduling of running publishers only.

`WorkspaceStore`: processes are scheduled, and somebody keeps running commands that
load, since every workflow begins with one; recovery of the files happens there.
`ReviewSession`: commands are scheduled, the agent keeps following the command it was
given, the lease of a dead command runs out, and people settle what only they can; no
fairness for the other process, for events or for faults. `Orchestrator`: a started
command runs on, the coordinator keeps stepping and starts a session when there is
none, items get classified, workers that hold a packet submit it, and an orphaned lease
runs out. Stepping and submitting are strongly fair, because the coordinator's own
commands and the other packets disable them for a while and they come back.

## 4. Proofs

Every theorem is about the specification the runs check, for every value of its
constants that satisfies the named `ASSUME`s of its modules (sizes are natural numbers,
the value that stands for nobody is nobody, sets that are counted are finite). What a
theorem assumes beyond them stands in its statement and below. A theorem about an
invariant that is not inductive goes through the invariant in the fourth column.

| Module | Theorem | States | Argument |
|---|---|---|---|
| `AgentProtocolProofs` | `TypeCorrect` | `TypeOK` | one lemma per operator the actions are built from |
| | `LeaseExclusion`, `OneLeasePerItem` | `ConflictExclusion`, `OneActiveLeasePerItem` | `LeaseStep`: every step but `CommitClaim` only ends leases; `ClaimStep`: that one evaluates `CanClaim` on the committed table |
| | `TerminalIsFinal` | `TerminalLeaseIsFinal` | the same two lemmas |
| | `HandledHasEvidence` | `HandledHasAcceptedLease` | `ItemInv` |
| | `AdviceFollowable` | `AdviceIsFollowable` | from exclusion and the markers in `ItemInv` |
| | `Refinement` | `ImplementsLeaseTable` | steps that end leases are `Free`, `CommitClaim` is `Grant`, the rest stutters |
| `AgentBatchProofs` | `BatchTypeCorrect`, `BatchesExclude` | `TypeOK`, `BatchExclusion` | `BatchInv` |
| | `EndedStays` | `EndedLeaseStays` | by action |
| | `BatchIsWhole` | `WholeBatch` | `SaveOK` in `BatchInv` |
| | `LimitHolds` | `WithinLimit`, without matching | `LimitInv` |
| `PublisherProofs` | `PublisherTypeCorrect` | `TypeOK` | by action |
| | `SuccessReal`, `ClosedPublished` | `SuccessIsReal`, `ClosedIsPublished` | `RealInv` |
| | `RunningBelongs` | `RunningIsInFlight` | `GuardInv` |
| | `SuccessFinal` | `SuccessIsFinal` | by action |
| | `OneReplyPerFault` | `AtMostOneReply` | `OnceInv` |
| `WorkspaceStoreProofs` | `StoreTypeCorrect`, `NothingIsLost`, `RecordsTrue`, `SuccessCommitted` | `TypeOK`, `NothingLost`, `RecordsAreTrue`, `SuccessIsCommitted` | `StoreInv` |
| `OrchestratorProofs` | `OrchestratorTypeCorrect`, `ConcurrencyLimited`, `TokensWork` | `TypeOK`, `WithinConcurrency`, `TokenWorks` | `Room`, `Places` |
| `ReviewSessionProofs` | `ReviewTypeCorrect`, `PassesProven`, `EvidenceKeeps` | `TypeOK`, `PassIsProven`, `EvidenceStays` | `ReviewInv` |
| | `RepliesOnce` | `OneReply` | `PostedOnce` |
| `WorkspaceProofs` | `OverlapMeansShared`, `OverlapSymmetric` | the overlap test of `claim_lease` holds of two items exactly when they share a thread or lines, in either order (no producer gives an item explicit keys) | interval arithmetic, for all line numbers |
| | `KeysAreLines` | `OverlapIsSharedLines` | the two above, for pairs of located items with any bound on lines |
| | `PartialCommitsAreWhole` | `CommitIsWhole` | `RowsInv`; `Decides`, a lemma per command |
| | `MetadataIsMerged` | `MetadataSurvives` | `RowsInv` |
| | `BatchClaimsExclude`, `BatchesWithinLimit` | `BatchExclusion`, `WithinLimit` | `BatchInv` and `LimitInv` of `AgentBatchProofs` |
| | `ResolveReleases`, `ResolveCompletes` | `NoLeaseLeft`, `CompleteIsTrue` | `ResolveInv` |
| | `TelemetryCountsOnce` | `ReportedOnce` | `RecordOK`; `DistinctIs`, `PickedIs` about sequences |
| | `OneGateKeeps` | `ArchiveKeepsAll` | `GateInv(g)` |
| `ServicesProofs` | `StackPassIsOneState` | `PassIsOneState`, with `~ForcedBack` | `StackInv` |
| | `BackoffAndSpacing` | `BackoffHolds` | `CallsInv` |
| | `MergeIsApproved`, `EditsSurvive` | `ReportedIsApproved`, `SummaryKeepsEdits` | `BranchInv` |
| | `BottlesServed` | `TapServesBottles` | `BottleInv` |
| | `PluginRecoverable` | `AdvertisedIsRecoverable` | `PluginInv` |
| | `ReleasesForward` | `ReleasesMoveForward` | `BottleInv` and `PluginInv` |

The inductive invariants, and why they are needed:

* `ItemInv` (agent protocol). `PublishSave` closes a batch that was chosen at an earlier
  load. `FreshBatch` says that a publisher whose revision is still the latest holds a
  batch that is still publish-ready; `StoreStep`, that every step leaves the store alone
  or commits items each of which is supported by an accepted lease.
* `BatchInv` (batches). `SaveBatch` accepts leases a process chose at its load. `SaveOK`: as
  long as its revision is the latest, they are active and as many as the rows of its file
  (`TargetsCount`: rows of different threads are rebound to different leases).
* `LimitInv` (batches). A transaction that grants leases counts those of the revision it
  commits to, after their expiries (`CommitBatchLimited`); every other step grants none
  (`OthersGrantNothing`). Chunks of matching threads claim without counting, hence the
  hypothesis `"matching" \notin Commands` of `LimitHolds` and `BatchesWithinLimit`.
* `RealInv` (publisher). What a process has in hand (replied, resolved) was true of
  GitHub when it was noted, and GitHub only grows; a row is recorded as succeeded, and an
  item closed, from such facts alone.
* `GuardInv` (publisher). A process between `begin` and its last save holds the row's
  execution lock, the row names its attempt, and rows that a recovery took for dead have
  older attempts. Without the attempts a recovered process could finish another's row.
* `OnceInv` (publisher). A retryable row means that no reply was made; a row of unknown
  outcome, an orphan, and a process looking into one mean that the only crash is spent;
  whoever is about to record that there was no effect is right. Two crashes break this, and so does an answer that is lost (section 3), hence the
  hypotheses of `OneReplyPerFault`: `~LostResponses` and `MaxCrash <= 1`.
* `StoreInv` (runtime store). `ProcsOK` is what a process at each step knows of the
  database, files and bundle, under the lock or by the revision it read; `DbOK`, that
  the rows of a revision are all effects up to it and no other; `RowsOK`, that a
  bookkeeping row whose size and hash a command trusts describes the file.
* `Places` and `Room` (orchestrator). `Room`: a step about to claim still has room.
  `Places`: where a process is says which command it runs with which token, and a worker
  whose token was refused no longer has the lease.
* `ReviewInv` (review session). `SessionOK` of every session, committed or in the hands
  of a process: what it says of a thread is true of GitHub, or can still be found out.
  `LoadsOK`: what a fresh loader will save keeps what is committed.
* `PostedOnce` (review session). A thread has no reply of the publisher, or one whose row is
  "done". `AutoClean` archives the store with its rows, and a save
  that began before brings the session back without them (`MCArchiveResurrects.cfg`),
  hence the hypothesis `~AutoClean` of `RepliesOnce`.
* `RecordOK` (telemetry). An execution recorded since the tracker was bound is in memory or
  in the file whose history is still to be read, once in one of them. `Distinct` and
  `Uncorrelated` pick places of a sequence (`Picked`) instead of folding over it, so that what
  they keep follows from counting places (`RankIs`) and needs no induction over the log.
* `GateInv(g)` (gate run). `OneWriter`, and of the gate's position what it has copied of the
  file it will remove. It is about one gate; with two the property fails (`archive_loses`).
* `RowsInv` (declared rows). `SessionOK`: every stored lease is of a stored item, an item
  has at most one active lease, and its row carries the marker that follows from it. So the
  rows a command declares, closed under the leases of their items (`Closed`), are read as
  the whole session would show them, whichever rows are left out, and what the command
  changes is among them. `RowJobOK`: a copy whose revision is still the stored one is
  still the view a load would give, which is what a submission relies on.
* `ResolveInv`. `CallOK`: a call that claims or submits holds only leases it created in
  this batch or took with `agent next`, and all it has selected is what its flags asked
  for, at every step between the selection and the answer.
* `StackInv`. What a gate has read is no older than its opening (`After`), no newer than
  now (`Before`), and without `ForcedBack` time moves heads forward only (`Later`): a commit seen at both ends
  was the head in between.
* `CallsInv`. The holder of the lane is a mutation that has waited out the mark; the mark
  is no older than the end of the last call on the lane; the window is written by the
  process that read it under the lock.
* `BranchInv`. `MergeOK`: evidence of CI and the snapshot are about the approved commits
  from the step that read them on, because the repository only grows and a guarded PUT
  names the head. `ReportOK`: the body to be written is not older than the facts.
* `BottleInv`. `BottleFacts` of each run at its step, `ContentOK` (a name of a version has
  one content, a bundle has its formula, a bottle or record has its bundle) and `TapOK`.
* `PluginInv`. A version is released by one run (`OneMaker`), and files, assets and tips
  of the version are that run's (`FilesOK`, `TipOK`); `RunFacts` says what a run at a
  step has behind it, in this job or in the failed one it takes up again.

`OverlapSymmetric` is what `OverlapAssumption` of `Leases` asks of the conflict relation.

Every invariant and action property of section 3 and the refinement of `LeaseTable` are
thus theorems, for every size of an instance.

Model-checked only:

* Liveness: `EverythingEnds`, `PublishTerminates`, `AllHandled`, `GatePasses` and
  `FilesCatchUp` rest on fairness and `ENABLED`, which the prover does not handle.
* The configurations below the table of runs that no theorem states: `AcceptOnlyActive`
  of `AgentBatch`, and the type invariants of the modules of `Workspace`
  and `Services` as their own definitions (each inductive invariant contains its types).

`ArchiveKeepsAll` is proved for one gate and `OneReply` without automatic clean-up: with
two gates, or with it, they fail (section 3). `PassIsOneState` is proved without forced
pushes that bring a commit back; with them it fails as well.

## 5. Not modelled

- Presentation (`cli.py`, templates, remediation texts) and data classes: text and shape
  checks without state. A response that fails a shape check takes the rejection branch.
- Request files of single claims, their hashes and their re-creation on re-entry
  (`core/agent_protocol.py:263`, `:567`): the lease is what later commands check; the
  files of a batch are in `AgentBatch`.
- Parsing of finding blocks, adapters, GraphQL queries, paging of threads, `parallel_reads`: text and I/O. `doctor`, `review-to-findings`, command sessions and evidence profiles read
  state and write none that another command relies on.
- Autopilot of the orchestrator, roles other than fixer there, overlapping steps.
- Telemetry export (OTel spans, redaction, rendering): nothing reads it back.
- `scripts/` beside the release publication: evaluations, benchmarks, build helpers.

## 6. Plan

1. `AcceptOnlyActive` of `AgentBatch`, from `BatchInv`.
2. `AgentProtocol` for the commands of `Workspace`: that a grant in `WorkingSet` is a
   `Grant` of `LeaseTable`.
