---------------------------- MODULE AgentProtocol ----------------------------
(***************************************************************************)
(* The lease protocol of gh-address-cr (core/leases.py,                    *)
(* core/agent_protocol.py, core/agent_protocol_leases.py,                  *)
(* core/agent_protocol_submission.py) on top of the runtime store.         *)
(*                                                                         *)
(* Commands are separate operating-system processes that share one SQLite  *)
(* store.  A command reads the store outside any transaction, decides, and *)
(* commits later in a BEGIN IMMEDIATE transaction; some commits carry the  *)
(* revision they loaded (expected_revision), some do not.  Every step      *)
(* below is one load or one commit, so all interleavings of the commands   *)
(* between those points are behaviours.                                    *)
(***************************************************************************)
EXTENDS LeaseRecovery

CONSTANTS
  Roles,        \* the roles agents ask for, a subset of {"fixer", "triage", "verifier"}
  Resolutions,  \* resolutions of the responses submitted, a subset of {"fix", "reject"}
  Commands,     \* commands the processes run, a subset of {"next", "resolve", "submit", "publish"}
  Procs,        \* operating-system processes running commands
  Attempts,     \* STALE_REVISION_ATTEMPTS
  MaxTime,      \* bound: the clock stops here
  MaxPush       \* bound: pushes that change the head tree of a stacked PR

ASSUME RolesAssumption == Roles \subseteq {"fixer", "triage", "verifier"}
ASSUME ResolutionsAssumption == Resolutions \subseteq {"fix", "reject"}
ASSUME BoundsAssumption ==
  TTL \in Nat /\ MaxTime \in Nat /\ MaxPush \in Nat /\ Attempts \in Nat \ {0}

VARIABLES
  leases,   \* committed leases, [LeaseIds -> Lease]
  items,    \* committed items as every load projects them
  clock,    \* wall clock
  tree,     \* head tree of the stacked PR on GitHub, counted in pushes
  pc,       \* where each process is in its command
  job,      \* the local variables of that command
  fresh     \* the processes holding a loaded revision that is still latest_revision

vars == <<leases, items, clock, tree, pc, job, fresh>>

AllResolutions == {"fix", "reject"}

Item == [state : {"open", "claimed"} \cup HandledStates, owner : Ids, classified : BOOLEAN]

Job == [oneshot : BOOLEAN, agent : Agents \cup {NoId}, role : AllRoles, item : Items, lease : Ids,
        pre : Ids, created : BOOLEAN, now : Nat, bind : Nat, res : AllResolutions,
        tries : Nat, batch : SUBSET Items]

Steps == {"idle", "preloaded", "claim", "persist", "submit", "reject", "drop", "accept",
          "accepted", "rollback", "publish", "publishing"}

-----------------------------------------------------------------------------
(* Mutant: the id of a finished lease is used again. *)
UnusedIdRecycled == CHOOSE l \in LeaseIds : leases[l].st # "active"

(* A new uuid *)
UnusedId == CHOOSE l \in LeaseIds : leases[l].st = "none"

-----------------------------------------------------------------------------
(* Store access.  A commit advances the revision, so the revision any      *)
(* process loaded before is outdated; fresh records exactly that.          *)

IdleJob ==
  [oneshot |-> FALSE, agent |-> NoId, role |-> "fixer",
   item |-> CHOOSE i \in Items : TRUE, lease |-> NoId, pre |-> NoId, created |-> FALSE,
   now |-> 0, bind |-> 0, res |-> "fix", tries |-> 0, batch |-> {}]

Load(p) == fresh' = fresh \cup {p}
Commit(L, I) ==
  /\ leases' = L
  /\ items' = Project(I, L)
  /\ fresh' = {}

Goto(p, step, j) ==
  /\ pc' = [pc EXCEPT ![p] = step]
  /\ job' = [job EXCEPT ![p] = j]
Done(p) == Goto(p, "idle", IdleJob)

(* The body of a claimed_fixer_lease: the response built for lease l is    *)
(* submitted.                                                              *)
GotoSubmit(p, j, l, created) ==
  Goto(p, "submit", [IdleJob EXCEPT !.oneshot = TRUE, !.agent = j.agent, !.res = j.res,
                                    !.pre = j.pre, !.lease = l, !.created = created])

(* The command of a one-shot composition that failed with a WorkflowError: *)
(* claimed_fixer_lease rolls back unless the lease was held before.        *)
Fail(p) ==
  IF job[p].oneshot /\ job[p].lease # job[p].pre
  THEN Goto(p, "rollback", [IdleJob EXCEPT !.lease = job[p].lease, !.created = job[p].created])
  ELSE Done(p)

(* Mutant: the attempts are not counted. *)
RetryForever(p, step) == Goto(p, step, job[p])

(* retry_on_stale_revision: reload after a lost race, give up with         *)
(* STALE_REVISION after the last attempt (a SessionError: no rollback).    *)
Retry(p, step) ==
  IF job[p].tries + 1 < Attempts
  THEN Goto(p, step, [job[p] EXCEPT !.tries = @ + 1]) ELSE Done(p)

-----------------------------------------------------------------------------
(* agent next and the claim half of agent resolve (issue_action_request)   *)

(* _reenter_own_fixer_lease: the agent is handed the request of the fixer  *)
(* lease it holds, under the same ids, and nothing changes in the store;   *)
(* its request file is on disk (AgentBatch, Reentered, has the lost one).  *)
Reenter(p, j, own) ==
  /\ j.role = "fixer" /\ own # {}
  /\ IF j.oneshot THEN GotoSubmit(p, j, FirstOrNone(own), FALSE)
     ELSE Done(p)

(* The load: expire leases in the loaded copy, pick the item, and go on to *)
(* the claim, to re-entry of the caller's own fixer lease, or to a refusal *)
(* (LEASE_LOCKED_ITEM, NO_ELIGIBLE_ITEM, MISSING_CLASSIFICATION) that      *)
(* persists the loaded scope.  The request is bound to the head tree read  *)
(* from GitHub between the load and the claim.                             *)
IssueActionRequest(p, j) ==
  LET L == ExpireLeases(leases, clock)
      I == Project(items, L)
      own == OwnFixerLeases(L, j.item, j.agent)
      eligible == Eligible(I, L, j.item)
      at == [j EXCEPT !.now = clock, !.bind = tree]
  IN  /\ \/ /\ eligible
            /\ j.role = "fixer" => items[j.item].classified
            /\ Goto(p, "claim", at) /\ UNCHANGED fresh
         \/ /\ eligible
            /\ j.role = "fixer" /\ ~items[j.item].classified
            /\ Goto(p, "persist", at) /\ Load(p)
         \/ /\ ~eligible
            /\ Reenter(p, j, own)
            /\ UNCHANGED fresh
         \/ /\ ~eligible
            /\ ~(j.role = "fixer" /\ own # {})
            /\ Goto(p, "persist", at) /\ Load(p)
      /\ UNCHANGED <<leases, items, clock, tree>>

(* Bound: a command that may claim starts only while an id is left for it. *)
RoomToClaim ==
  Cardinality({q \in Procs : pc[q] \in {"preloaded", "claim"}})
    < Cardinality({l \in LeaseIds : leases[l].st = "none"})

(* agent next: the agent keeps the request and submits it later. *)
NextCommand(p, a, r, i) ==
  /\ "next" \in Commands
  /\ pc[p] = "idle"
  /\ RoomToClaim
  /\ IssueActionRequest(p, [IdleJob EXCEPT !.agent = a, !.role = r, !.item = i])

(* agent resolve: claimed_fixer_lease first notes the fixer lease the      *)
(* agent already holds, in a load of its own.                              *)
ResolveCommand(p, a, i, res) ==
  /\ "resolve" \in Commands
  /\ pc[p] = "idle"
  /\ RoomToClaim
  /\ Goto(p, "preloaded",
          [IdleJob EXCEPT !.oneshot = TRUE, !.agent = a, !.item = i, !.res = res,
                          !.pre = FirstOrNone(OwnFixerLeases(leases, i, a))])
  /\ UNCHANGED <<leases, items, clock, tree, fresh>>

ResolveIssue(p) ==
  /\ pc[p] = "preloaded"
  /\ IssueActionRequest(p, job[p])

(* commit_claim: no expected revision; expiry is recomputed with the time  *)
(* noted at the load and the lease checks are made again, the state of the *)
(* item is not.                                                            *)
CommitClaim(p) ==
  LET j == job[p]
      L == ExpireLeases(leases, j.now)
      n == UnusedId
  IN  /\ pc[p] = "claim"
      /\ CanClaim(L, j.item, j.agent, j.role)
      /\ \E l \in LeaseIds : leases[l].st = "none"
      /\ Commit([L EXCEPT ![n] = NewLease(j.item, j.agent, j.role, j.now, j.bind)], items)
      /\ IF j.oneshot THEN GotoSubmit(p, j, n, TRUE) ELSE Done(p)
      /\ UNCHANGED <<clock, tree>>

(* LEASE_REJECTED: the transaction is rolled back, its expiries included. *)
ClaimConflict(p) ==
  /\ pc[p] = "claim"
  /\ ~CanClaim(ExpireLeases(leases, job[p].now), job[p].item, job[p].agent, job[p].role)
  /\ Done(p)
  /\ UNCHANGED <<leases, items, clock, tree, fresh>>

(* _persist_loaded_scope after a refused request: the expiries of the load *)
(* are written if nobody committed since, else the command ends with       *)
(* STALE_REVISION.                                                         *)
PersistRefusal(p) ==
  /\ pc[p] = "persist"
  /\ IF p \in fresh THEN Commit(ExpireLeases(leases, job[p].now), items)
     ELSE UNCHANGED <<leases, items, fresh>>
  /\ Done(p)
  /\ UNCHANGED <<clock, tree>>

-----------------------------------------------------------------------------
(* agent submit and the submit half of agent resolve                       *)

(* A response may name any lease and carry any agent id. *)
SubmitCommand(p, l, a, res) ==
  /\ "submit" \in Commands
  /\ pc[p] = "idle"
  /\ leases[l].st # "none"
  /\ Goto(p, "submit", [IdleJob EXCEPT !.lease = l, !.agent = a, !.res = res])
  /\ UNCHANGED <<leases, items, clock, tree, fresh>>

(* _accept_action_response before its transaction: the response is checked *)
(* against the loaded copy (prepare_action_response_submission,            *)
(* verify_cited_commit_in_pr), then its stack binding against GitHub       *)
(* (verify_request_revision_binding).                                      *)
PrepareSubmission(p) ==
  LET j == IF job[p].tries = 0 THEN [job[p] EXCEPT !.now = clock] ELSE job[p]
      lease == leases[j.lease]
  IN  /\ pc[p] = "submit"
      /\ Load(p)
      /\ \/ Goto(p, "reject", j)
         \/ /\ lease.bind # tree
            /\ Goto(p, "drop", j)
         \/ /\ lease.bind = tree
            /\ j.res = "fix" => items[lease.item].classified
            /\ Goto(p, "accept", j)
      /\ UNCHANGED <<leases, items, clock, tree>>

(* A rejected response is recorded by persisting the loaded scope          *)
(* (_accept_action_response, its except branch).                           *)
PersistRejection(p) ==
  /\ pc[p] = "reject"
  /\ IF p \in fresh THEN Commit(leases, items) /\ Fail(p)
     ELSE Retry(p, "submit") /\ UNCHANGED <<leases, items, fresh>>
  /\ UNCHANGED <<clock, tree>>

(* STALE_REQUEST_CONTEXT: the lease is released with the rejection. *)
PersistStaleContext(p) ==
  LET l == job[p].lease
  IN  /\ pc[p] = "drop"
      /\ IF p \in fresh
         THEN Commit(IrrecoverableLeases(leases, l), IrrecoverableItems(items, leases, l)) /\ Fail(p)
         ELSE Retry(p, "submit") /\ UNCHANGED <<leases, items, fresh>>
      /\ UNCHANGED <<clock, tree>>

(* recover_rebound_github_thread_lease: a fix for a lease that is already  *)
(* terminal is applied to the agent's current fixer lease on the thread.   *)
Rebound(j) ==
  LET i == leases[j.lease].item
  IN  {l \in OwnFixerLeases(leases, i, j.agent) \ {j.lease} :
         i \in Thread /\ j.res = "fix" /\ items[i].state = "claimed"}

(* The lease whose submission accept_action_response_submission accepts:   *)
(* the one named, when it is active, owned and unexpired, or the rebound   *)
(* one when the one named is terminal.                                     *)
Acceptable(j) ==
  LET lease == leases[j.lease]
      named == {l \in LeaseIds : l = j.lease /\ lease.agent = j.agent}
      candidates == IF lease.st = "active" THEN named ELSE Rebound(j)
  IN  {l \in candidates : ~IsExpired(leases[l], j.now)}

(* The accept transaction: submit_lease, accept_lease and the response     *)
(* applied to the item, under the revision the preparation loaded.         *)
AcceptSubmission(p) ==
  LET j == job[p]
      l == FirstOrNone(Acceptable(j))
  IN  /\ pc[p] = "accept"
      /\ p \in fresh
      /\ Acceptable(j) # {}
      /\ Commit(Close(leases, l, "accepted"), ApplyResponse(items, leases[l], j.res))
      /\ IF ResponseState(leases[l], j.res) = "open" THEN Fail(p)   \* VERIFICATION_REJECTED
         ELSE IF j.oneshot THEN Goto(p, "accepted", j) ELSE Done(p)
      /\ UNCHANGED <<clock, tree>>

(* Mutant: the response is applied to the item before the lease is checked. *)
RefuseSubmissionApplied(p) ==
  LET j == job[p]
  IN  /\ pc[p] = "accept"
      /\ p \in fresh
      /\ Acceptable(j) = {}
      /\ Commit(leases, ApplyResponse(items, leases[j.lease], j.res))
      /\ Fail(p)
      /\ UNCHANGED <<clock, tree>>

(* submit_lease refuses (WRONG_AGENT, STALE_LEASE, EXPIRED_LEASE); the     *)
(* refusal commits, and an expired lease is expired with it.               *)
RefuseSubmission(p) ==
  LET j == job[p]
      lease == leases[j.lease]
      expired == lease.st = "active" /\ lease.agent = j.agent /\ IsExpired(lease, j.now)
  IN  /\ pc[p] = "accept"
      /\ p \in fresh
      /\ Acceptable(j) = {}
      /\ IF lease.st # "active" /\ Rebound(j) # {}
         THEN /\ Done(p) /\ fresh' = fresh \ {p}     \* LeaseSubmissionError: the rebound lease expired
              /\ UNCHANGED <<leases, items>>
         ELSE /\ Commit(IF expired THEN Close(leases, j.lease, "expired") ELSE leases, items)
              /\ Fail(p)
      /\ UNCHANGED <<clock, tree>>

(* The accept transaction found a newer revision: STALE_REVISION. *)
AcceptStale(p) ==
  /\ pc[p] = "accept"
  /\ p \notin fresh
  /\ Retry(p, "submit")
  /\ UNCHANGED <<leases, items, clock, tree, fresh>>

(* agent resolve --publish after the acceptance: publishing ends well or   *)
(* raises a WorkflowError inside claimed_fixer_lease.                      *)
ResolvePublished(p) ==
  /\ pc[p] = "accepted"
  /\ Done(p) \/ Fail(p)
  /\ UNCHANGED <<leases, items, clock, tree, fresh>>

(* release_claimed_lease: decided under the write lock, tolerant of a      *)
(* lease that is no longer active.                                         *)
Rollback(p) ==
  LET l == job[p].lease
  IN  /\ pc[p] = "rollback"
      /\ Commit(IF IsActive(leases, l) THEN Close(leases, l, "released") ELSE leases, items)
      /\ Done(p)
      /\ UNCHANGED <<clock, tree>>

-----------------------------------------------------------------------------
(* The other writers of the store                                          *)

(* record_classification: under the write lock; a triage lease on the item *)
(* is released whoever holds it.                                           *)
RecordClassification(i) ==
  LET triage == {l \in ActiveOn(leases, i) : leases[l].role = "triage"}
  IN  /\ Commit(IF triage = {} THEN leases ELSE Close(leases, FirstOrNone(triage), "released"),
                [items EXCEPT ![i].classified = TRUE])
      /\ UNCHANGED <<clock, tree, pc, job>>

(* reclaim_leases (agent reclaim) *)
ReclaimLeases ==
  /\ Commit(ExpireLeases(leases, clock), items)
  /\ UNCHANGED <<clock, tree, pc, job>>

(* agent publish: load the session, publish every ready thread on GitHub   *)
(* (module Publisher), save the whole session under the loaded revision.   *)
PublishReady == {i \in Thread : items[i].state = "publish_ready"}

PublishLoad(p) ==
  /\ Goto(p, "publishing", [job[p] EXCEPT !.batch = PublishReady])
  /\ Load(p)

PublishCommand(p) ==
  /\ "publish" \in Commands
  /\ pc[p] = "idle"
  /\ PublishReady # {}
  /\ PublishLoad(p)
  /\ UNCHANGED <<leases, items, clock, tree>>

(* A rerun may find NO_PUBLISH_READY_ITEMS. *)
PublishReload(p) ==
  /\ pc[p] = "publish"
  /\ IF PublishReady = {} THEN Done(p) /\ UNCHANGED fresh ELSE PublishLoad(p)
  /\ UNCHANGED <<leases, items, clock, tree>>

PublishSave(p) ==
  /\ pc[p] = "publishing"
  /\ IF p \in fresh
     THEN /\ Commit(leases, [i \in Items |-> IF i \in job[p].batch
                                             THEN [items[i] EXCEPT !.state = "closed"] ELSE items[i]])
          /\ Done(p)
     ELSE Retry(p, "publish") /\ UNCHANGED <<leases, items, fresh>>
  /\ UNCHANGED <<clock, tree>>

(* A process dies, or a GitHub call raises, anywhere in a command. *)
Crash(p) ==
  /\ pc[p] # "idle"
  /\ Done(p)
  /\ fresh' = fresh \ {p}
  /\ UNCHANGED <<leases, items, clock, tree>>

Tick ==
  /\ clock < MaxTime
  /\ clock' = clock + 1
  /\ UNCHANGED <<leases, items, tree, pc, job, fresh>>

(* A push that changes the content of the stacked head. *)
Push ==
  /\ tree < MaxPush
  /\ tree' = tree + 1
  /\ UNCHANGED <<leases, items, clock, pc, job, fresh>>

-----------------------------------------------------------------------------
Init ==
  /\ leases = [l \in LeaseIds |->
       [st |-> "none", item |-> CHOOSE i \in Items : TRUE, agent |-> NoId,
        role |-> "fixer", exp |-> 0, bind |-> 0]]
  /\ items = [i \in Items |-> [state |-> "open", owner |-> NoId, classified |-> FALSE]]
  /\ clock = 0
  /\ tree = 0
  /\ pc = [p \in Procs |-> "idle"]
  /\ job = [p \in Procs |-> IdleJob]
  /\ fresh = {}

(* The steps a running command takes by itself. *)
CommandStep(p) ==
  \/ ResolveIssue(p)
  \/ CommitClaim(p)
  \/ ClaimConflict(p)
  \/ PersistRefusal(p)
  \/ PrepareSubmission(p)
  \/ PersistRejection(p)
  \/ PersistStaleContext(p)
  \/ AcceptSubmission(p)
  \/ RefuseSubmission(p)
  \/ AcceptStale(p)
  \/ ResolvePublished(p)
  \/ Rollback(p)
  \/ PublishReload(p)
  \/ PublishSave(p)

Next ==
  \/ \E p \in Procs :
       \/ CommandStep(p)
       \/ \E a \in Agents, r \in Roles, i \in Items : NextCommand(p, a, r, i)
       \/ \E a \in Agents, i \in Items, res \in Resolutions : ResolveCommand(p, a, i, res)
       \/ \E l \in LeaseIds, a \in Agents, res \in Resolutions : SubmitCommand(p, l, a, res)
       \/ PublishCommand(p)
       \/ Crash(p)
  \/ \E i \in Items : RecordClassification(i)
  \/ ReclaimLeases
  \/ Tick
  \/ Push

Spec == Init /\ [][Next]_vars

(* A running command is scheduled; time passes; someone keeps asking for   *)
(* expired leases to be reclaimed (agent reclaim, or any agent next).      *)
Fairness ==
  /\ \A p \in Procs : WF_vars(CommandStep(p))
  /\ WF_vars(Tick)
  /\ WF_vars(ReclaimLeases)
FairSpec == Spec /\ Fairness

-----------------------------------------------------------------------------
(* Properties *)

(* Every variable stays in its domain. *)
TypeOK ==
  /\ leases \in [LeaseIds -> Lease]
  /\ items \in [Items -> Item]
  /\ clock \in Nat
  /\ tree \in Nat
  /\ pc \in [Procs -> Steps]
  /\ job \in [Procs -> Job]
  /\ fresh \subseteq Procs

(* No work item is ever held under two active leases: claims decided on    *)
(* stale loads are refused by the checks commit_claim repeats.             *)
OneActiveLeasePerItem ==
  \A l, m \in LeaseIds :
    IsActive(leases, l) /\ IsActive(leases, m) /\ leases[l].item = leases[m].item => l = m

(* Two active leases with overlapping conflict keys are either both        *)
(* read-only or fixer leases of one agent on threads sharing only lines of *)
(* a file, whatever the order of claims, expiries and releases.            *)
ConflictExclusion ==
  \A l, m \in LeaseIds :
    l # m /\ IsActive(leases, l) /\ IsActive(leases, m) =>
      Compatible(leases[l].item, leases[l].agent, leases[l].role, leases[m])

(* No thread is published and no finding counts as handled unless some     *)
(* lease on that very item was accepted.                                   *)
HandledHasAcceptedLease ==
  \A i \in Items :
    items[i].state \in HandledStates =>
      \E l \in LeaseIds : leases[l].st = "accepted" /\ leases[l].item = i

(* The way back that a refused agent is told leads there, in the state it  *)
(* is told it: an item to reclaim is found by agent next, whoever worked   *)
(* on it since, and a lease to renew is granted again, because nobody was  *)
(* granted a conflicting one while it stood (calculate_lease_recovery_state *)
(* and _lease_recovery_command_for).                                       *)
AdviceIsFollowable ==
  \A l \in LeaseIds :
    LET outcome == Recovery(items, leases, l, TRUE, clock)
    IN  /\ outcome \in {"renew", "reclaim"} => WouldFind(items, leases, l, clock)
        /\ outcome = "renew" => WouldBeGranted(items, leases, l, clock)
        /\ AdvisedCommand(outcome) = "submit" => IsActive(leases, l) /\ ~IsExpired(leases[l], clock)

(* A terminal lease never changes again: no late submit, rollback, reclaim *)
(* or classification revives or relabels it.                               *)
TerminalLeaseIsFinal ==
  [][\A l \in LeaseIds : leases[l].st \in TerminalStatuses => leases'[l] = leases[l]]_vars

(* A claim is only ever granted on an eligible item: one that is open in   *)
(* the store when the lease is committed, or whose claim expires with it.  *)
ClaimOnlyEligible ==
  [][\A l \in LeaseIds :
       leases[l].st = "none" /\ leases'[l].st = "active" =>
         \/ ItemIsOpen(items[leases'[l].item])
         \/ items[leases'[l].item].state = "claimed"]_vars

(* A one-shot command rolls back no lease but the one its own claim made.  *)
RollbackOnlyOwnClaim ==
  [][\A p \in Procs :
       pc[p] = "rollback" /\ pc'[p] = "idle" /\ leases' # leases => job[p].created]_vars

(* A rejected submission leaves handled items handled: an item's state is  *)
(* reset only by the path that ends the lease its marker names.            *)
ResetOnlyByOwner ==
  [][\A p \in Procs :
       pc[p] = "drop" /\ pc'[p] # "drop" =>
         \A i \in Items : items[i].state \in HandledStates => items'[i].state = items[i].state]_vars

(* Every command ends: losing the race for the revision again and again    *)
(* cannot keep a command of submit or publish running forever.             *)
CommandTerminates == \A p \in Procs : pc[p] # "idle" ~> pc[p] = "idle"

(* No lease outlives its TTL, so no item stays locked by an agent that     *)
(* went away, however its claim, rollback or submission was cut short.     *)
LeaseEnds ==
  \A l \in LeaseIds :
    (IsActive(leases, l) /\ leases[l].exp <= MaxTime) ~> ~IsActive(leases, l)

(* The protocol implements the one-holder table LeaseTable.                *)
Table == INSTANCE LeaseTable WITH
           holder <- [i \in Items |-> FirstOrNone(ActiveOn(leases, i))],
           used <- {l \in LeaseIds : leases[l].st # "none"}
ImplementsLeaseTable == Table!Spec
=============================================================================
