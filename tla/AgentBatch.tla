----------------------------- MODULE AgentBatch -----------------------------
(***************************************************************************)
(* Batches (core/agent_batch.py, core/workflow_matching.py): agent next    *)
(* --batch claims several threads in one transaction and then writes their *)
(* request files, undoing its claims if a file cannot be written; agent    *)
(* resolve --input submits several responses at once; agent resolve over   *)
(* matching threads claims a chunk one by one, submits it and rolls back.  *)
(*                                                                         *)
(* A batch of one row stands for agent submit; the other single-item       *)
(* commands are the subject of AgentProtocol.                              *)
(***************************************************************************)
EXTENDS Leases

CONSTANTS
  Procs,       \* operating-system processes running commands
  Limit,       \* MAX_PARALLEL_CLAIMS
  Commands,    \* commands in play, a subset of {"batch", "input", "matching"}
  Decisions,   \* classifications agents record by hand, a subset of {"fix", "other"}
  MaxTime,     \* bound: the clock stops here
  MaxPush      \* bound: pushes that change the head tree of a stacked PR

ASSUME BatchAssumption ==
  Limit \in Nat \ {0} /\ TTL \in Nat /\ MaxTime \in Nat /\ MaxPush \in Nat
  /\ Decisions \subseteq {"fix", "other"}
  /\ IsFiniteSet(LeaseIds) /\ IsFiniteSet(Items)

VARIABLES
  leases,   \* committed leases; "deleted" is a row removed from the table
  items,    \* committed items
  files,    \* leases whose request file is on disk
  clock,    \* wall clock
  tree,     \* head tree of the stacked PR, counted in pushes
  pc,       \* where each process is
  job,      \* its local variables
  fresh     \* processes holding a loaded revision that is still the latest

vars == <<leases, items, files, clock, tree, pc, job, fresh>>
world == <<clock, tree>>

Known(l) == leases[l].st \notin {"none", "deleted"}

(* decision: the classification on record; a batch takes unclassified      *)
(* threads and those classified as fix.                                    *)
Item == [state : {"open", "claimed"} \cup HandledStates, owner : Ids,
         decision : {"none", "fix", "other"}]

Steps == {"idle", "claim", "write", "compensate", "unlink", "chunk", "submit", "save", "rollback"}

(* created: leases this command made; plan: request files to write; rows:  *)
(* the leases named by the responses, targets: the leases they end up at;  *)
(* before: leases known before the chunk; todo: threads of the chunk.      *)
Job == [agent : Agents \cup {NoId}, now : Nat, bind : Nat, created : SUBSET LeaseIds,
        plan : SUBSET LeaseIds, rows : SUBSET LeaseIds, targets : SUBSET LeaseIds,
        before : SUBSET LeaseIds, todo : SUBSET Items, chunk : BOOLEAN,
        verdict : {"none", "accept", "drop", "reject"}]

IdleJob ==
  [agent |-> NoId, now |-> 0, bind |-> 0, created |-> {}, plan |-> {}, rows |-> {},
   targets |-> {}, before |-> {}, todo |-> {}, chunk |-> FALSE, verdict |-> "none"]

-----------------------------------------------------------------------------
Commit(L, I) == leases' = L /\ items' = Project(I, L) /\ fresh' = {}
Load(p) == fresh' = fresh \cup {p}
Goto(p, step, j) == pc' = [pc EXCEPT ![p] = step] /\ job' = [job EXCEPT ![p] = j]
Done(p) == Goto(p, "idle", IdleJob)
Unused == {l \in LeaseIds : leases[l].st = "none"}

(* One new lease for each item of a set, all granted in one transaction. *)
Granted(L, new, a, now, bind) ==
  LET id == CHOOSE f \in [new -> Unused] : \A i, j \in new : f[i] = f[j] => i = j
  IN  [l \in LeaseIds |-> IF \E i \in new : id[i] = l
                          THEN NewLease(CHOOSE i \in new : id[i] = l, a, "fixer", now, bind)
                          ELSE L[l]]

(* A lease the agent re-enters gets a new request file if it has none,     *)
(* bound to the stack context of the re-entry.                             *)
Reentered(L, own, bind) ==
  [l \in LeaseIds |-> IF l \in own \ files THEN [L[l] EXCEPT !.bind = bind] ELSE L[l]]

Classified(I, S) ==
  [i \in Items |-> IF i \in S /\ I[i].decision = "none" THEN [I[i] EXCEPT !.decision = "fix"] ELSE I[i]]

FixerLeases(L, a) == {l \in LeaseIds : IsActive(L, l) /\ L[l].agent = a /\ L[l].role = "fixer"}

-----------------------------------------------------------------------------
(* agent next --batch (issue_batch_action_request) *)

(* The time and the stack context are read before the transaction. *)
BatchCommand(p, a) ==
  /\ "batch" \in Commands
  /\ pc[p] = "idle"
  /\ Goto(p, "claim", [IdleJob EXCEPT !.agent = a, !.now = clock, !.bind = tree])
  /\ UNCHANGED <<leases, items, files, world, fresh>>

(* Mutant: a thread is passed over once the room is below zero, not when it *)
(* is used up (`max_to_lease < 0`).                                         *)
RoomForOneMore(L, a) ==
  LET held == Cardinality(FixerLeases(L, a)) IN IF held > Limit THEN 0 ELSE Limit - held + 1

(* commit_batch: how many leases the agent may still get. *)
Room(L, a) ==
  LET held == Cardinality(FixerLeases(L, a)) IN IF held >= Limit THEN 0 ELSE Limit - held

(* Mutant: the threads of a batch are not compared with each other. *)
CompatibleWithTable(L, new, a) == \A i \in new : CanClaim(L, i, a, "fixer")

(* claim_lease, thread by thread: each is compared with every lease that   *)
(* is active by then, those of the same batch included.                    *)
CompatibleBatch(L, new, a) ==
  /\ \A i \in new : CanClaim(L, i, a, "fixer")
  /\ \A i, j \in new : i # j => Compatible(i, a, "fixer", NewLease(j, a, "fixer", 0, 0))

(* _select_batch_target_items; a thread classified otherwise is skipped. *)
BatchTargets(I) == {i \in Thread : I[i].state = "open" /\ I[i].decision # "other"}

(* commit_batch: selection and claims in one transaction without expected  *)
(* revision; threads are taken in the order of the session, here any.  A   *)
(* conflict or an empty selection aborts it.                               *)
CommitBatch(p) ==
  LET j == job[p]
      L == ExpireLeases(leases, j.now)
      I == Project(items, L)
      own == {l \in FixerLeases(L, j.agent) : L[l].item \in Thread}
      room == Room(L, j.agent)
  IN  /\ pc[p] = "claim"
      /\ \E new \in SUBSET BatchTargets(I) :
           /\ Cardinality(new) = IF Cardinality(BatchTargets(I)) < room
                                 THEN Cardinality(BatchTargets(I)) ELSE room
           /\ Cardinality(new) <= Cardinality(Unused)
           /\ IF (new = {} /\ own = {}) \/ ~CompatibleBatch(L, new, j.agent)
              THEN Done(p) /\ UNCHANGED <<leases, items, fresh>>
              ELSE LET G == Granted(Reentered(L, own, j.bind), new, j.agent, j.now, j.bind)
                       created == {l \in Unused : G[l].st = "active"}
                   IN  /\ Commit(G, Classified(I, new \cup {L[l].item : l \in own}))
                       /\ Goto(p, "write", [IdleJob EXCEPT !.created = created,
                                                           !.plan = created \cup (own \ files)])
      /\ UNCHANGED <<files, world>>

(* _materialize_committed_batch: the request files, then the skeleton. *)
WriteRequest(p) ==
  /\ pc[p] = "write"
  /\ IF job[p].plan = {} THEN Done(p) /\ UNCHANGED files
     ELSE \E l \in job[p].plan :
            /\ files' = files \cup {l}
            /\ Goto(p, "write", [job[p] EXCEPT !.plan = @ \ {l}])
  /\ UNCHANGED <<leases, items, world, fresh>>

WriteFails(p) ==
  /\ pc[p] = "write"
  /\ Goto(p, "compensate", [job[p] EXCEPT !.plan = {}])
  /\ UNCHANGED <<leases, items, files, world, fresh>>

(* _compensate_batch_materialization: the leases of this batch that are    *)
(* still in the table are removed from it, whatever became of them, and    *)
(* their items returned to claimable.                                      *)
Compensate(p) ==
  LET undone == {l \in job[p].created : Known(l)}
  IN  /\ pc[p] = "compensate"
      /\ Commit([l \in LeaseIds |-> IF l \in undone THEN [leases[l] EXCEPT !.st = "deleted"] ELSE leases[l]],
                [i \in Items |-> IF \E l \in undone : leases[l].item = i
                                 THEN [items[i] EXCEPT !.state = "open", !.owner = NoId] ELSE items[i]])
      /\ Goto(p, "unlink", job[p])
      /\ UNCHANGED <<files, world>>

Unlink(p) ==
  /\ pc[p] = "unlink"
  /\ files' = files \ job[p].created
  /\ Done(p)
  /\ UNCHANGED <<leases, items, world, fresh>>

-----------------------------------------------------------------------------
(* agent resolve over matching threads (_process_fast_fix_matches)         *)

(* A chunk starts with a load that notes the leases known by then. *)
MatchingCommand(p, a, todo) ==
  /\ "matching" \in Commands
  /\ pc[p] = "idle"
  /\ todo # {} /\ Cardinality(todo) <= Limit
  /\ \A i \in todo : items[i].state = "open" \/ OwnFixerLeases(leases, i, a) # {}
  /\ Goto(p, "chunk", [IdleJob EXCEPT !.agent = a, !.now = clock, !.chunk = TRUE,
                                      !.todo = todo, !.before = {l \in LeaseIds : Known(l)}])
  /\ UNCHANGED <<leases, items, files, world, fresh>>

(* After its last thread the chunk is submitted, unless nothing was claimed. *)
NextMatch(p, j) ==
  IF j.todo # {} THEN Goto(p, "chunk", j)
  ELSE IF j.rows = {} THEN Done(p) ELSE Goto(p, "submit", j)

(* _build_fast_fix_batch_response: classify, then claim or re-enter; a     *)
(* thread that cannot be claimed is reported and skipped (a conflict takes *)
(* the expiries of the claim back, an ineligible item does not).           *)
ClaimMatch(p, i) ==
  LET j == job[p]
      L == ExpireLeases(leases, j.now)
      I == [items EXCEPT ![i].decision = "fix"]
      eligible == Eligible(Project(I, L), L, i)
      own == OwnFixerLeases(L, i, j.agent)
      G == Granted(L, {i}, j.agent, j.now, tree)
      lease == {l \in Unused : G[l].st = "active"}
      next == [j EXCEPT !.todo = @ \ {i}]
  IN  /\ pc[p] = "chunk" /\ i \in j.todo
      /\ \/ /\ eligible /\ CanClaim(L, i, j.agent, "fixer")
            /\ Unused # {}
            /\ Commit(G, I) /\ files' = files \cup lease
            /\ NextMatch(p, [next EXCEPT !.rows = @ \cup lease, !.created = @ \cup lease])
         \/ /\ ~eligible /\ own # {}
            /\ Commit(Reentered(leases, own, tree), I) /\ files' = files \cup own
            /\ NextMatch(p, [next EXCEPT !.rows = @ \cup own])
         \/ /\ IF eligible THEN ~CanClaim(L, i, j.agent, "fixer") ELSE own = {}
            /\ Commit(IF eligible THEN leases ELSE L, I) /\ UNCHANGED files
            /\ NextMatch(p, next)
      /\ UNCHANGED world

-----------------------------------------------------------------------------
(* agent resolve --input (submit_batch_action_response) *)

InputCommand(p, a, rows) ==
  /\ "input" \in Commands
  /\ pc[p] = "idle"
  /\ rows # {} /\ \A l \in rows : leases[l].st # "none"
  /\ Goto(p, "submit", [IdleJob EXCEPT !.agent = a, !.now = clock, !.rows = rows])
  /\ UNCHANGED <<leases, items, files, world, fresh>>

(* prepare_action_response_submission: a row whose lease is gone from the  *)
(* table is bound to the agent's current fixer lease on the thread.        *)
Target(l, a) ==
  IF Known(l) THEN l ELSE FirstOrNone(OwnFixerLeases(leases, leases[l].item, a))

(* Mutant: a row whose lease is gone is passed over. *)
RowRefusedIfBound(l, j) ==
  LET t == Target(l, j.agent)
  IN  t # NoId /\ (leases[t].st # "active" \/ IsExpired(leases[t], j.now))

(* BATCH_DUPLICATE_ITEM; BATCH_DUPLICATE_LEASE cannot arise in a set. *)
DuplicateItem(rows) == \E l, m \in rows : l # m /\ leases[l].item = leases[m].item

(* The other refusals of a row: LEASE_NOT_FOUND, BATCH_UNSUPPORTED_ROLE,   *)
(* MISSING_CLASSIFICATION, REQUEST_CONTEXT_NOT_FOUND and                   *)
(* lease_submission_rejection_reason.                                      *)
RowRefused(l, j) ==
  LET t == Target(l, j.agent)
  IN  \/ t = NoId
      \/ /\ t # NoId
         /\ \/ leases[t].st # "active" \/ IsExpired(leases[t], j.now)
            \/ leases[t].agent # j.agent \/ leases[t].role # "fixer"
            \/ leases[t].item \notin Thread \/ items[leases[t].item].decision = "none"
            \/ t = l /\ l \notin files

(* verify_request_revision_binding, row by row against one observation of  *)
(* the stack, which the rows share (_CoherentStackContextClient).          *)
StaleContext(targets) == \E t \in targets : leases[t].bind # tree

(* The load and every check before the first acceptance; data may be       *)
(* refused too.                                                            *)
PrepareBatch(p) ==
  LET j == job[p]
      targets == {Target(l, j.agent) : l \in j.rows} \ {NoId}
      refused == DuplicateItem(j.rows) \/ \E l \in j.rows : RowRefused(l, j)
  IN  /\ pc[p] = "submit"
      /\ Load(p)
      /\ \/ Goto(p, "save", [j EXCEPT !.verdict = "reject", !.now = 0])
         \/ /\ ~refused
            /\ Goto(p, "save", [j EXCEPT !.verdict = IF StaleContext(targets) THEN "drop" ELSE "accept",
                                         !.targets = targets, !.now = 0])
      /\ UNCHANGED <<leases, items, files, world>>

(* The only refusal left to the acceptance itself: a row whose target an   *)
(* earlier row of the file had accepted (submit_lease).  The session would *)
(* be saved with the earlier rows accepted; WholeBatch excludes it.        *)
Partial(j) == Cardinality(j.targets) < Cardinality(j.rows)

(* A WorkflowError: agent resolve over matching threads rolls its chunk back. *)
Fail(p) ==
  IF job[p].chunk THEN Goto(p, "rollback", [job[p] EXCEPT !.targets = {}, !.verdict = "none"]) ELSE Done(p)

(* Mutant: the session is saved whatever was committed since the load. *)
SaveBatchAnyRevision(p) ==
  LET j == job[p]
  IN  /\ pc[p] = "save"
      /\ Commit([l \in LeaseIds |-> IF l \in j.targets /\ j.verdict = "accept"
                                    THEN [leases[l] EXCEPT !.st = "accepted"] ELSE leases[l]], items)
      /\ Done(p)
      /\ UNCHANGED <<files, world>>

(* save_session under the loaded revision, after the in-memory acceptance  *)
(* or release of the rows; a lost race is a SessionError.                  *)
SaveBatch(p) ==
  LET j == job[p]
      status == CASE j.verdict = "accept" -> "accepted"
                  [] j.verdict = "drop" -> "released"
                  [] OTHER -> "active"
      state == IF j.verdict = "accept" THEN "publish_ready" ELSE "open"
  IN  /\ pc[p] = "save"
      /\ IF p \notin fresh THEN Done(p) /\ UNCHANGED <<leases, items, fresh>>
         ELSE /\ Commit([l \in LeaseIds |-> IF l \in j.targets THEN [leases[l] EXCEPT !.st = status]
                                            ELSE leases[l]],
                        [i \in Items |-> IF \E l \in j.targets : leases[l].item = i
                                         THEN [items[i] EXCEPT !.state = state, !.owner = NoId]
                                         ELSE items[i]])
              /\ IF j.verdict = "accept" /\ ~Partial(j) THEN Done(p) ELSE Fail(p)
      /\ UNCHANGED <<files, world>>

(* Mutant: the rollback does not look at the status of the lease. *)
RollbackAnyRow(p) ==
  LET left == job[p].rows \ job[p].before
  IN  /\ pc[p] = "rollback"
      /\ IF left = {} THEN Done(p) /\ UNCHANGED <<leases, items, fresh>>
         ELSE \E l \in left :
                /\ Commit(Close(leases, l, "released"), items)
                /\ Goto(p, "rollback", [job[p] EXCEPT !.rows = @ \ {l}])
      /\ UNCHANGED <<files, world>>

(* release_claimed_lease on the rows that were not known before the chunk. *)
RollbackRow(p) ==
  LET left == {l \in job[p].rows : l \notin job[p].before}
  IN  /\ pc[p] = "rollback"
      /\ IF left = {} THEN Done(p) /\ UNCHANGED <<leases, items, fresh>>
         ELSE \E l \in left :
                /\ Commit(IF IsActive(leases, l) THEN Close(leases, l, "released") ELSE leases, items)
                /\ Goto(p, "rollback", [job[p] EXCEPT !.rows = @ \ {l}])
      /\ UNCHANGED <<files, world>>

-----------------------------------------------------------------------------
(* The single-item commands and the rest of the world *)

(* agent classify: any classification, also of a thread that has one *)
Classify(i, d) ==
  /\ items[i].decision # d
  /\ Commit(leases, [items EXCEPT ![i].decision = d])
  /\ UNCHANGED <<files, world, pc, job>>

(* agent reclaim *)
ReclaimLeases ==
  /\ ExpireLeases(leases, clock) # leases
  /\ Commit(ExpireLeases(leases, clock), items)
  /\ UNCHANGED <<files, world, pc, job>>

Crash(p) ==
  /\ pc[p] # "idle"
  /\ Done(p)
  /\ fresh' = fresh \ {p}
  /\ UNCHANGED <<leases, items, files, world>>

Tick == clock < MaxTime /\ clock' = clock + 1 /\ UNCHANGED <<leases, items, files, tree, pc, job, fresh>>
Push == tree < MaxPush /\ tree' = tree + 1 /\ UNCHANGED <<leases, items, files, clock, pc, job, fresh>>

Init ==
  /\ leases = [l \in LeaseIds |->
       [st |-> "none", item |-> CHOOSE i \in Items : TRUE, agent |-> NoId,
        role |-> "fixer", exp |-> 0, bind |-> 0]]
  /\ items = [i \in Items |-> [state |-> "open", owner |-> NoId, decision |-> "none"]]
  /\ files = {}
  /\ clock = 0 /\ tree = 0
  /\ pc = [p \in Procs |-> "idle"]
  /\ job = [p \in Procs |-> IdleJob]
  /\ fresh = {}

BatchStep(p) ==
  \/ CommitBatch(p) \/ WriteRequest(p) \/ WriteFails(p) \/ Compensate(p) \/ Unlink(p)
  \/ \E i \in Items : ClaimMatch(p, i)
  \/ PrepareBatch(p) \/ SaveBatch(p) \/ RollbackRow(p)

Next ==
  \/ \E p \in Procs :
       \/ BatchStep(p)
       \/ \E a \in Agents : BatchCommand(p, a)
       \/ \E a \in Agents, todo \in SUBSET Thread : MatchingCommand(p, a, todo)
       \/ \E a \in Agents, rows \in SUBSET LeaseIds : InputCommand(p, a, rows)
       \/ Crash(p)
  \/ \E i \in Items, d \in Decisions : Classify(i, d)
  \/ ReclaimLeases
  \/ Tick
  \/ Push

Spec == Init /\ [][Next]_vars

-----------------------------------------------------------------------------
(* Properties *)

(* Every variable stays in its domain. *)
TypeOK ==
  /\ \A l \in LeaseIds :
       \/ leases[l] \in Lease
       \/ leases[l].st = "deleted" /\ [leases[l] EXCEPT !.st = "active"] \in Lease
  /\ items \in [Items -> Item]
  /\ files \subseteq LeaseIds
  /\ clock \in Nat /\ tree \in Nat
  /\ pc \in [Procs -> Steps]
  /\ job \in [Procs -> Job]
  /\ fresh \subseteq Procs

(* Threads claimed together keep the exclusion of single claims: one lease *)
(* per thread and no overlap but what one agent may hold.                  *)
BatchExclusion ==
  \A l, m \in LeaseIds :
    l # m /\ IsActive(leases, l) /\ IsActive(leases, m) =>
      /\ leases[l].item # leases[m].item
      /\ Compatible(leases[l].item, leases[l].agent, leases[l].role, leases[m])

(* However many batch claims of an agent race, it never holds more fixer   *)
(* leases than MAX_PARALLEL_CLAIMS (without single claims, which the limit *)
(* does not cover).                                                        *)
WithinLimit == \A a \in Agents : Cardinality(FixerLeases(leases, a)) <= Limit

(* What one submit of a response file commits accepts every row of it or   *)
(* none: the checks before the first acceptance leave no row that the      *)
(* acceptance could still refuse, rows rebound from deleted leases         *)
(* included, so a refused file accepted nothing.  It speaks of one submit; *)
(* agent resolve over matching threads submits a file per chunk and may    *)
(* end with some of them accepted.  The docstring of _accepted_item_ids    *)
(* and the comments on the refusal say that a failure on a later row       *)
(* leaves the earlier ones accepted and persisted.                         *)
WholeBatch ==
  [][\A p \in Procs :
       pc[p] = "save" /\ pc'[p] # "save" =>
         Cardinality({l \in LeaseIds : leases[l].st # "accepted" /\ leases'[l].st = "accepted"})
           \in {0, Cardinality(job[p].rows)}]_vars

(* Only an active lease is ever accepted: responses prepared on a load     *)
(* that is outdated by expiry, rollback or another acceptance are not      *)
(* applied.                                                                *)
AcceptOnlyActive ==
  [][\A l \in LeaseIds :
       leases'[l].st = "accepted" => leases[l].st \in {"accepted", "active"}]_vars

(* Only the compensation of its own batch changes a lease that has ended:  *)
(* rollback, expiry and outdated submissions leave it alone.               *)
EndedLeaseStays ==
  [][\A l \in LeaseIds :
       leases[l].st \in TerminalStatuses /\ leases'[l] # leases[l] =>
         \E p \in Procs : l \in job[p].created /\ pc[p] = "compensate" /\ pc'[p] # pc[p]]_vars

(* A terminal lease never changes status again. *)
TerminalLeaseIsFinal ==
  [][\A l \in LeaseIds : leases[l].st \in TerminalStatuses => leases'[l] = leases[l]]_vars

(* A failed chunk rolls back only leases it created itself, not one that   *)
(* another command of the agent created while the chunk was claiming.      *)
RollbackOnlyCreated ==
  [][\A p \in Procs, l \in LeaseIds :
       pc[p] = "rollback" /\ job'[p] # job[p] /\ IsActive(leases, l) /\ leases'[l].st = "released"
         => l \in job[p].created]_vars
=============================================================================
