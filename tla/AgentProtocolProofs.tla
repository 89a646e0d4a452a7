------------------------- MODULE AgentProtocolProofs -------------------------
(***************************************************************************)
(* Safety of the lease protocol, for any number of items, agents, leases   *)
(* and processes.  Types come first, one lemma per kind of step.  Every    *)
(* step but commit_claim only ends leases, so the exclusion properties     *)
(* need looking at for commit_claim alone; the claim marker and the        *)
(* evidence behind handled items follow every commit.                      *)
(***************************************************************************)
EXTENDS AgentProtocol, TLAPS

-----------------------------------------------------------------------------
(* Types of the operators the actions are built from. *)

(* FirstOrNone picks from the lease ids it is given. *)
LEMMA FirstOrNoneType ==
  ASSUME NEW S \in SUBSET LeaseIds
  PROVE  FirstOrNone(S) \in Ids /\ (S # {} => FirstOrNone(S) \in S)
BY DEF FirstOrNone, Ids

(* The projection of a typed store is typed. *)
LEMMA ProjectType ==
  ASSUME NEW L \in [LeaseIds -> Lease], NEW I \in [Items -> Item]
  PROVE  Project(I, L) \in [Items -> Item]
<1> SUFFICES ASSUME NEW i \in Items PROVE Project(I, L)[i] \in Item
  BY DEF Project
<1>1. CASE ActiveOn(L, i) = {}
  BY <1>1 DEF Project, Item, Ids, HandledStates
<1>2. CASE ActiveOn(L, i) # {}
  <2>1. (CHOOSE l \in ActiveOn(L, i) : TRUE) \in LeaseIds
    BY <1>2 DEF ActiveOn
  <2> QED BY <1>2, <2>1 DEF Project, Item, Ids, HandledStates
<1> QED BY <1>1, <1>2

(* Expiry, and any single status change, keep the lease map typed. *)
LEMMA ExpireType ==
  ASSUME NEW L \in [LeaseIds -> Lease], NEW now \in Nat
  PROVE  ExpireLeases(L, now) \in [LeaseIds -> Lease]
BY DEF ExpireLeases, IsActive, IsExpired, Lease, TerminalStatuses

(* So does giving one lease a terminal status. *)
LEMMA CloseType ==
  ASSUME NEW L \in [LeaseIds -> Lease], NEW l, NEW status \in TerminalStatuses
  PROVE  Close(L, l, status) \in [LeaseIds -> Lease]
BY DEF Close, Lease, TerminalStatuses

(* A commit of a typed store leaves a typed store and no fresh revision. *)
LEMMA CommitType ==
  ASSUME NEW L \in [LeaseIds -> Lease], NEW I \in [Items -> Item], Commit(L, I)
  PROVE  /\ leases' \in [LeaseIds -> Lease]
         /\ items' \in [Items -> Item]
         /\ fresh' \subseteq Procs
BY ProjectType DEF Commit

(* The local variables of an idle process are typed. *)
LEMMA IdleJobType == IdleJob \in Job
<1> (CHOOSE i \in Items : TRUE) \in Items BY ItemsAssumption
<1> QED BY DEF IdleJob, Job, AllRoles, AllResolutions, Ids

(* Moving a process on keeps pc and job typed. *)
LEMMA GotoType ==
  ASSUME TypeOK, NEW p \in Procs, NEW step \in Steps, NEW j \in Job, Goto(p, step, j)
  PROVE  pc' \in [Procs -> Steps] /\ job' \in [Procs -> Job]
BY DEF TypeOK, Goto

(* So does ending a command. *)
LEMMA DoneType ==
  ASSUME TypeOK, NEW p \in Procs, Done(p)
  PROVE  pc' \in [Procs -> Steps] /\ job' \in [Procs -> Job]
BY GotoType, IdleJobType DEF Done, Steps

(* So does failing one, whether or not it rolls back. *)
LEMMA FailType ==
  ASSUME TypeOK, NEW p \in Procs, Fail(p)
  PROVE  pc' \in [Procs -> Steps] /\ job' \in [Procs -> Job]
<1> job[p] \in Job BY DEF TypeOK
<1> DEFINE j == [IdleJob EXCEPT !.lease = job[p].lease, !.created = job[p].created]
<1>1. j \in Job BY IdleJobType DEF Job
<1>2. CASE Done(p) BY <1>2, DoneType
<1>3. CASE Goto(p, "rollback", j)
  <2> HIDE DEF j
  <2> "rollback" \in Steps BY DEF Steps
  <2> QED BY <1>1, <1>3, GotoType
<1> QED BY <1>2, <1>3 DEF Fail

(* So does losing a race for the revision. *)
LEMMA RetryType ==
  ASSUME TypeOK, NEW p \in Procs, NEW step \in Steps, Retry(p, step)
  PROVE  pc' \in [Procs -> Steps] /\ job' \in [Procs -> Job]
<1> job[p] \in Job BY DEF TypeOK
<1> DEFINE j == [job[p] EXCEPT !.tries = @ + 1]
<1>1. j \in Job BY DEF Job
<1>2. CASE Done(p) BY <1>2, DoneType
<1>3. CASE Goto(p, step, j)
  <2> HIDE DEF j
  <2> QED BY <1>1, <1>3, GotoType
<1> QED BY <1>2, <1>3 DEF Retry

(* So does entering the submit half of a one-shot command. *)
LEMMA GotoSubmitType ==
  ASSUME TypeOK, NEW p \in Procs, NEW j \in Job, NEW l \in Ids, NEW b \in BOOLEAN,
         GotoSubmit(p, j, l, b)
  PROVE  pc' \in [Procs -> Steps] /\ job' \in [Procs -> Job]
<1> DEFINE k == [IdleJob EXCEPT !.oneshot = TRUE, !.agent = j.agent, !.res = j.res,
                                !.pre = j.pre, !.lease = l, !.created = b]
<1>1. k \in Job BY IdleJobType DEF Job
<1>2. Goto(p, "submit", k) BY DEF GotoSubmit
<1> HIDE DEF k
<1> "submit" \in Steps BY DEF Steps
<1> QED BY <1>1, <1>2, GotoType

(* Building the request of agent next or agent resolve from a typed job. *)
LEMMA IssueType ==
  ASSUME TypeOK, NEW p \in Procs, NEW j \in Job, IssueActionRequest(p, j)
  PROVE  TypeOK'
<1> DEFINE at == [j EXCEPT !.now = clock, !.bind = tree]
           own == OwnFixerLeases(ExpireLeases(leases, clock), j.item, j.agent)
<1>1. at \in Job BY DEF TypeOK, Job
<1>2. own \in SUBSET LeaseIds BY DEF OwnFixerLeases, ActiveOn
<1>3. FirstOrNone(own) \in Ids BY <1>2, FirstOrNoneType
<1>4. \/ Goto(p, "claim", at) /\ UNCHANGED fresh
      \/ Goto(p, "persist", at) /\ Load(p)
      \/ GotoSubmit(p, j, FirstOrNone(own), FALSE) /\ UNCHANGED fresh
      \/ Done(p) /\ UNCHANGED fresh
  BY DEF IssueActionRequest, Reenter
<1>5. UNCHANGED <<leases, items, clock, tree>> BY DEF IssueActionRequest
<1> HIDE DEF at, own
<1>6. "claim" \in Steps /\ "persist" \in Steps BY DEF Steps
<1>7. fresh' \subseteq Procs BY <1>4 DEF Load, TypeOK
<1>8. pc' \in [Procs -> Steps] /\ job' \in [Procs -> Job]
  BY <1>1, <1>3, <1>4, <1>6, GotoType, GotoSubmitType, DoneType
<1> QED BY <1>5, <1>7, <1>8 DEF TypeOK

(* Moves that touch neither the store nor the environment. *)
LEMMA LocalType ==
  ASSUME TypeOK, UNCHANGED <<leases, items, clock, tree>>, fresh' \subseteq Procs,
         pc' \in [Procs -> Steps], job' \in [Procs -> Job]
  PROVE  TypeOK'
BY DEF TypeOK

(* Commits of a typed store. *)
LEMMA StoreType ==
  ASSUME TypeOK, NEW L \in [LeaseIds -> Lease], NEW I \in [Items -> Item], Commit(L, I),
         UNCHANGED <<clock, tree>>, pc' \in [Procs -> Steps], job' \in [Procs -> Job]
  PROVE  TypeOK'
BY CommitType DEF TypeOK

(* Starting agent next, agent resolve and agent submit. *)
LEMMA NextCommandType ==
  ASSUME TypeOK, NEW p \in Procs, NEW a \in Agents, NEW r \in Roles, NEW i \in Items,
         NextCommand(p, a, r, i)
  PROVE  TypeOK'
<1>1. [IdleJob EXCEPT !.agent = a, !.role = r, !.item = i] \in Job
  BY IdleJobType, RolesAssumption DEF Job, AllRoles
<1> QED BY <1>1, IssueType DEF NextCommand

(* agent resolve starts from a typed job. *)
LEMMA ResolveCommandType ==
  ASSUME TypeOK, NEW p \in Procs, NEW a \in Agents, NEW i \in Items, NEW res \in Resolutions,
         ResolveCommand(p, a, i, res)
  PROVE  TypeOK'
<1> DEFINE own == FirstOrNone(OwnFixerLeases(leases, i, a))
           k == [IdleJob EXCEPT !.oneshot = TRUE, !.agent = a, !.item = i, !.res = res,
                                !.pre = own]
<1>1. OwnFixerLeases(leases, i, a) \in SUBSET LeaseIds BY DEF OwnFixerLeases, ActiveOn
<1>2. own \in Ids BY <1>1, FirstOrNoneType
<1> HIDE DEF own
<1>3. k \in Job BY <1>2, IdleJobType, ResolutionsAssumption DEF Job, AllResolutions
<1>4. Goto(p, "preloaded", k) /\ UNCHANGED <<leases, items, clock, tree, fresh>>
  BY DEF ResolveCommand, own
<1> HIDE DEF k
<1>5. "preloaded" \in Steps BY DEF Steps
<1>6. pc' \in [Procs -> Steps] /\ job' \in [Procs -> Job] BY <1>3, <1>4, <1>5, GotoType
<1> QED BY <1>4, <1>6, LocalType DEF TypeOK

(* agent submit starts from a typed job. *)
LEMMA SubmitCommandType ==
  ASSUME TypeOK, NEW p \in Procs, NEW l \in LeaseIds, NEW a \in Agents, NEW res \in Resolutions,
         SubmitCommand(p, l, a, res)
  PROVE  TypeOK'
<1> DEFINE k == [IdleJob EXCEPT !.lease = l, !.agent = a, !.res = res]
<1>1. k \in Job BY IdleJobType, ResolutionsAssumption DEF Job, AllResolutions, Ids
<1>2. Goto(p, "submit", k) /\ UNCHANGED <<leases, items, clock, tree, fresh>>
  BY DEF SubmitCommand
<1> HIDE DEF k
<1>3. "submit" \in Steps BY DEF Steps
<1>4. pc' \in [Procs -> Steps] /\ job' \in [Procs -> Job] BY <1>1, <1>2, <1>3, GotoType
<1> QED BY <1>2, <1>4, LocalType DEF TypeOK

(* The steps of a claim. *)
LEMMA ClaimStepType ==
  ASSUME TypeOK, NEW p \in Procs,
         ResolveIssue(p) \/ CommitClaim(p) \/ ClaimConflict(p) \/ PersistRefusal(p)
  PROVE  TypeOK'
<1> job[p] \in Job BY DEF TypeOK
<1> leases \in [LeaseIds -> Lease] /\ items \in [Items -> Item] BY DEF TypeOK
<1> USE BoundsAssumption
<1>0. ExpireLeases(leases, job[p].now) \in [LeaseIds -> Lease]
  BY ExpireType DEF Job
<1>1. CASE ResolveIssue(p) BY <1>1, IssueType DEF ResolveIssue
<1>2. CASE CommitClaim(p)
  <2> DEFINE j == job[p]
             L == ExpireLeases(leases, j.now)
             new == NewLease(j.item, j.agent, j.role, j.now, j.bind)
             M == [L EXCEPT ![UnusedId] = new]
  <2>1. UnusedId \in LeaseIds BY <1>2 DEF CommitClaim, UnusedId
  <2>2. new \in Lease BY DEF NewLease, Lease, Job, AllRoles
  <2>3. M \in [LeaseIds -> Lease]
    <3> HIDE DEF new, L
    <3> QED BY <1>0, <2>2 DEF L
  <2>4. Commit(M, items) /\ UNCHANGED <<clock, tree>> BY <1>2 DEF CommitClaim
  <2>5. GotoSubmit(p, j, UnusedId, TRUE) \/ Done(p) BY <1>2 DEF CommitClaim
  <2> HIDE DEF M
  <2>6. pc' \in [Procs -> Steps] /\ job' \in [Procs -> Job]
    BY <2>1, <2>5, GotoSubmitType, DoneType DEF Ids
  <2> QED BY <2>3, <2>4, <2>6, StoreType
<1>3. CASE ClaimConflict(p) BY <1>3, DoneType, LocalType DEF ClaimConflict, TypeOK
<1>4. CASE PersistRefusal(p)
  <2>1. pc' \in [Procs -> Steps] /\ job' \in [Procs -> Job]
    BY <1>4, DoneType DEF PersistRefusal
  <2>2. CASE p \in fresh
    BY <1>0, <1>4, <2>1, <2>2, StoreType DEF PersistRefusal
  <2>3. CASE p \notin fresh
    BY <1>4, <2>1, <2>3, LocalType DEF PersistRefusal, TypeOK
  <2> QED BY <2>2, <2>3
<1> QED BY <1>1, <1>2, <1>3, <1>4

(* The item side of an accepted or a dropped response. *)
LEMMA ResponseType ==
  ASSUME NEW L \in [LeaseIds -> Lease], NEW I \in [Items -> Item], NEW l, NEW res
  PROVE  /\ ApplyResponse(I, L[l], res) \in [Items -> Item]
         /\ IrrecoverableItems(I, L, l) \in [Items -> Item]
         /\ IrrecoverableLeases(L, l) \in [LeaseIds -> Lease]
<1>1. ResponseState(L[l], res) \in {"open", "publish_ready", "handled"}
  BY DEF ResponseState
<1>2. ApplyResponse(I, L[l], res) \in [Items -> Item]
  BY <1>1 DEF ApplyResponse, Item, HandledStates
<1>3. IrrecoverableItems(I, L, l) \in [Items -> Item]
  BY DEF IrrecoverableItems, Item, HandledStates, Ids
<1>4. IrrecoverableLeases(L, l) \in [LeaseIds -> Lease]
  BY CloseType DEF IrrecoverableLeases, TerminalStatuses
<1> QED BY <1>2, <1>3, <1>4

(* The steps of a submission up to its transaction. *)
LEMMA PrepareStepType ==
  ASSUME TypeOK, NEW p \in Procs,
         \/ PrepareSubmission(p) \/ PersistRejection(p) \/ PersistStaleContext(p)
         \/ AcceptStale(p) \/ ResolvePublished(p)
  PROVE  TypeOK'
<1> job[p] \in Job BY DEF TypeOK
<1> leases \in [LeaseIds -> Lease] /\ items \in [Items -> Item] BY DEF TypeOK
<1>0. "submit" \in Steps /\ "reject" \in Steps /\ "drop" \in Steps /\ "accept" \in Steps
  BY DEF Steps
<1>1. CASE PrepareSubmission(p)
  <2> DEFINE j == IF job[p].tries = 0 THEN [job[p] EXCEPT !.now = clock] ELSE job[p]
  <2>1. j \in Job BY DEF TypeOK, Job
  <2>2. /\ Goto(p, "reject", j) \/ Goto(p, "drop", j) \/ Goto(p, "accept", j)
        /\ Load(p) /\ UNCHANGED <<leases, items, clock, tree>>
    BY <1>1 DEF PrepareSubmission
  <2> HIDE DEF j
  <2>3. pc' \in [Procs -> Steps] /\ job' \in [Procs -> Job]
    BY <1>0, <2>1, <2>2, GotoType
  <2> QED BY <2>2, <2>3, LocalType DEF Load, TypeOK
<1>2. CASE PersistRejection(p)
  <2>1. CASE p \in fresh
    BY <1>2, <2>1, FailType, StoreType DEF PersistRejection
  <2>2. CASE p \notin fresh
    BY <1>0, <1>2, <2>2, RetryType, LocalType DEF PersistRejection, TypeOK
  <2> QED BY <2>1, <2>2
<1>3. CASE PersistStaleContext(p)
  <2>1. CASE p \in fresh
    BY <1>3, <2>1, FailType, StoreType, ResponseType DEF PersistStaleContext
  <2>2. CASE p \notin fresh
    BY <1>0, <1>3, <2>2, RetryType, LocalType DEF PersistStaleContext, TypeOK
  <2> QED BY <2>1, <2>2
<1>4. CASE AcceptStale(p)
  BY <1>0, <1>4, RetryType, LocalType DEF AcceptStale, TypeOK
<1>5. CASE ResolvePublished(p)
  BY <1>5, DoneType, FailType, LocalType DEF ResolvePublished, TypeOK
<1> QED BY <1>1, <1>2, <1>3, <1>4, <1>5

(* The accept transaction, either way, and the rollback. *)
LEMMA AcceptStepType ==
  ASSUME TypeOK, NEW p \in Procs,
         AcceptSubmission(p) \/ RefuseSubmission(p) \/ Rollback(p)
  PROVE  TypeOK'
<1> job[p] \in Job BY DEF TypeOK
<1> leases \in [LeaseIds -> Lease] /\ items \in [Items -> Item] BY DEF TypeOK
<1>0. "accepted" \in Steps BY DEF Steps
<1>1. CASE AcceptSubmission(p)
  <2> DEFINE l == FirstOrNone(Acceptable(job[p]))
  <2>1. /\ Commit(Close(leases, l, "accepted"), ApplyResponse(items, leases[l], job[p].res))
        /\ UNCHANGED <<clock, tree>>
        /\ Fail(p) \/ Goto(p, "accepted", job[p]) \/ Done(p)
    BY <1>1 DEF AcceptSubmission
  <2> HIDE DEF l
  <2>2. pc' \in [Procs -> Steps] /\ job' \in [Procs -> Job]
    BY <1>0, <2>1, FailType, GotoType, DoneType
  <2>3. Close(leases, l, "accepted") \in [LeaseIds -> Lease]
    BY CloseType DEF TerminalStatuses
  <2>4. ApplyResponse(items, leases[l], job[p].res) \in [Items -> Item]
    BY ResponseType
  <2> QED BY <2>1, <2>2, <2>3, <2>4, StoreType
<1>2. CASE RefuseSubmission(p)
  <2>1. Close(leases, job[p].lease, "expired") \in [LeaseIds -> Lease]
    BY CloseType DEF TerminalStatuses
  <2>2. \/ Done(p) /\ fresh' = fresh \ {p} /\ UNCHANGED <<leases, items, clock, tree>>
        \/ Commit(Close(leases, job[p].lease, "expired"), items)
             /\ Fail(p) /\ UNCHANGED <<clock, tree>>
        \/ Commit(leases, items) /\ Fail(p) /\ UNCHANGED <<clock, tree>>
    BY <1>2 DEF RefuseSubmission
  <2> QED BY <2>1, <2>2, DoneType, FailType, LocalType, StoreType DEF TypeOK
<1>3. CASE Rollback(p)
  <2>1. Close(leases, job[p].lease, "released") \in [LeaseIds -> Lease]
    BY CloseType DEF TerminalStatuses
  <2> QED BY <1>3, <2>1, DoneType, StoreType DEF Rollback
<1> QED BY <1>1, <1>2, <1>3

(* The steps of agent publish, and a crash. *)
LEMMA PublishStepType ==
  ASSUME TypeOK, NEW p \in Procs,
         PublishCommand(p) \/ PublishReload(p) \/ PublishSave(p) \/ Crash(p)
  PROVE  TypeOK'
<1> job[p] \in Job /\ leases \in [LeaseIds -> Lease] /\ items \in [Items -> Item]
  BY DEF TypeOK
<1>0. ASSUME PublishLoad(p)
      PROVE  fresh' \subseteq Procs /\ pc' \in [Procs -> Steps] /\ job' \in [Procs -> Job]
  <2> DEFINE k == [job[p] EXCEPT !.batch = PublishReady]
  <2>1. PublishReady \in SUBSET Items BY ItemsAssumption DEF PublishReady
  <2>2. k \in Job BY <2>1 DEF Job
  <2>3. Goto(p, "publishing", k) /\ Load(p) BY <1>0 DEF PublishLoad
  <2> HIDE DEF k
  <2> QED BY <2>2, <2>3, GotoType DEF Load, TypeOK, Steps
<1>1. CASE PublishCommand(p) BY <1>0, <1>1, LocalType DEF PublishCommand
<1>2. CASE PublishReload(p)
  BY <1>0, <1>2, DoneType, LocalType DEF PublishReload, TypeOK
<1>3. CASE PublishSave(p)
  <2> DEFINE I == [k \in Items |-> IF k \in job[p].batch
                                   THEN [items[k] EXCEPT !.state = "closed"] ELSE items[k]]
  <2>1. I \in [Items -> Item] BY DEF Item, HandledStates
  <2>2. \/ Commit(leases, I) /\ Done(p) /\ UNCHANGED <<clock, tree>>
        \/ Retry(p, "publish") /\ UNCHANGED <<leases, items, fresh, clock, tree>>
    BY <1>3 DEF PublishSave
  <2> HIDE DEF I
  <2>3. "publish" \in Steps BY DEF Steps
  <2>4. pc' \in [Procs -> Steps] /\ job' \in [Procs -> Job]
    BY <2>2, <2>3, DoneType, RetryType
  <2> QED BY <2>1, <2>2, <2>4, StoreType, LocalType DEF TypeOK
<1>4. CASE Crash(p) BY <1>4, DoneType, LocalType DEF Crash, TypeOK
<1> QED BY <1>1, <1>2, <1>3, <1>4

(* The writers that hold the write lock from the start. *)
LEMMA WriterStepType ==
  ASSUME TypeOK, ReclaimLeases \/ \E i \in Items : RecordClassification(i)
  PROVE  TypeOK'
<1> leases \in [LeaseIds -> Lease] /\ items \in [Items -> Item] BY DEF TypeOK
<1> pc \in [Procs -> Steps] /\ job \in [Procs -> Job] BY DEF TypeOK
<1>1. ASSUME NEW i \in Items, RecordClassification(i) PROVE TypeOK'
  <2> DEFINE triage == {l \in ActiveOn(leases, i) : leases[l].role = "triage"}
             I == [items EXCEPT ![i].classified = TRUE]
  <2>1. I \in [Items -> Item] BY DEF Item
  <2>2. Close(leases, FirstOrNone(triage), "released") \in [LeaseIds -> Lease]
    BY CloseType DEF TerminalStatuses
  <2>3. /\ UNCHANGED <<clock, tree, pc, job>>
        /\ Commit(leases, I) \/ Commit(Close(leases, FirstOrNone(triage), "released"), I)
    BY <1>1 DEF RecordClassification
  <2> HIDE DEF triage, I
  <2> QED BY <2>1, <2>2, <2>3, StoreType
<1>2. CASE ReclaimLeases
  BY <1>2, ExpireType, StoreType DEF ReclaimLeases, TypeOK
<1> QED BY <1>1, <1>2

(* The type invariant is inductive. *)
LEMMA TypeStep ==
  ASSUME TypeOK, [Next]_vars
  PROVE  TypeOK'
<1>1. CASE UNCHANGED vars BY <1>1 DEF vars, TypeOK
<1>2. ASSUME NEW p \in Procs, CommandStep(p) PROVE TypeOK'
  BY <1>2, ClaimStepType, PrepareStepType, AcceptStepType, PublishStepType DEF CommandStep
<1>3. ASSUME NEW p \in Procs, NEW a \in Agents, NEW r \in Roles, NEW i \in Items,
             NextCommand(p, a, r, i)
      PROVE  TypeOK'
  BY <1>3, NextCommandType
<1>4. ASSUME NEW p \in Procs, NEW a \in Agents, NEW i \in Items, NEW res \in Resolutions,
             ResolveCommand(p, a, i, res)
      PROVE  TypeOK'
  BY <1>4, ResolveCommandType
<1>5. ASSUME NEW p \in Procs, NEW l \in LeaseIds, NEW a \in Agents, NEW res \in Resolutions,
             SubmitCommand(p, l, a, res)
      PROVE  TypeOK'
  BY <1>5, SubmitCommandType
<1>6. ASSUME NEW p \in Procs, PublishCommand(p) \/ Crash(p) PROVE TypeOK'
  BY <1>6, PublishStepType
<1>7. CASE ReclaimLeases \/ \E i \in Items : RecordClassification(i)
  BY <1>7, WriterStepType
<1>8. CASE Tick \/ Push BY <1>8 DEF Tick, Push, TypeOK
<1> QED BY <1>1, <1>2, <1>3, <1>4, <1>5, <1>6, <1>7, <1>8 DEF Next

(* The initial store and processes are typed. *)
LEMMA TypeInit ==
  ASSUME Init
  PROVE  TypeOK
<1>1. (CHOOSE i \in Items : TRUE) \in Items BY ItemsAssumption
<1>2. leases \in [LeaseIds -> Lease] BY <1>1 DEF Init, Lease, AllRoles
<1>3. items \in [Items -> Item] BY DEF Init, Item, Ids
<1>4. pc \in [Procs -> Steps] BY DEF Init, Steps
<1>5. job \in [Procs -> Job] BY IdleJobType DEF Init
<1> QED BY <1>2, <1>3, <1>4, <1>5 DEF Init, TypeOK

(* The store, the clock and every process stay in their domains, for any   *)
(* number of items, agents, leases and processes.                          *)
THEOREM TypeCorrect == Spec => []TypeOK
BY TypeInit, TypeStep, PTL DEF Spec

-----------------------------------------------------------------------------
(* What a step may do to the lease table. *)

(* M is L with some active leases ended. *)
OnlyEnds(L, M) ==
  \A l \in LeaseIds :
    \/ M[l] = L[l]
    \/ IsActive(L, l) /\ M[l].st \in TerminalStatuses /\ M[l].item = L[l].item

(* Expiry only ends leases. *)
LEMMA ExpireOnlyEnds ==
  ASSUME NEW L \in [LeaseIds -> Lease], NEW now \in Nat
  PROVE  OnlyEnds(L, ExpireLeases(L, now))
BY DEF OnlyEnds, ExpireLeases, IsActive, Lease, TerminalStatuses

(* So does giving an active lease a terminal status. *)
LEMMA CloseOnlyEnds ==
  ASSUME NEW L \in [LeaseIds -> Lease], NEW l, NEW status \in TerminalStatuses,
         l \in LeaseIds => IsActive(L, l)
  PROVE  OnlyEnds(L, Close(L, l, status))
BY DEF OnlyEnds, Close, IsActive, Lease

(* A step that leaves the lease table alone ends nothing. *)
LEMMA SameOnlyEnds ==
  ASSUME NEW L
  PROVE  OnlyEnds(L, L)
BY DEF OnlyEnds

(* Every step that is not commit_claim only ends leases. *)
LEMMA LeaseStep ==
  ASSUME TypeOK, [Next]_vars, \A p \in Procs : ~CommitClaim(p)
  PROVE  OnlyEnds(leases, leases')
<1> leases \in [LeaseIds -> Lease] BY DEF TypeOK
<1> TerminalStatuses = {"accepted", "expired", "released"} BY DEF TerminalStatuses
<1>1. CASE leases' = leases BY <1>1, SameOnlyEnds
<1>2. ASSUME NEW p \in Procs, PersistRefusal(p) PROVE OnlyEnds(leases, leases')
  <2>1. job[p].now \in Nat BY DEF TypeOK, Job
  <2> QED BY <1>1, <1>2, <2>1, ExpireOnlyEnds DEF PersistRefusal, Commit
<1>3. ASSUME NEW p \in Procs, PersistStaleContext(p) PROVE OnlyEnds(leases, leases')
  <2>1. CASE leases' = IrrecoverableLeases(leases, job[p].lease)
    BY <1>1, <2>1, CloseOnlyEnds DEF IrrecoverableLeases
  <2> QED BY <1>1, <1>3, <2>1 DEF PersistStaleContext, Commit
<1>4. ASSUME NEW p \in Procs, AcceptSubmission(p) PROVE OnlyEnds(leases, leases')
  <2> DEFINE l == FirstOrNone(Acceptable(job[p]))
  <2>1. leases' = Close(leases, l, "accepted") BY <1>4 DEF AcceptSubmission, Commit
  <2>2. l \in Acceptable(job[p]) BY <1>4 DEF AcceptSubmission, FirstOrNone
  <2>3. IsActive(leases, l)
    BY <2>2 DEF Acceptable, Rebound, OwnFixerLeases, ActiveOn, IsActive
  <2> HIDE DEF l
  <2> QED BY <2>1, <2>3, CloseOnlyEnds
<1>5. ASSUME NEW p \in Procs, RefuseSubmission(p) PROVE OnlyEnds(leases, leases')
  <2>1. \/ leases' = leases
        \/ IsActive(leases, job[p].lease) /\ leases' = Close(leases, job[p].lease, "expired")
    BY <1>5 DEF RefuseSubmission, Commit, IsActive
  <2> QED BY <1>1, <2>1, CloseOnlyEnds
<1>6. ASSUME NEW p \in Procs, Rollback(p) PROVE OnlyEnds(leases, leases')
  <2>1. \/ leases' = leases
        \/ IsActive(leases, job[p].lease) /\ leases' = Close(leases, job[p].lease, "released")
    BY <1>6 DEF Rollback, Commit
  <2> QED BY <1>1, <2>1, CloseOnlyEnds
<1>7. ASSUME NEW i \in Items, RecordClassification(i) PROVE OnlyEnds(leases, leases')
  <2> DEFINE triage == {l \in ActiveOn(leases, i) : leases[l].role = "triage"}
             l == FirstOrNone(triage)
  <2>1. leases' = leases \/ (triage # {} /\ leases' = Close(leases, l, "released"))
    BY <1>7 DEF RecordClassification, Commit
  <2>2. triage # {} => l \in triage BY DEF FirstOrNone
  <2>3. triage # {} => IsActive(leases, l) BY <2>2 DEF ActiveOn
  <2> HIDE DEF triage, l
  <2> QED BY <1>1, <2>1, <2>3, CloseOnlyEnds
<1>8. CASE ReclaimLeases
  BY <1>8, ExpireOnlyEnds DEF ReclaimLeases, Commit, TypeOK
<1>9. ASSUME NEW p \in Procs, CommandStep(p) PROVE OnlyEnds(leases, leases')
  <2>1. CASE ResolveIssue(p) BY <1>1, <2>1 DEF ResolveIssue, IssueActionRequest, Reenter
  <2>2. CASE PersistRejection(p) BY <1>1, <2>2 DEF PersistRejection, Commit
  <2>3. CASE PublishSave(p) BY <1>1, <2>3 DEF PublishSave, Commit
  <2>4. CASE ClaimConflict(p) \/ PrepareSubmission(p) \/ AcceptStale(p) \/ ResolvePublished(p)
               \/ PublishReload(p)
    BY <1>1, <2>4 DEF ClaimConflict, PrepareSubmission, AcceptStale, ResolvePublished,
                      PublishReload
  <2> QED BY <1>2, <1>3, <1>4, <1>5, <1>6, <1>9, <2>1, <2>2, <2>3, <2>4 DEF CommandStep
<1>10. CASE UNCHANGED vars BY <1>1, <1>10 DEF vars
<1>11. CASE Tick \/ Push BY <1>1, <1>11 DEF Tick, Push
<1>12. ASSUME NEW p \in Procs, NEW a \in Agents, NEW r \in Roles, NEW i \in Items,
              NextCommand(p, a, r, i)
       PROVE  leases' = leases
  BY <1>12 DEF NextCommand, IssueActionRequest, Reenter
<1>13. ASSUME NEW p \in Procs, NEW a \in Agents, NEW i \in Items, NEW res \in Resolutions,
              ResolveCommand(p, a, i, res)
       PROVE  leases' = leases
  BY <1>13 DEF ResolveCommand
<1>14. ASSUME NEW p \in Procs, NEW l \in LeaseIds, NEW a \in Agents, NEW res \in Resolutions,
              SubmitCommand(p, l, a, res)
       PROVE  leases' = leases
  BY <1>14 DEF SubmitCommand
<1>15. ASSUME NEW p \in Procs, PublishCommand(p) \/ Crash(p) PROVE leases' = leases
  BY <1>15 DEF PublishCommand, Crash
<1> QED BY <1>1, <1>7, <1>8, <1>9, <1>10, <1>11, <1>12, <1>13, <1>14, <1>15 DEF Next

(* commit_claim grants one lease on top of the expiries.  *)
LEMMA ClaimStep ==
  ASSUME TypeOK, NEW p \in Procs, CommitClaim(p)
  PROVE  \E n \in LeaseIds, L \in [LeaseIds -> Lease] :
           /\ OnlyEnds(leases, L)
           /\ leases[n].st = "none"
           /\ CanClaim(L, job[p].item, job[p].agent, job[p].role)
           /\ leases' = [L EXCEPT ![n] = NewLease(job[p].item, job[p].agent, job[p].role,
                                                  job[p].now, job[p].bind)]
<1>1. leases \in [LeaseIds -> Lease] /\ job[p].now \in Nat BY DEF TypeOK, Job
<1>2. UnusedId \in LeaseIds /\ leases[UnusedId].st = "none" BY DEF CommitClaim, UnusedId
<1>3. /\ OnlyEnds(leases, ExpireLeases(leases, job[p].now))
      /\ ExpireLeases(leases, job[p].now) \in [LeaseIds -> Lease]
  BY <1>1, ExpireOnlyEnds, ExpireType
<1> QED BY <1>2, <1>3 DEF CommitClaim, Commit

-----------------------------------------------------------------------------
(* Exclusion. *)

(* Compatibility does not depend on which of the two claims came first. *)
LEMMA CompatibleSymmetric ==
  ASSUME NEW x \in Lease, NEW y \in Lease, Compatible(x.item, x.agent, x.role, y)
  PROVE  Compatible(y.item, y.agent, y.role, x)
<1>1. x.item \in Items /\ y.item \in Items BY DEF Lease
<1>2. KeyOverlap[<<x.item, y.item>>] = KeyOverlap[<<y.item, x.item>>]
  BY <1>1, OverlapAssumption
<1> QED BY <1>2 DEF Compatible

(* Ending leases keeps both exclusion properties. *)
LEMMA ExclusionEnds ==
  ASSUME NEW L \in [LeaseIds -> Lease], NEW M \in [LeaseIds -> Lease], OnlyEnds(L, M),
         NEW l \in LeaseIds, IsActive(M, l)
  PROVE  M[l] = L[l] /\ IsActive(L, l)
BY DEF OnlyEnds, IsActive, TerminalStatuses

(* One step keeps the two exclusion properties: claims decided on stale    *)
(* loads are refused by the checks commit_claim repeats under the lock.    *)
LEMMA ExclusionStep ==
  ASSUME TypeOK, TypeOK', OneActiveLeasePerItem, ConflictExclusion, [Next]_vars
  PROVE  OneActiveLeasePerItem' /\ ConflictExclusion'
<1> leases \in [LeaseIds -> Lease] /\ leases' \in [LeaseIds -> Lease] BY DEF TypeOK
<1>1. CASE \A p \in Procs : ~CommitClaim(p)
  <2>1. OnlyEnds(leases, leases') BY <1>1, LeaseStep
  <2>2. ASSUME NEW l \in LeaseIds, IsActive(leases', l)
        PROVE  leases'[l] = leases[l] /\ IsActive(leases, l)
    BY <2>1, <2>2, ExclusionEnds
  <2>3. OneActiveLeasePerItem' BY <2>2 DEF OneActiveLeasePerItem
  <2>4. ConflictExclusion' BY <2>2 DEF ConflictExclusion
  <2> QED BY <2>3, <2>4
<1>2. ASSUME NEW p \in Procs, CommitClaim(p)
      PROVE  OneActiveLeasePerItem' /\ ConflictExclusion'
  <2> DEFINE j == job[p]
             new == NewLease(j.item, j.agent, j.role, j.now, j.bind)
  <2>1. PICK n \in LeaseIds, L \in [LeaseIds -> Lease] :
          /\ OnlyEnds(leases, L)
          /\ leases[n].st = "none"
          /\ CanClaim(L, j.item, j.agent, j.role)
          /\ leases' = [L EXCEPT ![n] = new]
    BY <1>2, ClaimStep
  <2>2. ASSUME NEW l \in LeaseIds, l # n, IsActive(leases', l)
        PROVE  /\ leases'[l] = leases[l] /\ IsActive(leases, l)
               /\ leases'[l] = L[l] /\ IsActive(L, l)
    <3>1. leases'[l] = L[l] BY <2>1, <2>2
    <3>2. IsActive(L, l) BY <2>2, <3>1 DEF IsActive
    <3> QED BY <2>1, <3>1, <3>2, ExclusionEnds
  <2>3. leases'[n] = new BY <2>1
  <2>4. new.item = j.item /\ new.agent = j.agent /\ new.role = j.role BY DEF NewLease
  <2>5. ASSUME NEW l \in LeaseIds, l # n, IsActive(leases', l)
        PROVE  /\ leases'[l].item # j.item
               /\ Compatible(j.item, j.agent, j.role, leases'[l])
    BY <2>1, <2>2, <2>5 DEF CanClaim, ActiveOn
  <2> HIDE DEF new, j
  <2>6. ASSUME NEW l \in LeaseIds, l # n, IsActive(leases', l)
        PROVE  /\ Compatible(leases'[n].item, leases'[n].agent, leases'[n].role, leases'[l])
               /\ Compatible(leases'[l].item, leases'[l].agent, leases'[l].role, leases'[n])
    BY <2>3, <2>4, <2>5, <2>6, CompatibleSymmetric
  <2>7. OneActiveLeasePerItem' BY <2>2, <2>3, <2>4, <2>5 DEF OneActiveLeasePerItem
  <2>8. ConflictExclusion' BY <2>2, <2>6 DEF ConflictExclusion
  <2> QED BY <2>7, <2>8
<1> QED BY <1>1, <1>2

(* At any time, whatever the interleaving of claims, submissions,          *)
(* rollbacks, expiries and crashes: an item has at most one active lease,  *)
(* and active leases on overlapping keys are read-only or one agent's.     *)
THEOREM LeaseExclusion == Spec => [](OneActiveLeasePerItem /\ ConflictExclusion)
<1>1. Init => OneActiveLeasePerItem /\ ConflictExclusion
  BY DEF Init, OneActiveLeasePerItem, ConflictExclusion, IsActive
<1>2. TypeOK /\ TypeOK' /\ OneActiveLeasePerItem /\ ConflictExclusion /\ [Next]_vars
        => OneActiveLeasePerItem' /\ ConflictExclusion'
  BY ExclusionStep
<1> QED BY <1>1, <1>2, TypeCorrect, PTL DEF Spec

(* In particular an item is never held under two active leases, whatever    *)
(* the loads two claims were decided on (claim_lease, commit_claim).        *)
THEOREM OneLeasePerItem == Spec => []OneActiveLeasePerItem
BY LeaseExclusion, PTL

(* No step changes a lease that is terminal. *)
LEMMA TerminalStep ==
  ASSUME TypeOK, [Next]_vars, NEW l \in LeaseIds, leases[l].st \in TerminalStatuses
  PROVE  leases'[l] = leases[l]
<1>1. CASE \A p \in Procs : ~CommitClaim(p)
  BY <1>1, LeaseStep DEF OnlyEnds, IsActive, TerminalStatuses
<1>2. ASSUME NEW p \in Procs, CommitClaim(p) PROVE leases'[l] = leases[l]
  <2>1. PICK n \in LeaseIds, L \in [LeaseIds -> Lease] :
          /\ OnlyEnds(leases, L)
          /\ leases[n].st = "none"
          /\ leases' = [L EXCEPT ![n] = NewLease(job[p].item, job[p].agent, job[p].role,
                                                 job[p].now, job[p].bind)]
    BY <1>2, ClaimStep
  <2>2. l # n BY <2>1 DEF TerminalStatuses
  <2> QED BY <2>1, <2>2 DEF OnlyEnds, IsActive, TerminalStatuses
<1> QED BY <1>1, <1>2

(* A terminal lease never changes again: neither commit_claim, which uses  *)
(* an id never used before, nor any step that ends leases touches it.      *)
THEOREM TerminalIsFinal == Spec => TerminalLeaseIsFinal
<1>1. ASSUME TypeOK, [Next]_vars
      PROVE  [\A l \in LeaseIds :
                leases[l].st \in TerminalStatuses => leases'[l] = leases[l]]_vars
  BY <1>1, TerminalStep
<1> QED BY <1>1, TypeCorrect, PTL DEF Spec, TerminalLeaseIsFinal

-----------------------------------------------------------------------------
(* What a commit does to the items. *)

(* A publish batch read at the latest revision is still publish-ready. *)
FreshBatch == \A p \in fresh : pc[p] = "publishing" => job[p].batch \subseteq PublishReady

(* Whatever is handled in I was handled before or is accepted in M. *)
AcceptedIn(M, i) == \E l \in LeaseIds : M[l].st = "accepted" /\ M[l].item = i
Supported(I, M) ==
  \A i \in Items :
    I[i].state \in HandledStates => items[i].state \in HandledStates \/ AcceptedIn(M, i)

StoreMoves ==
  \/ UNCHANGED <<leases, items>>
  \/ \E I \in [Items -> Item] : Commit(leases', I) /\ Supported(I, leases')

(* The projected items carry the marker of exactly the active leases and   *)
(* are handled only where they were handled before the projection.         *)
LEMMA ProjectMarks ==
  ASSUME NEW L \in [LeaseIds -> Lease], NEW I \in [Items -> Item], NEW i \in Items
  PROVE  /\ (Project(I, L)[i].state = "claimed") <=> (ActiveOn(L, i) # {})
         /\ Project(I, L)[i].owner = FirstOrNone(ActiveOn(L, i))
         /\ Project(I, L)[i].state \in HandledStates => Project(I, L)[i].state = I[i].state
<1>1. CASE ActiveOn(L, i) = {} BY <1>1 DEF Project, FirstOrNone, Item, HandledStates
<1>2. CASE ActiveOn(L, i) # {}
  <2> DEFINE owner == CHOOSE l \in ActiveOn(L, i) : TRUE
  <2>1. Project(I, L)[i] = [I[i] EXCEPT !.state = "claimed", !.owner = owner]
    BY <1>2 DEF Project
  <2>2. owner = FirstOrNone(ActiveOn(L, i)) BY <1>2 DEF FirstOrNone
  <2> HIDE DEF owner
  <2> QED BY <1>2, <2>1, <2>2 DEF Item, HandledStates
<1> QED BY <1>1, <1>2

(* The store changes only by commits, and a commit handles an item only    *)
(* together with the acceptance of a lease on it, or because it publishes  *)
(* an item that is still publish-ready.                                    *)
LEMMA StoreStep ==
  ASSUME TypeOK, FreshBatch, [Next]_vars
  PROVE  StoreMoves
<1> USE DEF StoreMoves
<1> items \in [Items -> Item] /\ leases \in [LeaseIds -> Lease] BY DEF TypeOK
<1>1. ASSUME NEW L, Commit(L, items) PROVE StoreMoves
  <2>1. Commit(leases', items) BY <1>1 DEF Commit
  <2>2. Supported(items, leases') BY DEF Supported
  <2> QED BY <2>1, <2>2
<1>2. CASE UNCHANGED <<leases, items>> BY <1>2
<1>3. ASSUME NEW p \in Procs, PersistStaleContext(p) PROVE StoreMoves
  <2> DEFINE I == IrrecoverableItems(items, leases, job[p].lease)
  <2>1. CASE Commit(IrrecoverableLeases(leases, job[p].lease), I)
    <3>1. I \in [Items -> Item] BY ResponseType
    <3>2. Commit(leases', I) BY <2>1 DEF Commit
    <3>3. ASSUME NEW i \in Items PROVE I[i].state \in {items[i].state, "open"}
      BY DEF IrrecoverableItems, Item
    <3> HIDE DEF I
    <3>4. Supported(I, leases') BY <3>3 DEF Supported, HandledStates
    <3> QED BY <3>1, <3>2, <3>4
  <2> QED BY <1>2, <1>3, <2>1 DEF PersistStaleContext
<1>4. ASSUME NEW p \in Procs, AcceptSubmission(p) PROVE StoreMoves
  <2> DEFINE l == FirstOrNone(Acceptable(job[p]))
             I == ApplyResponse(items, leases[l], job[p].res)
  <2>1. Commit(Close(leases, l, "accepted"), I) BY <1>4 DEF AcceptSubmission
  <2>2. l \in Acceptable(job[p]) BY <1>4 DEF AcceptSubmission, FirstOrNone
  <2>3. l \in LeaseIds BY <2>2 DEF Acceptable, Rebound, OwnFixerLeases, ActiveOn
  <2> HIDE DEF l
  <2>4. I \in [Items -> Item] BY ResponseType
  <2>5. Commit(leases', I) BY <2>1 DEF Commit
  <2>6. leases' = Close(leases, l, "accepted") BY <2>1 DEF Commit
  <2>7. leases'[l].st = "accepted" /\ leases'[l].item = leases[l].item
    BY <2>3, <2>6 DEF Close, Lease
  <2>8. AcceptedIn(leases', leases[l].item) BY <2>3, <2>7 DEF AcceptedIn
  <2>9. ASSUME NEW i \in Items, i # leases[l].item PROVE I[i] = items[i]
    BY <2>9 DEF ApplyResponse
  <2> HIDE DEF I
  <2>10. Supported(I, leases') BY <2>8, <2>9 DEF Supported
  <2> QED BY <2>4, <2>5, <2>10
<1>5. ASSUME NEW p \in Procs, PublishSave(p) PROVE StoreMoves
  <2> DEFINE I == [k \in Items |-> IF k \in job[p].batch
                                   THEN [items[k] EXCEPT !.state = "closed"] ELSE items[k]]
  <2>1. CASE p \in fresh
    <3>1. Commit(leases, I) BY <1>5, <2>1 DEF PublishSave
    <3>2. Commit(leases', I) BY <3>1 DEF Commit
    <3>3. I \in [Items -> Item] BY DEF Item, HandledStates
    <3>4. job[p].batch \subseteq PublishReady BY <1>5, <2>1 DEF FreshBatch, PublishSave
    <3>5. Supported(I, leases') BY <3>4 DEF Supported, PublishReady, HandledStates
    <3> HIDE DEF I
    <3> QED BY <3>2, <3>3, <3>5
  <2>2. CASE p \notin fresh BY <1>2, <1>5, <2>2 DEF PublishSave
  <2> QED BY <2>1, <2>2
<1>6. ASSUME NEW i \in Items, RecordClassification(i) PROVE StoreMoves
  <2> DEFINE I == [items EXCEPT ![i].classified = TRUE]
  <2>1. I \in [Items -> Item] BY DEF Item
  <2>2. Commit(leases', I) BY <1>6 DEF RecordClassification, Commit
  <2>3. ASSUME NEW k \in Items PROVE I[k].state = items[k].state BY DEF Item
  <2> HIDE DEF I
  <2>4. Supported(I, leases') BY <2>3 DEF Supported
  <2> QED BY <2>1, <2>2, <2>4
<1>7. ASSUME NEW p \in Procs, CommandStep(p) PROVE StoreMoves
  <2>1. CASE CommitClaim(p) BY <1>1, <2>1 DEF CommitClaim
  <2>2. CASE PersistRefusal(p) BY <1>1, <1>2, <2>2 DEF PersistRefusal
  <2>3. CASE PersistRejection(p) BY <1>1, <1>2, <2>3 DEF PersistRejection
  <2>4. CASE RefuseSubmission(p) BY <1>1, <1>2, <2>4 DEF RefuseSubmission
  <2>5. CASE Rollback(p) BY <1>1, <2>5 DEF Rollback
  <2>6. CASE ResolveIssue(p) BY <1>2, <2>6 DEF ResolveIssue, IssueActionRequest, Reenter
  <2>7. CASE ClaimConflict(p) \/ PrepareSubmission(p) \/ AcceptStale(p) \/ ResolvePublished(p)
               \/ PublishReload(p)
    BY <1>2, <2>7 DEF ClaimConflict, PrepareSubmission, AcceptStale, ResolvePublished,
                      PublishReload
  <2> QED BY <1>3, <1>4, <1>5, <1>7, <2>1, <2>2, <2>3, <2>4, <2>5, <2>6, <2>7 DEF CommandStep
<1>8. CASE ReclaimLeases BY <1>1, <1>8 DEF ReclaimLeases
<1>9. CASE UNCHANGED vars \/ Tick \/ Push BY <1>2, <1>9 DEF vars, Tick, Push
<1>10. ASSUME NEW p \in Procs, NEW a \in Agents, NEW r \in Roles, NEW i \in Items,
              NextCommand(p, a, r, i)
       PROVE  UNCHANGED <<leases, items>>
  BY <1>10 DEF NextCommand, IssueActionRequest, Reenter
<1>11. ASSUME NEW p \in Procs, NEW a \in Agents, NEW i \in Items, NEW res \in Resolutions,
              ResolveCommand(p, a, i, res)
       PROVE  UNCHANGED <<leases, items>>
  BY <1>11 DEF ResolveCommand
<1>12. ASSUME NEW p \in Procs, NEW l \in LeaseIds, NEW a \in Agents, NEW res \in Resolutions,
              SubmitCommand(p, l, a, res)
       PROVE  UNCHANGED <<leases, items>>
  BY <1>12 DEF SubmitCommand
<1>13. ASSUME NEW p \in Procs, PublishCommand(p) \/ Crash(p) PROVE UNCHANGED <<leases, items>>
  BY <1>13 DEF PublishCommand, Crash
<1> HIDE DEF StoreMoves
<1> QED
  BY <1>2, <1>6, <1>7, <1>8, <1>9, <1>10, <1>11, <1>12, <1>13 DEF Next

-----------------------------------------------------------------------------
(* Publish batches. *)

(* Process p moves, and not into the middle of a publish. *)
Elsewhere(p) ==
  /\ pc'[p] # "publishing"
  /\ \A q \in Procs \ {p} : pc'[q] = pc[q] /\ job'[q] = job[q]

(* A move of one process is no move of another. *)
LEMMA MovesElsewhere ==
  ASSUME TypeOK, NEW p \in Procs, NEW step \in Steps \ {"publishing"}, NEW j, NEW k, NEW l, NEW b,
         \/ Goto(p, step, j) \/ Done(p) \/ GotoSubmit(p, k, l, b) \/ Fail(p) \/ Retry(p, step)
  PROVE  Elsewhere(p)
<1>1. ASSUME NEW s \in Steps \ {"publishing"}, NEW x, Goto(p, s, x) PROVE Elsewhere(p)
  BY <1>1 DEF TypeOK, Goto, Elsewhere
<1>2. {"idle", "submit", "rollback"} \subseteq Steps \ {"publishing"} BY DEF Steps
<1>3. CASE Done(p) BY <1>1, <1>2, <1>3 DEF Done
<1>4. CASE GotoSubmit(p, k, l, b) BY <1>1, <1>2, <1>4 DEF GotoSubmit
<1>5. CASE Fail(p) BY <1>1, <1>2, <1>3, <1>5 DEF Fail
<1>6. CASE Retry(p, step) BY <1>1, <1>3, <1>6 DEF Retry
<1>7. CASE Goto(p, step, j) BY <1>1, <1>7
<1> QED BY <1>3, <1>4, <1>5, <1>6, <1>7

(* A move that leaves the items alone and loads at most for itself. *)
LEMMA BatchElsewhere ==
  ASSUME FreshBatch, NEW p \in Procs, Elsewhere(p), TypeOK, items' = items,
         fresh' \subseteq fresh \cup {p}
  PROVE  FreshBatch'
<1> SUFFICES ASSUME NEW q \in fresh', pc'[q] = "publishing"
             PROVE  job'[q].batch \subseteq PublishReady'
  BY DEF FreshBatch
<1>1. q # p /\ q \in fresh /\ q \in Procs BY DEF Elsewhere, TypeOK
<1>2. pc[q] = "publishing" /\ job'[q] = job[q] BY <1>1 DEF Elsewhere
<1>3. PublishReady' = PublishReady BY DEF PublishReady
<1> QED BY <1>1, <1>2, <1>3 DEF FreshBatch

(* The load of a publish reads its batch from the latest revision. *)
LEMMA BatchLoad ==
  ASSUME FreshBatch, NEW p \in Procs, PublishLoad(p), TypeOK, items' = items
  PROVE  FreshBatch'
<1> SUFFICES ASSUME NEW q \in fresh', pc'[q] = "publishing"
             PROVE  job'[q].batch \subseteq PublishReady'
  BY DEF FreshBatch
<1>1. PublishReady' = PublishReady BY DEF PublishReady
<1>2. job'[p] = [job[p] EXCEPT !.batch = PublishReady]
  BY DEF PublishLoad, Goto, TypeOK
<1>3. CASE q = p
  <2>1. job[p] \in Job BY DEF TypeOK
  <2> QED BY <1>1, <1>2, <1>3, <2>1 DEF Job
<1>4. CASE q # p
  <2>1. q \in fresh /\ q \in Procs BY <1>4 DEF PublishLoad, Load, TypeOK
  <2>2. pc[q] = "publishing" /\ job'[q] = job[q]
    BY <1>4, <2>1 DEF PublishLoad, Goto, TypeOK
  <2> QED BY <1>1, <2>1, <2>2 DEF FreshBatch
<1> QED BY <1>3, <1>4

(* Issuing an action request loads no publish batch. *)
LEMMA BatchIssue ==
  ASSUME FreshBatch, TypeOK, NEW p \in Procs, NEW j, IssueActionRequest(p, j)
  PROVE  FreshBatch'
<1> DEFINE at == [j EXCEPT !.now = clock, !.bind = tree]
           own == FirstOrNone(OwnFixerLeases(ExpireLeases(leases, clock), j.item, j.agent))
<1>1. \/ Goto(p, "claim", at) \/ Goto(p, "persist", at)
      \/ GotoSubmit(p, j, own, FALSE) \/ Done(p)
  BY DEF IssueActionRequest, Reenter
<1>2. items' = items /\ fresh' \subseteq fresh \cup {p} BY DEF IssueActionRequest, Load
<1> HIDE DEF at, own
<1>3. {"claim", "persist"} \subseteq Steps \ {"publishing"} BY DEF Steps
<1>4. Elsewhere(p) BY <1>1, <1>3, MovesElsewhere
<1> QED BY <1>2, <1>4, BatchElsewhere

(* No step leaves a fresh process with an outdated batch. *)
LEMMA BatchStep ==
  ASSUME FreshBatch, TypeOK, [Next]_vars
  PROVE  FreshBatch'
<1>0. {"idle", "submit", "preloaded", "reject", "drop", "accept", "publish"}
        \subseteq Steps \ {"publishing"}
  BY DEF Steps
<1>1. ASSUME NEW L, NEW I, Commit(L, I) PROVE FreshBatch'
  BY <1>1 DEF Commit, FreshBatch
<1>2. ASSUME NEW p \in Procs, items' = items, fresh' \subseteq fresh \cup {p},
             Done(p) \/ Fail(p) \/ Retry(p, "submit") \/ Retry(p, "publish")
      PROVE  FreshBatch'
  <2>1. Elsewhere(p) BY <1>0, <1>2, MovesElsewhere
  <2> QED BY <1>2, <2>1, BatchElsewhere
<1>3. ASSUME NEW p \in Procs, CommandStep(p) PROVE FreshBatch'
  <2>1. CASE ResolveIssue(p) BY <2>1, BatchIssue DEF ResolveIssue
  <2>2. CASE CommitClaim(p) BY <1>1, <2>2 DEF CommitClaim
  <2>3. CASE ClaimConflict(p) BY <1>2, <2>3 DEF ClaimConflict
  <2>4. CASE PersistRefusal(p) BY <1>1, <1>2, <2>4 DEF PersistRefusal
  <2>5. CASE PrepareSubmission(p)
    <3> DEFINE j == IF job[p].tries = 0 THEN [job[p] EXCEPT !.now = clock] ELSE job[p]
    <3>1. /\ Goto(p, "reject", j) \/ Goto(p, "drop", j) \/ Goto(p, "accept", j)
          /\ items' = items /\ fresh' \subseteq fresh \cup {p}
      BY <2>5 DEF PrepareSubmission, Load
    <3> HIDE DEF j
    <3>2. Elsewhere(p) BY <1>0, <3>1, MovesElsewhere
    <3> QED BY <3>1, <3>2, BatchElsewhere
  <2>6. CASE PersistRejection(p) BY <1>1, <1>2, <2>6 DEF PersistRejection
  <2>7. CASE PersistStaleContext(p) BY <1>1, <1>2, <2>7 DEF PersistStaleContext
  <2>8. CASE AcceptSubmission(p) BY <1>1, <2>8 DEF AcceptSubmission
  <2>9. CASE RefuseSubmission(p) BY <1>1, <1>2, <2>9 DEF RefuseSubmission
  <2>10. CASE AcceptStale(p) BY <1>2, <2>10 DEF AcceptStale
  <2>11. CASE ResolvePublished(p) BY <1>2, <2>11 DEF ResolvePublished
  <2>12. CASE Rollback(p) BY <1>1, <2>12 DEF Rollback
  <2>13. CASE PublishReload(p) BY <1>2, <2>13, BatchLoad DEF PublishReload
  <2>14. CASE PublishSave(p) BY <1>1, <1>2, <2>14 DEF PublishSave
  <2> QED BY <1>3, <2>1, <2>2, <2>3, <2>4, <2>5, <2>6, <2>7, <2>8, <2>9, <2>10, <2>11,
             <2>12, <2>13, <2>14 DEF CommandStep
<1>4. ASSUME NEW p \in Procs, NEW a \in Agents, NEW r \in Roles, NEW i \in Items,
             NextCommand(p, a, r, i)
      PROVE  FreshBatch'
  BY <1>4, BatchIssue DEF NextCommand
<1>5. ASSUME NEW p \in Procs, NEW a \in Agents, NEW i \in Items, NEW res \in Resolutions,
             ResolveCommand(p, a, i, res)
      PROVE  FreshBatch'
  <2>1. Elsewhere(p) BY <1>0, <1>5, MovesElsewhere DEF ResolveCommand
  <2> QED BY <1>5, <2>1, BatchElsewhere DEF ResolveCommand
<1>6. ASSUME NEW p \in Procs, NEW l \in LeaseIds, NEW a \in Agents, NEW res \in Resolutions,
             SubmitCommand(p, l, a, res)
      PROVE  FreshBatch'
  <2>1. Elsewhere(p) BY <1>0, <1>6, MovesElsewhere DEF SubmitCommand
  <2> QED BY <1>6, <2>1, BatchElsewhere DEF SubmitCommand
<1>7. ASSUME NEW p \in Procs, PublishCommand(p) PROVE FreshBatch'
  BY <1>7, BatchLoad DEF PublishCommand
<1>8. ASSUME NEW p \in Procs, Crash(p) PROVE FreshBatch'
  BY <1>2, <1>8 DEF Crash
<1>9. CASE ReclaimLeases BY <1>1, <1>9 DEF ReclaimLeases
<1>10. ASSUME NEW i \in Items, RecordClassification(i) PROVE FreshBatch'
  BY <1>1, <1>10 DEF RecordClassification
<1>11. CASE UNCHANGED vars \/ Tick \/ Push
  BY <1>11 DEF vars, Tick, Push, FreshBatch, PublishReady
<1> QED BY <1>3, <1>4, <1>5, <1>6, <1>7, <1>8, <1>9, <1>10, <1>11 DEF Next

-----------------------------------------------------------------------------
(* The claim marker and the evidence behind handled items. *)

(* What _derive_item_claim_projection leaves behind: an item is marked      *)
(* claimed exactly while an active lease names it.                         *)
MarkerProjected ==
  \A i \in Items :
    /\ (items[i].state = "claimed") <=> (ActiveOn(leases, i) # {})
    /\ items[i].owner = FirstOrNone(ActiveOn(leases, i))

ItemInv == MarkerProjected /\ HandledHasAcceptedLease /\ FreshBatch

(* An accepted lease stays accepted, on the same item. *)
LEMMA AcceptedStays ==
  ASSUME TypeOK, [Next]_vars, NEW i \in Items, AcceptedIn(leases, i)
  PROVE  AcceptedIn(leases', i)
<1>1. PICK l \in LeaseIds : leases[l].st = "accepted" /\ leases[l].item = i
  BY DEF AcceptedIn
<1>2. leases'[l] = leases[l]
  BY <1>1, TerminalStep DEF TerminalStatuses
<1> QED BY <1>1, <1>2 DEF AcceptedIn

(* The item invariant is inductive, given types. *)
LEMMA ItemStep ==
  ASSUME TypeOK, TypeOK', ItemInv, [Next]_vars
  PROVE  ItemInv'
<1> leases' \in [LeaseIds -> Lease] BY DEF TypeOK
<1>1. FreshBatch' BY BatchStep DEF ItemInv
<1>2. CASE UNCHANGED <<leases, items>>
  <2>1. MarkerProjected' BY <1>2 DEF ItemInv, MarkerProjected, ActiveOn, IsActive
  <2>2. HandledHasAcceptedLease' BY <1>2 DEF ItemInv, HandledHasAcceptedLease
  <2> QED BY <1>1, <2>1, <2>2 DEF ItemInv
<1>3. ASSUME NEW I \in [Items -> Item], Commit(leases', I), Supported(I, leases')
      PROVE  ItemInv'
  <2>1. items' = Project(I, leases') BY <1>3 DEF Commit
  <2>2. MarkerProjected' BY <2>1, ProjectMarks DEF MarkerProjected, ActiveOn, IsActive
  <2>3. ASSUME NEW i \in Items, items'[i].state \in HandledStates
        PROVE  AcceptedIn(leases', i)
    <3>1. I[i].state \in HandledStates BY <2>1, <2>3, ProjectMarks
    <3>2. CASE items[i].state \in HandledStates
      <4>1. AcceptedIn(leases, i)
        BY <3>2 DEF ItemInv, HandledHasAcceptedLease, AcceptedIn
      <4> QED BY <4>1, AcceptedStays
    <3> QED BY <1>3, <3>1, <3>2 DEF Supported
  <2>4. HandledHasAcceptedLease' BY <2>3 DEF HandledHasAcceptedLease, AcceptedIn
  <2> QED BY <1>1, <2>2, <2>4 DEF ItemInv
<1>4. StoreMoves BY StoreStep DEF ItemInv
<1> QED BY <1>2, <1>3, <1>4 DEF StoreMoves

(* The initial store satisfies the item invariant. *)
LEMMA ItemInit ==
  ASSUME Init
  PROVE  ItemInv
<1>1. ASSUME NEW i \in Items PROVE ActiveOn(leases, i) = {}
  BY DEF Init, ActiveOn, IsActive
<1>2. MarkerProjected BY <1>1 DEF Init, MarkerProjected, FirstOrNone
<1>3. HandledHasAcceptedLease BY DEF Init, HandledHasAcceptedLease, HandledStates
<1> QED BY <1>2, <1>3 DEF Init, ItemInv, FreshBatch

(* The item invariant holds in every reachable state. *)
LEMMA ItemInvariant == Spec => []ItemInv
<1>1. TypeOK /\ TypeOK' /\ ItemInv /\ [Next]_vars => ItemInv' BY ItemStep
<1>2. Init => ItemInv BY ItemInit
<1> QED BY <1>1, <1>2, TypeCorrect, PTL DEF Spec

(* No thread is published and no finding handled without an accepted lease *)
(* on that item: a publish saved under expected_revision publishes only    *)
(* what is still ready.                                                    *)
THEOREM HandledHasEvidence == Spec => []HandledHasAcceptedLease
BY ItemInvariant, PTL DEF ItemInv

-----------------------------------------------------------------------------
(* Advice.                                                                 *)

(* Expiry leaves no claim on an item whose one active lease has expired.    *)
LEMMA ExpiryFrees ==
  ASSUME TypeOK, OneActiveLeasePerItem, NEW l \in LeaseIds,
         IsActive(leases, l), IsExpired(leases[l], clock)
  PROVE  ActiveOn(ExpireLeases(leases, clock), leases[l].item) = {}
<1>1. leases \in [LeaseIds -> Lease] /\ clock \in Nat BY DEF TypeOK
<1>2. ASSUME NEW m \in LeaseIds, IsActive(ExpireLeases(leases, clock), m)
      PROVE  /\ ExpireLeases(leases, clock)[m] = leases[m] /\ IsActive(leases, m)
             /\ ~IsExpired(leases[m], clock)
  BY <1>1, <1>2 DEF ExpireLeases, IsActive, Lease
<1> QED BY <1>2 DEF ActiveOn, OneActiveLeasePerItem

(* An item with an active lease, or whose marker is free, is found by       *)
(* agent next once no active lease is left on it.                           *)
LEMMA FreeIsFound ==
  ASSUME TypeOK, NEW L, NEW i \in Items, ActiveOn(L, i) = {},
         items[i].state \in {"open", "claimed"}
  PROVE  Eligible(Project(items, L), L, i)
<1>1. Project(items, L)[i] = [items[i] EXCEPT !.state = "open", !.owner = NoId]
  BY DEF Project, TypeOK, Item
<1>2. Project(items, L)[i].state = "open" BY <1>1 DEF TypeOK, Item
<1> QED BY <1>2 DEF Eligible, ItemIsOpen

(* At any time, whatever the interleaving: the way back that a refused      *)
(* agent is told leads there (calculate_lease_recovery_state).              *)
THEOREM AdviceFollowable == Spec => []AdviceIsFollowable
<1>1. TypeOK /\ OneActiveLeasePerItem /\ ConflictExclusion /\ MarkerProjected
        => AdviceIsFollowable
  <2> SUFFICES ASSUME TypeOK, OneActiveLeasePerItem, ConflictExclusion, MarkerProjected,
                      NEW l \in LeaseIds
               PROVE  LET outcome == Recovery(items, leases, l, TRUE, clock)
                      IN  /\ outcome \in {"renew", "reclaim"} => WouldFind(items, leases, l, clock)
                          /\ outcome = "renew" => WouldBeGranted(items, leases, l, clock)
                          /\ AdvisedCommand(outcome) = "submit"
                               => IsActive(leases, l) /\ ~IsExpired(leases[l], clock)
    BY DEF AdviceIsFollowable
  <2> DEFINE outcome == Recovery(items, leases, l, TRUE, clock)
             lease == leases[l]
             i == lease.item
             after == ExpireLeases(leases, clock)
  <2>1. leases \in [LeaseIds -> Lease] /\ clock \in Nat /\ lease \in Lease /\ i \in Items
    BY DEF TypeOK, Lease
  <2>2. /\ items[i].state = "claimed" <=> ActiveOn(leases, i) # {}
        /\ items[i].owner = FirstOrNone(ActiveOn(leases, i))
    BY <2>1 DEF MarkerProjected
  <2>3. /\ outcome = "renew" => lease.st = "active" /\ IsExpired(lease, clock)
        /\ outcome = "reclaim" => /\ lease.st \in {"expired", "released"} /\ ~TakenOver(items, leases, l)
                                  /\ items[i].state \in {"open", "claimed"}
        /\ outcome = "active" => lease.st = "active" /\ ~IsExpired(lease, clock)
    BY DEF Recovery, RecoveryOutcome
  <2>4. CASE outcome = "renew"
    <3>1. IsActive(leases, l) /\ IsExpired(leases[l], clock) BY <2>3, <2>4 DEF IsActive
    <3>2. ActiveOn(after, i) = {} BY <3>1, ExpiryFrees
    <3>3. l \in ActiveOn(leases, i) BY <3>1 DEF ActiveOn
    <3>4. WouldFind(items, leases, l, clock)
      BY <2>1, <2>2, <3>2, <3>3, FreeIsFound DEF WouldFind
    <3>5. ASSUME NEW m \in LeaseIds, IsActive(after, m)
          PROVE  Compatible(i, lease.agent, lease.role, after[m])
      <4>1. after[m] = leases[m] /\ IsActive(leases, m) /\ ~IsExpired(leases[m], clock)
        BY <2>1, <3>5 DEF ExpireLeases, IsActive, Lease
      <4> QED BY <3>1, <4>1 DEF ConflictExclusion
    <3>6. WouldBeGranted(items, leases, l, clock)
      BY <3>2, <3>4, <3>5 DEF WouldBeGranted, CanClaim
    <3>7. AdvisedCommand(outcome) # "submit" BY <2>4 DEF AdvisedCommand
    <3> QED BY <2>4, <3>4, <3>6, <3>7
  <2>5. CASE outcome = "reclaim"
    <3>1. ActiveOn(leases, i) = {}
      <4>1. SUFFICES ASSUME ActiveOn(leases, i) # {} PROVE FALSE OBVIOUS
      <4>2. items[i].owner \in ActiveOn(leases, i) BY <2>2, <4>1 DEF FirstOrNone
      <4>3. items[i].owner \in {NoId, l} BY <2>3, <2>5 DEF TakenOver
      <4> QED BY <2>3, <2>5, <4>2, <4>3, NoIdAssumption DEF ActiveOn, IsActive
    <3>2. ActiveOn(after, i) = {}
      BY <2>1, <3>1 DEF ActiveOn, ExpireLeases, IsActive, Lease
    <3>3. WouldFind(items, leases, l, clock)
      BY <2>1, <2>3, <2>5, <3>2, FreeIsFound DEF WouldFind
    <3>4. AdvisedCommand(outcome) # "submit" BY <2>5 DEF AdvisedCommand
    <3> QED BY <2>5, <3>3, <3>4
  <2>6. CASE outcome \notin {"renew", "reclaim"}
    <3>1. AdvisedCommand(outcome) = "submit" => outcome = "active" BY DEF AdvisedCommand
    <3> QED BY <2>3, <2>6, <3>1 DEF IsActive
  <2> QED BY <2>4, <2>5, <2>6
<1> QED BY <1>1, TypeCorrect, LeaseExclusion, ItemInvariant, PTL DEF ItemInv

-----------------------------------------------------------------------------
(* The protocol implements LeaseTable. *)

TableHolder == [i \in Items |-> FirstOrNone(ActiveOn(leases, i))]
TableUsed == {l \in LeaseIds : leases[l].st # "none"}

(* The table's entry for an item is its one active lease. *)
LEMMA HolderIsActive ==
  ASSUME NEW L, NEW i \in Items
  PROVE  LET h == FirstOrNone(ActiveOn(L, i))
         IN  /\ h = NoId <=> ActiveOn(L, i) = {}
             /\ h # NoId => h \in ActiveOn(L, i)
<1>1. ActiveOn(L, i) \subseteq LeaseIds BY DEF ActiveOn
<1> QED BY <1>1, NoIdAssumption DEF FirstOrNone

(* Ending leases frees items of the table. *)
LEMMA EndsFree ==
  ASSUME NEW L \in [LeaseIds -> Lease], NEW M \in [LeaseIds -> Lease], OnlyEnds(L, M),
         \A l, m \in LeaseIds : IsActive(L, l) /\ IsActive(L, m) /\ L[l].item = L[m].item => l = m,
         NEW i \in Items
  PROVE  FirstOrNone(ActiveOn(M, i)) \in {NoId, FirstOrNone(ActiveOn(L, i))}
<1>1. CASE ActiveOn(M, i) = {} BY <1>1 DEF FirstOrNone
<1>2. CASE ActiveOn(M, i) # {}
  <2> DEFINE h == FirstOrNone(ActiveOn(M, i))
             g == FirstOrNone(ActiveOn(L, i))
  <2>1. h \in ActiveOn(M, i) BY <1>2, HolderIsActive
  <2>2. h \in LeaseIds /\ IsActive(M, h) /\ M[h].item = i BY <2>1 DEF ActiveOn
  <2> HIDE DEF h, g
  <2>3. IsActive(L, h) /\ L[h].item = i BY <2>2, ExclusionEnds
  <2>4. h \in ActiveOn(L, i) BY <2>2, <2>3 DEF ActiveOn
  <2>5. g \in ActiveOn(L, i) BY <2>4, HolderIsActive DEF g
  <2>6. g \in LeaseIds /\ IsActive(L, g) /\ L[g].item = i BY <2>5 DEF ActiveOn
  <2>7. h = g BY <2>2, <2>3, <2>6
  <2> QED BY <2>7 DEF h, g
<1> QED BY <1>1, <1>2

(* Steps that only end leases free some items. *)
LEMMA TableFree ==
  ASSUME TypeOK, TypeOK', OneActiveLeasePerItem, OnlyEnds(leases, leases')
  PROVE  Table!Next
<1> leases \in [LeaseIds -> Lease] /\ leases' \in [LeaseIds -> Lease] BY DEF TypeOK
<1>0. PICK gone \in SUBSET Items :
        \A i \in Items : i \in gone <=> FirstOrNone(ActiveOn(leases', i)) = NoId
  <2> DEFINE free == {i \in Items : FirstOrNone(ActiveOn(leases', i)) = NoId}
  <2>1. free \in SUBSET Items OBVIOUS
  <2> QED BY <2>1
<1>1. ASSUME NEW i \in Items
      PROVE  FirstOrNone(ActiveOn(leases', i)) \in {NoId, FirstOrNone(ActiveOn(leases, i))}
  BY EndsFree DEF OneActiveLeasePerItem
<1>2. TableHolder' = [i \in Items |-> IF i \in gone THEN NoId ELSE TableHolder[i]]
  BY <1>0, <1>1 DEF TableHolder
<1>3. TableUsed' = TableUsed BY DEF TableUsed, OnlyEnds, IsActive, TerminalStatuses
<1>4. Table!Free(gone) BY <1>2, <1>3 DEF Table!Free, Table!Freed, TableHolder, TableUsed
<1> QED BY <1>4 DEF Table!Next

(* A claim grants a free item to a new id. *)
LEMMA TableGrant ==
  ASSUME TypeOK, TypeOK', OneActiveLeasePerItem, NEW p \in Procs, CommitClaim(p)
  PROVE  Table!Next
<1> leases \in [LeaseIds -> Lease] /\ leases' \in [LeaseIds -> Lease] BY DEF TypeOK
<1> DEFINE i == job[p].item
           new == NewLease(i, job[p].agent, job[p].role, job[p].now, job[p].bind)
<1>0. i \in Items BY DEF TypeOK, Job
<1>1. PICK n \in LeaseIds, L \in [LeaseIds -> Lease] :
        /\ OnlyEnds(leases, L)
        /\ leases[n].st = "none"
        /\ CanClaim(L, i, job[p].agent, job[p].role)
        /\ leases' = [L EXCEPT ![n] = new]
  BY ClaimStep
<1> DEFINE gone == {k \in Items : FirstOrNone(ActiveOn(L, k)) = NoId}
<1>2. new.st = "active" /\ new.item = i BY DEF NewLease
<1>3. ActiveOn(L, i) = {} BY <1>1 DEF CanClaim
<1>4. L[n].st = "none" BY <1>1 DEF OnlyEnds, IsActive
<1> HIDE DEF new, i
<1>5. leases'[n] = new /\ \A l \in LeaseIds \ {n} : leases'[l] = L[l] BY <1>1
<1>6. ActiveOn(leases', i) = {n} BY <1>2, <1>3, <1>5 DEF ActiveOn, IsActive
<1>7. ASSUME NEW k \in Items, k # i PROVE ActiveOn(leases', k) = ActiveOn(L, k)
  BY <1>2, <1>4, <1>5, <1>7 DEF ActiveOn, IsActive
<1>8. ASSUME NEW k \in Items
      PROVE  FirstOrNone(ActiveOn(L, k)) \in {NoId, FirstOrNone(ActiveOn(leases, k))}
  BY <1>1, EndsFree DEF OneActiveLeasePerItem
<1>9. FirstOrNone({n}) = n BY DEF FirstOrNone
<1>10. i \in gone BY <1>0, <1>3 DEF FirstOrNone
<1> DEFINE freed == [k \in Items |-> IF k \in gone THEN NoId ELSE TableHolder[k]]
<1>11. ASSUME NEW k \in Items PROVE freed[k] = FirstOrNone(ActiveOn(L, k))
  BY <1>8 DEF TableHolder
<1> HIDE DEF gone
<1>12. TableHolder' = [freed EXCEPT ![i] = n]
  <2> HIDE DEF freed
  <2>1. ASSUME NEW k \in Items
        PROVE  FirstOrNone(ActiveOn(leases', k)) = IF k = i THEN n ELSE freed[k]
    BY <1>6, <1>7, <1>9, <1>11
  <2>2. freed = [k \in Items |-> freed[k]] BY DEF freed
  <2> QED BY <1>0, <2>1, <2>2 DEF TableHolder
<1>13. freed[i] = NoId BY <1>0, <1>10
<1>14. n \notin TableUsed BY <1>1 DEF TableUsed
<1>15. TableUsed' = TableUsed \cup {n}
  <2>1. ASSUME NEW l \in LeaseIds PROVE (L[l].st # "none") <=> (leases[l].st # "none")
    BY <1>1 DEF OnlyEnds, IsActive, TerminalStatuses
  <2> QED BY <1>2, <1>5, <2>1 DEF TableUsed
<1>16. gone \in SUBSET Items BY DEF gone
<1>17. Table!Grant(gone, i, n)
  BY <1>12, <1>13, <1>14, <1>15 DEF Table!Grant, Table!Freed, TableHolder, TableUsed
<1> QED BY <1>0, <1>16, <1>17 DEF Table!Next

(* The lease protocol implements the one-holder lease table. *)
THEOREM Refinement == Spec => ImplementsLeaseTable
<1>1. Init => Table!Init
  <2> SUFFICES ASSUME Init PROVE Table!Init OBVIOUS
  <2>1. ASSUME NEW i \in Items PROVE FirstOrNone(ActiveOn(leases, i)) = NoId
    BY DEF Init, ActiveOn, IsActive, FirstOrNone
  <2>2. {l \in LeaseIds : leases[l].st # "none"} = {} BY DEF Init
  <2> QED BY <2>1, <2>2 DEF Table!Init
<1>2. TypeOK /\ TypeOK' /\ OneActiveLeasePerItem /\ [Next]_vars
        => [Table!Next]_<<TableHolder, TableUsed>>
  <2> SUFFICES ASSUME TypeOK, TypeOK', OneActiveLeasePerItem, [Next]_vars
               PROVE  Table!Next
    OBVIOUS
  <2>1. CASE \A p \in Procs : ~CommitClaim(p) BY <2>1, LeaseStep, TableFree
  <2>2. ASSUME NEW p \in Procs, CommitClaim(p) PROVE Table!Next BY <2>2, TableGrant
  <2> QED BY <2>1, <2>2
<1>3. Spec => []TypeOK /\ []OneActiveLeasePerItem BY TypeCorrect, LeaseExclusion, PTL
<1> QED BY <1>1, <1>2, <1>3, PTL
     DEF Spec, ImplementsLeaseTable, Table!Spec, TableHolder, TableUsed
=============================================================================
