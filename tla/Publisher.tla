------------------------------ MODULE Publisher ------------------------------
(***************************************************************************)
(* Publishing accepted responses to GitHub (core/publisher.py) through the *)
(* side-effect outbox (core/side_effect_outbox.py, the outbox_commands     *)
(* table of core/runtime_store.py, core/process_lock.py).                  *)
(*                                                                         *)
(* A thread is published by two effects, a reply and a resolve.  Each has  *)
(* one outbox row per thread and one advisory lock file that the operating *)
(* system releases when its holder dies.  Publishers are processes that    *)
(* may run at the same time and may die anywhere, in particular between a  *)
(* mutation on GitHub and the commit that records it.  Every step is one   *)
(* read, one transaction, one lock operation or one GitHub call.           *)
(***************************************************************************)
EXTENDS Naturals, FiniteSets

CONSTANTS
  Threads,        \* publish-ready review threads with an accepted response
  Procs,          \* operating-system processes running agent publish
  Nobody,         \* no lock holder
  Attempts,       \* STALE_REVISION_ATTEMPTS
  LostResponses,  \* whether a mutation GitHub applied may look failed to its caller
  MaxRuns,        \* bound: agent publish commands started
  MaxCrash        \* bound: crashes

ASSUME ThreadsAssumption == Threads # {}
ASSUME NobodyAssumption == Nobody \notin Procs
ASSUME LimitsAssumption ==
  /\ Attempts \in Nat \ {0} /\ MaxRuns \in Nat /\ MaxCrash \in Nat
  /\ LostResponses \in BOOLEAN

VARIABLES
  rows,     \* outbox_commands: status, and the attempt that owns an in-flight row
  lock,     \* execution locks: their holder
  items,    \* committed items: published and closed, reply_posted
  gh,       \* GitHub: replies of the publisher, is the latest comment one, resolved
  pc,       \* where each process is
  job,      \* its local variables
  fresh,    \* processes whose session carries the latest revision
  runs,     \* publish commands started
  crashes   \* crashes so far

vars == <<rows, lock, items, gh, pc, job, fresh, runs, crashes>>
counters == <<runs, crashes>>

Effects == {"reply", "resolve"}
Cmds == Threads \X Effects
Statuses == {"none", "planned", "in_flight", "succeeded", "failed", "unknown"}

(* owner is the attempt number of the execution guard (a uuid in the code: *)
(* like it, no two guards of one command share a value).                   *)
Row == [st : Statuses, owner : Nat, attempts : Nat]

Steps == {"idle", "recover", "demote", "load", "plan", "reply", "reconcile", "absent", "adopt",
          "no_effect", "blocked", "guard", "begin", "call", "succeed", "fail", "fail_save",
          "resolve", "save"}

(* thread and effect in hand; token of the guard; threads still to publish, *)
(* published, and known to be replied to in the loaded session; dead rows   *)
(* to demote and the step to go on with.                                    *)
Job == [thread : Threads, effect : Effects, token : Nat, todo : SUBSET Threads,
        finished : SUBSET Threads, replied : SUBSET Threads,
        dead : SUBSET (Cmds \X Nat), back : {"load", "reply", "resolve"},
        again : BOOLEAN, tries : Nat]

IdleJob ==
  [thread |-> CHOOSE t \in Threads : TRUE, effect |-> "reply", token |-> 0, todo |-> {},
   finished |-> {}, replied |-> {}, dead |-> {}, back |-> "load", again |-> FALSE, tries |-> 0]

Cmd(p) == <<job[p].thread, job[p].effect>>

-----------------------------------------------------------------------------
(* Outbox rows *)

(* retry_boundary_for *)
RetryBoundary(effect) == IF effect = "reply" THEN "reconcile_only" ELSE "idempotent"

(* mark_outbox_in_flight, and the same test in _begin_attempt *)
MayBegin(c) ==
  \/ rows[c].st \in {"planned", "failed"}
  \/ rows[c].st = "unknown" /\ RetryBoundary(c[2]) = "idempotent"

(* Mutant: a reconciled result may replace one recorded meanwhile. *)
MayRecordTwice(c, token) ==
  \/ rows[c].st \in {"unknown", "succeeded"}
  \/ rows[c].st = "in_flight" /\ token # 0 /\ rows[c].owner = token

(* record_outbox_result: an in-flight row takes a result from its owner    *)
(* only (0 is no token), an unknown row from anyone.                       *)
MayRecord(c, token) ==
  \/ rows[c].st = "unknown"
  \/ rows[c].st = "in_flight" /\ token # 0 /\ rows[c].owner = token

(* Mutant: a status the table's readers do not know. *)
SetRowReconciled(c, status, owner) ==
  rows' = [rows EXCEPT ![c].st = IF @ = "unknown" THEN "reconciled" ELSE status, ![c].owner = owner]

(* The columns a transition assigns *)
SetRow(c, status, owner) == rows' = [rows EXCEPT ![c].st = status, ![c].owner = owner]

(* An outbox commit advances the revision; _advance_token lets only its    *)
(* own session follow, and only when nothing else was committed between.   *)
OutboxCommit(p) == fresh' = fresh \cap {p}

-----------------------------------------------------------------------------
(* Processes *)

Goto(p, step, j) == pc' = [pc EXCEPT ![p] = step] /\ job' = [job EXCEPT ![p] = j]
Done(p) == Goto(p, "idle", IdleJob)

Release(p) == lock' = [c \in Cmds |-> IF lock[c] = p THEN Nobody ELSE lock[c]]

(* Mutant: the attempts are not counted. *)
RetryForever(p) == Goto(p, "recover", IdleJob)

(* retry_on_stale_revision: the whole publish runs again from a new load. *)
Retry(p) ==
  IF job[p].tries + 1 < Attempts
  THEN Goto(p, "recover", [IdleJob EXCEPT !.tries = job[p].tries + 1])
  ELSE Done(p)

(* Mutant: the whole batch is saved as published. *)
SaveSessionBatch(p) ==
  IF p \in fresh
  THEN /\ items' = [t \in Threads |->
                      [closed |-> items[t].closed \/ t \in job[p].finished \cup job[p].todo,
                       replied |-> items[t].replied \/ t \in job[p].replied]]
       /\ fresh' = {}
       /\ Done(p)
  ELSE Retry(p) /\ UNCHANGED <<items, fresh>>

(* save_session: the whole session, under the revision it was loaded at;   *)
(* threads already published in this run are closed in it.                 *)
SaveSession(p) ==
  IF p \in fresh
  THEN /\ items' = [t \in Threads |->
                      [closed |-> items[t].closed \/ t \in job[p].finished,
                       replied |-> items[t].replied \/ t \in job[p].replied]]
       /\ fresh' = {}
       /\ Done(p)
  ELSE Retry(p) /\ UNCHANGED <<items, fresh>>

(* The next thread of the batch, or the final save. *)
NextPlan(p, j) ==
  IF j.todo = {} THEN Goto(p, "save", j)
  ELSE \E t \in j.todo : Goto(p, "reply", [j EXCEPT !.thread = t, !.effect = "reply", !.again = FALSE])

(* The reply of the thread in hand is known: go on to its resolve. *)
ToResolve(p) ==
  Goto(p, "resolve", [job[p] EXCEPT !.replied = @ \cup {job[p].thread}, !.effect = "resolve",
                                    !.again = FALSE, !.dead = {}, !.token = 0])

(* The thread in hand is published. *)
FinishThread(p) ==
  NextPlan(p, [job[p] EXCEPT !.finished = @ \cup {job[p].thread}, !.todo = @ \ {job[p].thread},
                             !.dead = {}, !.token = 0])

-----------------------------------------------------------------------------
(* Loading the session *)

PublishCommand(p) ==
  /\ pc[p] = "idle"
  /\ runs < MaxRuns
  /\ runs' = runs + 1
  /\ Goto(p, "recover", IdleJob)
  /\ UNCHANGED <<rows, lock, items, gh, fresh, crashes>>

(* recover_outbox, the liveness probe: in-flight rows whose lock is free. *)
DeadRows == {<<c, rows[c].owner>> : c \in {d \in Cmds : rows[d].st = "in_flight" /\ lock[d] = Nobody}}

(* A probe takes the lock for an instant, so it may take another process's *)
(* probe for a live executor: any part of the dead rows may be found.      *)
Recover(p) ==
  /\ pc[p] = "recover"
  /\ \E dead \in SUBSET DeadRows :
       Goto(p, IF dead = {} THEN job[p].back ELSE "demote", [job[p] EXCEPT !.dead = dead])
  /\ UNCHANGED <<rows, lock, items, gh, fresh, counters>>

(* Mutant: the demotion does not compare the owner. *)
DemotableAny(p) == {c \in Cmds : rows[c].st = "in_flight" /\ \E d \in job[p].dead : d[1] = c}

(* recover_outbox, the transaction: each demotion is guarded by the owner  *)
(* token read before the probe.                                            *)
Demotable(p) == {c \in Cmds : rows[c].st = "in_flight" /\ <<c, rows[c].owner>> \in job[p].dead}

Demote(p) ==
  /\ pc[p] = "demote"
  /\ rows' = [c \in Cmds |-> IF c \in Demotable(p)
                             THEN [rows[c] EXCEPT !.st = "unknown", !.owner = 0] ELSE rows[c]]
  /\ IF Demotable(p) = {} THEN UNCHANGED fresh ELSE OutboxCommit(p)
  /\ Goto(p, job[p].back, [job[p] EXCEPT !.dead = {}])
  /\ UNCHANGED <<lock, items, gh, counters>>

(* _publish_ready_items on the loaded snapshot *)
LoadSession(p) ==
  LET ready == {t \in Threads : ~items[t].closed}
  IN  /\ pc[p] = "load"
      /\ IF ready = {} THEN Done(p) /\ UNCHANGED fresh       \* NO_PUBLISH_READY_ITEMS
         ELSE /\ Goto(p, "plan", [job[p] EXCEPT !.todo = ready,
                                    !.replied = {t \in Threads : items[t].replied}])
              /\ fresh' = fresh \cup {p}
      /\ UNCHANGED <<rows, lock, items, gh, counters>>

(* _verify_publish_revision_bindings may refuse, _build_publish_plans may  *)
(* refuse and record publish_blocked.                                      *)
Plan(p) ==
  /\ pc[p] = "plan"
  /\ NextPlan(p, job[p]) \/ Goto(p, "blocked", job[p]) \/ Done(p)
  /\ UNCHANGED <<rows, lock, items, gh, fresh, counters>>

-----------------------------------------------------------------------------
(* One effect *)

(* side_effect_state: an in-flight row without a live owner is demoted and *)
(* read again, once.                                                       *)
StaleInFlight(p) == rows[Cmd(p)].st = "in_flight" /\ lock[Cmd(p)] = Nobody
SideEffectState(p) ==
  /\ StaleInFlight(p) /\ ~job[p].again
  /\ Goto(p, "recover", [job[p] EXCEPT !.back = pc[p], !.again = TRUE])

OwnerAlive(p) == rows[Cmd(p)].st = "in_flight" /\ lock[Cmd(p)] # Nobody

(* The reply half of _execute_single_publish_plan *)
ReplyState(p) ==
  LET status == rows[Cmd(p)].st
      known == status = "succeeded" \/ job[p].thread \in job[p].replied
  IN  /\ pc[p] = "reply"
      /\ \/ SideEffectState(p)
         \/ /\ ~(StaleInFlight(p) /\ ~job[p].again)
            /\ \/ known /\ ToResolve(p)
               \/ ~known /\ OwnerAlive(p) /\ Done(p)          \* SIDE_EFFECT_IN_PROGRESS
               \/ ~known /\ status = "unknown" /\ Goto(p, "reconcile", job[p])
               \/ ~known /\ ~OwnerAlive(p) /\ status # "unknown" /\ Goto(p, "guard", job[p])
      /\ UNCHANGED <<rows, lock, items, gh, fresh, counters>>

(* Mutant: any latest comment is adopted. *)
ReconcileAnyComment(p) ==
  /\ pc[p] = "reconcile"
  /\ Goto(p, "adopt", job[p])
  /\ UNCHANGED <<rows, lock, items, gh, fresh, counters>>

(* _reconcile_in_flight_reply: adopt the latest comment if it is provably  *)
(* the publisher's; the read may fail.                                     *)
ReconcileInFlightReply(p) ==
  /\ pc[p] = "reconcile"
  /\ \/ gh[job[p].thread].latest /\ Goto(p, "adopt", job[p])
     \/ Goto(p, "absent", job[p])
  /\ UNCHANGED <<rows, lock, items, gh, fresh, counters>>

(* Mutant: a thread whose latest comment is not ours has no reply of ours. *)
NeverRepliedByLatest(p) == ~gh[job[p].thread].latest

(* _publisher_never_replied looks at every comment of the thread. *)
NeverReplied(p) == gh[job[p].thread].replies = 0

PublisherNeverReplied(p) ==
  /\ pc[p] = "absent"
  /\ \/ NeverReplied(p) /\ Goto(p, "no_effect", job[p])
     \/ Goto(p, "blocked", job[p])
  /\ UNCHANGED <<rows, lock, items, gh, fresh, counters>>

(* The adopted reply is recorded without holding the lock. *)
AdoptReply(p) ==
  /\ pc[p] = "adopt"
  /\ IF MayRecord(Cmd(p), 0)
     THEN SetRow(Cmd(p), "succeeded", 0) /\ OutboxCommit(p) /\ ToResolve(p)
     ELSE Done(p) /\ UNCHANGED <<rows, fresh>>                \* PERSISTENCE_INVALID
  /\ UNCHANGED <<lock, items, gh, counters>>

(* reconcile_side_effect_no_effect, likewise; what it is based on was read *)
(* from GitHub earlier.                                                    *)
ReconcileNoEffect(p) ==
  /\ pc[p] = "no_effect"
  /\ IF MayRecord(Cmd(p), 0)
     THEN SetRow(Cmd(p), "failed", 0) /\ OutboxCommit(p) /\ Goto(p, "guard", job[p])
     ELSE Done(p) /\ UNCHANGED <<rows, fresh>>
  /\ UNCHANGED <<lock, items, gh, counters>>

(* publish_blocked is recorded with the session; a lost race reruns the publish. *)
Blocked(p) ==
  /\ pc[p] = "blocked"
  /\ SaveSession(p)
  /\ UNCHANGED <<rows, lock, gh, counters>>

(* try_acquire_execution_lock *)
LockFree(c) == lock[c] = Nobody

(* execution_guard; a probe of another process may be in the way. *)
Guard(p) ==
  /\ pc[p] = "guard"
  /\ \/ /\ LockFree(Cmd(p))
        /\ lock' = [lock EXCEPT ![Cmd(p)] = p]
        /\ Goto(p, "begin", job[p])
     \/ /\ ~LockFree(Cmd(p)) \/ \E q \in Procs \ {p} : pc[q] \in {"recover", "reply", "resolve"}
        /\ Done(p)
        /\ UNCHANGED lock
  /\ UNCHANGED <<rows, items, gh, fresh, counters>>

(* _begin_attempt on a missing row: _plan, under the session's revision. *)
PlanCommand(p) ==
  /\ pc[p] = "begin"
  /\ rows[Cmd(p)].st = "none"
  /\ IF p \in fresh
     THEN SetRow(Cmd(p), "planned", 0) /\ OutboxCommit(p) /\ UNCHANGED <<lock, pc, job>>
     ELSE Release(p) /\ Retry(p) /\ UNCHANGED <<rows, fresh>>
  /\ UNCHANGED <<items, gh, counters>>

(* _begin_attempt on an existing row: mark_outbox_in_flight, or a refusal  *)
(* that unwinds through the guard.                                         *)
BeginAttempt(p) ==
  LET c == Cmd(p)
      n == rows[c].attempts + 1
  IN  /\ pc[p] = "begin"
      /\ rows[c].st # "none"
      /\ IF MayBegin(c)
         THEN /\ rows' = [rows EXCEPT ![c] = [st |-> "in_flight", owner |-> n, attempts |-> n]]
              /\ OutboxCommit(p)
              /\ Goto(p, "call", [job[p] EXCEPT !.token = n])
              /\ UNCHANGED lock
         ELSE Release(p) /\ Done(p) /\ UNCHANGED <<rows, fresh>>
      /\ UNCHANGED <<items, gh, counters>>

(* post_reply or resolve_thread.  A GitHubError is raised when the request *)
(* was not carried out, and also when it was but its answer was lost (the  *)
(* command timed out, the answer was malformed).                           *)
Applied(p) ==
  IF job[p].effect = "reply"
  THEN [gh EXCEPT ![job[p].thread] = [replies |-> @.replies + 1, latest |-> TRUE,
                                       resolved |-> @.resolved]]
  ELSE [gh EXCEPT ![job[p].thread] = [@ EXCEPT !.resolved = TRUE]]

Call(p) ==
  /\ pc[p] = "call"
  /\ \/ gh' = Applied(p) /\ Goto(p, "succeed", job[p])
     \/ gh' = gh /\ Goto(p, "fail", job[p])
     \/ LostResponses /\ gh' = Applied(p) /\ Goto(p, "fail", job[p])
  /\ UNCHANGED <<rows, lock, items, fresh, counters>>

(* _finish_attempt, then the guard is left. *)
FinishSucceeded(p) ==
  /\ pc[p] = "succeed"
  /\ Release(p)
  /\ IF MayRecord(Cmd(p), job[p].token)
     THEN /\ SetRow(Cmd(p), "succeeded", 0) /\ OutboxCommit(p)
          /\ IF job[p].effect = "reply" THEN ToResolve(p) ELSE FinishThread(p)
     ELSE Done(p) /\ UNCHANGED <<rows, fresh>>
  /\ UNCHANGED <<items, gh, counters>>

FinishFailed(p) ==
  /\ pc[p] = "fail"
  /\ IF MayRecord(Cmd(p), job[p].token)
     THEN /\ SetRow(Cmd(p), "failed", 0) /\ OutboxCommit(p)
          /\ Goto(p, "fail_save", job[p]) /\ UNCHANGED lock
     ELSE Release(p) /\ Done(p) /\ UNCHANGED <<rows, fresh>>
  /\ UNCHANGED <<items, gh, counters>>

(* The session is saved inside the guard before the error is raised. *)
FailSave(p) ==
  /\ pc[p] = "fail_save"
  /\ SaveSession(p)
  /\ Release(p)
  /\ UNCHANGED <<rows, gh, counters>>

(* The resolve half of _execute_single_publish_plan *)
ResolveState(p) ==
  /\ pc[p] = "resolve"
  /\ \/ SideEffectState(p)
     \/ /\ ~(StaleInFlight(p) /\ ~job[p].again)
        /\ \/ rows[Cmd(p)].st = "succeeded" /\ FinishThread(p)
           \/ OwnerAlive(p) /\ Done(p)
           \/ rows[Cmd(p)].st # "succeeded" /\ ~OwnerAlive(p) /\ Goto(p, "guard", job[p])
  /\ UNCHANGED <<rows, lock, items, gh, fresh, counters>>

(* The session is saved once, after the last thread. *)
Save(p) ==
  /\ pc[p] = "save"
  /\ SaveSession(p)
  /\ UNCHANGED <<rows, lock, gh, counters>>

-----------------------------------------------------------------------------
(* The environment *)

(* The process dies, or an exception unwinds it, anywhere. *)
Crash(p) ==
  /\ pc[p] # "idle"
  /\ crashes < MaxCrash
  /\ crashes' = crashes + 1
  /\ Release(p)
  /\ Done(p)
  /\ fresh' = fresh \ {p}
  /\ UNCHANGED <<rows, items, gh, runs>>

(* Any other command commits to the store (module AgentProtocol). *)
ForeignCommit ==
  /\ fresh # {}
  /\ fresh' = {}
  /\ UNCHANGED <<rows, lock, items, gh, pc, job, counters>>

(* Somebody else comments on the thread. *)
Comment(t) ==
  /\ gh[t].latest
  /\ gh' = [gh EXCEPT ![t].latest = FALSE]
  /\ UNCHANGED <<rows, lock, items, pc, job, fresh, counters>>

Init ==
  /\ rows = [c \in Cmds |-> [st |-> "none", owner |-> 0, attempts |-> 0]]
  /\ lock = [c \in Cmds |-> Nobody]
  /\ items = [t \in Threads |-> [closed |-> FALSE, replied |-> FALSE]]
  /\ gh = [t \in Threads |-> [replies |-> 0, latest |-> FALSE, resolved |-> FALSE]]
  /\ pc = [p \in Procs |-> "idle"]
  /\ job = [p \in Procs |-> IdleJob]
  /\ fresh = {}
  /\ runs = 0
  /\ crashes = 0

PublishStep(p) ==
  \/ Recover(p) \/ Demote(p) \/ LoadSession(p) \/ Plan(p)
  \/ ReplyState(p) \/ ReconcileInFlightReply(p) \/ PublisherNeverReplied(p)
  \/ AdoptReply(p) \/ ReconcileNoEffect(p) \/ Blocked(p)
  \/ Guard(p) \/ PlanCommand(p) \/ BeginAttempt(p) \/ Call(p)
  \/ FinishSucceeded(p) \/ FinishFailed(p) \/ FailSave(p)
  \/ ResolveState(p) \/ Save(p)

Next ==
  \/ \E p \in Procs : PublishStep(p) \/ PublishCommand(p) \/ Crash(p)
  \/ ForeignCommit
  \/ \E t \in Threads : Comment(t)

Spec == Init /\ [][Next]_vars

(* A running command is scheduled. *)
Fairness == \A p \in Procs : WF_vars(PublishStep(p))
FairSpec == Spec /\ Fairness

-----------------------------------------------------------------------------
(* Properties *)

(* Every variable stays in its domain. *)
TypeOK ==
  /\ rows \in [Cmds -> Row]
  /\ lock \in [Cmds -> Procs \cup {Nobody}]
  /\ items \in [Threads -> [closed : BOOLEAN, replied : BOOLEAN]]
  /\ gh \in [Threads -> [replies : Nat, latest : BOOLEAN, resolved : BOOLEAN]]
  /\ pc \in [Procs -> Steps]
  /\ job \in [Procs -> Job]
  /\ fresh \subseteq Procs
  /\ runs \in Nat
  /\ crashes \in Nat

(* From the committed attempt to the recorded result an effect belongs to  *)
(* its executor: nobody demotes, reconciles or repeats a running command.  *)
RunningIsInFlight ==
  \A p \in Procs :
    pc[p] \in {"call", "succeed", "fail"} =>
      /\ lock[Cmd(p)] = p
      /\ rows[Cmd(p)].st = "in_flight"
      /\ rows[Cmd(p)].owner = job[p].token

(* A result recorded as succeeded is visible on GitHub, however it was     *)
(* recorded: by the caller or by a reconciliation after a crash.           *)
SuccessIsReal ==
  \A t \in Threads :
    /\ rows[<<t, "reply">>].st = "succeeded" => gh[t].replies > 0
    /\ rows[<<t, "resolve">>].st = "succeeded" => gh[t].resolved

(* A thread is never resolved without a reply on it, and an item is closed *)
(* only when both are done.                                                *)
ClosedIsPublished ==
  \A t \in Threads :
    /\ gh[t].resolved => gh[t].replies > 0
    /\ items[t].closed => gh[t].resolved

(* A recorded success is final: no retry, recovery or reconciliation       *)
(* reopens a command that has succeeded.                                   *)
SuccessIsFinal ==
  [][\A c \in Cmds : rows[c].st = "succeeded" => rows'[c] = rows[c]]_vars

(* No thread gets two replies from the publisher: an interrupted reply is  *)
(* reconciled, never blindly retried.                                      *)
AtMostOneReply == \A t \in Threads : gh[t].replies <= 1

(* Every publish command ends and leaves no lock behind, whatever the      *)
(* other publishers and writers do meanwhile.                              *)
PublishTerminates ==
  \A p \in Procs : pc[p] # "idle" ~> (pc[p] = "idle" /\ \A c \in Cmds : lock[c] # p)
=============================================================================
