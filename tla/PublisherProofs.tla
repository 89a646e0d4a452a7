--------------------------- MODULE PublisherProofs ---------------------------
(***************************************************************************)
(* Safety of publishing, for any number of threads and processes: what     *)
(* the store says is done is done on GitHub, a running effect belongs to   *)
(* its executor, a recorded success is final, and one crash does not make  *)
(* the publisher reply twice.                                              *)
(***************************************************************************)
EXTENDS Publisher, TLAPS

-----------------------------------------------------------------------------
(* Types. *)

(* A command in hand is a command. *)
LEMMA CmdType ==
  ASSUME TypeOK, NEW p \in Procs
  PROVE  Cmd(p) \in Cmds /\ job[p] \in Job
BY DEF TypeOK, Job, Cmd, Cmds, Effects

(* The local variables of an idle process are typed. *)
LEMMA IdleJobType == IdleJob \in Job
<1> (CHOOSE t \in Threads : TRUE) \in Threads BY ThreadsAssumption
<1> QED BY DEF IdleJob, Job, Effects

(* Moving a process on keeps pc and job typed. *)
LEMMA GotoType ==
  ASSUME TypeOK, NEW p \in Procs, NEW step \in Steps, NEW j \in Job, Goto(p, step, j)
  PROVE  pc' \in [Procs -> Steps] /\ job' \in [Procs -> Job]
BY DEF TypeOK, Goto

(* So does ending a command. *)
LEMMA DoneType ==
  ASSUME TypeOK, NEW p \in Procs, Done(p)
  PROVE  pc' \in [Procs -> Steps] /\ job' \in [Procs -> Job]
BY GotoType, IdleJobType DEF Done, Steps

(* So does running the publish again. *)
LEMMA RetryType ==
  ASSUME TypeOK, NEW p \in Procs, Retry(p)
  PROVE  pc' \in [Procs -> Steps] /\ job' \in [Procs -> Job]
<1> DEFINE j == [IdleJob EXCEPT !.tries = job[p].tries + 1]
<1>1. j \in Job BY CmdType, IdleJobType DEF Job
<1>2. CASE Done(p) BY <1>2, DoneType
<1>3. CASE Goto(p, "recover", j)
  <2> HIDE DEF j
  <2> QED BY <1>1, <1>3, GotoType DEF Steps
<1> QED BY <1>2, <1>3 DEF Retry

(* So does going on with the next thread of a batch. *)
LEMMA NextPlanType ==
  ASSUME TypeOK, NEW p \in Procs, NEW j \in Job, NextPlan(p, j)
  PROVE  pc' \in [Procs -> Steps] /\ job' \in [Procs -> Job]
<1>1. CASE Goto(p, "save", j) BY <1>1, GotoType DEF Steps
<1>2. ASSUME NEW t \in j.todo,
             Goto(p, "reply", [j EXCEPT !.thread = t, !.effect = "reply", !.again = FALSE])
      PROVE  pc' \in [Procs -> Steps] /\ job' \in [Procs -> Job]
  <2>1. [j EXCEPT !.thread = t, !.effect = "reply", !.again = FALSE] \in Job BY DEF Job, Effects
  <2> QED BY <1>2, <2>1, GotoType DEF Steps
<1> QED BY <1>1, <1>2 DEF NextPlan

(* So does finishing a thread, or its reply. *)
LEMMA AdvanceType ==
  ASSUME TypeOK, NEW p \in Procs, ToResolve(p) \/ FinishThread(p)
  PROVE  pc' \in [Procs -> Steps] /\ job' \in [Procs -> Job]
<1> DEFINE j == [job[p] EXCEPT !.replied = @ \cup {job[p].thread}, !.effect = "resolve",
                               !.again = FALSE, !.dead = {}, !.token = 0]
           k == [job[p] EXCEPT !.finished = @ \cup {job[p].thread},
                               !.todo = @ \ {job[p].thread}, !.dead = {}, !.token = 0]
<1>1. j \in Job /\ k \in Job BY CmdType DEF Job, Effects
<1>2. Goto(p, "resolve", j) \/ NextPlan(p, k) BY DEF ToResolve, FinishThread
<1> HIDE DEF j, k
<1> QED BY <1>1, <1>2, GotoType, NextPlanType DEF Steps

(* So does saving the session. *)
LEMMA SaveSessionType ==
  ASSUME TypeOK, NEW p \in Procs, SaveSession(p)
  PROVE  /\ pc' \in [Procs -> Steps] /\ job' \in [Procs -> Job]
         /\ items' \in [Threads -> [closed : BOOLEAN, replied : BOOLEAN]]
         /\ fresh' \subseteq Procs
<1>1. pc' \in [Procs -> Steps] /\ job' \in [Procs -> Job]
  BY DoneType, RetryType DEF SaveSession
<1>2. fresh' \subseteq Procs BY DEF SaveSession, TypeOK
<1>3. items' \in [Threads -> [closed : BOOLEAN, replied : BOOLEAN]]
  <2> DEFINE saved == [t \in Threads |->
                         [closed |-> items[t].closed \/ t \in job[p].finished,
                          replied |-> items[t].replied \/ t \in job[p].replied]]
  <2>1. saved \in [Threads -> [closed : BOOLEAN, replied : BOOLEAN]] OBVIOUS
  <2>2. items' = items \/ items' = saved BY DEF SaveSession
  <2> HIDE DEF saved
  <2> QED BY <2>1, <2>2 DEF TypeOK
<1> QED BY <1>1, <1>2, <1>3

(* Locks of a dead or finished process go to nobody. *)
LEMMA ReleaseType ==
  ASSUME TypeOK, NEW p \in Procs, Release(p)
  PROVE  lock' \in [Cmds -> Procs \cup {Nobody}]
BY DEF TypeOK, Release

(* A transition of a row keeps the table typed. *)
LEMMA SetRowType ==
  ASSUME TypeOK, NEW c \in Cmds, NEW status \in Statuses, NEW owner \in Nat,
         SetRow(c, status, owner)
  PROVE  rows' \in [Cmds -> Row]
BY DEF TypeOK, SetRow, Row

(* Going back to the outbox to recover dead rows keeps the types. *)
LEMMA SideEffectStateType ==
  ASSUME TypeOK, NEW p \in Procs, SideEffectState(p), pc[p] \in {"reply", "resolve"}
  PROVE  pc' \in [Procs -> Steps] /\ job' \in [Procs -> Job]
<1> DEFINE j == [job[p] EXCEPT !.back = pc[p], !.again = TRUE]
<1>1. j \in Job BY CmdType DEF Job
<1>2. Goto(p, "recover", j) BY DEF SideEffectState
<1> HIDE DEF j
<1> QED BY <1>1, <1>2, GotoType DEF Steps

(* What a mutation does to a thread keeps it a thread. *)
LEMMA AppliedType ==
  ASSUME TypeOK, NEW p \in Procs
  PROVE  Applied(p) \in [Threads -> [replies : Nat, latest : BOOLEAN, resolved : BOOLEAN]]
<1> DEFINE R == [replies : Nat, latest : BOOLEAN, resolved : BOOLEAN]
<1>1. gh \in [Threads -> R] /\ job[p].thread \in Threads BY CmdType DEF TypeOK, Job
<1>2. ASSUME NEW g \in R
      PROVE  [replies |-> g.replies + 1, latest |-> TRUE, resolved |-> g.resolved] \in R
  OBVIOUS
<1>3. ASSUME NEW g \in R PROVE [g EXCEPT !.resolved = TRUE] \in R
  OBVIOUS
<1> HIDE DEF R
<1>4. Applied(p) \in [Threads -> R] BY <1>1, <1>2, <1>3 DEF Applied
<1> QED BY <1>4 DEF R

(* Steps of a publish keep the types. *)
LEMMA PublishStepType ==
  ASSUME TypeOK, NEW p \in Procs, PublishStep(p)
  PROVE  TypeOK'
<1> job[p] \in Job /\ Cmd(p) \in Cmds BY CmdType
<1> DEFINE Moved == pc' \in [Procs -> Steps] /\ job' \in [Procs -> Job]
<1>0. ASSUME NEW step \in Steps, Goto(p, step, job[p]) PROVE Moved
  BY <1>0, GotoType
<1>1. CASE Recover(p)
  <2>1. PICK dead \in SUBSET DeadRows :
          Goto(p, IF dead = {} THEN job[p].back ELSE "demote", [job[p] EXCEPT !.dead = dead])
    BY <1>1 DEF Recover
  <2>2. DeadRows \subseteq Cmds \X Nat BY DEF DeadRows, TypeOK, Row
  <2>3. [job[p] EXCEPT !.dead = dead] \in Job BY <2>2 DEF Job
  <2>4. (IF dead = {} THEN job[p].back ELSE "demote") \in Steps BY DEF Job, Steps
  <2>5. Moved BY <2>1, <2>3, <2>4, GotoType
  <2> QED BY <1>1, <2>5 DEF Recover, TypeOK, counters
<1>2. CASE Demote(p)
  <2>1. [job[p] EXCEPT !.dead = {}] \in Job /\ job[p].back \in Steps BY DEF Job, Steps
  <2>2. Moved BY <1>2, <2>1, GotoType DEF Demote
  <2>3. rows' \in [Cmds -> Row] BY <1>2 DEF Demote, TypeOK, Row, Statuses
  <2> QED BY <1>2, <2>2, <2>3 DEF Demote, TypeOK, OutboxCommit, counters
<1>3. CASE LoadSession(p)
  <2> DEFINE j == [job[p] EXCEPT !.todo = {t \in Threads : ~items[t].closed},
                                 !.replied = {t \in Threads : items[t].replied}]
  <2>1. j \in Job BY DEF Job
  <2>2. Done(p) \/ Goto(p, "plan", j) BY <1>3 DEF LoadSession
  <2> HIDE DEF j
  <2>3. Moved BY <2>1, <2>2, DoneType, GotoType DEF Steps
  <2> QED BY <1>3, <2>3 DEF LoadSession, TypeOK, counters
<1>4. CASE Plan(p)
  <2>1. Moved BY <1>0, <1>4, NextPlanType, DoneType DEF Plan, Steps
  <2> QED BY <1>4, <2>1 DEF Plan, TypeOK, counters
<1>5. CASE ReplyState(p)
  <2>1. Moved
    BY <1>0, <1>5, SideEffectStateType, AdvanceType, DoneType DEF ReplyState, Steps
  <2> QED BY <1>5, <2>1 DEF ReplyState, TypeOK, counters
<1>6. CASE ReconcileInFlightReply(p)
  <2>1. Moved BY <1>0, <1>6 DEF ReconcileInFlightReply, Steps
  <2> QED BY <1>6, <2>1 DEF ReconcileInFlightReply, TypeOK, counters
<1>7. CASE PublisherNeverReplied(p)
  <2>1. Moved BY <1>0, <1>7 DEF PublisherNeverReplied, Steps
  <2> QED BY <1>7, <2>1 DEF PublisherNeverReplied, TypeOK, counters
<1>8. CASE AdoptReply(p)
  <2>1. Moved BY <1>8, AdvanceType, DoneType DEF AdoptReply
  <2>2. rows' \in [Cmds -> Row]
    BY <1>8, SetRowType DEF AdoptReply, Statuses, TypeOK
  <2> QED BY <1>8, <2>1, <2>2 DEF AdoptReply, TypeOK, OutboxCommit, counters
<1>9. CASE ReconcileNoEffect(p)
  <2>1. Moved BY <1>0, <1>9, DoneType DEF ReconcileNoEffect, Steps
  <2>2. rows' \in [Cmds -> Row]
    BY <1>9, SetRowType DEF ReconcileNoEffect, Statuses, TypeOK
  <2> QED BY <1>9, <2>1, <2>2 DEF ReconcileNoEffect, TypeOK, OutboxCommit, counters
<1>10. CASE Blocked(p) \/ Save(p)
  BY <1>10, SaveSessionType DEF Blocked, Save, TypeOK, counters
<1>11. CASE Guard(p)
  <2>1. Moved BY <1>0, <1>11, DoneType DEF Guard, Steps
  <2> QED BY <1>11, <2>1 DEF Guard, TypeOK, counters
<1>12. CASE PlanCommand(p)
  <2>1. Moved BY <1>12, RetryType DEF PlanCommand, TypeOK
  <2>2. rows' \in [Cmds -> Row]
    BY <1>12, SetRowType DEF PlanCommand, Statuses, TypeOK
  <2>3. lock' \in [Cmds -> Procs \cup {Nobody}]
    BY <1>12, ReleaseType DEF PlanCommand, TypeOK
  <2> QED BY <1>12, <2>1, <2>2, <2>3 DEF PlanCommand, TypeOK, OutboxCommit, counters
<1>13. CASE BeginAttempt(p)
  <2> DEFINE n == rows[Cmd(p)].attempts + 1
  <2>1. n \in Nat BY DEF TypeOK, Row
  <2> HIDE DEF n
  <2>2. [job[p] EXCEPT !.token = n] \in Job BY <2>1 DEF Job
  <2>3. Moved BY <1>13, <2>2, GotoType, DoneType DEF BeginAttempt, Steps, n
  <2>4. rows' \in [Cmds -> Row]
    BY <1>13, <2>1 DEF BeginAttempt, TypeOK, Row, Statuses, n
  <2>5. lock' \in [Cmds -> Procs \cup {Nobody}]
    BY <1>13, ReleaseType DEF BeginAttempt, TypeOK
  <2> QED BY <1>13, <2>3, <2>4, <2>5 DEF BeginAttempt, TypeOK, OutboxCommit, counters
<1>14. CASE Call(p)
  <2>1. Moved BY <1>0, <1>14 DEF Call, Steps
  <2>2. gh' \in [Threads -> [replies : Nat, latest : BOOLEAN, resolved : BOOLEAN]]
    BY <1>14, AppliedType DEF Call, TypeOK
  <2> QED BY <1>14, <2>1, <2>2 DEF Call, TypeOK, counters
<1>15. CASE FinishSucceeded(p)
  <2>1. Moved BY <1>15, AdvanceType, DoneType DEF FinishSucceeded
  <2>2. rows' \in [Cmds -> Row]
    BY <1>15, SetRowType DEF FinishSucceeded, Statuses, TypeOK
  <2> QED BY <1>15, <2>1, <2>2, ReleaseType DEF FinishSucceeded, TypeOK, OutboxCommit, counters
<1>16. CASE FinishFailed(p)
  <2>1. Moved BY <1>0, <1>16, DoneType DEF FinishFailed, Steps
  <2>2. rows' \in [Cmds -> Row]
    BY <1>16, SetRowType DEF FinishFailed, Statuses, TypeOK
  <2>3. lock' \in [Cmds -> Procs \cup {Nobody}]
    BY <1>16, ReleaseType DEF FinishFailed, TypeOK
  <2> QED BY <1>16, <2>1, <2>2, <2>3 DEF FinishFailed, TypeOK, OutboxCommit, counters
<1>17. CASE FailSave(p)
  BY <1>17, SaveSessionType, ReleaseType DEF FailSave, TypeOK, counters
<1>18. CASE ResolveState(p)
  <2>1. Moved
    BY <1>0, <1>18, SideEffectStateType, AdvanceType, DoneType DEF ResolveState, Steps
  <2> QED BY <1>18, <2>1 DEF ResolveState, TypeOK, counters
<1> QED BY <1>1, <1>2, <1>3, <1>4, <1>5, <1>6, <1>7, <1>8, <1>9, <1>10, <1>11, <1>12, <1>13,
           <1>14, <1>15, <1>16, <1>17, <1>18 DEF PublishStep

(* Every step keeps the types. *)
LEMMA TypeStep ==
  ASSUME TypeOK, [Next]_vars
  PROVE  TypeOK'
<1>1. ASSUME NEW p \in Procs, PublishStep(p) PROVE TypeOK' BY <1>1, PublishStepType
<1>2. ASSUME NEW p \in Procs, PublishCommand(p) PROVE TypeOK'
  <2>1. pc' \in [Procs -> Steps] /\ job' \in [Procs -> Job]
    BY <1>2, GotoType, IdleJobType DEF PublishCommand, Steps
  <2> QED BY <1>2, <2>1 DEF PublishCommand, TypeOK
<1>3. ASSUME NEW p \in Procs, Crash(p) PROVE TypeOK'
  BY <1>3, DoneType, ReleaseType DEF Crash, TypeOK
<1>4. CASE ForeignCommit BY <1>4 DEF ForeignCommit, TypeOK, counters
<1>5. ASSUME NEW t \in Threads, Comment(t) PROVE TypeOK'
  BY <1>5 DEF Comment, TypeOK, counters
<1>6. CASE UNCHANGED vars BY <1>6 DEF vars, TypeOK
<1> QED BY <1>1, <1>2, <1>3, <1>4, <1>5, <1>6 DEF Next

(* Every variable stays in its domain, whatever the publishers, other      *)
(* writers and people on GitHub do.                                        *)
THEOREM PublisherTypeCorrect == Spec => []TypeOK
<1>1. Init => TypeOK
  BY IdleJobType DEF Init, TypeOK, Row, Statuses, Steps
<1>2. TypeOK /\ [Next]_vars => TypeOK' BY TypeStep
<1> QED BY <1>1, <1>2, PTL DEF Spec

-----------------------------------------------------------------------------
(* What is recorded is on GitHub. *)

Replied == {t \in Threads : gh[t].replies > 0}
Resolved == {t \in Threads : gh[t].resolved}

(* What a process at a step believes of GitHub, given the threads replied  *)
(* to and resolved there.                                                  *)
JobReal(step, j, replied, resolved) ==
  /\ j.replied \subseteq replied
  /\ j.finished \subseteq resolved
  /\ j.effect = "resolve" => j.thread \in replied
  /\ step \in {"reply", "reconcile", "absent", "adopt", "no_effect"} => j.effect = "reply"
  /\ step = "resolve" => j.effect = "resolve"
  /\ step \in {"recover", "demote"} /\ j.back # "load" => j.effect = j.back
  /\ step = "adopt" => j.thread \in replied
  /\ step = "succeed" => j.thread \in IF j.effect = "reply" THEN replied ELSE resolved

JobsReal == \A p \in Procs : JobReal(pc[p], job[p], Replied, Resolved)

(* What the tables say of GitHub. *)
TablesReal ==
  /\ \A t \in Threads :
       /\ rows[<<t, "reply">>].st = "succeeded" => t \in Replied
       /\ rows[<<t, "resolve">>].st = "succeeded" => t \in Resolved
       /\ items[t].closed => t \in Resolved
       /\ items[t].replied => t \in Replied
  /\ \A t \in Threads : gh[t].latest => t \in Replied
  /\ Resolved \subseteq Replied

RealInv == JobsReal /\ TablesReal

(* Beliefs stay true while GitHub only gains replies and resolutions. *)
LEMMA GotoReal ==
  ASSUME TypeOK, JobsReal, NEW p \in Procs, NEW step, NEW j, Goto(p, step, j),
         Replied \subseteq Replied', Resolved \subseteq Resolved',
         JobReal(step, j, Replied', Resolved')
  PROVE  JobsReal'
<1> SUFFICES ASSUME NEW q \in Procs PROVE JobReal(pc'[q], job'[q], Replied', Resolved')
  BY DEF JobsReal
<1>1. CASE q = p BY <1>1 DEF Goto, TypeOK
<1>2. CASE q # p
  <2>1. pc'[q] = pc[q] /\ job'[q] = job[q] BY <1>2 DEF Goto, TypeOK
  <2>2. JobReal(pc[q], job[q], Replied, Resolved) BY DEF JobsReal
  <2> QED BY <2>1, <2>2 DEF JobReal
<1> QED BY <1>1, <1>2

(* A new command, or a rerun, believes nothing. *)
LEMMA FreshReal ==
  ASSUME TypeOK, JobsReal, NEW p \in Procs,
         Done(p) \/ Retry(p) \/ Goto(p, "recover", IdleJob), gh' = gh
  PROVE  JobsReal'
<1> Replied' = Replied /\ Resolved' = Resolved BY DEF Replied, Resolved
<1>1. ASSUME NEW step \in {"idle", "recover"}, NEW n \in Nat,
             Goto(p, step, [IdleJob EXCEPT !.tries = n])
      PROVE  JobsReal'
  <2> DEFINE j == [IdleJob EXCEPT !.tries = n]
  <2>1. JobReal(step, j, Replied, Resolved) BY DEF JobReal, IdleJob
  <2>2. Goto(p, step, j) BY <1>1
  <2> HIDE DEF j
  <2> QED BY <2>1, <2>2, GotoReal
<1>2. [IdleJob EXCEPT !.tries = 0] = IdleJob BY DEF IdleJob
<1>3. job[p].tries + 1 \in Nat BY CmdType DEF Job
<1> QED BY <1>1, <1>2, <1>3 DEF Done, Retry

(* The next thread of a batch is begun with its reply. *)
LEMMA NextPlanReal ==
  ASSUME TypeOK, JobsReal, NEW p \in Procs, NEW j \in Job, NextPlan(p, j), gh' = gh,
         j.replied \subseteq Replied, j.finished \subseteq Resolved,
         j.effect = "resolve" => j.thread \in Replied
  PROVE  JobsReal'
<1> Replied' = Replied /\ Resolved' = Resolved BY DEF Replied, Resolved
<1>1. CASE Goto(p, "save", j)
  <2>1. JobReal("save", j, Replied, Resolved) BY DEF JobReal
  <2> QED BY <1>1, <2>1, GotoReal
<1>2. ASSUME NEW t \in j.todo,
             Goto(p, "reply", [j EXCEPT !.thread = t, !.effect = "reply", !.again = FALSE])
      PROVE  JobsReal'
  <2> DEFINE k == [j EXCEPT !.thread = t, !.effect = "reply", !.again = FALSE]
  <2>1. k.replied = j.replied /\ k.finished = j.finished /\ k.effect = "reply" BY DEF Job
  <2> HIDE DEF k
  <2>2. JobReal("reply", k, Replied, Resolved) BY <2>1 DEF JobReal
  <2> QED BY <1>2, <2>2, GotoReal DEF k
<1> QED BY <1>1, <1>2 DEF NextPlan

(* A known reply leads to the resolve, a known resolve ends the thread. *)
LEMMA AdvanceReal ==
  ASSUME TypeOK, JobsReal, NEW p \in Procs, gh' = gh,
         \/ ToResolve(p) /\ job[p].thread \in Replied
         \/ FinishThread(p) /\ job[p].thread \in Resolved
  PROVE  JobsReal'
<1> Replied' = Replied /\ Resolved' = Resolved BY DEF Replied, Resolved
<1> job[p] \in Job BY CmdType
<1>1. JobReal(pc[p], job[p], Replied, Resolved) BY DEF JobsReal
<1>2. CASE ToResolve(p) /\ job[p].thread \in Replied
  <2> DEFINE j == [job[p] EXCEPT !.replied = @ \cup {job[p].thread}, !.effect = "resolve",
                                 !.again = FALSE, !.dead = {}, !.token = 0]
  <2>1. /\ j.replied = job[p].replied \cup {job[p].thread} /\ j.finished = job[p].finished
        /\ j.effect = "resolve" /\ j.thread = job[p].thread
    BY DEF Job
  <2> HIDE DEF j
  <2>2. JobReal("resolve", j, Replied, Resolved) BY <1>1, <1>2, <2>1 DEF JobReal
  <2> QED BY <1>2, <2>2, GotoReal DEF ToResolve, j
<1>3. CASE FinishThread(p) /\ job[p].thread \in Resolved
  <2> DEFINE j == [job[p] EXCEPT !.finished = @ \cup {job[p].thread},
                                 !.todo = @ \ {job[p].thread}, !.dead = {}, !.token = 0]
  <2>1. /\ j.finished = job[p].finished \cup {job[p].thread} /\ j.replied = job[p].replied
        /\ j.effect = job[p].effect /\ j.thread = job[p].thread /\ j \in Job
    BY DEF Job
  <2>2. NextPlan(p, j) BY <1>3 DEF FinishThread
  <2> HIDE DEF j
  <2> QED BY <1>1, <1>3, <2>1, <2>2, NextPlanReal DEF JobReal
<1> QED BY <1>2, <1>3

(* Saving writes what the process believes. *)
LEMMA SaveSessionReal ==
  ASSUME TypeOK, RealInv, NEW p \in Procs, SaveSession(p), UNCHANGED <<rows, gh>>
  PROVE  RealInv'
<1> Replied' = Replied /\ Resolved' = Resolved BY DEF Replied, Resolved
<1>1. JobsReal' BY FreshReal DEF SaveSession, RealInv
<1>2. job[p].finished \subseteq Resolved /\ job[p].replied \subseteq Replied
  BY DEF RealInv, JobsReal, JobReal
<1>3. ASSUME NEW t \in Threads
      PROVE  /\ items'[t].closed => items[t].closed \/ t \in Resolved
             /\ items'[t].replied => items[t].replied \/ t \in Replied
  <2>1. CASE items' = items BY <2>1
  <2>2. CASE items' = [u \in Threads |-> [closed |-> items[u].closed \/ u \in job[p].finished,
                                          replied |-> items[u].replied \/ u \in job[p].replied]]
    <3>1. items'[t] = [closed |-> items[t].closed \/ t \in job[p].finished,
                       replied |-> items[t].replied \/ t \in job[p].replied]
      BY <2>2
    <3>2. ASSUME NEW x, NEW a, NEW b, NEW A, NEW B,
                 x = [closed |-> a \/ t \in A, replied |-> b \/ t \in B]
          PROVE  (x.closed => a \/ t \in A) /\ (x.replied => b \/ t \in B)
      BY <3>2
    <3>3. /\ items'[t].closed => items[t].closed \/ t \in job[p].finished
          /\ items'[t].replied => items[t].replied \/ t \in job[p].replied
      BY <3>1, <3>2, Zenon
    <3> QED BY <1>2, <3>3
  <2> QED BY <2>1, <2>2 DEF SaveSession
<1>4. ASSUME NEW t \in Threads
      PROVE  /\ items'[t].closed => t \in Resolved'
             /\ items'[t].replied => t \in Replied'
  BY <1>3 DEF RealInv, TablesReal
<1>5. TablesReal' BY <1>4 DEF RealInv, TablesReal
<1> QED BY <1>1, <1>5 DEF RealInv

(* A transition to anything but success, or to a success that GitHub       *)
(* shows, keeps the tables true.                                           *)
LEMMA RowsReal ==
  ASSUME TypeOK, TablesReal, UNCHANGED <<items, gh>>,
         \A c \in Cmds :
           rows'[c].st = "succeeded" =>
             \/ rows[c].st = "succeeded"
             \/ c[1] \in IF c[2] = "reply" THEN Replied ELSE Resolved
  PROVE  TablesReal'
<1> Replied' = Replied /\ Resolved' = Resolved BY DEF Replied, Resolved
<1>1. ASSUME NEW t \in Threads
      PROVE  /\ rows'[<<t, "reply">>].st = "succeeded" => t \in Replied
             /\ rows'[<<t, "resolve">>].st = "succeeded" => t \in Resolved
  <2>1. <<t, "reply">> \in Cmds /\ <<t, "resolve">> \in Cmds BY DEF Cmds, Effects
  <2> QED BY <2>1 DEF TablesReal
<1> QED BY <1>1 DEF TablesReal

(* The row of the command in hand. *)
LEMMA SetRowReal ==
  ASSUME TypeOK, TablesReal, UNCHANGED <<items, gh>>, NEW p \in Procs, NEW status, NEW owner,
         SetRow(Cmd(p), status, owner),
         status = "succeeded" =>
           job[p].thread \in IF job[p].effect = "reply" THEN Replied ELSE Resolved
  PROVE  TablesReal'
<1>1. \A c \in Cmds : rows'[c].st = IF c = Cmd(p) THEN status ELSE rows[c].st
  BY CmdType DEF SetRow, TypeOK, Row
<1>2. Cmd(p)[1] = job[p].thread /\ Cmd(p)[2] = job[p].effect BY DEF Cmd
<1> QED BY <1>1, <1>2, RowsReal

(* A mutation only adds its effect. *)
LEMMA AppliedOn ==
  ASSUME TypeOK, NEW p \in Procs, gh' = Applied(p)
  PROVE  /\ job[p].effect = "reply" =>
              Replied' = Replied \cup {job[p].thread} /\ Resolved' = Resolved
         /\ job[p].effect # "reply" =>
              Replied' = Replied /\ Resolved' = Resolved \cup {job[p].thread}
         /\ \A t \in Threads : gh'[t].latest => gh[t].latest \/ t \in Replied'
<1>1. /\ gh \in [Threads -> [replies : Nat, latest : BOOLEAN, resolved : BOOLEAN]]
      /\ job[p].thread \in Threads
  BY CmdType DEF TypeOK, Job
<1>2. CASE job[p].effect = "reply"
  <2>1. gh' = [gh EXCEPT ![job[p].thread] = [replies |-> @.replies + 1, latest |-> TRUE,
                                             resolved |-> @.resolved]]
    BY <1>2 DEF Applied
  <2> QED BY <1>1, <1>2, <2>1 DEF Replied, Resolved
<1>3. CASE job[p].effect # "reply"
  <2>1. gh' = [gh EXCEPT ![job[p].thread] = [@ EXCEPT !.resolved = TRUE]]
    BY <1>3 DEF Applied
  <2> QED BY <1>1, <1>3, <2>1 DEF Replied, Resolved
<1> QED BY <1>2, <1>3

(* Steps of a publish keep what is recorded and believed true. *)
LEMMA PublishStepReal ==
  ASSUME TypeOK, RealInv, NEW p \in Procs, PublishStep(p)
  PROVE  RealInv'
<1> job[p] \in Job /\ Cmd(p) \in Cmds BY CmdType
<1> JobsReal /\ TablesReal BY DEF RealInv
<1> USE DEF RealInv
<1>a. JobReal(pc[p], job[p], Replied, Resolved) BY DEF JobsReal
<1>b. ASSUME gh' = gh PROVE Replied' = Replied /\ Resolved' = Resolved
  BY <1>b DEF Replied, Resolved
<1>c. ASSUME UNCHANGED <<rows, items, gh>> PROVE TablesReal'
  BY <1>c, RowsReal
<1>d. ASSUME NEW step, Goto(p, step, job[p]), gh' = gh, JobReal(step, job[p], Replied, Resolved)
      PROVE  JobsReal'
  BY <1>b, <1>d, GotoReal
<1>e. ASSUME NEW step \in {"save", "plan", "guard", "blocked", "fail", "fail_save"},
             Goto(p, step, job[p]), gh' = gh
      PROVE  JobsReal'
  BY <1>a, <1>d, <1>e DEF JobReal
<1>f. ASSUME gh' = gh, SideEffectState(p), pc[p] \in {"reply", "resolve"} PROVE JobsReal'
  <2> DEFINE j == [job[p] EXCEPT !.back = pc[p], !.again = TRUE]
  <2>1. /\ j.replied = job[p].replied /\ j.finished = job[p].finished
        /\ j.effect = job[p].effect /\ j.thread = job[p].thread /\ j.back = pc[p]
    BY DEF Job
  <2>2. Goto(p, "recover", j) BY <1>f DEF SideEffectState
  <2> HIDE DEF j
  <2>3. JobReal("recover", j, Replied, Resolved) BY <1>a, <1>f, <2>1 DEF JobReal
  <2> QED BY <1>b, <1>f, <2>2, <2>3, GotoReal
<1>1. CASE Recover(p)
  <2>1. PICK dead \in SUBSET DeadRows :
          Goto(p, IF dead = {} THEN job[p].back ELSE "demote", [job[p] EXCEPT !.dead = dead])
    BY <1>1 DEF Recover
  <2> DEFINE j == [job[p] EXCEPT !.dead = dead]
             step == IF dead = {} THEN job[p].back ELSE "demote"
  <2>2. /\ j.replied = job[p].replied /\ j.finished = job[p].finished
        /\ j.effect = job[p].effect /\ j.thread = job[p].thread /\ j.back = job[p].back
    BY DEF Job
  <2>3. pc[p] = "recover" /\ step \in {"demote", job[p].back} BY <1>1 DEF Recover
  <2>4. job[p].back \in {"load", "reply", "resolve"} BY DEF Job
  <2> HIDE DEF j, step
  <2>5. JobReal(step, j, Replied, Resolved) BY <1>a, <2>2, <2>3, <2>4 DEF JobReal
  <2>6. UNCHANGED <<rows, items, gh>> BY <1>1 DEF Recover
  <2> QED BY <1>b, <1>c, <2>1, <2>5, <2>6, GotoReal DEF j, step
<1>2. CASE Demote(p)
  <2> DEFINE j == [job[p] EXCEPT !.dead = {}]
  <2>1. /\ j.replied = job[p].replied /\ j.finished = job[p].finished
        /\ j.effect = job[p].effect /\ j.thread = job[p].thread /\ j.back = job[p].back
    BY DEF Job
  <2>2. pc[p] = "demote" /\ Goto(p, job[p].back, j) /\ UNCHANGED <<items, gh>>
    BY <1>2 DEF Demote
  <2>3. job[p].back \in {"load", "reply", "resolve"} BY DEF Job
  <2> HIDE DEF j
  <2>4. JobReal(job[p].back, j, Replied, Resolved) BY <1>a, <2>1, <2>2, <2>3 DEF JobReal
  <2>5. JobsReal' BY <1>b, <2>2, <2>4, GotoReal
  <2>6. \A c \in Cmds : rows'[c].st \in {rows[c].st, "unknown"}
    BY <1>2 DEF Demote, TypeOK, Row
  <2> QED BY <2>2, <2>5, <2>6, RowsReal
<1>3. CASE LoadSession(p)
  <2> DEFINE j == [job[p] EXCEPT !.todo = {t \in Threads : ~items[t].closed},
                                 !.replied = {t \in Threads : items[t].replied}]
  <2>1. /\ j.replied = {t \in Threads : items[t].replied} /\ j.finished = job[p].finished
        /\ j.effect = job[p].effect /\ j.thread = job[p].thread
    BY DEF Job
  <2>2. UNCHANGED <<rows, items, gh>> /\ (Done(p) \/ Goto(p, "plan", j))
    BY <1>3 DEF LoadSession
  <2> HIDE DEF j
  <2>3. JobReal("plan", j, Replied, Resolved) BY <1>a, <2>1 DEF JobReal, TablesReal
  <2> QED BY <1>b, <1>c, <2>2, <2>3, GotoReal, FreshReal
<1>4. CASE Plan(p)
  <2>1. UNCHANGED <<rows, items, gh>> BY <1>4 DEF Plan
  <2>2. CASE NextPlan(p, job[p]) BY <1>a, <1>c, <2>1, <2>2, NextPlanReal DEF JobReal
  <2> QED BY <1>c, <1>e, <1>4, <2>1, <2>2, FreshReal DEF Plan
<1>5. CASE ReplyState(p)
  <2>1. pc[p] = "reply" /\ UNCHANGED <<rows, items, gh>> BY <1>5 DEF ReplyState
  <2>2. job[p].effect = "reply" BY <1>a, <2>1 DEF JobReal
  <2>3. job[p].thread \in Threads BY DEF Job
  <2>4. rows[Cmd(p)].st = "succeeded" \/ job[p].thread \in job[p].replied
          => job[p].thread \in Replied
    <3>1. job[p].replied \subseteq Replied BY <1>a DEF JobReal
    <3>2. Cmd(p) = <<job[p].thread, "reply">> BY <2>2 DEF Cmd
    <3>3. rows[<<job[p].thread, "reply">>].st = "succeeded" => job[p].thread \in Replied
      BY <2>3 DEF TablesReal
    <3> QED BY <3>1, <3>2, <3>3
  <2>5. CASE ToResolve(p) /\ job[p].thread \in Replied
    BY <1>c, <2>1, <2>5, AdvanceReal
  <2>6. CASE Goto(p, "reconcile", job[p])
    BY <1>a, <1>c, <1>d, <2>1, <2>2, <2>6 DEF JobReal
  <2> QED BY <1>c, <1>e, <1>f, <1>5, <2>1, <2>4, <2>5, <2>6, FreshReal DEF ReplyState
<1>6. CASE ReconcileInFlightReply(p)
  <2>1. UNCHANGED <<rows, items, gh>> /\ pc[p] = "reconcile" BY <1>6 DEF ReconcileInFlightReply
  <2>2. gh[job[p].thread].latest => job[p].thread \in Replied BY DEF Job, TablesReal
  <2> QED BY <1>a, <1>c, <1>d, <1>6, <2>1, <2>2 DEF ReconcileInFlightReply, JobReal
<1>7. CASE PublisherNeverReplied(p)
  <2>1. UNCHANGED <<rows, items, gh>> /\ pc[p] = "absent" BY <1>7 DEF PublisherNeverReplied
  <2> QED BY <1>a, <1>c, <1>d, <1>7, <2>1 DEF PublisherNeverReplied, JobReal
<1>8. CASE AdoptReply(p)
  <2>1. UNCHANGED <<items, gh>> /\ pc[p] = "adopt" BY <1>8 DEF AdoptReply
  <2>2. job[p].effect = "reply" /\ job[p].thread \in Replied BY <1>a, <2>1 DEF JobReal
  <2>3. JobsReal' BY <1>8, <2>1, <2>2, AdvanceReal, FreshReal DEF AdoptReply
  <2>4. TablesReal' BY <1>8, <1>c, <2>1, <2>2, SetRowReal DEF AdoptReply
  <2> QED BY <2>3, <2>4
<1>9. CASE ReconcileNoEffect(p)
  <2>1. UNCHANGED <<items, gh>> BY <1>9 DEF ReconcileNoEffect
  <2>2. JobsReal' BY <1>9, <1>e, <2>1, FreshReal DEF ReconcileNoEffect
  <2>3. TablesReal' BY <1>9, <1>c, <2>1, SetRowReal DEF ReconcileNoEffect
  <2> QED BY <2>2, <2>3
<1>10. CASE Blocked(p) \/ Save(p) \/ FailSave(p)
  BY <1>10, SaveSessionReal DEF Blocked, Save, FailSave
<1>11. CASE Guard(p)
  <2>1. UNCHANGED <<rows, items, gh>> BY <1>11 DEF Guard
  <2>2. CASE Goto(p, "begin", job[p]) BY <1>a, <1>c, <1>d, <2>1, <2>2 DEF JobReal
  <2> QED BY <1>11, <1>c, <2>1, <2>2, FreshReal DEF Guard
<1>12. CASE PlanCommand(p)
  <2>1. UNCHANGED <<items, gh>> BY <1>12 DEF PlanCommand
  <2>2. JobsReal'
    <3>1. CASE UNCHANGED <<pc, job>> BY <1>b, <2>1, <3>1 DEF JobsReal
    <3> QED BY <1>12, <2>1, <3>1, FreshReal DEF PlanCommand
  <2>3. TablesReal' BY <1>12, <1>c, <2>1, SetRowReal DEF PlanCommand
  <2> QED BY <2>2, <2>3
<1>13. CASE BeginAttempt(p)
  <2> DEFINE n == rows[Cmd(p)].attempts + 1
             j == [job[p] EXCEPT !.token = n]
  <2>1. /\ j.replied = job[p].replied /\ j.finished = job[p].finished
        /\ j.effect = job[p].effect /\ j.thread = job[p].thread
    BY DEF Job
  <2>2. UNCHANGED <<items, gh>> /\ (Goto(p, "call", j) \/ Done(p)) BY <1>13 DEF BeginAttempt
  <2>3. \A c \in Cmds : rows'[c].st \in {rows[c].st, "in_flight"}
    BY <1>13 DEF BeginAttempt, TypeOK, Row
  <2> HIDE DEF j
  <2>4. JobReal("call", j, Replied, Resolved) BY <1>a, <2>1 DEF JobReal
  <2>5. JobsReal' BY <1>b, <2>2, <2>4, GotoReal, FreshReal
  <2> QED BY <2>2, <2>3, <2>5, RowsReal
<1>14. CASE Call(p)
  <2>1. UNCHANGED <<rows, items>> BY <1>14 DEF Call
  <2>2. PICK step \in {"succeed", "fail"} :
          /\ Goto(p, step, job[p])
          /\ gh' = Applied(p) \/ (step = "fail" /\ gh' = gh)
    BY <1>14 DEF Call
  <2>3. CASE gh' = gh
    <3>1. CASE step = "fail" BY <1>c, <1>e, <2>1, <2>2, <2>3, <3>1
    <3>2. CASE step # "fail"
      <4>1. gh' = Applied(p) BY <2>2, <3>2
      <4>2. job[p].thread \in IF job[p].effect = "reply" THEN Replied ELSE Resolved
        BY <1>b, <2>3, <4>1, AppliedOn
      <4>3. JobReal(step, job[p], Replied, Resolved) BY <1>a, <2>2, <4>2 DEF JobReal
      <4> QED BY <1>c, <1>d, <2>1, <2>2, <2>3, <4>3
    <3> QED BY <3>1, <3>2
  <2>4. CASE gh' = Applied(p)
    <3>1. /\ job[p].effect = "reply" =>
               Replied' = Replied \cup {job[p].thread} /\ Resolved' = Resolved
          /\ job[p].effect # "reply" =>
               Replied' = Replied /\ Resolved' = Resolved \cup {job[p].thread}
      BY <2>4, AppliedOn
    <3>2. JobReal(step, job[p], Replied', Resolved') BY <1>a, <2>2, <3>1 DEF JobReal, Job, Effects
    <3>3. JobsReal' BY <2>2, <3>1, <3>2, GotoReal
    <3>4. \A t \in Threads : gh'[t].latest => gh[t].latest \/ (t \in Replied')
      BY <2>4, AppliedOn
    <3>5. job[p].effect # "reply" => job[p].thread \in Replied
      BY <1>a DEF JobReal, Job, Effects
    <3>6. TablesReal' BY <2>1, <3>1, <3>4, <3>5 DEF TablesReal
    <3> QED BY <3>3, <3>6
  <2> QED BY <2>2, <2>3, <2>4
<1>15. CASE FinishSucceeded(p)
  <2>1. UNCHANGED <<items, gh>> /\ pc[p] = "succeed" BY <1>15 DEF FinishSucceeded
  <2>2. job[p].thread \in IF job[p].effect = "reply" THEN Replied ELSE Resolved
    BY <1>a, <2>1 DEF JobReal
  <2>3. JobsReal' BY <1>15, <2>1, <2>2, AdvanceReal, FreshReal DEF FinishSucceeded
  <2>4. TablesReal' BY <1>15, <1>c, <2>1, <2>2, SetRowReal DEF FinishSucceeded
  <2> QED BY <2>3, <2>4
<1>16. CASE FinishFailed(p)
  <2>1. UNCHANGED <<items, gh>> BY <1>16 DEF FinishFailed
  <2>2. JobsReal' BY <1>16, <1>e, <2>1, FreshReal DEF FinishFailed
  <2>3. TablesReal' BY <1>16, <1>c, <2>1, SetRowReal DEF FinishFailed
  <2> QED BY <2>2, <2>3
<1>17. CASE ResolveState(p)
  <2>1. pc[p] = "resolve" /\ UNCHANGED <<rows, items, gh>> BY <1>17 DEF ResolveState
  <2>2. job[p].effect = "resolve" BY <1>a, <2>1 DEF JobReal
  <2>3. job[p].thread \in Threads BY DEF Job
  <2>4. rows[Cmd(p)].st = "succeeded" => job[p].thread \in Resolved
    BY <2>2, <2>3 DEF TablesReal, Cmd
  <2> QED BY <1>c, <1>e, <1>f, <1>17, <2>1, <2>4, FreshReal, AdvanceReal DEF ResolveState
<1> QED BY <1>1, <1>2, <1>3, <1>4, <1>5, <1>6, <1>7, <1>8, <1>9, <1>10, <1>11, <1>12, <1>13,
           <1>14, <1>15, <1>16, <1>17 DEF PublishStep

(* Every step does. *)
LEMMA RealStep ==
  ASSUME TypeOK, RealInv, [Next]_vars
  PROVE  RealInv'
<1> USE DEF RealInv
<1>a. ASSUME gh' = gh PROVE Replied' = Replied /\ Resolved' = Resolved
  BY <1>a DEF Replied, Resolved
<1>b. ASSUME UNCHANGED <<rows, items, gh>> PROVE TablesReal'
  BY <1>b, RowsReal
<1>1. ASSUME NEW p \in Procs, PublishStep(p) PROVE RealInv' BY <1>1, PublishStepReal
<1>2. ASSUME NEW p \in Procs, PublishCommand(p) \/ Crash(p) PROVE RealInv'
  BY <1>b, <1>2, FreshReal DEF PublishCommand, Crash
<1>3. CASE ForeignCommit \/ UNCHANGED vars
  BY <1>a, <1>b, <1>3 DEF ForeignCommit, vars, JobsReal
<1>4. ASSUME NEW t \in Threads, Comment(t) PROVE RealInv'
  <2>1. gh' = [gh EXCEPT ![t].latest = FALSE] /\ UNCHANGED <<rows, items, pc, job>>
    BY <1>4 DEF Comment
  <2>2. \A u \in Threads : /\ gh'[u].replies = gh[u].replies
                           /\ gh'[u].resolved = gh[u].resolved
                           /\ gh'[u].latest => gh[u].latest
    BY <2>1 DEF TypeOK
  <2>3. Replied' = Replied /\ Resolved' = Resolved BY <2>2 DEF Replied, Resolved
  <2> QED BY <2>1, <2>2, <2>3 DEF JobsReal, TablesReal
<1> QED BY <1>1, <1>2, <1>3, <1>4 DEF Next

(* The store and the running commands never believe more of GitHub than    *)
(* is there.                                                               *)
LEMMA RealInvariant == Spec => []RealInv
<1>1. Init => RealInv
  <2> SUFFICES ASSUME Init PROVE RealInv OBVIOUS
  <2>1. JobsReal BY DEF Init, JobsReal, JobReal, IdleJob
  <2>2. ASSUME NEW t \in Threads
        PROVE  rows[<<t, "reply">>].st = "none" /\ rows[<<t, "resolve">>].st = "none"
    BY DEF Init, Cmds, Effects
  <2>3. TablesReal BY <2>2 DEF Init, TablesReal, Replied, Resolved
  <2> QED BY <2>1, <2>3 DEF RealInv
<1>2. TypeOK /\ RealInv /\ [Next]_vars => RealInv' BY RealStep
<1> QED BY <1>1, <1>2, PublisherTypeCorrect, PTL DEF Spec

(* A result recorded as succeeded, by its caller or by a reconciliation    *)
(* after a crash, is visible on GitHub (record_outbox_result,              *)
(* _reconcile_in_flight_reply).                                            *)
THEOREM SuccessReal == Spec => []SuccessIsReal
<1>1. RealInv => SuccessIsReal BY DEF RealInv, TablesReal, SuccessIsReal, Replied, Resolved
<1> QED BY <1>1, RealInvariant, PTL

(* A thread is resolved only after a reply, and an item is closed only     *)
(* when both are done (_execute_single_publish_plan).                      *)
THEOREM ClosedPublished == Spec => []ClosedIsPublished
<1>1. RealInv => ClosedIsPublished
  BY DEF RealInv, TablesReal, ClosedIsPublished, Replied, Resolved
<1> QED BY <1>1, RealInvariant, PTL

-----------------------------------------------------------------------------
(* A running effect belongs to its executor. *)

Guarded == {"begin", "call", "succeed", "fail", "fail_save"}
Running == {"call", "succeed", "fail"}

(* An executor holds the lock of its command and owns its row; what a      *)
(* recovery has found dead is older than every attempt that runs.          *)
GuardInv ==
  /\ \A c \in Cmds : rows[c].owner <= rows[c].attempts
  /\ \A p \in Procs : pc[p] \in Guarded => lock[Cmd(p)] = p
  /\ \A p \in Procs :
       pc[p] \in Running => /\ rows[Cmd(p)].st = "in_flight"
                            /\ rows[Cmd(p)].owner = job[p].token
                            /\ job[p].token # 0
  /\ \A q \in Procs : \A d \in job[q].dead :
       /\ d[2] <= rows[d[1]].attempts
       /\ \A p \in Procs : pc[p] \in Running /\ Cmd(p) = d[1] => job[p].token # d[2]

(* What a move of one process must respect: the locks of the others, the   *)
(* rows of their running commands, and the age of attempts.                *)
LocksKept(p) == \A c \in Cmds, q \in Procs \ {p} : lock[c] = q => lock'[c] = q

RowsKept(p) ==
  \A c \in Cmds :
    /\ rows'[c].owner <= rows'[c].attempts
    /\ rows'[c].attempts \in Nat
    /\ rows[c].attempts <= rows'[c].attempts
    /\ \/ rows'[c] = rows[c]
       \/ \A q \in Procs \ {p} : ~(pc[q] \in Running /\ Cmd(q) = c)

(* It is in the guard, or runs, only with what these stand for.            *)
Admitted(p, step, j) ==
  /\ step \in Guarded => lock'[<<j.thread, j.effect>>] = p
  /\ step \in Running =>
       /\ rows'[<<j.thread, j.effect>>].st = "in_flight"
       /\ rows'[<<j.thread, j.effect>>].owner = j.token
       /\ j.token # 0
       /\ \A q \in Procs \ {p} : \A d \in job[q].dead :
            d[1] = <<j.thread, j.effect>> => j.token # d[2]

(* It takes no running attempt for dead.                                   *)
DeadKept(p, step, j) ==
  \A d \in j.dead :
    /\ d[2] <= rows'[d[1]].attempts
    /\ \A q \in Procs \ {p} : pc[q] \in Running /\ Cmd(q) = d[1] => job[q].token # d[2]
    /\ step \in Running /\ <<j.thread, j.effect>> = d[1] => j.token # d[2]

(* A move that respects all this respects the guard. *)
LEMMA GuardFrame ==
  ASSUME TypeOK, GuardInv, NEW p \in Procs, NEW step, NEW j \in Job, Goto(p, step, j),
         LocksKept(p), RowsKept(p), Admitted(p, step, j), DeadKept(p, step, j)
  PROVE  GuardInv'
<1>1. pc'[p] = step /\ job'[p] = j /\ Cmd(p)' = <<j.thread, j.effect>>
  BY DEF Goto, TypeOK, Cmd
<1>2. ASSUME NEW q \in Procs, q # p
      PROVE  pc'[q] = pc[q] /\ job'[q] = job[q] /\ Cmd(q)' = Cmd(q) /\ Cmd(q) \in Cmds
  BY <1>2, CmdType DEF Goto, TypeOK, Cmd
<1>3. ASSUME NEW q \in Procs
      PROVE  /\ pc'[q] \in Guarded => lock'[Cmd(q)'] = q
             /\ pc'[q] \in Running => /\ rows'[Cmd(q)'].st = "in_flight"
                                      /\ rows'[Cmd(q)'].owner = job'[q].token
                                      /\ job'[q].token # 0
  <2>1. CASE q = p BY <1>1, <2>1 DEF Admitted
  <2>2. CASE q # p BY <1>2, <2>2 DEF GuardInv, LocksKept, RowsKept
  <2> QED BY <2>1, <2>2
<1>4. ASSUME NEW q \in Procs, NEW d \in job'[q].dead
      PROVE  /\ d[2] <= rows'[d[1]].attempts
             /\ \A r \in Procs : pc'[r] \in Running /\ Cmd(r)' = d[1] => job'[r].token # d[2]
  <2>1. CASE q = p BY <1>1, <1>2, <2>1 DEF DeadKept
  <2>2. CASE q # p
    <3>1. d \in job[q].dead BY <1>2, <2>2
    <3>2. d[1] \in Cmds /\ d[2] \in Nat BY <3>1, CmdType DEF Job
    <3>3. /\ d[2] <= rows[d[1]].attempts
          /\ \A r \in Procs : pc[r] \in Running /\ Cmd(r) = d[1] => job[r].token # d[2]
      BY <3>1 DEF GuardInv
    <3>4. rows[d[1]].attempts \in Nat BY <3>2 DEF TypeOK, Row
    <3>5. d[2] <= rows'[d[1]].attempts BY <3>2, <3>3, <3>4 DEF RowsKept
    <3> QED BY <1>1, <1>2, <2>2, <3>1, <3>3, <3>5 DEF Admitted
  <2> QED BY <2>1, <2>2
<1> QED BY <1>3, <1>4 DEF GuardInv, RowsKept

(* Leaving the rows alone keeps the attempts. *)
LEMMA SameRows ==
  ASSUME TypeOK, GuardInv, NEW p \in Procs, rows' = rows
  PROVE  RowsKept(p)
BY DEF TypeOK, Row, GuardInv, RowsKept

(* Leaving the locks alone, or releasing one's own, keeps the others'. *)
LEMMA SameLocks ==
  ASSUME NEW p \in Procs, lock' = lock \/ Release(p)
  PROVE  LocksKept(p)
BY DEF Release, LocksKept

(* What was found dead stays dead. *)
LEMMA SameDead ==
  ASSUME TypeOK, GuardInv, NEW p \in Procs, RowsKept(p), NEW step, NEW j \in Job,
         j.dead \subseteq job[p].dead, step \notin Running
  PROVE  DeadKept(p, step, j)
<1> SUFFICES ASSUME NEW d \in j.dead
             PROVE  /\ d[2] <= rows'[d[1]].attempts
                    /\ \A q \in Procs : pc[q] \in Running /\ Cmd(q) = d[1] => job[q].token # d[2]
  BY DEF DeadKept
<1>1. d[1] \in Cmds /\ d[2] \in Nat BY DEF Job
<1>2. /\ d[2] <= rows[d[1]].attempts
      /\ \A q \in Procs : pc[q] \in Running /\ Cmd(q) = d[1] => job[q].token # d[2]
  BY DEF GuardInv
<1>3. rows[d[1]].attempts \in Nat BY <1>1 DEF TypeOK, Row
<1> QED BY <1>1, <1>2, <1>3 DEF RowsKept

(* Moves outside the guard that respect the rows. *)
LEMMA QuietMove ==
  ASSUME TypeOK, GuardInv, NEW p \in Procs, NEW step \in Steps \ Guarded, NEW j \in Job,
         Goto(p, step, j), j.dead \subseteq job[p].dead, RowsKept(p),
         lock' = lock \/ Release(p)
  PROVE  GuardInv'
<1>1. step \notin Guarded /\ step \notin Running BY DEF Guarded, Running
<1>2. LocksKept(p) BY SameLocks
<1>3. Admitted(p, step, j) BY <1>1 DEF Admitted
<1>4. DeadKept(p, step, j) BY <1>1, <1>2, SameDead
<1> QED BY <1>2, <1>3, <1>4, GuardFrame

(* So a command that ends, reruns or goes on with another thread. *)
LEMMA QuietEnd ==
  ASSUME TypeOK, GuardInv, NEW p \in Procs, RowsKept(p), lock' = lock \/ Release(p),
         Done(p) \/ Retry(p) \/ Goto(p, "recover", IdleJob) \/ SaveSession(p)
  PROVE  GuardInv'
<1>1. ASSUME NEW step \in {"idle", "recover"}, NEW n \in Nat,
             Goto(p, step, [IdleJob EXCEPT !.tries = n])
      PROVE  GuardInv'
  <2> DEFINE j == [IdleJob EXCEPT !.tries = n]
  <2>1. j \in Job /\ j.dead = {} BY IdleJobType DEF Job, IdleJob
  <2>2. Goto(p, step, j) BY <1>1
  <2>3. step \in Steps \ Guarded BY DEF Steps, Guarded
  <2>4. j.dead \subseteq job[p].dead BY <2>1
  <2> HIDE DEF j
  <2> QED BY <2>1, <2>2, <2>3, <2>4, QuietMove
<1>2. [IdleJob EXCEPT !.tries = 0] = IdleJob BY DEF IdleJob
<1>3. job[p].tries + 1 \in Nat BY CmdType DEF Job
<1> QED BY <1>1, <1>2, <1>3 DEF Done, Retry, SaveSession

(* So one that begins the next thread, or the next effect. *)
LEMMA QuietNext ==
  ASSUME TypeOK, GuardInv, NEW p \in Procs, RowsKept(p), lock' = lock \/ Release(p),
         NEW j \in Job, NextPlan(p, j), j.dead \subseteq job[p].dead
  PROVE  GuardInv'
<1>1. CASE Goto(p, "save", j) BY <1>1, QuietMove DEF Steps, Guarded
<1>2. ASSUME NEW t \in j.todo,
             Goto(p, "reply", [j EXCEPT !.thread = t, !.effect = "reply", !.again = FALSE])
      PROVE  GuardInv'
  <2> DEFINE k == [j EXCEPT !.thread = t, !.effect = "reply", !.again = FALSE]
  <2>1. k \in Job /\ k.dead = j.dead BY DEF Job, Effects
  <2>2. Goto(p, "reply", k) BY <1>2
  <2> HIDE DEF k
  <2> QED BY <2>1, <2>2, QuietMove DEF Steps, Guarded
<1> QED BY <1>1, <1>2 DEF NextPlan

(* So one that finishes a thread, or its reply. *)
LEMMA QuietAdvance ==
  ASSUME TypeOK, GuardInv, NEW p \in Procs, RowsKept(p), lock' = lock \/ Release(p),
         ToResolve(p) \/ FinishThread(p)
  PROVE  GuardInv'
<1> DEFINE j == [job[p] EXCEPT !.replied = @ \cup {job[p].thread}, !.effect = "resolve",
                               !.again = FALSE, !.dead = {}, !.token = 0]
           k == [job[p] EXCEPT !.finished = @ \cup {job[p].thread},
                               !.todo = @ \ {job[p].thread}, !.dead = {}, !.token = 0]
<1>1. j \in Job /\ j.dead = {} /\ k \in Job /\ k.dead = {} BY CmdType DEF Job, Effects
<1>2. j.dead \subseteq job[p].dead /\ k.dead \subseteq job[p].dead BY <1>1
<1>3. Goto(p, "resolve", j) \/ NextPlan(p, k) BY DEF ToResolve, FinishThread
<1>4. "resolve" \in Steps \ Guarded BY DEF Steps, Guarded
<1> HIDE DEF j, k
<1> QED BY <1>1, <1>2, <1>3, <1>4, QuietMove, QuietNext

(* A transition of a row that nobody else is running. *)
LEMMA SetRowKept ==
  ASSUME TypeOK, GuardInv, NEW p \in Procs, NEW c \in Cmds, NEW status, SetRow(c, status, 0),
         \A q \in Procs \ {p} : ~(pc[q] \in Running /\ Cmd(q) = c)
  PROVE  RowsKept(p)
<1>1. ASSUME NEW d \in Cmds
      PROVE  /\ rows'[d].attempts = rows[d].attempts /\ rows[d].attempts \in Nat
             /\ rows'[d].owner \in {0, rows[d].owner}
             /\ d # c => rows'[d] = rows[d]
  BY DEF SetRow, TypeOK, Row
<1>2. ASSUME NEW d \in Cmds PROVE rows[d].owner <= rows[d].attempts BY DEF GuardInv
<1> QED BY <1>1, <1>2 DEF RowsKept

(* Whoever holds the lock of a command is the only one to run it. *)
LEMMA HolderRunsAlone ==
  ASSUME TypeOK, GuardInv, NEW p \in Procs, lock[Cmd(p)] = p
  PROVE  \A q \in Procs \ {p} : ~(pc[q] \in Running /\ Cmd(q) = Cmd(p))
BY DEF GuardInv, Guarded, Running

(* A result recorded from outside the guard is for a row nobody runs. *)
LEMMA NobodyRunsUnknown ==
  ASSUME TypeOK, GuardInv, NEW c \in Cmds, MayRecord(c, 0)
  PROVE  \A q \in Procs : ~(pc[q] \in Running /\ Cmd(q) = c)
BY DEF GuardInv, MayRecord

(* Steps of a publish respect the guard. *)
LEMMA PublishStepGuard ==
  ASSUME TypeOK, GuardInv, NEW p \in Procs, PublishStep(p)
  PROVE  GuardInv'
<1> job[p] \in Job /\ Cmd(p) \in Cmds BY CmdType
<1> Cmd(p) = <<job[p].thread, job[p].effect>> BY DEF Cmd
<1>a. ASSUME rows' = rows PROVE RowsKept(p) BY <1>a, SameRows
<1>b. {"plan", "reconcile", "absent", "adopt", "no_effect", "blocked", "guard", "recover",
       "demote", "load", "reply", "resolve"} \subseteq Steps \ Guarded
  BY DEF Steps, Guarded
<1>c. ASSUME NEW step \in Steps \ Guarded, Goto(p, step, job[p]), RowsKept(p),
             lock' = lock \/ Release(p)
      PROVE  GuardInv'
  BY <1>c, QuietMove
<1>d. ASSUME SideEffectState(p), pc[p] \in {"reply", "resolve"}, UNCHANGED <<rows, lock>>
      PROVE  GuardInv'
  <2> DEFINE j == [job[p] EXCEPT !.back = pc[p], !.again = TRUE]
  <2>1. j \in Job /\ j.dead = job[p].dead BY <1>d DEF Job
  <2>2. Goto(p, "recover", j) BY <1>d DEF SideEffectState
  <2> HIDE DEF j
  <2> QED BY <1>a, <1>b, <1>d, <2>1, <2>2, QuietMove
<1>1. CASE Recover(p)
  <2>1. PICK dead \in SUBSET DeadRows :
          Goto(p, IF dead = {} THEN job[p].back ELSE "demote", [job[p] EXCEPT !.dead = dead])
    BY <1>1 DEF Recover
  <2> DEFINE j == [job[p] EXCEPT !.dead = dead]
             step == IF dead = {} THEN job[p].back ELSE "demote"
  <2>2. DeadRows \subseteq Cmds \X Nat BY DEF DeadRows, TypeOK, Row
  <2>3. j \in Job /\ j.dead = dead BY <2>2 DEF Job
  <2>4. job[p].back \in {"load", "reply", "resolve"} BY DEF Job
  <2>5. step \notin Guarded /\ step \notin Running BY <2>4 DEF Guarded, Running
  <2>6. UNCHANGED <<rows, lock>> BY <1>1 DEF Recover
  <2> HIDE DEF j, step
  <2>7. RowsKept(p) /\ LocksKept(p) BY <1>a, <2>6, SameLocks
  <2>8. Admitted(p, step, j) BY <2>5 DEF Admitted
  <2>9. DeadKept(p, step, j)
    <3> SUFFICES ASSUME NEW d \in dead
                 PROVE  /\ d[2] <= rows'[d[1]].attempts
                        /\ \A q \in Procs : ~(pc[q] \in Running /\ Cmd(q) = d[1])
      BY <2>3, <2>5 DEF DeadKept
    <3>1. PICK c \in Cmds : d = <<c, rows[c].owner>> /\ lock[c] = Nobody BY DEF DeadRows
    <3>2. \A q \in Procs : ~(pc[q] \in Running /\ Cmd(q) = c)
      BY <3>1, NobodyAssumption DEF GuardInv, Guarded, Running
    <3> QED BY <2>6, <3>1, <3>2 DEF GuardInv
  <2>10. Goto(p, step, j) BY <2>1 DEF j, step
  <2> QED BY <2>3, <2>7, <2>8, <2>9, <2>10, GuardFrame
<1>2. CASE Demote(p)
  <2> DEFINE j == [job[p] EXCEPT !.dead = {}]
  <2>1. j \in Job /\ j.dead = {} BY DEF Job
  <2>2. j.dead \subseteq job[p].dead BY <2>1
  <2>3. Goto(p, job[p].back, j) /\ lock' = lock BY <1>2 DEF Demote
  <2>4. job[p].back \in {"load", "reply", "resolve"} BY DEF Job
  <2> HIDE DEF j
  <2>5. ASSUME NEW c \in Demotable(p) PROVE \A q \in Procs : ~(pc[q] \in Running /\ Cmd(q) = c)
    BY DEF Demotable, GuardInv
  <2>6. ASSUME NEW c \in Cmds
        PROVE  /\ rows'[c].attempts = rows[c].attempts /\ rows[c].attempts \in Nat
               /\ rows'[c].owner \in {0, rows[c].owner}
               /\ c \notin Demotable(p) => rows'[c] = rows[c]
    BY <1>2 DEF Demote, TypeOK, Row
  <2>7. ASSUME NEW c \in Cmds PROVE rows[c].owner <= rows[c].attempts BY DEF GuardInv
  <2>8. RowsKept(p) BY <2>5, <2>6, <2>7 DEF RowsKept
  <2> QED BY <1>b, <2>1, <2>2, <2>3, <2>4, <2>8, QuietMove
<1>3. CASE LoadSession(p)
  <2> DEFINE j == [job[p] EXCEPT !.todo = {t \in Threads : ~items[t].closed},
                                 !.replied = {t \in Threads : items[t].replied}]
  <2>1. j \in Job /\ j.dead = job[p].dead BY DEF Job
  <2>2. UNCHANGED <<rows, lock>> /\ (Done(p) \/ Goto(p, "plan", j)) BY <1>3 DEF LoadSession
  <2> HIDE DEF j
  <2> QED BY <1>a, <1>b, <2>1, <2>2, QuietMove, QuietEnd
<1>4. CASE Plan(p)
  <2>1. UNCHANGED <<rows, lock>> BY <1>4 DEF Plan
  <2> QED BY <1>a, <1>b, <1>c, <1>4, <2>1, QuietNext, QuietEnd DEF Plan
<1>5. CASE ReplyState(p)
  <2>1. UNCHANGED <<rows, lock>> /\ pc[p] = "reply" BY <1>5 DEF ReplyState
  <2> QED BY <1>a, <1>b, <1>c, <1>d, <1>5, <2>1, QuietAdvance, QuietEnd DEF ReplyState
<1>6. CASE ReconcileInFlightReply(p) \/ PublisherNeverReplied(p)
  <2>1. UNCHANGED <<rows, lock>> BY <1>6 DEF ReconcileInFlightReply, PublisherNeverReplied
  <2> QED BY <1>a, <1>b, <1>c, <1>6, <2>1 DEF ReconcileInFlightReply, PublisherNeverReplied
<1>7. CASE AdoptReply(p)
  <2>1. RowsKept(p) BY <1>a, <1>7, SetRowKept, NobodyRunsUnknown DEF AdoptReply
  <2> QED BY <1>7, <2>1, QuietAdvance, QuietEnd DEF AdoptReply
<1>8. CASE ReconcileNoEffect(p)
  <2>1. RowsKept(p) BY <1>a, <1>8, SetRowKept, NobodyRunsUnknown DEF ReconcileNoEffect
  <2> QED BY <1>b, <1>c, <1>8, <2>1, QuietEnd DEF ReconcileNoEffect
<1>9. CASE Blocked(p) \/ Save(p) \/ FailSave(p)
  BY <1>a, <1>9, QuietEnd DEF Blocked, Save, FailSave
<1>10. CASE Guard(p)
  <2>1. rows' = rows BY <1>10 DEF Guard
  <2>2. CASE LockFree(Cmd(p)) /\ lock' = [lock EXCEPT ![Cmd(p)] = p] /\ Goto(p, "begin", job[p])
    <3>1. lock'[Cmd(p)] = p /\ LocksKept(p)
      BY <2>2, NobodyAssumption DEF TypeOK, LockFree, LocksKept
    <3>2. "begin" \notin Running BY DEF Running
    <3>3. Admitted(p, "begin", job[p]) BY <3>1, <3>2 DEF Admitted
    <3>4. RowsKept(p) BY <1>a, <2>1
    <3>5. DeadKept(p, "begin", job[p]) BY <3>2, <3>4, SameDead
    <3> QED BY <2>2, <3>1, <3>3, <3>4, <3>5, GuardFrame
  <2> QED BY <1>a, <1>10, <2>1, <2>2, QuietEnd DEF Guard
<1>11. CASE PlanCommand(p)
  <2>1. pc[p] = "begin" /\ lock[Cmd(p)] = p BY <1>11 DEF PlanCommand, GuardInv, Guarded
  <2>2. CASE SetRow(Cmd(p), "planned", 0) /\ UNCHANGED <<lock, pc, job>>
    <3>1. RowsKept(p) BY <2>1, <2>2, SetRowKept, HolderRunsAlone
    <3>2. LocksKept(p) BY <2>2, SameLocks
    <3>3. Goto(p, "begin", job[p]) BY <2>1, <2>2 DEF Goto, TypeOK
    <3>4. "begin" \notin Running BY DEF Running
    <3>5. Admitted(p, "begin", job[p]) BY <2>1, <2>2, <3>4 DEF Admitted
    <3>6. DeadKept(p, "begin", job[p]) BY <3>1, <3>4, SameDead
    <3> QED BY <3>1, <3>2, <3>3, <3>5, <3>6, GuardFrame
  <2> QED BY <1>a, <1>11, <2>2, QuietEnd DEF PlanCommand
<1>12. CASE BeginAttempt(p)
  <2> DEFINE c == Cmd(p)
             n == rows[c].attempts + 1
             j == [job[p] EXCEPT !.token = n]
  <2>1. lock[c] = p BY <1>12 DEF BeginAttempt, GuardInv, Guarded
  <2>2. CASE /\ rows' = [rows EXCEPT ![c] = [st |-> "in_flight", owner |-> n, attempts |-> n]]
             /\ Goto(p, "call", j) /\ UNCHANGED lock
    <3>1. rows[c].attempts \in Nat /\ n \in Nat /\ n > rows[c].attempts BY DEF TypeOK, Row
    <3>2. j \in Job /\ j.dead = job[p].dead /\ j.token = n /\ <<j.thread, j.effect>> = c
      BY <3>1 DEF Job
    <3>3. /\ rows'[c] = [st |-> "in_flight", owner |-> n, attempts |-> n]
          /\ \A d \in Cmds \ {c} : rows'[d] = rows[d]
      BY <2>2 DEF TypeOK
    <3>4. Goto(p, "call", j) /\ lock' = lock BY <2>2
    <3>5. \A q \in Procs \ {p} : ~(pc[q] \in Running /\ Cmd(q) = c) BY <2>1, HolderRunsAlone
    <3>6. ASSUME NEW q \in Procs, NEW d \in job[q].dead
          PROVE  /\ d[1] \in Cmds /\ d[2] \in Nat /\ d[2] <= rows[d[1]].attempts
                 /\ \A r \in Procs : pc[r] \in Running /\ Cmd(r) = d[1] => job[r].token # d[2]
      BY CmdType DEF Job, GuardInv
    <3> HIDE DEF n, j, c
    <3>7. RowsKept(p) BY <3>1, <3>3, <3>5 DEF RowsKept, TypeOK, Row, GuardInv
    <3>8. LocksKept(p) BY <3>4, SameLocks
    <3>9. Admitted(p, "call", j) BY <2>1, <3>1, <3>2, <3>3, <3>4, <3>6, CmdType DEF Admitted, c
    <3>10. DeadKept(p, "call", j)
      <4> SUFFICES ASSUME NEW d \in j.dead
                   PROVE  /\ d[2] <= rows'[d[1]].attempts
                          /\ \A q \in Procs \ {p} :
                               pc[q] \in Running /\ Cmd(q) = d[1] => job[q].token # d[2]
                          /\ <<j.thread, j.effect>> = d[1] => j.token # d[2]
        BY DEF DeadKept
      <4>1. /\ d[1] \in Cmds /\ d[2] \in Nat /\ d[2] <= rows[d[1]].attempts
            /\ \A r \in Procs : pc[r] \in Running /\ Cmd(r) = d[1] => job[r].token # d[2]
        BY <3>2, <3>6
      <4>2. d[2] <= rows'[d[1]].attempts BY <3>1, <3>3, <4>1
      <4>3. <<j.thread, j.effect>> = d[1] => j.token # d[2] BY <3>1, <3>2, <4>1
      <4> QED BY <4>1, <4>2, <4>3
    <3> QED BY <3>2, <3>4, <3>7, <3>8, <3>9, <3>10, GuardFrame
  <2> QED BY <1>a, <1>12, <2>2, QuietEnd DEF BeginAttempt
<1>13. CASE Call(p)
  <2>1. /\ UNCHANGED <<rows, lock>> /\ pc[p] \in Running /\ pc[p] \in Guarded
        /\ Goto(p, "succeed", job[p]) \/ Goto(p, "fail", job[p])
    BY <1>13 DEF Call, Running, Guarded
  <2>2. ASSUME NEW step \in Running, Goto(p, step, job[p]) PROVE GuardInv'
    <3>1. RowsKept(p) /\ LocksKept(p) BY <1>a, <2>1, SameLocks
    <3>2. Admitted(p, step, job[p]) BY <2>1 DEF Admitted, GuardInv
    <3>3. DeadKept(p, step, job[p]) BY <2>1 DEF DeadKept, GuardInv
    <3> QED BY <2>2, <3>1, <3>2, <3>3, GuardFrame
  <2> QED BY <2>1, <2>2 DEF Running
<1>14. CASE FinishSucceeded(p)
  <2>1. lock[Cmd(p)] = p BY <1>14 DEF FinishSucceeded, GuardInv, Guarded
  <2>2. RowsKept(p) BY <1>a, <1>14, <2>1, SetRowKept, HolderRunsAlone DEF FinishSucceeded
  <2> QED BY <1>14, <2>2, QuietAdvance, QuietEnd DEF FinishSucceeded
<1>15. CASE FinishFailed(p)
  <2>1. lock[Cmd(p)] = p BY <1>15 DEF FinishFailed, GuardInv, Guarded
  <2>2. RowsKept(p) BY <1>a, <1>15, <2>1, SetRowKept, HolderRunsAlone DEF FinishFailed
  <2>3. CASE Goto(p, "fail_save", job[p]) /\ UNCHANGED lock
    <3>1. LocksKept(p) BY <2>3, SameLocks
    <3>2. "fail_save" \notin Running BY DEF Running
    <3>3. Admitted(p, "fail_save", job[p]) BY <2>1, <2>3, <3>2 DEF Admitted
    <3>4. DeadKept(p, "fail_save", job[p]) BY <2>2, <3>2, SameDead
    <3> QED BY <2>2, <2>3, <3>1, <3>3, <3>4, GuardFrame
  <2> QED BY <1>15, <2>2, <2>3, QuietEnd DEF FinishFailed
<1>16. CASE ResolveState(p)
  <2>1. UNCHANGED <<rows, lock>> /\ pc[p] = "resolve" BY <1>16 DEF ResolveState
  <2> QED BY <1>a, <1>b, <1>c, <1>d, <1>16, <2>1, QuietAdvance, QuietEnd DEF ResolveState
<1> QED BY <1>1, <1>2, <1>3, <1>4, <1>5, <1>6, <1>7, <1>8, <1>9, <1>10, <1>11, <1>12, <1>13,
           <1>14, <1>15, <1>16 DEF PublishStep

(* Every step respects the guard. *)
LEMMA GuardStep ==
  ASSUME TypeOK, GuardInv, [Next]_vars
  PROVE  GuardInv'
<1>1. ASSUME NEW p \in Procs, PublishStep(p) PROVE GuardInv' BY <1>1, PublishStepGuard
<1>2. ASSUME NEW p \in Procs, PublishCommand(p) \/ Crash(p) PROVE GuardInv'
  <2>1. RowsKept(p) BY <1>2, SameRows DEF PublishCommand, Crash
  <2> QED BY <1>2, <2>1, QuietEnd DEF PublishCommand, Crash
<1>3. ASSUME UNCHANGED <<rows, lock, pc, job>> PROVE GuardInv'
  BY <1>3 DEF GuardInv, Cmd
<1>4. ASSUME NEW t \in Threads, Comment(t) PROVE GuardInv' BY <1>3, <1>4 DEF Comment
<1>5. CASE ForeignCommit \/ UNCHANGED vars BY <1>3, <1>5 DEF ForeignCommit, vars
<1> QED BY <1>1, <1>2, <1>4, <1>5 DEF Next

(* The guard is respected in every state. *)
LEMMA GuardInvariant == Spec => []GuardInv
<1>1. Init => GuardInv BY DEF Init, GuardInv, Guarded, Running, IdleJob
<1>2. TypeOK /\ GuardInv /\ [Next]_vars => GuardInv' BY GuardStep
<1> QED BY <1>1, <1>2, PublisherTypeCorrect, PTL DEF Spec

(* From the committed attempt to the recorded result an effect belongs to  *)
(* its executor: nobody demotes, reconciles or repeats a running command   *)
(* (execution_guard, recover_outbox, record_outbox_result).                *)
THEOREM RunningBelongs == Spec => []RunningIsInFlight
<1>1. GuardInv => RunningIsInFlight BY DEF GuardInv, RunningIsInFlight, Guarded, Running
<1> QED BY <1>1, GuardInvariant, PTL

-----------------------------------------------------------------------------
(* A recorded success is final. *)

(* A transition of a row that is not a success leaves the successes.       *)
LEMMA SuccessKept ==
  ASSUME TypeOK, NEW c \in Cmds, rows[c].st # "succeeded",
         \A d \in Cmds \ {c} : rows'[d] = rows[d]
  PROVE  \A d \in Cmds : rows[d].st = "succeeded" => rows'[d] = rows[d]
OBVIOUS

(* Every step leaves the recorded successes.                               *)
LEMMA SuccessStep ==
  ASSUME TypeOK, [Next]_vars
  PROVE  \A c \in Cmds : rows[c].st = "succeeded" => rows'[c] = rows[c]
<1> DEFINE Final == \A c \in Cmds : rows[c].st = "succeeded" => rows'[c] = rows[c]
<1>a. CASE rows' = rows BY <1>a
<1>b. ASSUME NEW p \in Procs, NEW status, NEW owner, NEW token, SetRow(Cmd(p), status, owner),
             MayRecord(Cmd(p), token) \/ rows[Cmd(p)].st = "none"
      PROVE  Final
  <2>1. rows[Cmd(p)].st # "succeeded" BY <1>b DEF MayRecord
  <2>2. \A d \in Cmds \ {Cmd(p)} : rows'[d] = rows[d] BY <1>b, CmdType DEF SetRow, TypeOK
  <2> QED BY <2>1, <2>2, CmdType, SuccessKept
<1>1. ASSUME NEW p \in Procs, PublishStep(p) PROVE Final
  <2>1. CASE Demote(p) BY <2>1 DEF Demote, Demotable
  <2>2. CASE AdoptReply(p) \/ ReconcileNoEffect(p)
    BY <1>a, <1>b, <2>2 DEF AdoptReply, ReconcileNoEffect
  <2>3. CASE PlanCommand(p) BY <1>a, <1>b, <2>3 DEF PlanCommand
  <2>4. CASE BeginAttempt(p)
    <3>1. CASE MayBegin(Cmd(p))
      <4>1. rows[Cmd(p)].st # "succeeded" BY <3>1 DEF MayBegin
      <4>2. \A d \in Cmds \ {Cmd(p)} : rows'[d] = rows[d]
        BY <2>4, <3>1, CmdType DEF BeginAttempt, TypeOK
      <4> QED BY <4>1, <4>2, CmdType, SuccessKept
    <3>2. CASE ~MayBegin(Cmd(p)) BY <1>a, <2>4, <3>2 DEF BeginAttempt
    <3> QED BY <3>1, <3>2
  <2>5. CASE FinishSucceeded(p) \/ FinishFailed(p)
    BY <1>a, <1>b, <2>5 DEF FinishSucceeded, FinishFailed
  <2>6. CASE Recover(p) \/ LoadSession(p) \/ Plan(p) \/ ReplyState(p)
    BY <1>a, <2>6 DEF Recover, LoadSession, Plan, ReplyState
  <2>7. CASE ReconcileInFlightReply(p) \/ PublisherNeverReplied(p) \/ Blocked(p) \/ Guard(p)
    BY <1>a, <2>7 DEF ReconcileInFlightReply, PublisherNeverReplied, Blocked, Guard
  <2>8. CASE Call(p) \/ FailSave(p) \/ ResolveState(p) \/ Save(p)
    BY <1>a, <2>8 DEF Call, FailSave, ResolveState, Save
  <2> QED BY <1>1, <2>1, <2>2, <2>3, <2>4, <2>5, <2>6, <2>7, <2>8 DEF PublishStep
<1>2. ASSUME NEW p \in Procs, PublishCommand(p) \/ Crash(p) PROVE Final
  BY <1>a, <1>2 DEF PublishCommand, Crash
<1>3. ASSUME NEW t \in Threads, Comment(t) PROVE Final BY <1>a, <1>3 DEF Comment
<1>4. CASE ForeignCommit \/ UNCHANGED vars BY <1>a, <1>4 DEF ForeignCommit, vars
<1> QED BY <1>1, <1>2, <1>3, <1>4 DEF Next

(* A recorded success is final: no retry, recovery or reconciliation       *)
(* reopens a command that has succeeded (mark_outbox_in_flight,            *)
(* record_outbox_result, recover_outbox).                                  *)
THEOREM SuccessFinal == Spec => SuccessIsFinal
<1>1. TypeOK /\ [Next]_vars
        => [\A c \in Cmds : rows[c].st = "succeeded" => rows'[c] = rows[c]]_vars
  BY SuccessStep
<1> QED BY <1>1, PublisherTypeCorrect, PTL DEF Spec, SuccessIsFinal

-----------------------------------------------------------------------------
(* One fault does not make the publisher reply twice. *)

Looking == {"reconcile", "absent", "no_effect"}
ReplyOf(t) == <<t, "reply">>
Runs(p, c) == pc[p] \in Running /\ Cmd(p) = c

(* An attempt whose executor died, still recorded as in flight. *)
Orphan(c) == rows[c].st = "in_flight" /\ \A p \in Procs : ~Runs(p, c)

(* A retryable row means that no reply was made; a row of uncertain        *)
(* outcome, and a process looking into one, mean that the only crash is    *)
(* spent; who is about to record that there was no effect is right.        *)
Once(t) ==
  /\ gh[t].replies <= 1
  /\ rows[ReplyOf(t)].st \in {"none", "planned", "failed"} => gh[t].replies = 0
  /\ rows[ReplyOf(t)].st = "unknown" \/ Orphan(ReplyOf(t)) => crashes >= 1
  /\ \A p \in Procs : pc[p] \in Looking /\ job[p].thread = t
       => crashes >= 1 /\ ~Orphan(ReplyOf(t))
  /\ \A p \in Procs : pc[p] = "no_effect" /\ job[p].thread = t /\ rows[ReplyOf(t)].st = "unknown"
       => gh[t].replies = 0
  /\ \A p \in Procs : pc[p] \in {"call", "fail"} /\ Cmd(p) = ReplyOf(t) => gh[t].replies = 0

OnceInv == \A t \in Threads : Once(t)

(* Only one process moves. *)
Alone(p) == \A q \in Procs \ {p} : pc'[q] = pc[q] /\ job'[q] = job[q]

(* A process that starts looking, or goes on, has a reason to. *)
LooksRight(p, t) ==
  pc'[p] \in Looking /\ job'[p].thread = t =>
    /\ crashes >= 1 /\ ~Orphan(ReplyOf(t))
    /\ pc'[p] = "no_effect" => gh[t].replies = 0

(* Moves that do not concern the reply of a thread. *)
LEMMA OnceKept ==
  ASSUME TypeOK, NEW p \in Procs, NEW t \in Threads, Once(t), Alone(p),
         rows'[ReplyOf(t)] = rows[ReplyOf(t)], gh'[t].replies = gh[t].replies, crashes' = crashes,
         ~Runs(p, ReplyOf(t)), ~Runs(p, ReplyOf(t))', LooksRight(p, t)
  PROVE  Once(t)'
<1>1. ASSUME NEW q \in Procs PROVE Runs(q, ReplyOf(t))' <=> Runs(q, ReplyOf(t))
  BY DEF Alone, Runs, Cmd, ReplyOf
<1>2. Orphan(ReplyOf(t))' <=> Orphan(ReplyOf(t)) BY <1>1 DEF Orphan, ReplyOf
<1>3. ASSUME NEW q \in Procs, pc'[q] \in Looking, job'[q].thread = t
      PROVE  /\ crashes >= 1 /\ ~Orphan(ReplyOf(t))
             /\ pc'[q] = "no_effect" /\ rows[ReplyOf(t)].st = "unknown" => gh[t].replies = 0
  BY <1>3 DEF Once, Alone, LooksRight
<1>4. ASSUME NEW q \in Procs, pc'[q] \in {"call", "fail"}, Cmd(q)' = ReplyOf(t)
      PROVE  gh[t].replies = 0
  <2>1. Runs(q, ReplyOf(t))' BY <1>4 DEF Runs, Running, ReplyOf
  <2>2. q # p BY <2>1
  <2>3. pc[q] \in {"call", "fail"} /\ Cmd(q) = ReplyOf(t) BY <1>4, <2>2 DEF Alone, Cmd
  <2> QED BY <2>3 DEF Once
<1>5. "no_effect" \in Looking BY DEF Looking
<1> QED BY <1>2, <1>3, <1>4, <1>5 DEF Once, ReplyOf

(* Every way of going on moves one process only. *)
LEMMA GotoAlone ==
  ASSUME TypeOK, NEW p \in Procs, NEW step, NEW j, Goto(p, step, j)
  PROVE  Alone(p) /\ pc'[p] = step /\ job'[p] = j
BY DEF Goto, Alone, TypeOK

(* A process that ends, reruns or saves neither runs nor looks. *)
LEMMA EndAlone ==
  ASSUME TypeOK, NEW p \in Procs,
         \/ Done(p) \/ Retry(p) \/ SaveSession(p) \/ Goto(p, "recover", IdleJob)
         \/ ToResolve(p) \/ FinishThread(p) \/ NextPlan(p, job[p]) \/ SideEffectState(p)
  PROVE  Alone(p) /\ pc'[p] \notin Running \cup Looking
<1> DEFINE Quiet == {"idle", "recover", "resolve", "save", "reply"}
<1>1. ASSUME NEW step \in Quiet, NEW j, Goto(p, step, j)
      PROVE  Alone(p) /\ pc'[p] \notin Running \cup Looking
  BY <1>1, GotoAlone DEF Running, Looking
<1>2. ASSUME NEW j, NextPlan(p, j) PROVE Alone(p) /\ pc'[p] \notin Running \cup Looking
  BY <1>1, <1>2 DEF NextPlan
<1> HIDE DEF Quiet
<1>3. {"idle", "recover", "resolve", "save", "reply"} \subseteq Quiet BY DEF Quiet
<1> QED BY <1>1, <1>2, <1>3 DEF Done, Retry, SaveSession, ToResolve, FinishThread, SideEffectState

(* So it disturbs no reply, when it did not run before. *)
LEMMA QuietOnce ==
  ASSUME TypeOK, OnceInv, NEW p \in Procs, Alone(p), pc'[p] \notin Running \cup Looking,
         pc[p] \notin Running, UNCHANGED <<rows, crashes>>,
         \A t \in Threads : gh'[t].replies = gh[t].replies
  PROVE  OnceInv'
<1> SUFFICES ASSUME NEW t \in Threads PROVE Once(t)' BY DEF OnceInv
<1>1. ~Runs(p, ReplyOf(t)) /\ ~Runs(p, ReplyOf(t))' /\ LooksRight(p, t)
  BY DEF Runs, LooksRight
<1> QED BY <1>1, OnceKept DEF OnceInv, ReplyOf

(* A result is recorded by the executor of the row, or for a row of        *)
(* uncertain outcome, which nobody runs.                                   *)
LEMMA RecordOnce ==
  ASSUME TypeOK, GuardInv, OnceInv, NEW p \in Procs, NEW status \in {"succeeded", "failed"},
         \/ lock[Cmd(p)] = p /\ pc[p] \in Running
         \/ MayRecord(Cmd(p), 0) /\ pc[p] \notin Running,
         SetRow(Cmd(p), status, 0), Alone(p), pc'[p] \notin Running \cup Looking,
         gh' = gh, crashes' = crashes,
         status = "failed" /\ job[p].effect = "reply" => gh[job[p].thread].replies = 0
  PROVE  OnceInv'
<1> SUFFICES ASSUME NEW t \in Threads PROVE Once(t)' BY DEF OnceInv
<1> DEFINE c == ReplyOf(t)
<1>1. Once(t) BY DEF OnceInv
<1>2. c \in Cmds /\ Cmd(p) \in Cmds BY CmdType DEF ReplyOf, Cmds, Effects
<1>3. CASE Cmd(p) # c
  <2>1. rows'[c] = rows[c] BY <1>2, <1>3 DEF SetRow, TypeOK
  <2>2. ~Runs(p, c) /\ ~Runs(p, c)' /\ LooksRight(p, t) BY <1>3 DEF Runs, LooksRight
  <2> QED BY <1>1, <2>1, <2>2, OnceKept
<1>4. CASE Cmd(p) = c
  <2>1. rows'[c].st = status BY <1>2, <1>4 DEF SetRow, TypeOK, Row
  <2>2. status = "failed" => gh[t].replies = 0 BY <1>4 DEF Cmd, ReplyOf
  <2>3. \A q \in Procs \ {p} : ~Runs(q, c)
    BY <1>2, <1>4, HolderRunsAlone, NobodyRunsUnknown DEF Runs
  <2>4. \A q \in Procs : ~Runs(q, c)' BY <2>3 DEF Alone, Runs, Cmd, ReplyOf
  <2>5. ~Orphan(c)' BY <2>1 DEF Orphan, ReplyOf
  <2>6. ASSUME NEW q \in Procs, pc'[q] \in Looking, job'[q].thread = t PROVE crashes' >= 1
    BY <1>1, <2>6 DEF Alone, Once
  <2>7. \A q \in Procs : ~(pc'[q] \in {"call", "fail"} /\ Cmd(q)' = c)
    BY <2>4 DEF Runs, Running, ReplyOf
  <2> QED BY <1>1, <2>1, <2>2, <2>5, <2>6, <2>7 DEF Once, ReplyOf
<1> QED BY <1>3, <1>4

(* A recovery gives up orphans only. *)
LEMMA DemoteOnce ==
  ASSUME TypeOK, GuardInv, OnceInv, NEW p \in Procs, Demote(p)
  PROVE  OnceInv'
<1> SUFFICES ASSUME NEW t \in Threads PROVE Once(t)' BY DEF OnceInv
<1> DEFINE c == ReplyOf(t)
           j == [job[p] EXCEPT !.dead = {}]
<1>1. Once(t) BY DEF OnceInv
<1>2. c \in Cmds /\ job[p].back \in {"load", "reply", "resolve"}
  BY CmdType DEF ReplyOf, Cmds, Effects, Job
<1>3. pc[p] = "demote" /\ Goto(p, job[p].back, j) BY DEF Demote
<1> HIDE DEF j
<1>4. Alone(p) /\ pc'[p] = job[p].back BY <1>3, GotoAlone
<1>5. ~Runs(p, c) /\ ~Runs(p, c)' /\ LooksRight(p, t)
  BY <1>2, <1>3, <1>4 DEF Runs, Running, LooksRight, Looking
<1>6. CASE c \notin Demotable(p)
  <2>1. rows'[c] = rows[c] BY <1>2, <1>6 DEF Demote
  <2>2. gh' = gh /\ crashes' = crashes BY DEF Demote, counters
  <2> QED BY <1>1, <1>4, <1>5, <2>1, <2>2, OnceKept
<1>7. CASE c \in Demotable(p)
  <2>1. rows[c].st = "in_flight" /\ \A q \in Procs : ~Runs(q, c)
    BY <1>7 DEF Demotable, GuardInv, Runs
  <2>2. Orphan(c) BY <2>1 DEF Orphan
  <2>3. rows'[c].st = "unknown" BY <1>2, <1>7 DEF Demote, TypeOK, Row
  <2>4. \A q \in Procs : ~Runs(q, c)' BY <1>5, <2>1, <1>4 DEF Alone, Runs, Cmd, ReplyOf
  <2>5. ASSUME NEW q \in Procs PROVE ~(pc'[q] \in Looking /\ job'[q].thread = t)
    BY <1>1, <1>2, <1>4, <2>2 DEF Alone, Once, Looking
  <2>6. \A q \in Procs : ~(pc'[q] \in {"call", "fail"} /\ Cmd(q)' = c)
    BY <2>4 DEF Runs, Running, ReplyOf
  <2>7. UNCHANGED <<gh, crashes>> BY DEF Demote, counters
  <2>8. "no_effect" \in Looking BY DEF Looking
  <2> QED BY <1>1, <2>2, <2>3, <2>5, <2>6, <2>7, <2>8 DEF Once, ReplyOf
<1> QED BY <1>6, <1>7

(* An attempt begins on a row that means that no reply was made. *)
LEMMA BeginOnce ==
  ASSUME TypeOK, GuardInv, OnceInv, NEW p \in Procs, BeginAttempt(p)
  PROVE  OnceInv'
<1>1. pc[p] = "begin" /\ UNCHANGED <<gh, crashes>> BY DEF BeginAttempt, counters
<1>2. CASE ~MayBegin(Cmd(p))
  <2>1. Done(p) /\ rows' = rows BY <1>2 DEF BeginAttempt
  <2> QED BY <1>1, <2>1, EndAlone, QuietOnce DEF Running
<1>3. CASE MayBegin(Cmd(p))
  <2> SUFFICES ASSUME NEW t \in Threads PROVE Once(t)' BY DEF OnceInv
  <2> DEFINE c == ReplyOf(t)
             n == rows[Cmd(p)].attempts + 1
             j == [job[p] EXCEPT !.token = n]
  <2>1. Once(t) /\ c \in Cmds /\ Cmd(p) \in Cmds
    BY CmdType DEF OnceInv, ReplyOf, Cmds, Effects
  <2>2. Goto(p, "call", j) BY <1>3 DEF BeginAttempt
  <2>3. j.thread = job[p].thread /\ j.effect = job[p].effect BY CmdType DEF Job
  <2> HIDE DEF j
  <2>4. Alone(p) /\ pc'[p] = "call" /\ Cmd(p)' = Cmd(p) BY <2>2, <2>3, GotoAlone DEF Cmd
  <2>5. "call" \notin Looking /\ "call" \in Running /\ "begin" \notin Running
    BY DEF Looking, Running
  <2>6. CASE Cmd(p) # c
    <3>1. rows'[c] = rows[c] BY <1>3, <2>1, <2>6 DEF BeginAttempt, TypeOK
    <3>2. ~Runs(p, c) /\ ~Runs(p, c)' /\ LooksRight(p, t)
      BY <2>4, <2>5, <2>6 DEF Runs, LooksRight, ReplyOf
    <3> QED BY <1>1, <2>1, <2>4, <3>1, <3>2, OnceKept
  <2>7. CASE Cmd(p) = c
    <3>1. rows'[c].st = "in_flight" BY <1>3, <2>1, <2>7 DEF BeginAttempt, TypeOK
    <3>2. c[2] = "reply" BY DEF ReplyOf
    <3>3. gh[t].replies = 0 BY <1>3, <2>1, <2>7, <3>2 DEF MayBegin, RetryBoundary, Once
    <3>4. ~Orphan(c)' BY <2>4, <2>5, <2>7 DEF Orphan, Runs, ReplyOf
    <3>5. ASSUME NEW q \in Procs, pc'[q] \in Looking, job'[q].thread = t PROVE crashes >= 1
      BY <2>1, <2>4, <2>5, <3>5 DEF Alone, Once
    <3> QED BY <1>1, <3>1, <3>3, <3>4, <3>5 DEF Once, ReplyOf
  <2> QED BY <2>6, <2>7
<1> QED BY <1>2, <1>3

(* The one reply of a running attempt. *)
LEMMA CallOnce ==
  ASSUME ~LostResponses, TypeOK, GuardInv, OnceInv, NEW p \in Procs, Call(p)
  PROVE  OnceInv'
<1> SUFFICES ASSUME NEW t \in Threads PROVE Once(t)' BY DEF OnceInv
<1> DEFINE c == ReplyOf(t)
<1>1. Once(t) /\ c \in Cmds /\ Cmd(p) \in Cmds
  BY CmdType DEF OnceInv, ReplyOf, Cmds, Effects
<1>2. PICK step \in {"succeed", "fail"} :
        /\ Goto(p, step, job[p])
        /\ step = "succeed" => gh' = Applied(p)
        /\ step = "fail" => gh' = gh
  BY DEF Call
<1>3. pc[p] = "call" /\ UNCHANGED <<rows, crashes>> BY DEF Call, counters
<1>4. Alone(p) /\ pc'[p] = step /\ Cmd(p)' = Cmd(p) BY <1>2, GotoAlone DEF Cmd
<1>5. step \in Running /\ step \notin Looking /\ "call" \in Running /\ "call" \in Guarded
  BY DEF Running, Looking, Guarded
<1>6. job[p].thread \in Threads /\ Cmd(p) = <<job[p].thread, job[p].effect>>
  BY CmdType DEF Job, Cmd
<1>7. CASE Cmd(p) # c
  <2>1. gh'[t].replies = gh[t].replies
    <3>1. ASSUME gh' = Applied(p), job[p].effect = "reply" PROVE gh'[t] = gh[t]
      <4>1. job[p].thread # t BY <1>6, <1>7, <3>1 DEF ReplyOf
      <4> QED BY <3>1, <4>1 DEF Applied, TypeOK
    <3>2. ASSUME gh' = Applied(p), job[p].effect # "reply" PROVE gh'[t].replies = gh[t].replies
      <4>1. gh' = [gh EXCEPT ![job[p].thread] = [@ EXCEPT !.resolved = TRUE]]
        BY <3>2 DEF Applied
      <4> QED BY <4>1 DEF TypeOK
    <3> QED BY <1>2, <3>1, <3>2
  <2>2. ~Runs(p, c) /\ ~Runs(p, c)' /\ LooksRight(p, t)
    BY <1>4, <1>5, <1>7 DEF Runs, LooksRight, ReplyOf
  <2> QED BY <1>1, <1>3, <1>4, <2>1, <2>2, OnceKept
<1>8. CASE Cmd(p) = c
  <2>1. gh[t].replies = 0 BY <1>1, <1>3, <1>8 DEF Once
  <2>2. rows[c].st = "in_flight" /\ \A q \in Procs \ {p} : ~Runs(q, c)
    BY <1>3, <1>5, <1>8, HolderRunsAlone DEF GuardInv, Runs
  <2>3. ~Orphan(c)' BY <1>4, <1>5, <1>8 DEF Orphan, Runs, ReplyOf
  <2>4. gh'[t].replies <= 1 /\ (step = "fail" => gh'[t].replies = 0)
    <3>1. CASE step = "fail" BY <1>2, <2>1, <3>1
    <3>2. CASE step = "succeed"
      <4>1. job[p].effect = "reply" /\ job[p].thread = t BY <1>6, <1>8 DEF ReplyOf
      <4>2. gh' = [gh EXCEPT ![t] = [replies |-> @.replies + 1, latest |-> TRUE,
                                     resolved |-> @.resolved]]
        BY <1>2, <3>2, <4>1 DEF Applied
      <4>3. gh'[t].replies = gh[t].replies + 1 BY <4>2 DEF TypeOK
      <4> QED BY <2>1, <3>2, <4>3
    <3> QED BY <3>1, <3>2
  <2>5. ASSUME NEW q \in Procs, pc'[q] \in Looking, job'[q].thread = t PROVE crashes >= 1
    BY <1>1, <1>4, <1>5, <2>5 DEF Alone, Once
  <2>6. ASSUME NEW q \in Procs, pc'[q] \in {"call", "fail"}, Cmd(q)' = c PROVE step = "fail"
    <3>1. CASE q = p BY <1>4, <2>6, <3>1
    <3>2. CASE q # p
      <4>1. pc[q] \in {"call", "fail"} /\ Cmd(q) = c
        BY <1>4, <2>6, <3>2 DEF Alone, Cmd, ReplyOf
      <4> QED BY <2>2, <3>2, <4>1 DEF Runs, Running
    <3> QED BY <3>1, <3>2
  <2> QED BY <1>3, <2>2, <2>3, <2>4, <2>5, <2>6 DEF Once, ReplyOf
<1> QED BY <1>7, <1>8

(* Steps of a publish, when an error means that GitHub did nothing. *)
LEMMA PublishStepOnce ==
  ASSUME ~LostResponses, TypeOK, RealInv, GuardInv, OnceInv, NEW p \in Procs, PublishStep(p)
  PROVE  OnceInv'
<1> job[p] \in Job /\ Cmd(p) \in Cmds BY CmdType
<1> Cmd(p) = <<job[p].thread, job[p].effect>> BY DEF Cmd
<1>a. JobReal(pc[p], job[p], Replied, Resolved) BY DEF RealInv, JobsReal
<1>b. ASSUME UNCHANGED <<rows, gh, crashes>>, pc[p] \notin Running, Alone(p),
             pc'[p] \notin Running \cup Looking
      PROVE  OnceInv'
  BY <1>b, QuietOnce
<1>c. ASSUME UNCHANGED <<rows, gh, crashes>>, pc[p] \notin Running,
             NEW step, step \notin Running \cup Looking, NEW j, Goto(p, step, j)
      PROVE  OnceInv'
  BY <1>b, <1>c, GotoAlone
<1>d. ASSUME UNCHANGED <<rows, gh, crashes>>, pc[p] \notin Running,
             NEW step \in Looking, Goto(p, step, job[p]),
             /\ crashes >= 1 /\ ~Orphan(ReplyOf(job[p].thread))
             /\ step = "no_effect" => gh[job[p].thread].replies = 0
      PROVE  OnceInv'
  <2> SUFFICES ASSUME NEW t \in Threads PROVE Once(t)' BY DEF OnceInv
  <2>1. Alone(p) /\ pc'[p] = step /\ job'[p] = job[p] BY <1>d, GotoAlone
  <2>2. ~Runs(p, ReplyOf(t)) /\ ~Runs(p, ReplyOf(t))'
    BY <1>d, <2>1 DEF Runs, Running, Looking
  <2>3. LooksRight(p, t) BY <1>d, <2>1 DEF LooksRight
  <2> QED BY <1>d, <2>1, <2>2, <2>3, OnceKept DEF OnceInv, ReplyOf
<1>e. /\ {"recover", "demote", "load", "plan", "reply", "reconcile", "absent", "adopt",
           "no_effect", "blocked", "guard", "begin", "fail_save", "resolve", "save", "idle"}
         \cap Running = {}
      /\ {"recover", "demote", "load", "plan", "reply", "adopt", "blocked", "guard", "begin",
           "call", "succeed", "fail", "fail_save", "resolve", "save", "idle"} \cap Looking = {}
  BY DEF Running, Looking
<1>f. job[p].effect = "reply" => Cmd(p) = ReplyOf(job[p].thread) BY DEF ReplyOf
<1>g. Once(job[p].thread) BY DEF OnceInv, Job
<1>1. CASE Recover(p)
  <2>1. UNCHANGED <<rows, gh, crashes>> /\ pc[p] = "recover" BY <1>1 DEF Recover, counters
  <2>2. job[p].back \in {"load", "reply", "resolve"} BY DEF Job
  <2>3. PICK dead \in SUBSET DeadRows :
          Goto(p, IF dead = {} THEN job[p].back ELSE "demote", [job[p] EXCEPT !.dead = dead])
    BY <1>1 DEF Recover
  <2> DEFINE step == IF dead = {} THEN job[p].back ELSE "demote"
             j == [job[p] EXCEPT !.dead = dead]
  <2>4. Goto(p, step, j) BY <2>3
  <2>5. step \notin Running \cup Looking BY <1>e, <2>2
  <2> HIDE DEF step, j
  <2> QED BY <1>c, <1>e, <2>1, <2>4, <2>5
<1>2. CASE Demote(p) BY <1>2, DemoteOnce
<1>3. CASE LoadSession(p)
  <2>1. UNCHANGED <<rows, gh, crashes>> /\ pc[p] = "load" BY <1>3 DEF LoadSession, counters
  <2> DEFINE j == [job[p] EXCEPT !.todo = {t \in Threads : ~items[t].closed},
                                 !.replied = {t \in Threads : items[t].replied}]
  <2>2. Done(p) \/ Goto(p, "plan", j) BY <1>3 DEF LoadSession
  <2> HIDE DEF j
  <2> QED BY <1>b, <1>c, <1>e, <2>1, <2>2, EndAlone
<1>4. CASE Plan(p)
  <2>1. UNCHANGED <<rows, gh, crashes>> /\ pc[p] = "plan" BY <1>4 DEF Plan, counters
  <2> QED BY <1>b, <1>c, <1>e, <1>4, <2>1, EndAlone DEF Plan
<1>5. CASE ReplyState(p)
  <2>1. UNCHANGED <<rows, gh, crashes>> /\ pc[p] = "reply" BY <1>5 DEF ReplyState, counters
  <2>2. job[p].effect = "reply" BY <1>a, <2>1 DEF JobReal
  <2>3. CASE rows[Cmd(p)].st = "unknown" /\ Goto(p, "reconcile", job[p])
    <3>1. crashes >= 1 /\ ~Orphan(ReplyOf(job[p].thread))
      BY <1>f, <1>g, <2>2, <2>3 DEF Once, Orphan
    <3>2. "reconcile" \in Looking BY DEF Looking
    <3> QED BY <1>d, <1>e, <2>1, <2>3, <3>1, <3>2
  <2>4. CASE \/ SideEffectState(p) \/ ToResolve(p) \/ Done(p)
    BY <1>b, <1>e, <2>1, <2>4, EndAlone
  <2>5. CASE Goto(p, "guard", job[p]) BY <1>c, <1>e, <2>1, <2>5
  <2> QED BY <1>5, <2>3, <2>4, <2>5 DEF ReplyState
<1>6. CASE ReconcileInFlightReply(p)
  <2>1. UNCHANGED <<rows, gh, crashes>> /\ pc[p] = "reconcile"
    BY <1>6 DEF ReconcileInFlightReply, counters
  <2>2. crashes >= 1 /\ ~Orphan(ReplyOf(job[p].thread)) BY <1>g, <2>1 DEF Once, Looking
  <2>3. "absent" \in Looking BY DEF Looking
  <2> QED BY <1>c, <1>d, <1>e, <1>6, <2>1, <2>2, <2>3 DEF ReconcileInFlightReply
<1>7. CASE PublisherNeverReplied(p)
  <2>1. UNCHANGED <<rows, gh, crashes>> /\ pc[p] = "absent"
    BY <1>7 DEF PublisherNeverReplied, counters
  <2>2. crashes >= 1 /\ ~Orphan(ReplyOf(job[p].thread)) BY <1>g, <2>1 DEF Once, Looking
  <2>3. "no_effect" \in Looking BY DEF Looking
  <2> QED BY <1>c, <1>d, <1>e, <1>7, <2>1, <2>2, <2>3 DEF PublisherNeverReplied, NeverReplied
<1>8. CASE AdoptReply(p)
  <2>1. gh' = gh /\ crashes' = crashes /\ pc[p] \notin Running
    BY <1>8, <1>e DEF AdoptReply, counters
  <2>2. Alone(p) /\ pc'[p] \notin Running \cup Looking BY <1>8, EndAlone DEF AdoptReply
  <2> QED BY <1>b, <1>8, <2>1, <2>2, RecordOnce DEF AdoptReply
<1>9. CASE ReconcileNoEffect(p)
  <2>1. gh' = gh /\ crashes' = crashes /\ pc[p] = "no_effect" /\ pc[p] \notin Running
    BY <1>9, <1>e DEF ReconcileNoEffect, counters
  <2>2. Alone(p) /\ pc'[p] \notin Running \cup Looking
    BY <1>9, <1>e, GotoAlone, EndAlone DEF ReconcileNoEffect
  <2>3. job[p].effect = "reply" BY <1>a, <2>1 DEF JobReal
  <2>4. MayRecord(Cmd(p), 0) => gh[job[p].thread].replies = 0
    BY <1>f, <1>g, <2>1, <2>3 DEF MayRecord, Once
  <2> QED BY <1>b, <1>9, <2>1, <2>2, <2>4, RecordOnce DEF ReconcileNoEffect
<1>10. CASE Blocked(p) \/ Save(p) \/ FailSave(p)
  <2>1. UNCHANGED <<rows, gh, crashes>> /\ pc[p] \notin Running /\ SaveSession(p)
    BY <1>e, <1>10 DEF Blocked, Save, FailSave, counters
  <2> QED BY <1>b, <2>1, EndAlone
<1>11. CASE Guard(p)
  <2>1. UNCHANGED <<rows, gh, crashes>> /\ pc[p] = "guard" BY <1>11 DEF Guard, counters
  <2> QED BY <1>b, <1>c, <1>e, <1>11, <2>1, EndAlone DEF Guard
<1>12. CASE PlanCommand(p)
  <2>1. pc[p] = "begin" /\ gh' = gh /\ crashes' = crashes BY <1>12 DEF PlanCommand, counters
  <2>2. CASE SetRow(Cmd(p), "planned", 0) /\ UNCHANGED <<pc, job>>
    <3> SUFFICES ASSUME NEW t \in Threads PROVE Once(t)' BY DEF OnceInv
    <3>1. Alone(p) BY <2>2 DEF Alone
    <3>2. \A q \in Procs, c \in Cmds : Runs(q, c)' <=> Runs(q, c) BY <2>2 DEF Runs, Cmd
    <3>3. /\ rows[Cmd(p)].st = "none" /\ rows'[Cmd(p)].st = "planned"
          /\ \A c \in Cmds : c # Cmd(p) => rows'[c] = rows[c]
      BY <1>12, <2>2 DEF PlanCommand, SetRow, TypeOK, Row
    <3>4. ReplyOf(t) \in Cmds /\ Once(t) BY DEF ReplyOf, Cmds, Effects, OnceInv
    <3>5. Orphan(ReplyOf(t))' => Orphan(ReplyOf(t)) BY <3>2, <3>3, <3>4 DEF Orphan, ReplyOf
    <3> QED BY <2>1, <2>2, <3>3, <3>4, <3>5 DEF Once, ReplyOf, Cmd
  <2> QED BY <1>b, <1>e, <1>12, <2>1, <2>2, EndAlone DEF PlanCommand
<1>13. CASE BeginAttempt(p) BY <1>13, BeginOnce
<1>14. CASE Call(p) BY <1>14, CallOnce
<1>15. CASE FinishSucceeded(p)
  <2>1. pc[p] = "succeed" /\ gh' = gh /\ crashes' = crashes
    BY <1>15 DEF FinishSucceeded, counters
  <2>2. MayRecord(Cmd(p), job[p].token) /\ lock[Cmd(p)] = p /\ pc[p] \in Running
    BY <2>1 DEF GuardInv, MayRecord, Running, Guarded
  <2>3. Alone(p) /\ pc'[p] \notin Running \cup Looking BY <1>15, EndAlone DEF FinishSucceeded
  <2> QED BY <1>15, <2>1, <2>2, <2>3, RecordOnce DEF FinishSucceeded
<1>16. CASE FinishFailed(p)
  <2>1. pc[p] = "fail" /\ gh' = gh /\ crashes' = crashes BY <1>16 DEF FinishFailed, counters
  <2>2. MayRecord(Cmd(p), job[p].token) /\ lock[Cmd(p)] = p /\ pc[p] \in Running
    BY <2>1 DEF GuardInv, MayRecord, Running, Guarded
  <2>3. Alone(p) /\ pc'[p] \notin Running \cup Looking
    BY <1>e, <1>16, <2>2, GotoAlone DEF FinishFailed
  <2>4. job[p].effect = "reply" => gh[job[p].thread].replies = 0
    BY <1>f, <1>g, <2>1 DEF Once
  <2> QED BY <1>16, <2>1, <2>2, <2>3, <2>4, RecordOnce DEF FinishFailed
<1>17. CASE ResolveState(p)
  <2>1. UNCHANGED <<rows, gh, crashes>> /\ pc[p] = "resolve" BY <1>17 DEF ResolveState, counters
  <2> QED BY <1>b, <1>c, <1>e, <1>17, <2>1, EndAlone DEF ResolveState
<1> QED BY <1>1, <1>2, <1>3, <1>4, <1>5, <1>6, <1>7, <1>8, <1>9, <1>10, <1>11, <1>12, <1>13,
           <1>14, <1>15, <1>16, <1>17 DEF PublishStep

(* Every step, when at most one process dies. *)
LEMMA OnceStep ==
  ASSUME ~LostResponses, MaxCrash <= 1, TypeOK, RealInv, GuardInv, OnceInv, [Next]_vars
  PROVE  OnceInv'
<1>1. ASSUME NEW p \in Procs, PublishStep(p) PROVE OnceInv' BY <1>1, PublishStepOnce
<1>2. ASSUME NEW p \in Procs, PublishCommand(p) PROVE OnceInv'
  <2>1. pc[p] = "idle" /\ UNCHANGED <<rows, gh, crashes>> BY <1>2 DEF PublishCommand
  <2>2. Alone(p) /\ pc'[p] \notin Running \cup Looking BY <1>2, EndAlone DEF PublishCommand
  <2> QED BY <2>1, <2>2, QuietOnce DEF Running
<1>3. ASSUME NEW p \in Procs, Crash(p) PROVE OnceInv'
  <2> SUFFICES ASSUME NEW t \in Threads PROVE Once(t)' BY DEF OnceInv
  <2>1. Once(t) BY DEF OnceInv
  <2>2. crashes = 0 /\ crashes' = 1 BY <1>3, LimitsAssumption DEF Crash, TypeOK
  <2>3. Goto(p, "idle", IdleJob) /\ UNCHANGED <<rows, gh>> BY <1>3 DEF Crash, Done
  <2>4. Alone(p) /\ pc'[p] = "idle" BY <2>3, GotoAlone
  <2>5. \A q \in Procs : ~(pc'[q] \in Looking /\ job'[q].thread = t)
    BY <2>1, <2>2, <2>4 DEF Alone, Once, Looking
  <2>6. ASSUME NEW q \in Procs, pc'[q] \in {"call", "fail"}, Cmd(q)' = ReplyOf(t)
        PROVE  gh[t].replies = 0
    BY <2>1, <2>4, <2>6 DEF Alone, Once, Cmd, ReplyOf
  <2>7. "no_effect" \in Looking BY DEF Looking
  <2> QED BY <2>1, <2>2, <2>3, <2>5, <2>6, <2>7 DEF Once, ReplyOf
<1>4. ASSUME UNCHANGED <<rows, pc, job, crashes>>,
             \A t \in Threads : gh'[t].replies = gh[t].replies
      PROVE  OnceInv'
  BY <1>4 DEF OnceInv, Once, Orphan, Runs, Cmd, ReplyOf
<1>5. ASSUME NEW t \in Threads, Comment(t) PROVE OnceInv'
  <2>1. \A u \in Threads : gh'[u].replies = gh[u].replies BY <1>5 DEF Comment, TypeOK
  <2> QED BY <1>4, <1>5, <2>1 DEF Comment, counters
<1>6. CASE ForeignCommit \/ UNCHANGED vars BY <1>4, <1>6 DEF ForeignCommit, vars, counters
<1> QED BY <1>1, <1>2, <1>3, <1>5, <1>6 DEF Next

(* No thread gets two replies from the publisher: an interrupted reply is  *)
(* reconciled, never blindly retried (retry_boundary_for,                  *)
(* _reconcile_in_flight_reply, _publisher_never_replied).  This is what    *)
(* the outbox promises of one fault: of answers that are not lost and of   *)
(* one process that dies anywhere.                                         *)
THEOREM OneReplyPerFault ==
  ASSUME ~LostResponses, MaxCrash <= 1
  PROVE  Spec => []AtMostOneReply
<1>1. Init => OnceInv
  <2> SUFFICES ASSUME Init, NEW t \in Threads PROVE Once(t) BY DEF OnceInv
  <2>1. ReplyOf(t) \in Cmds BY DEF ReplyOf, Cmds, Effects
  <2> QED BY <2>1 DEF Init, Once, Orphan, Looking
<1>2. TypeOK /\ RealInv /\ GuardInv /\ OnceInv /\ [Next]_vars => OnceInv' BY OnceStep
<1>3. OnceInv => AtMostOneReply BY DEF OnceInv, Once, AtMostOneReply
<1> QED BY <1>1, <1>2, <1>3, PublisherTypeCorrect, RealInvariant, GuardInvariant, PTL DEF Spec
=============================================================================
