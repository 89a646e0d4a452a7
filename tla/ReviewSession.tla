---------------------------- MODULE ReviewSession ----------------------------
(***************************************************************************)
(* A review from the first refresh to the archive: the remote threads and  *)
(* the session's items (core/gate.py), the commands that load, compute and *)
(* save the session (commands/high_level.py, the final gate of             *)
(* commands/final_gate.py, the evidence commands of core/workflow.py), the *)
(* ones that answer an item (agent resolve, decline, --closed), agent      *)
(* publish, and the archive that ends it.                                  *)
(*                                                                         *)
(* Commands run as processes on one store.  A command of the first kind    *)
(* saves under the revision it loaded; a transaction acts on the committed *)
(* session.  What this module keeps atomic is taken apart elsewhere: an    *)
(* effect on GitHub and its outbox row in Publisher, a lease's life in     *)
(* AgentProtocol, commit and rendering in WorkspaceStore.                  *)
(***************************************************************************)
EXTENDS Naturals, FiniteSets, Sequences

CONSTANTS
  Threads,    \* review threads of the pull request
  Findings,   \* local findings
  Procs,      \* operating-system processes running commands
  Agent,      \* the process that follows the next_action it is given
  Nobody,     \* no process
  Attempts,   \* STALE_REVISION_ATTEMPTS
  Commands,   \* commands the other processes run
  Events,     \* what people do on GitHub, a subset of {"comment", "resolve", "reopen", "outdate"}
  Waits,      \* what only people can settle, a subset of {"pending", "checks"}
  MaxRuns,    \* bound: commands of the other processes
  MaxEvents,  \* bound: things people do on GitHub
  MaxFaults,  \* bound: crashes and failed GitHub calls
  AutoClean   \* whether a passed gate archives the workspace

ASSUME ReviewAssumption ==
  /\ Agent \in Procs /\ Nobody \notin Procs
  /\ Threads \cap Findings = {}
  /\ Attempts \in Nat \ {0} /\ MaxRuns \in Nat /\ MaxEvents \in Nat /\ MaxFaults \in Nat
  /\ AutoClean \in BOOLEAN
  /\ Events \subseteq {"comment", "resolve", "reopen", "outdate"}
  /\ Waits \subseteq {"pending", "checks"}

VARIABLES
  remote,    \* GitHub: the threads
  external,  \* the pending review, the red check that people have not settled yet
  live,      \* whether the workspace exists
  items,     \* committed session items
  rows,      \* outbox: effects not started, tried, recorded as succeeded
  fresh,     \* processes holding a loaded revision that is still the latest
  pc,        \* where each process is
  job,       \* its local variables
  plan,      \* commands the agent was told to run
  spent      \* runs, events and faults so far

vars == <<remote, external, live, items, rows, fresh, pc, job, plan, spent>>
outside == <<remote, external>>
store == <<live, items, rows, fresh>>

Items == Threads \cup Findings
Answers == {"fix", "unproven", "explain"}   \* an unproven fix cites a validation that failed

(* replied: the viewer has commented after the first comment; posted: how  *)
(* many of those comments the runtime posted.                              *)
Row == [st : {"none", "open", "resolved"}, outdated : BOOLEAN, replied : BOOLEAN, posted : 0..2]

(* decision: the classification; accepted: the accepted response; reply,   *)
(* valid: reply and validation evidence of the item; resolved: the thread  *)
(* was resolved by a publish; holder: who holds the active lease.          *)
Item == [state : {"absent", "open", "stale", "claimed", "publish_ready", "answered", "closed"},
         decision : {"none", "fix", "explain"}, accepted : {"none"} \cup Answers,
         reply : BOOLEAN, valid : BOOLEAN, resolved : BOOLEAN, holder : Procs \cup {Nobody}]

NewItem == [state |-> "absent", decision |-> "none", accepted |-> "none", reply |-> FALSE,
            valid |-> FALSE, resolved |-> FALSE, holder |-> Nobody]

Codes == {"threads", "reply", "pending", "items", "local", "validation", "logic", "checks"}
AllCommands == {"address", "gate", "resolve", "closed", "publish", "reply_evidence",
                "validation", "findings", "local"}
Steps == {"idle", "save", "classify", "issue", "claim", "accept", "publish", "reply", "resolve",
          "publish_save", "passed"}

Decision(answer) == IF answer = "explain" THEN "explain" ELSE "fix"

-----------------------------------------------------------------------------
(* Items and threads *)

(* Mutant: an outdated thread cannot be claimed. *)
ClaimableOpen == {"open"}

(* ACTIONABLE_STATES *)
Claimable == {"open", "stale"}

(* Mutant: the item takes GitHub's own status. *)
MergedStateCopied(item, row) == IF item.accepted = "none" THEN row.st ELSE "publish_ready"

(* _determine_merged_thread_state *)
MergedState(item, row) ==
  CASE row.st = "resolved" -> "closed"
    [] row.st # "resolved" /\ item.accepted # "none" -> "publish_ready"
    [] row.st # "resolved" /\ item.accepted = "none" /\ row.outdated -> "stale"
    [] OTHER -> "open"

(* Mutant: whoever resolved the thread counts as having replied. *)
MergeResolvedReplied(loaded, read) ==
  [i \in Items |->
     IF i \in Threads /\ read[i].st # "none"
     THEN [loaded[i] EXCEPT !.state = MergedState(loaded[i], read[i]),
                            !.reply = @ \/ read[i].replied \/ read[i].st = "resolved"]
     ELSE loaded[i]]

(* session_with_remote_threads: every thread that was read, the others and *)
(* the local findings stay.                                                *)
Merge(loaded, read) ==
  [i \in Items |->
     IF i \in Threads /\ read[i].st # "none"
     THEN [loaded[i] EXCEPT !.state = MergedState(loaded[i], read[i]),
                            !.reply = @ \/ read[i].replied]
     ELSE loaded[i]]

IsBlocking(i, its) ==
  IF i \in Threads THEN its[i].state \notin {"absent", "closed"}
  ELSE its[i].state \in {"open", "claimed"}

(* A thread's answer calls for validation when it is a fix, accepted or    *)
(* classified; a finding's when its state is a terminal one, which a       *)
(* clarification ("answered") is not.                                      *)
RequiresValidation(i, its) ==
  /\ its[i].state = "closed"
  /\ i \in Threads => IF its[i].accepted # "none" THEN its[i].accepted # "explain"
                      ELSE its[i].decision = "fix"
HasValidation(i, its) == its[i].valid \/ its[i].accepted = "fix"
Unproven(i, its) == RequiresValidation(i, its) /\ ~HasValidation(i, its)

(* Mutant: a thread without reply evidence passes. *)
GateCodesNoReply(its, read, ext) ==
  {c \in Codes :
     \/ c = "threads" /\ \E t \in Threads : read[t].st = "open"
     \/ c = "items" /\ \E t \in Threads : IsBlocking(t, its)
     \/ c = "local" /\ \E f \in Findings : IsBlocking(f, its)
     \/ c = "validation" /\ \E f \in Findings : Unproven(f, its)
     \/ c = "logic" /\ \E i \in Items : Unproven(i, its)
     \/ c \in ext}

(* evaluate_final_gate: why the gate fails (module FinalGate has the whole *)
(* policy).                                                                *)
GateCodes(its, read, ext) ==
  {c \in Codes :
     \/ c = "threads" /\ \E t \in Threads : read[t].st = "open"
     \/ c = "reply" /\ \E t \in Threads : /\ read[t].st = "resolved"
                                          /\ ~its[t].reply
     \/ c = "items" /\ \E t \in Threads : IsBlocking(t, its)
     \/ c = "local" /\ \E f \in Findings : IsBlocking(f, its)
     \/ c = "validation" /\ \E f \in Findings : Unproven(f, its)
     \/ c = "logic" /\ \E i \in Items : Unproven(i, its)
     \/ c \in ext}

(* FAILURE_ORDER *)
FailureOrder == <<"threads", "reply", "pending", "items", "local", "validation", "logic", "checks">>
Reason(codes) == FailureOrder[CHOOSE n \in 1..8 : /\ FailureOrder[n] \in codes
                                                  /\ \A m \in 1..(n - 1) : FailureOrder[m] \notin codes]

(* _next_action_with_pr and the recoveries it points to: what the agent    *)
(* runs before the gate again.                                             *)
NextAction(codes) ==
  CASE codes = {} -> <<>>
    [] codes # {} /\ Reason(codes) \in {"threads", "items"} -> <<"address", "resolve", "publish">>
    [] codes # {} /\ Reason(codes) = "reply" -> <<"closed">>
    [] codes # {} /\ Reason(codes) = "local" -> <<"local">>
    [] codes # {} /\ Reason(codes) \in {"validation", "logic"} -> <<"validation">>
    [] OTHER -> <<>>

-----------------------------------------------------------------------------
(* Processes *)

IdleJob == [cmd |-> "gate", item |-> CHOOSE i \in Items : TRUE, answer |-> "fix",
            its |-> [i \in Items |-> NewItem], read |-> [t \in Threads |-> "none"],
            codes |-> {}, todo |-> {}, tries |-> 0, new |-> FALSE]

Goto(p, step, j) == pc' = [pc EXCEPT ![p] = step] /\ job' = [job EXCEPT ![p] = j]
Done(p) == Goto(p, "idle", IdleJob)

(* A commit leaves only the sessions loaded after it up to date. *)
Commit(its) == items' = its /\ fresh' = {}
Change(i, r) == Commit([items EXCEPT ![i] = r])

(* record_reply_evidence, record_validation_evidence: the evidence goes to *)
(* the item.  A finding that is ingested is open.                          *)
RecordReplyEvidence(i) == [items EXCEPT ![i].reply = TRUE]
RecordValidationEvidence(i) == [items EXCEPT ![i].valid = TRUE]
IngestFinding(i) == [items EXCEPT ![i].state = "open"]

(* What a load-compute-save command does to the session it loaded. *)
Computed(p, cmd, i) ==
  CASE cmd \in {"address", "gate"} -> Merge(items, remote)
    [] cmd = "reply_evidence" -> RecordReplyEvidence(i)
    [] cmd = "validation" -> RecordValidationEvidence(i)
    [] cmd = "findings" -> IngestFinding(i)
    [] OTHER -> items

(* What the command's own checks ask of the session. *)
Applies(cmd, i) ==
  CASE cmd = "reply_evidence" -> i \in Threads /\ items[i].state # "absent"
    [] cmd = "validation" -> items[i].state = "closed"
    [] cmd = "findings" -> i \in Findings
    [] OTHER -> TRUE

(* record_reply_evidence takes the URL it is given: that there is such a   *)
(* reply is an assumption on who runs the command.                         *)
Truthful(cmd, i) == cmd = "reply_evidence" => remote[i].replied

LoadSaves == {"address", "gate", "reply_evidence", "validation", "findings"}

(* Load and GitHub reads; the reads may move before the load, so the two   *)
(* are one step.  A missing session is created by address, gate and        *)
(* findings only.                                                          *)
LoadCompute(p, cmd, i, tries) ==
  LET its == Computed(p, cmd, i)
  IN  /\ Goto(p, "save", [IdleJob EXCEPT !.cmd = cmd, !.item = i, !.its = its, !.tries = tries,
                            !.new = ~live,
                            !.codes = IF cmd = "gate" THEN GateCodes(its, remote, external) ELSE {},
                            !.read = IF cmd = "gate" THEN [t \in Threads |-> remote[t].st]
                                     ELSE [t \in Threads |-> "none"]])
      /\ fresh' = fresh \cup {p}

(* Whether the process may start a command: the agent runs its plan, and   *)
(* the gate when the plan is done.                                         *)
Asked(p, cmd) ==
  IF p = Agent THEN cmd = (IF plan = <<>> THEN "gate" ELSE Head(plan))
  ELSE cmd \in Commands /\ spent.runs < MaxRuns

Started(p) ==
  IF p = Agent THEN plan' = (IF plan = <<>> THEN <<>> ELSE Tail(plan)) /\ UNCHANGED spent
  ELSE spent' = [spent EXCEPT !.runs = @ + 1] /\ UNCHANGED plan

StartLoadSave(p, cmd, i) ==
  /\ pc[p] = "idle" /\ cmd \in LoadSaves /\ Asked(p, cmd) /\ Started(p)
  /\ cmd \in {"address", "gate"} => i = IdleJob.item
  /\ live \/ cmd \in {"address", "gate", "findings"}
  /\ Applies(cmd, i) /\ (i \in Threads => Truthful(cmd, i))
  /\ p = Agent /\ cmd = "validation" => Unproven(i, items)
  /\ LoadCompute(p, cmd, i, 0)
  /\ UNCHANGED <<outside, live, items, rows>>

(* Mutant: the last writer wins. *)
MaySaveAnyhow(p) == pc[p] \in {"save", "publish_save"}

(* The revision check of a commit; a store that does not exist is created from   *)
(* whatever is saved.                                                      *)
MaySave(p) == p \in fresh \/ ~live

(* save_session: the commit is refused unless the loaded revision is the   *)
(* latest.                                                                 *)
Save(p) ==
  LET j == job[p]
  IN  /\ pc[p] = "save"
      /\ IF MaySave(p)
         THEN /\ Commit(j.its) /\ live' = TRUE
              /\ IF j.cmd = "gate" /\ j.codes = {} THEN Goto(p, "passed", j) ELSE Done(p)
              /\ IF j.cmd = "gate" /\ p = Agent THEN plan' = NextAction(j.codes) ELSE UNCHANGED plan
         ELSE /\ IF j.cmd = "gate" /\ ~j.new /\ j.tries + 1 < Attempts
                 THEN LoadCompute(p, "gate", j.item, j.tries + 1)
                 ELSE Done(p) /\ UNCHANGED fresh
              /\ UNCHANGED <<items, live, plan>>
      /\ UNCHANGED <<outside, rows, spent>>

-----------------------------------------------------------------------------
(* Answering an item: agent resolve, decline, and --closed *)

(* fast_fix_item refuses a thread the session knows to be resolved,        *)
(* decline_item does not look.                                             *)
StartAnswer(p, i, answer) ==
  LET cmd == IF i \in Threads THEN "resolve" ELSE "local"
  IN  /\ pc[p] = "idle" /\ live /\ Asked(p, cmd) /\ Started(p)
      /\ items[i].state # "absent"
      /\ i \in Threads /\ answer # "explain" => items[i].state # "closed"
      /\ p = Agent => items[i].state \in Claimable /\ items[i].holder = Nobody
      /\ Goto(p, "classify", [IdleJob EXCEPT !.cmd = cmd, !.item = i, !.answer = answer])
      /\ UNCHANGED <<outside, store>>

(* reopen_resolved_thread_for_reply *)
Reopen(p, t, answer) ==
  /\ pc[p] = "idle" /\ live /\ Asked(p, "closed") /\ Started(p)
  /\ items[t].state = "closed" /\ ~items[t].reply
  /\ Change(t, [items[t] EXCEPT !.state = "open"])
  /\ Goto(p, "classify", [IdleJob EXCEPT !.cmd = "closed", !.item = t, !.answer = answer])
  /\ UNCHANGED <<outside, live, rows>>

(* record_classification *)
Classify(p) ==
  LET i == job[p].item
  IN  /\ pc[p] = "classify"
      /\ IF live /\ items[i].state # "absent"
         THEN /\ Change(i, [items[i] EXCEPT !.decision = Decision(job[p].answer)])
              /\ Goto(p, "issue", job[p])
         ELSE Done(p) /\ UNCHANGED <<items, fresh>>
      /\ UNCHANGED <<outside, live, rows, plan, spent>>

(* issue_action_request: eligibility is decided on a load that precedes    *)
(* the claim.                                                              *)
Issue(p) ==
  LET i == job[p].item
  IN  /\ pc[p] = "issue"
      /\ IF live /\ items[i].holder = Nobody /\ items[i].state \in Claimable
         THEN Goto(p, "claim", job[p])
         ELSE Done(p)                                           \* NO_ELIGIBLE_ITEM
      /\ UNCHANGED <<outside, store, plan, spent>>

Claim(p) ==
  LET i == job[p].item
  IN  /\ pc[p] = "claim"
      /\ IF live /\ items[i].state # "absent" /\ items[i].holder = Nobody
         THEN /\ Change(i, [items[i] EXCEPT !.state = "claimed", !.holder = p])
              /\ Goto(p, "accept", job[p])
         ELSE Done(p) /\ UNCHANGED <<items, fresh>>             \* LEASE_REJECTED
      /\ UNCHANGED <<outside, live, rows, plan, spent>>

(* apply_response_to_item *)
Answered(i, answer) ==
  IF i \in Threads
  THEN [items[i] EXCEPT !.state = "publish_ready", !.accepted = answer, !.holder = Nobody]
  ELSE [items[i] EXCEPT !.state = IF answer = "explain" THEN "answered" ELSE "closed",
                        !.valid = (answer = "fix"), !.holder = Nobody]

(* submit_action_response; --closed goes on to publish. *)
Accept(p) ==
  LET i == job[p].item
  IN  /\ pc[p] = "accept"
      /\ IF live /\ items[i].holder = p
         THEN /\ Change(i, Answered(i, job[p].answer))
              /\ IF job[p].cmd = "closed" THEN Goto(p, "publish", job[p]) ELSE Done(p)
         ELSE Done(p) /\ UNCHANGED <<items, fresh>>
      /\ UNCHANGED <<outside, live, rows, plan, spent>>

(* claimed_fixer_lease: the response is rejected, the claim released. *)
Rejected(p) ==
  LET i == job[p].item
  IN  /\ pc[p] = "accept" /\ live /\ items[i].holder = p /\ spent.faults < MaxFaults
      /\ spent' = [spent EXCEPT !.faults = @ + 1]
      /\ Change(i, [items[i] EXCEPT !.state = "open", !.holder = Nobody])
      /\ Done(p)
      /\ UNCHANGED <<outside, live, rows, plan>>

(* expire_leases: the lease of a command that died runs out, and its item  *)
(* goes back whatever became of the thread meanwhile.  A live command is   *)
(* faster than its lease (AgentProtocol lets leases expire anywhere).      *)
Expire(i) ==
  LET p == items[i].holder
  IN  /\ live /\ p # Nobody
      /\ ~(pc[p] = "accept" /\ job[p].item = i)
      /\ Change(i, [items[i] EXCEPT !.state = "open", !.holder = Nobody])
      /\ UNCHANGED <<outside, live, rows, pc, job, plan, spent>>

-----------------------------------------------------------------------------
(* Publishing *)

StartPublish(p) ==
  /\ pc[p] = "idle" /\ live /\ Asked(p, "publish") /\ Started(p)
  /\ Goto(p, "publish", [IdleJob EXCEPT !.cmd = "publish"])
  /\ UNCHANGED <<outside, store>>

(* _publish_ready_items *)
PublishReady == {t \in Threads : items[t].state = "publish_ready"}

NextThread(p, j) ==
  IF j.todo = {} THEN Goto(p, "publish_save", j)
  ELSE \E t \in j.todo : Goto(p, "reply", [j EXCEPT !.item = t])

(* The load of publish_github_thread_responses; its run is repeated from   *)
(* here when a save finds a later revision.                                *)
Publish(p) ==
  /\ pc[p] = "publish"
  /\ IF ~live \/ PublishReady = {}                              \* NO_PUBLISH_READY_ITEMS
     THEN Done(p) /\ UNCHANGED fresh
     ELSE /\ NextThread(p, [job[p] EXCEPT !.its = items, !.todo = PublishReady])
          /\ fresh' = fresh \cup {p}
  /\ UNCHANGED <<outside, live, items, rows, plan, spent>>

PublishAgain(p) ==
  IF job[p].tries + 1 < Attempts
  THEN Goto(p, "publish", [job[p] EXCEPT !.tries = @ + 1]) ELSE Done(p)

(* Planning a command needs the revision the session was loaded at; one    *)
(* that was planned before does not.                                       *)
MayExecute(p, effect) == p \in fresh \/ rows[<<job[p].item, effect>>] # "none"

(* The effect and its outbox row; the revision the row takes is the        *)
(* session's own.                                                          *)
Executed(p, effect, result) ==
  /\ rows' = [rows EXCEPT ![<<job[p].item, effect>>] = result]
  /\ fresh' = fresh \cap {p}

(* Mutant: the recorded results are not asked for. *)
KnownBySession(p, effect) ==
  IF effect = "reply" THEN job[p].its[job[p].item].reply ELSE job[p].its[job[p].item].resolved

(* What the loaded session or the outbox knows to be done already *)
Known(p, effect) ==
  \/ rows[<<job[p].item, effect>>] = "done"
  \/ IF effect = "reply" THEN job[p].its[job[p].item].reply ELSE job[p].its[job[p].item].resolved

(* The thread in hand is published. *)
Published(p) ==
  LET j == job[p]
      published == [j.its[j.item] EXCEPT !.state = "closed", !.reply = TRUE,
                                         !.resolved = TRUE, !.holder = Nobody]
  IN  NextThread(p, [j EXCEPT !.its[j.item] = published, !.todo = @ \ {j.item}])

Replied(p) == Goto(p, "resolve", [job[p] EXCEPT !.its = [@ EXCEPT ![job[p].item].reply = TRUE]])

(* The two halves of _execute_single_publish_plan *)
Reply(p) ==
  LET t == job[p].item
  IN  /\ pc[p] = "reply"
      /\ \/ live /\ Known(p, "reply") /\ Replied(p) /\ UNCHANGED <<remote, rows, fresh>>
         \/ /\ live /\ ~Known(p, "reply") /\ MayExecute(p, "reply")
            /\ remote' = [remote EXCEPT ![t].posted = IF @ = 2 THEN 2 ELSE @ + 1, ![t].replied = TRUE]
            /\ Executed(p, "reply", "done")
            /\ Replied(p)
         \/ /\ live /\ ~Known(p, "reply") /\ ~MayExecute(p, "reply")
            /\ PublishAgain(p) /\ UNCHANGED <<remote, rows, fresh>>
         \/ ~live /\ Done(p) /\ UNCHANGED <<remote, rows, fresh>>
      /\ UNCHANGED <<external, live, items, plan, spent>>

Resolve(p) ==
  LET t == job[p].item
  IN  /\ pc[p] = "resolve"
      /\ \/ live /\ Known(p, "resolve") /\ Published(p) /\ UNCHANGED <<remote, rows, fresh>>
         \/ /\ live /\ ~Known(p, "resolve") /\ MayExecute(p, "resolve")
            /\ remote' = [remote EXCEPT ![t].st = "resolved"]
            /\ Executed(p, "resolve", "done")
            /\ Published(p)
         \/ /\ live /\ ~Known(p, "resolve") /\ ~MayExecute(p, "resolve")
            /\ PublishAgain(p) /\ UNCHANGED <<remote, rows, fresh>>
         \/ ~live /\ Done(p) /\ UNCHANGED <<remote, rows, fresh>>
      /\ UNCHANGED <<external, live, items, plan, spent>>

(* A GitHub call fails: its row says so, and the session is saved with     *)
(* what was done before the error is raised.                               *)
EffectFails(p) ==
  /\ pc[p] \in {"reply", "resolve"} /\ live
  /\ ~Known(p, pc[p]) /\ p \in fresh
  /\ spent.faults < MaxFaults
  /\ spent' = [spent EXCEPT !.faults = @ + 1]
  /\ rows' = [rows EXCEPT ![<<job[p].item, pc[p]>>] = "tried"]
  /\ Commit(job[p].its)
  /\ Done(p)
  /\ UNCHANGED <<outside, live, plan>>

PublishSave(p) ==
  /\ pc[p] = "publish_save"
  /\ IF MaySave(p)
     THEN Commit(job[p].its) /\ live' = TRUE /\ Done(p)
     ELSE PublishAgain(p) /\ UNCHANGED <<items, live, fresh>>
  /\ UNCHANGED <<outside, rows, plan, spent>>

-----------------------------------------------------------------------------
(* The end of a review, and the environment *)

(* archive_and_clean_workspace after a passed gate: the store is copied    *)
(* and removed under the write reservation, whatever was committed since   *)
(* the gate's own save; it is skipped when another command is writing.     *)
Finish(p) ==
  /\ pc[p] = "passed"
  /\ Done(p)
  /\ \/ /\ AutoClean /\ live
        /\ live' = FALSE
        /\ Commit([i \in Items |-> NewItem])
        /\ rows' = [c \in DOMAIN rows |-> "none"]
     \/ UNCHANGED store
  /\ UNCHANGED <<outside, plan, spent>>

(* The agent's next command has nothing to act on, or no session. *)
Nothing ==
  /\ pc[Agent] = "idle" /\ plan # <<>>
  /\ \/ ~live
     \/ Head(plan) \in {"resolve", "closed"} /\ ~\E t \in Threads :
          IF Head(plan) = "closed" THEN items[t].state = "closed" /\ ~items[t].reply
          ELSE items[t].state \in Claimable /\ items[t].holder = Nobody
     \/ Head(plan) = "local" /\ ~\E f \in Findings :
          items[f].state \in Claimable /\ items[f].holder = Nobody
     \/ Head(plan) = "validation" /\ ~\E i \in Items : Unproven(i, items)
  /\ plan' = Tail(plan)
  /\ UNCHANGED <<outside, store, pc, job, spent>>

Crash(p) ==
  /\ pc[p] # "idle" /\ spent.faults < MaxFaults
  /\ spent' = [spent EXCEPT !.faults = @ + 1]
  /\ Done(p)
  /\ fresh' = fresh \ {p}
  /\ UNCHANGED <<outside, live, items, rows, plan>>

(* What people do to a thread: open one, comment with the viewer's login,  *)
(* resolve it, reopen it, push a change that outdates it.                  *)
OnGitHub(t) ==
  /\ spent.events < MaxEvents
  /\ spent' = [spent EXCEPT !.events = @ + 1]
  /\ LET r == remote[t]
     IN  \/ /\ r.st = "none"
            /\ remote' = [remote EXCEPT ![t].st = "open"]
         \/ /\ "comment" \in Events /\ r.st # "none" /\ ~r.replied
            /\ remote' = [remote EXCEPT ![t].replied = TRUE]
         \/ /\ "resolve" \in Events /\ r.st = "open"
            /\ remote' = [remote EXCEPT ![t].st = "resolved"]
         \/ /\ "reopen" \in Events /\ r.st = "resolved"
            /\ remote' = [remote EXCEPT ![t].st = "open"]
         \/ /\ "outdate" \in Events /\ r.st # "none" /\ ~r.outdated
            /\ remote' = [remote EXCEPT ![t].outdated = TRUE]
  /\ UNCHANGED <<external, store, pc, job, plan>>

(* The pending review is submitted, the check turns green. *)
Settle ==
  /\ \E x \in external : external' = external \ {x}
  /\ UNCHANGED <<remote, store, pc, job, plan, spent>>

Init ==
  /\ remote \in [Threads -> [st : {"open", "resolved"}, outdated : {FALSE}, replied : {FALSE}, posted : {0}]]
  /\ external \in SUBSET Waits
  /\ live = FALSE
  /\ items = [i \in Items |-> NewItem]
  /\ rows = [c \in Threads \X {"reply", "resolve"} |-> "none"]
  /\ fresh = {}
  /\ pc = [p \in Procs |-> "idle"]
  /\ job = [p \in Procs |-> IdleJob]
  /\ plan = <<>>
  /\ spent = [runs |-> 0, events |-> 0, faults |-> 0]

Step(p) ==
  \/ Save(p) \/ Classify(p) \/ Issue(p) \/ Claim(p) \/ Accept(p)
  \/ Publish(p) \/ Reply(p) \/ Resolve(p) \/ PublishSave(p) \/ Finish(p)

Start(p) ==
  \/ \E cmd \in LoadSaves, i \in Items : StartLoadSave(p, cmd, i)
  \/ \E i \in Items, a \in Answers : StartAnswer(p, i, a)
  \/ \E t \in Threads, a \in Answers : Reopen(p, t, a)
  \/ StartPublish(p)

Next ==
  \/ \E p \in Procs : Step(p) \/ Start(p) \/ Rejected(p) \/ EffectFails(p) \/ Crash(p)
  \/ \E i \in Items : Expire(i)
  \/ \E t \in Threads : OnGitHub(t)
  \/ Settle \/ Nothing

Spec == Init /\ [][Next]_vars

(* Commands are scheduled, the agent keeps following what it is told, a    *)
(* dead command's lease runs out, and people settle what only they can.    *)
Fairness ==
  /\ \A p \in Procs : WF_vars(Step(p))
  /\ WF_vars(Start(Agent) \/ Nothing)
  /\ \A i \in Items : WF_vars(Expire(i))
  /\ WF_vars(Settle)
FairSpec == Spec /\ Fairness

-----------------------------------------------------------------------------
(* Properties *)

(* Every variable stays in its domain. *)
TypeOK ==
  /\ remote \in [Threads -> Row]
  /\ external \subseteq Waits
  /\ live \in BOOLEAN
  /\ items \in [Items -> Item]
  /\ rows \in [Threads \X {"reply", "resolve"} -> {"none", "tried", "done"}]
  /\ fresh \subseteq Procs
  /\ pc \in [Procs -> Steps]
  /\ \A p \in Procs : job[p].cmd \in AllCommands /\ job[p].its \in [Items -> Item] /\ job[p].codes \subseteq Codes
  /\ plan \in Seq(AllCommands)
  /\ spent \in [runs : Nat, events : Nat, faults : Nat]

(* What a passed final gate asserts is true: every thread it read was      *)
(* resolved and carries a comment of the viewer, every fix has a           *)
(* validation that succeeded, every reported finding was answered.         *)
PassIsProven ==
  \A p \in Procs : pc[p] = "passed" =>
    /\ \A t \in Threads : job[p].read[t] # "none" => job[p].read[t] = "resolved" /\ remote[t].replied
    /\ \A t \in Threads : job[p].its[t].accepted = "unproven" => job[p].its[t].valid
    /\ \A f \in Findings : job[p].its[f].state \in {"absent", "answered", "closed"}

(* Reply evidence in the session is backed by a comment on GitHub, and a   *)
(* thread the session closed after publishing had its answer accepted.     *)
EvidenceIsReal ==
  \A t \in Threads :
    /\ items[t].reply => remote[t].replied
    /\ items[t].resolved => items[t].accepted # "none"

(* The runtime replies to a thread once, whatever is refreshed, retried or *)
(* saved by others in between.                                             *)
OneReply == \A t \in Threads : remote[t].posted <= 1

(* Evidence that a commit records is real, and while the workspace lives   *)
(* no commit, whoever makes it, takes away what an item has: its accepted  *)
(* answer, its evidence, its publication.                                  *)
EvidenceKept ==
  live /\ live' =>
    \A i \in Items :
      /\ items[i].accepted # "none" => items'[i].accepted # "none"
      /\ i \in Threads => /\ items[i].reply => items'[i].reply
                          /\ items[i].valid => items'[i].valid
                          /\ items[i].resolved => items'[i].resolved
EvidenceStays == [][EvidenceIsReal' /\ EvidenceKept]_vars

(* An agent that does what the gate tells it gets the gate to pass. *)
GatePasses == <>(pc[Agent] = "passed")
=============================================================================
