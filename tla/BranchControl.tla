---------------------------- MODULE BranchControl ----------------------------
(***************************************************************************)
(* scripts/release/branch_control.py: the advisory readiness report of a   *)
(* trunk pull request and the guarded merge that a maintainer dispatches   *)
(* with the head and the base that were approved.  A release merges        *)
(* develop into main, a sync a snapshot of main into develop.  GitHub locks*)
(* the head of a merge and not its base, its answers get lost, and people  *)
(* push, merge and edit between any two of the command's requests.         *)
(***************************************************************************)
EXTENDS Naturals, Sequences, FiniteSets

CONSTANTS
  MaxEvents,   \* bound on what people and CI do
  MaxRuns      \* bound on CI runs

BranchAssumption == MaxEvents \in Nat /\ MaxRuns \in Nat

VARIABLES
  commits,   \* repository: parents, ancestors and tree of every commit
  ref,       \* repository: tips of main, develop and the snapshot branch
  pr,        \* GitHub: the pull request
  ci,        \* GitHub: its source CI runs, in the order of their numbers
  review,    \* its review gate and its checks would pass
  clock,     \* execution budget left: "plenty", "short" of a merge, "none"
  merge,     \* the guarded merge command
  report,    \* the readiness command
  events

vars == <<commits, ref, pr, ci, review, clock, merge, report, events>>

(* direction: the branches a pull request joins. *)
HeadRef == IF pr.kind = "release" THEN "develop" ELSE "snapshot"
BaseRef == IF pr.kind = "release" THEN "main" ELSE "develop"
SourceRef == IF pr.kind = "release" THEN "develop" ELSE "main"

Commit(parents, tree) ==
  [parents |-> parents, tree |-> tree,
   anc |-> {Len(commits) + 1} \cup UNION {commits[parents[i]].anc : i \in DOMAIN parents}]
New == Len(commits) + 1

(* What a read of the pull request returns: the head is the live one until *)
(* the merge, the base tip the one GitHub last looked at.                  *)
Payload == [kind |-> pr.kind, state |-> pr.state, draft |-> pr.draft, merged |-> pr.merge # 0,
            commit |-> pr.merge, head |-> IF pr.merge # 0 THEN pr.headAt ELSE ref[HeadRef],
            base |-> pr.base, human |-> pr.human]
NoPayload == [kind |-> "none"]

-----------------------------------------------------------------------------
(* Evidence *)

(* validate_snapshot: the head is a snapshot of the current main. *)
ValidSnapshot(p) ==
  /\ pr.snapshotOf = ref["main"]
  /\ commits[p.head].parents = <<ref["main"]>>
  /\ commits[p.head].tree = commits[ref["main"]].tree

(* Mutant: the receipt is not compared with the base. *)
ValidReceiptHead(run, p) == run.head = p.head

(* validate_receipt: the tested merge has the parents now proposed. *)
ValidReceipt(run, p) == run.head = p.head /\ run.base = p.base

(* source_validation: the latest source CI run of the head succeeded. *)
SourceValidation(p) ==
  \E n \in DOMAIN ci :
    /\ ci[n].head = p.head
    /\ \A k \in DOMAIN ci : ci[k].head = p.head => k <= n
    /\ ci[n].conclusion = "success"
    /\ ValidReceipt(ci[n], p)

(* collect_readiness, up to the CI evidence. *)
IdentityValid(p) ==
  /\ p.state = "open" /\ ~p.draft
  /\ ref[BaseRef] = p.base /\ ref[HeadRef] = p.head
  /\ (p.kind = "sync" => ValidSnapshot(p))

(* deadline_remaining stops every request once the reserve is reached. *)
InTime == clock # "none"

-----------------------------------------------------------------------------
(* merge *)

NoMerge == [step |-> "idle", pr |-> NoPayload, head |-> 0, base |-> 0, declined |-> FALSE,
            already |-> FALSE, status |-> "none"]

(* main: a PolicyBlock is "blocked", any other failure "unknown". *)
Ends(status) == merge' = [merge EXCEPT !.step = "done", !.status = status]
Goes(step) == merge' = [merge EXCEPT !.step = step]
Check(condition, step) == IF condition THEN Goes(step) ELSE Ends("blocked")
NoWrite == UNCHANGED <<commits, ref, pr, ci, review, clock, report, events>>

(* validate_authorization: the dispatch names the commits that were        *)
(* approved; the permission read is the first that can fail.               *)
Dispatch ==
  /\ merge.step = "idle" /\ report.step = "idle"
  /\ \E base \in {ref[BaseRef], pr.base}, head \in {ref[HeadRef]} :
       merge' = [NoMerge EXCEPT !.step = "read", !.head = head, !.base = base]
  /\ NoWrite

(* A request that the deadline stops, or that fails, before the merge. *)
Early == {"read", "refs-head", "refs-base", "ready", "ci", "review", "checks", "live",
          "live-head", "live-base", "snapshot"}
RequestFails ==
  /\ merge.step \in Early
  /\ \/ ~InTime /\ Ends("blocked")
     \/ Ends("unknown")
  /\ NoWrite

ReadPull ==
  /\ merge.step = "read" /\ InTime
  /\ merge' = [merge EXCEPT !.step = IF Payload.merged THEN "verify" ELSE "refs-head",
                            !.already = Payload.merged, !.pr = Payload]
  /\ NoWrite

(* exact_refs, two reads: the payload and the live refs are the approved   *)
(* ones.                                                                   *)
ExactRefs(step, branch, sha, next) ==
  /\ merge.step = step /\ InTime
  /\ Check(merge.pr.head = merge.head /\ merge.pr.base = merge.base /\ ref[branch] = sha, next)
  /\ NoWrite
ReadHead == \/ ExactRefs("refs-head", HeadRef, merge.head, "refs-base")
            \/ ExactRefs("live-head", HeadRef, merge.head, "live-base")
ReadBase ==
  \/ ExactRefs("refs-base", BaseRef, merge.base, "ready")
  \/ ExactRefs("live-base", BaseRef, merge.base, IF pr.kind = "sync" THEN "snapshot" ELSE "put")

(* collect_readiness *)
Identity ==
  /\ merge.step = "ready" /\ InTime
  /\ Check(IdentityValid(merge.pr), "ci")
  /\ NoWrite
SourceCI ==
  /\ merge.step = "ci" /\ InTime
  /\ Check(SourceValidation(merge.pr), "review")
  /\ NoWrite

(* final_gate, first of the review alone and then of the checks too; the   *)
(* release analysis of an unknown type blocks as well.                     *)
FinalGate ==
  /\ InTime
  /\ \/ merge.step = "review" /\ Check(review, "checks")
     \/ merge.step = "checks" /\ Check(review, "live")
     \/ merge.step = "review" /\ pr.kind = "release" /\ Ends("blocked")
  /\ NoWrite

ReadLive ==
  /\ merge.step = "live" /\ InTime
  /\ merge' = IF Payload.state = "open" /\ ~Payload.draft
              THEN [merge EXCEPT !.step = "live-head", !.pr = Payload]
              ELSE [merge EXCEPT !.step = "done", !.status = "blocked"]
  /\ NoWrite
Snapshot ==
  /\ merge.step = "snapshot" /\ InTime
  /\ Check(ValidSnapshot(merge.pr), "put")
  /\ NoWrite

(* GitHub merges an open pull request into the base tip of the moment. *)
Merged(head) ==
  /\ commits' = Append(commits, Commit(<<ref[BaseRef], head>>, New))
  /\ ref' = [ref EXCEPT ![BaseRef] = New]
  /\ pr' = [pr EXCEPT !.state = "closed", !.merge = New, !.headAt = head]
Mergeable == pr.state = "open" /\ ~pr.draft

(* api, the PUT: sent once, with the approved head, unless less time is    *)
(* left than the merge and its verification need.  Its answer may be lost. *)
Put ==
  /\ merge.step = "put"
  /\ IF clock # "plenty" THEN Ends("blocked") /\ NoWrite
     ELSE /\ UNCHANGED <<ci, review, clock, report, events>>
          /\ \/ /\ Mergeable /\ ref[HeadRef] = merge.head
                /\ Merged(merge.head)
                /\ merge' = [merge EXCEPT !.step = "after"]
             \/ /\ \E declined \in {FALSE, ~(Mergeable /\ ref[HeadRef] = merge.head)} :
                     merge' = [merge EXCEPT !.step = "after", !.declined = declined]
                /\ UNCHANGED <<commits, ref, pr>>

(* Whatever the answer was, the pull request is read again. *)
ReadAfter ==
  /\ merge.step = "after"
  /\ IF ~InTime THEN Ends("blocked")
     ELSE IF Payload.merged THEN merge' = [merge EXCEPT !.step = "verify", !.pr = Payload]
     ELSE Ends(IF merge.declined THEN "blocked" ELSE "unknown")
  /\ NoWrite

(* Mutant: only the head of the merge is compared. *)
ApprovedHead(p) == p.head = merge.head

(* verify_merged: the merge is the approved one ... *)
Approved(p) ==
  commits[p.commit].parents = <<merge.base, merge.head>> /\ p.head = merge.head

(* ... and the branches still contain it: for a sync, the main that the    *)
(* snapshot's name says.                                                   *)
Retained(p) ==
  /\ p.commit \in commits[ref[BaseRef]].anc
  /\ (IF p.kind = "release" THEN merge.head ELSE pr.snapshotOf) \in commits[ref[SourceRef]].anc

Verify ==
  /\ merge.step = "verify"
  /\ IF ~InTime THEN Ends("blocked")
     ELSE Ends(IF Approved(merge.pr) /\ Retained(merge.pr) THEN "merged" ELSE "unknown")
  /\ NoWrite

Redispatch ==
  /\ merge.step = "done" /\ clock' = "plenty" /\ merge' = NoMerge
  /\ UNCHANGED <<commits, ref, pr, ci, review, report, events>>

-----------------------------------------------------------------------------
(* readiness *)

NoReport == [step |-> "idle", pr |-> NoPayload, status |-> "none", body |-> 0, seen |-> 0]
ReportOnly == UNCHANGED <<commits, ref, pr, ci, review, clock, merge, events>>

(* The two commands share the pull request only and are taken one at a     *)
(* time.  event_prs: an event names the pull request; that of a finished   *)
(* CI run does when the run was of the head.                               *)
Candidate(run) == run # 0 => /\ ci[run].conclusion # "running" /\ ci[run].head = Payload.head
StartReport ==
  /\ report.step = "idle" /\ merge.step = "idle"
  /\ (\E run \in 0..Len(ci) : Candidate(run))
  /\ report' = [NoReport EXCEPT !.step = "collect", !.pr = Payload]
  /\ ReportOnly

(* collect_readiness; seen is a history variable. *)
Collect ==
  /\ report.step = "collect"
  /\ report' = [report EXCEPT !.step = "body", !.seen = pr.human,
                  !.status = IF report.pr.merged THEN "merged"
                             ELSE IF IdentityValid(report.pr) /\ SourceValidation(report.pr) /\ review
                                  THEN "ready" ELSE "blocked"]
  /\ ReportOnly

(* Mutant: the summary is put into the body read before the collection. *)
BodyToEditOpening(live) == report.pr.human
BodyToEdit(live) == live.human

(* The body is read again; a pull request that moved is not summarised. *)
ReadBody ==
  /\ report.step = "body"
  /\ report' = IF Payload.head # report.pr.head \/ Payload.base # report.pr.base THEN NoReport
               ELSE [report EXCEPT !.step = "patch", !.body = BodyToEdit(Payload)]
  /\ ReportOnly

(* replace_summary: the block between the markers, and nothing else of the *)
(* body that was read.                                                     *)
PatchBody ==
  /\ report.step = "patch"
  /\ pr' = [pr EXCEPT !.human = report.body, !.block = report.status]
  /\ report' = NoReport
  /\ UNCHANGED <<commits, ref, ci, review, clock, merge, events>>

-----------------------------------------------------------------------------
(* People, CI and GitHub *)

Event == events < MaxEvents /\ events' = events + 1
NoCommand == UNCHANGED <<clock, merge, report>>

(* A push on top of a branch or, forced, beside its tip. *)
Push(branch) ==
  /\ Event
  /\ \E parent \in {ref[branch]} \cup {commits[ref[branch]].parents[i] : i \in DOMAIN commits[ref[branch]].parents} :
       commits' = Append(commits, Commit(<<parent>>, New))
  /\ ref' = [ref EXCEPT ![branch] = New]
  /\ UNCHANGED <<pr, ci, review>> /\ NoCommand
ShowBase ==
  /\ pr.base # ref[BaseRef] /\ pr.merge = 0
  /\ pr' = [pr EXCEPT !.base = ref[BaseRef]]
  /\ UNCHANGED <<commits, ref, ci, review, events>> /\ NoCommand
MergeByHand ==
  /\ Event /\ Mergeable /\ Merged(ref[HeadRef])
  /\ UNCHANGED <<ci, review>> /\ NoCommand
Change ==
  /\ Event
  /\ \/ pr.merge = 0 /\ pr' = [pr EXCEPT !.state = IF @ = "open" THEN "closed" ELSE "open"] /\ UNCHANGED review
     \/ pr' = [pr EXCEPT !.draft = ~@] /\ UNCHANGED review
     \/ pr' = [pr EXCEPT !.human = @ + 1] /\ UNCHANGED review
     \/ review' = ~review /\ UNCHANGED pr
  /\ UNCHANGED <<commits, ref, ci>> /\ NoCommand

(* A CI run is started by an event that names head and base, and tests the *)
(* merge with the base of its moment (branch_validation.event_identity,    *)
(* capture).                                                               *)
StartCI ==
  /\ Len(ci) < MaxRuns /\ pr.merge = 0
  /\ ci' = Append(ci, [head |-> ref[HeadRef], base |-> pr.base, tested |-> ref[BaseRef], conclusion |-> "running"])
  /\ UNCHANGED <<commits, ref, pr, review, events>> /\ NoCommand

(* validate_context: the tested commit is the merge the event speaks of. *)
ValidContext(run) == run.tested = run.base

FinishCI ==
  /\ \E n \in DOMAIN ci :
       /\ ci[n].conclusion = "running"
       /\ \E conclusion \in {"failure"} \cup {c \in {"success"} : ValidContext(ci[n])} :
            ci' = [ci EXCEPT ![n].conclusion = conclusion]
  /\ UNCHANGED <<commits, ref, pr, review, events>> /\ NoCommand
Elapse ==
  /\ merge.step \notin {"idle", "done"} /\ clock # "none"
  /\ clock' = IF clock = "plenty" THEN "short" ELSE "none"
  /\ UNCHANGED <<commits, ref, pr, ci, review, merge, report, events>>

Root == [parents |-> <<>>, tree |-> 1, anc |-> {1}]
Init ==
  /\ commits = <<Root, [parents |-> <<1>>, tree |-> 2, anc |-> {1, 2}],
                 [parents |-> <<1>>, tree |-> 1, anc |-> {1, 3}]>>
  /\ ref = [main |-> 1, develop |-> 2, snapshot |-> 3]
  /\ \E kind \in {"release", "sync"} :
       pr = [kind |-> kind, state |-> "open", draft |-> FALSE, merge |-> 0, headAt |-> 0,
             base |-> IF kind = "release" THEN 1 ELSE 2, snapshotOf |-> 1, human |-> 0, block |-> "none"]
  /\ ci = <<>> /\ review = TRUE /\ clock = "plenty" /\ events = 0
  /\ merge = NoMerge /\ report = NoReport

Next ==
  \/ Dispatch \/ RequestFails \/ ReadPull \/ ReadHead \/ ReadBase \/ Identity \/ SourceCI
  \/ FinalGate \/ ReadLive \/ Snapshot \/ Put \/ ReadAfter \/ Verify \/ Redispatch
  \/ StartReport \/ Collect \/ ReadBody \/ PatchBody
  \/ \E branch \in {"main", "develop", "snapshot"} : Push(branch)
  \/ ShowBase \/ MergeByHand \/ Change \/ StartCI \/ FinishCI \/ Elapse

Spec == Init /\ [][Next]_vars

-----------------------------------------------------------------------------
(* Properties *)

(* A guarded merge reported as merged is the approved one: the commit has  *)
(* the approved base and head for parents, and unless the pull request had *)
(* been merged before, CI tested that very merge and succeeded, and a sync *)
(* brings the tree of a main and nothing else.                             *)
ReportedIsApproved ==
  merge.status = "merged" =>
    /\ commits[pr.merge].parents = <<merge.base, merge.head>>
    /\ ~merge.already =>
         /\ \E n \in DOMAIN ci : ci[n].conclusion = "success" /\ ci[n].head = merge.head /\ ci[n].tested = merge.base
         /\ pr.kind = "sync" =>
              \E main \in DOMAIN commits :
                commits[merge.head].parents = <<main>> /\ commits[merge.head].tree = commits[main].tree

(* The readiness summary never undoes an edit of the pull request's body   *)
(* that was made while CI and review facts were collected.                 *)
EditsKept == PatchBody => pr'.human >= report.seen
SummaryKeepsEdits == [][EditsKept]_vars
=============================================================================
