--------------------------- MODULE ResolveCommand ---------------------------
(***************************************************************************)
(* agent resolve (commands/agent.py, core/workflow.py and                  *)
(* core/workflow_matching.py): how the flags of one call become exactly    *)
(* one of five routes, which threads the route selects from the session it *)
(* loads, how it claims, submits, rolls back and publishes them, and which *)
(* outcome it reports, while people act on GitHub, another command         *)
(* refreshes the session and a second resolve runs.                        *)
(*                                                                         *)
(* Leases are reduced to their holder and one submit to its outcome:       *)
(* AgentProtocol and AgentBatch hold their detail, Publisher that of a     *)
(* publish run.                                                            *)
(***************************************************************************)
EXTENDS Naturals, FiniteSets, Sequences, Functions

CONSTANTS
  Order,     \* the threads in the order of their ids
  Path,      \* the file of a thread
  Concern,   \* what its first comment asks, NoConcern when the session lacks it
  Trivial,   \* threads about documentation or a typo
  Changed,   \* files that the cited commit changes
  Procs,     \* agents, each running one command at a time
  Forms,     \* the calls in play
  Limit,     \* MAX_PARALLEL_CLAIMS
  MaxCalls,  \* bound: calls that get past their flags
  NoThread, NoConcern

Threads == Range(Order)
Declines == {"reject", "clarify", "defer"}

(* item: a thread, an alias T1, T2, ... or none; files: --files and --file; *)
(* input: the threads a BatchActionResponse lists, bare: those without a   *)
(* summary and why of their own; flags: the evidence given.                *)
Form == [item : Threads \cup DOMAIN Order \cup {NoThread},
         disposition : {"none", "fix", "trivial"} \cup Declines,
         files : SUBSET Range(Path), input : SUBSET Threads, bare : SUBSET Threads,
         flags : SUBSET {"commit", "validation", "summary", "why", "severity"},
         stale : BOOLEAN, closed : BOOLEAN, publish : BOOLEAN]

ResolveAssumption ==
  /\ Limit \in Nat \ {0} /\ MaxCalls \in Nat /\ Path \in [Threads -> Range(Path)] /\ Forms \subseteq Form
  /\ Trivial \subseteq Threads /\ Changed \subseteq Range(Path) /\ DOMAIN Concern = Threads
  /\ Order \in Seq(Threads) /\ \A m, n \in DOMAIN Order : Order[m] = Order[n] => m = n
  /\ NoThread \notin Procs

VARIABLES
  github,   \* each thread on GitHub
  rows,     \* each thread in the session
  lease,    \* the agent with a fixer lease on it
  pc,       \* where each command is
  job,      \* its local variables
  report,   \* what the last command of each agent said
  posted,   \* threads an agent's reply was posted on
  kept,     \* threads each agent claimed with agent next and still owes
  calls     \* calls so far

vars == <<github, rows, lease, pc, job, report, posted, kept, calls>>

Nobody == NoThread
GitHub == [st : {"absent", "open", "resolved"}, outdated : BOOLEAN]
Row == [state : {"unknown", "open", "claimed", "ready", "closed", "historic"},
        stale : BOOLEAN, replied : BOOLEAN]
Steps == {"idle", "select", "reopen", "release", "chunk", "claim", "submit", "finish", "post"}

-----------------------------------------------------------------------------
(* The form of a call *)

HasItem(f) == f.item # NoThread
Disposition(f) == IF f.disposition = "none" THEN "fix" ELSE f.disposition
Declining(f) == f.disposition \in Declines

(* _validate_resolve_mode *)
ModeRefused(f) == f.disposition = "trivial" /\ ~HasItem(f)

(* --files selects threads for a decline and is evidence for a fix. *)
Selections(f) ==
  {s \in {"item", "files", "input"} : \/ s = "item" /\ HasItem(f)
                                      \/ s = "files" /\ f.files # {} /\ Declining(f)
                                      \/ s = "input" /\ f.input # {}}

(* _validate_resolve_axes *)
AxesRefused(f) ==
  \/ f.closed /\ (~HasItem(f) \/ f.stale \/ f.input # {} \/ f.disposition = "trivial")
  \/ Cardinality(Selections(f)) > 1
  \/ Declining(f) /\ f.flags \cap {"commit", "validation"} # {}
  \/ f.input # {} /\ (f.disposition # "none" \/ f.files # {} \/ f.flags # {} \/ f.stale)

(* _dispatch_agent_resolve: the selection first, then disposition and      *)
(* condition.                                                              *)
Route(f) ==
  CASE HasItem(f) -> "one"
    [] ~HasItem(f) /\ f.input # {} -> "batch"
    [] ~HasItem(f) /\ f.input = {} /\ Declining(f) -> "declines"
    [] ~HasItem(f) /\ f.input = {} /\ ~Declining(f) /\ f.stale -> "stale"
    [] OTHER -> "matching"

(* --files, or the files of the commit for a fix. *)
Files(f) == IF f.files = {} /\ ~Declining(f) /\ "commit" \in f.flags THEN Changed ELSE f.files

(* validate_decline_input *)
DeclineRefused(f) == "why" \notin f.flags

(* _require_single_fix_args *)
ArgsMissing(f) == ~({"commit", "summary", "why"} \subseteq f.flags)

(* validate_fast_fix_inputs *)
FixRefused(f) == ArgsMissing(f) \/ f.files = {} \/ "validation" \notin f.flags

(* _trivial_thread_eligibility *)
TrivialRefused(f, t) == f.disposition = "trivial" /\ t \notin Trivial

(* _build_fast_fix_context *)
ContextRefused(f) ==
  \/ Files(f) = {}
  \/ IF Declining(f) THEN "why" \notin f.flags ELSE ~({"commit", "validation"} \subseteq f.flags)

-----------------------------------------------------------------------------
(* The session *)

Resolved(row) == row.state \in {"closed", "historic"}
Known == {t \in Threads : rows[t].state # "unknown"}

(* The how-manieth of S a thread is. *)
UpTo(t) == {Order[m] : m \in {k \in DOMAIN Order : \E n \in DOMAIN Order : k <= n /\ Order[n] = t}}
Place(t, S) == Cardinality(S \cap UpTo(t))

(* resolve_thread_alias: the n-th thread of the session. *)
Target(item) ==
  IF item \in Threads THEN item
  ELSE IF \E t \in Known : Place(t, Known) = item THEN CHOOSE t \in Known : Place(t, Known) = item
  ELSE NoThread

(* _matches_fast_fix_thread *)
Matches(f, p) ==
  {t \in Known :
     LET own == lease[t] = p
         claimable == rows[t].state = "open" \/ (rows[t].state = "claimed" /\ own)
     IN  /\ Path[t] \in Files(f)
         /\ IF f.stale THEN rows[t].stale /\ (IF own THEN ~Resolved(rows[t]) ELSE rows[t].state = "open")
                       ELSE claimable /\ ~rows[t].stale}

(* Mutant: threads whose first comment is missing count as equal. *)
HomogeneousOrMissing(S) == \A t, u \in S : NoConcern \in {Concern[t], Concern[u]} \/ Concern[t] = Concern[u]

(* _has_homogeneous_thread_bodies *)
Homogeneous(S) == \A t, u \in S : Concern[t] # NoConcern /\ Concern[t] = Concern[u]

(* _enforce_fast_fix_routing *)
RoutingRefused(f, S) == ~f.stale /\ ("why" \notin f.flags \/ ~Homogeneous(S))

(* _validate_fix_all_input_item_reply_evidence *)
BareRows(f) == f.bare # {}

(* _validate_fix_all_input_stale_threads *)
StaleRows(f) == \E t \in f.input : rows[t].stale

(* Mutant: one posted thread is enough. *)
OutcomePartial(publish, owned, published) ==
  IF publish /\ owned \cap published # {} THEN "COMPLETE" ELSE "ACCEPTED"

(* publish_outcome_status *)
Outcome(publish, owned, published) ==
  IF publish /\ owned # {} /\ owned \subseteq published THEN "COMPLETE" ELSE "ACCEPTED"

-----------------------------------------------------------------------------
(* A command *)

NoForm == [item |-> NoThread, disposition |-> "none", files |-> {}, input |-> {}, bare |-> {},
           flags |-> {}, stale |-> FALSE, closed |-> FALSE, publish |-> FALSE]

(* todo: threads left; batch: those of the chunk left to claim; rows:      *)
(* claimed, created: with a lease this command made; plan: threads its     *)
(* publish loaded as ready.                                                *)
IdleJob == [form |-> NoForm, target |-> NoThread, todo |-> {}, batch |-> {}, rows |-> {}, created |-> {},
            accepted |-> {}, failed |-> {}, plan |-> {}]

Silent == [status |-> "NONE", owned |-> {}]

Init ==
  /\ github \in [Threads -> {g \in GitHub : g.st # "resolved" /\ ~g.outdated}]
  /\ rows = [t \in Threads |-> [state |-> "unknown", stale |-> FALSE, replied |-> FALSE]]
  /\ lease = [t \in Threads |-> Nobody]
  /\ pc = [p \in Procs |-> "idle"]
  /\ job = [p \in Procs |-> IdleJob]
  /\ report = [p \in Procs |-> Silent]
  /\ posted = {}
  /\ kept = [p \in Procs |-> {}]
  /\ calls = 0

world == <<github, posted>>
session == <<rows, lease, kept>>

Goto(p, step, j) ==
  pc' = [pc EXCEPT ![p] = step] /\ job' = [job EXCEPT ![p] = j] /\ UNCHANGED <<report, calls>>

End(p, status, owned) ==
  /\ pc' = [pc EXCEPT ![p] = "idle"]
  /\ job' = [job EXCEPT ![p] = IdleJob]
  /\ report' = [report EXCEPT ![p] = [status |-> status, owned |-> owned]]
  /\ UNCHANGED calls

Refuse(p) == End(p, "REFUSED", {})

(* handle_agent_resolve: a call is refused for its flags before it looks   *)
(* at the session.                                                         *)
Call(p, f) ==
  /\ pc[p] = "idle"
  /\ IF ModeRefused(f) \/ AxesRefused(f) THEN Refuse(p)
     ELSE /\ calls < MaxCalls
          /\ calls' = calls + 1
          /\ pc' = [pc EXCEPT ![p] = "select"]
          /\ job' = [job EXCEPT ![p] = [IdleJob EXCEPT !.form = f]]
          /\ report' = [report EXCEPT ![p] = Silent]
  /\ UNCHANGED <<world, session>>

(* _dispatch_single_item_resolution: every input is checked before the     *)
(* thread is reopened.                                                     *)
SelectOne(p) ==
  LET f == job[p].form
      t == Target(f.item)
  IN  /\ pc[p] = "select" /\ Route(f) = "one"
      /\ IF t = NoThread \/ (IF Declining(f) THEN DeclineRefused(f) ELSE FixRefused(f) \/ TrivialRefused(f, t))
         THEN Refuse(p)
         ELSE Goto(p, IF f.closed THEN "reopen" ELSE "chunk",
                   [job[p] EXCEPT !.todo = {t}, !.target = t, !.form.publish = @ \/ f.closed])
      /\ UNCHANGED <<world, session>>

(* reopen_resolved_thread_for_reply *)
Reopen(p) ==
  LET t == job[p].target
  IN  /\ pc[p] = "reopen"
      /\ IF rows[t].state = "closed" /\ ~rows[t].replied
         THEN rows' = [rows EXCEPT ![t].state = "open"] /\ Goto(p, "chunk", job[p])
         ELSE UNCHANGED rows /\ Refuse(p)
      /\ UNCHANGED <<world, lease, kept>>

(* fast_fix_from_batch_input: the leases were claimed with agent next. *)
SelectInput(p) ==
  LET f == job[p].form
  IN  /\ pc[p] = "select" /\ Route(f) = "batch"
      /\ IF BareRows(f) \/ StaleRows(f) THEN Refuse(p) ELSE Goto(p, "submit", [job[p] EXCEPT !.rows = f.input])
      /\ UNCHANGED <<world, session>>

(* Selection and routing read one load of the session. *)
Select(p, next) ==
  LET f == job[p].form
      S == Matches(f, p)
  IN  /\ IF ContextRefused(f) \/ S = {} \/ RoutingRefused(f, S) THEN Refuse(p)
         ELSE Goto(p, next, [job[p] EXCEPT !.todo = S])
      /\ UNCHANGED <<world, session>>

(* fast_fix_matching_threads, for open threads *)
SelectFixes(p) == pc[p] = "select" /\ Route(job[p].form) = "matching" /\ Select(p, "chunk")

(* fast_fix_matching_threads, for outdated ones *)
SelectStale(p) == pc[p] = "select" /\ Route(job[p].form) = "stale" /\ Select(p, "release")

(* decline_matching_threads *)
SelectDeclines(p) == pc[p] = "select" /\ Route(job[p].form) = "declines" /\ Select(p, "chunk")

(* release_self_stale_lease, on a second load. *)
ReleaseStale(p) ==
  LET S == {t \in job[p].todo : lease[t] = p}
  IN  /\ pc[p] = "release"
      /\ lease' = [t \in Threads |-> IF t \in S THEN Nobody ELSE lease[t]]
      /\ rows' = [t \in Threads |-> IF t \in S THEN [rows[t] EXCEPT !.state = "open", !.stale = TRUE] ELSE rows[t]]
      /\ kept' = [kept EXCEPT ![p] = @ \ S]
      /\ Goto(p, "chunk", job[p])
      /\ UNCHANGED world

(* A fix of several threads goes by chunks, everything else one by one. *)
ChunkSize(f) == IF Route(f) \in {"matching", "stale"} THEN Limit ELSE 1
FirstOf(S) == CHOOSE t \in S : S \cap UpTo(t) = {t}

NextChunk(p) ==
  LET j == job[p]
      S == {t \in j.todo : Place(t, j.todo) <= ChunkSize(j.form)}
  IN  /\ pc[p] = "chunk" /\ j.todo # {}
      /\ Goto(p, "claim", [j EXCEPT !.batch = S, !.todo = @ \ S, !.rows = {}, !.created = {}])
      /\ UNCHANGED <<world, session>>

(* _assert_thread_not_resolved_remotely, record_classification and         *)
(* issue_action_request: a lease the agent holds already is re-entered.    *)
Claimable(p, t, f) ==
  /\ rows[t].state # "unknown"
  /\ (Route(f) = "one" /\ ~Declining(f)) => ~Resolved(rows[t])
  /\ lease[t] = p \/ (lease[t] = Nobody /\ rows[t].state = "open")

Claim(p) ==
  LET j == job[p]
      t == FirstOf(j.batch)
  IN  /\ pc[p] = "claim" /\ j.batch # {}
      /\ IF Claimable(p, t, j.form)
         THEN /\ lease' = [lease EXCEPT ![t] = p]
              /\ rows' = [rows EXCEPT ![t].state = IF lease[t] = p THEN @ ELSE "claimed"]
              /\ Goto(p, IF j.batch = {t} THEN "submit" ELSE "claim",
                      [j EXCEPT !.batch = @ \ {t}, !.rows = @ \cup {t},
                                !.created = IF lease[t] = p THEN @ ELSE @ \cup {t}])
         ELSE /\ UNCHANGED <<lease, rows>>
              /\ IF Route(j.form) = "one" THEN Refuse(p)
                 ELSE Goto(p, CASE j.batch # {t} -> "claim" [] j.batch = {t} /\ j.rows # {} -> "submit" [] OTHER -> "chunk",
                           [j EXCEPT !.batch = @ \ {t}, !.failed = @ \cup {t}])
      /\ UNCHANGED <<world, kept>>

(* Mutant: a rejected decline keeps its lease. *)
GivenBackNever(j) == IF Declining(j.form) THEN {} ELSE j.created

(* claimed_fixer_lease, _process_fast_fix_matches: the leases to release   *)
(* after a rejected submit are those the chunk created.                    *)
GivenBack(j) == j.created

(* Responses are accepted row by row; the rest of a rejected submit is     *)
(* rolled back.                                                            *)
Accepted(S, back) ==
  /\ lease' = [t \in Threads |-> IF t \in S \cup back THEN Nobody ELSE lease[t]]
  /\ rows' = [t \in Threads |-> CASE t \in S -> [rows[t] EXCEPT !.state = "ready"]
                                  [] t \in back \ S -> [rows[t] EXCEPT !.state = "open"]
                                  [] OTHER -> rows[t]]
  /\ kept' = [q \in Procs |-> kept[q] \ S]

(* submit_action_response, submit_batch_action_response: every response    *)
(* passes.                                                                 *)
Submit(p) ==
  LET j == job[p]
      more == [j EXCEPT !.accepted = @ \cup j.rows]
  IN  /\ pc[p] = "submit"
      /\ \A t \in j.rows : lease[t] = p
      /\ Accepted(j.rows, {})
      /\ Goto(p, IF j.todo = {} THEN "finish" ELSE "chunk", more)
      /\ UNCHANGED world

(* A response is rejected, after some rows of the same submit passed.      *)
(* _process_decline_matches goes on with the next thread; any other call   *)
(* ends here.                                                              *)
Reject(p) ==
  LET j == job[p]
  IN  /\ pc[p] = "submit"
      /\ \E S \in SUBSET j.rows :
           /\ S # j.rows /\ \A t \in S : lease[t] = p
           /\ Accepted(S, GivenBack(j) \ S)
           /\ IF Route(j.form) = "declines"
              THEN Goto(p, "chunk", [j EXCEPT !.failed = @ \cup j.rows])
              ELSE Refuse(p)
      /\ UNCHANGED world

(* _finalize_matching_threads: what was accepted is published even when    *)
(* other threads failed, and the failure is reported.                      *)
Status(j, published) ==
  CASE j.failed # {} /\ j.accepted # {} -> "PARTIAL"
    [] j.failed # {} /\ j.accepted = {} -> "NO_ACCEPTED"
    [] OTHER -> Outcome(j.form.publish, j.accepted, published)

Finish(p) ==
  LET j == job[p]
      ready == {t \in Threads : rows[t].state = "ready"}
  IN  /\ pc[p] = "finish" \/ (pc[p] = "chunk" /\ j.todo = {})
      /\ IF j.form.publish /\ j.accepted # {} /\ ready # {}
         THEN Goto(p, "post", [j EXCEPT !.plan = ready])
         ELSE End(p, Status(j, {}), j.accepted)
      /\ UNCHANGED <<world, session>>

(* publish_github_thread_responses: every thread it loaded as ready, its   *)
(* own or another's, is answered and resolved.                             *)
Replied(S) ==
  /\ posted' = posted \cup S
  /\ github' = [t \in Threads |-> IF t \in S THEN [github[t] EXCEPT !.st = "resolved"] ELSE github[t]]

Post(p) ==
  LET j == job[p]
  IN  /\ pc[p] = "post"
      /\ Replied(j.plan)
      /\ rows' = [t \in Threads |-> IF t \in j.plan THEN [rows[t] EXCEPT !.state = "closed", !.replied = TRUE]
                                    ELSE rows[t]]
      /\ End(p, Status(j, j.plan), j.accepted)
      /\ UNCHANGED <<lease, kept>>

(* GitHub refuses a mutation: the run stops there and the call with it. *)
PostFails(p) ==
  /\ pc[p] = "post"
  /\ \E S \in SUBSET job[p].plan : S # job[p].plan /\ Replied(S)
  /\ Refuse(p)
  /\ UNCHANGED session

-----------------------------------------------------------------------------
(* The other commands and GitHub *)

(* agent next *)
AgentNext(p, t) ==
  /\ pc[p] = "idle" /\ lease[t] = Nobody /\ rows[t].state = "open"
  /\ lease' = [lease EXCEPT ![t] = p]
  /\ rows' = [rows EXCEPT ![t].state = "claimed"]
  /\ kept' = [kept EXCEPT ![p] = @ \cup {t}]
  /\ UNCHANGED <<world, pc, job, report, calls>>

(* _merge_single_remote_thread *)
Merged(t) ==
  LET row == rows[t]
      g == github[t]
  IN  CASE g.st = "absent" -> row
        [] g.st = "resolved" /\ row.state = "unknown" -> [row EXCEPT !.state = "historic"]
        [] g.st = "resolved" /\ row.state # "unknown" ->
             [row EXCEPT !.state = IF Resolved(row) THEN @ ELSE "closed", !.stale = g.outdated]
        [] g.st = "open" /\ row.state = "ready" -> [row EXCEPT !.stale = g.outdated]
        [] OTHER -> [row EXCEPT !.state = "open", !.stale = g.outdated]

(* Another command refreshes the session from GitHub. *)
Refresh ==
  /\ rows' = [t \in Threads |-> Merged(t)]
  /\ UNCHANGED <<world, lease, kept, pc, job, report, calls>>

(* People open threads, push over them and resolve them. *)
OnGitHub(t) ==
  /\ github' \in {[github EXCEPT ![t].st = "open"], [github EXCEPT ![t].st = "resolved"],
                  [github EXCEPT ![t].outdated = TRUE]}
  /\ github[t].st = "absent" => github'[t].st = "open"
  /\ github[t].st # "resolved" /\ github' # github
  /\ UNCHANGED <<posted, session, pc, job, report, calls>>

Next ==
  \/ \E p \in Procs :
       \/ \E f \in Forms : Call(p, f)
       \/ SelectOne(p) \/ Reopen(p) \/ SelectInput(p) \/ SelectFixes(p) \/ SelectStale(p) \/ SelectDeclines(p)
       \/ ReleaseStale(p)
       \/ NextChunk(p) \/ Claim(p) \/ Submit(p) \/ Reject(p) \/ Finish(p) \/ Post(p) \/ PostFails(p)
       \/ \E t \in Threads : AgentNext(p, t)
  \/ Refresh
  \/ \E t \in Threads : OnGitHub(t)

Spec == Init /\ [][Next]_vars

-----------------------------------------------------------------------------
TypeOK ==
  /\ github \in [Threads -> GitHub] /\ rows \in [Threads -> Row]
  /\ lease \in [Threads -> Procs \cup {Nobody}] /\ pc \in [Procs -> Steps]
  /\ posted \subseteq Threads /\ calls \in 0..MaxCalls /\ kept \in [Procs -> SUBSET Threads]
  /\ \A p \in Procs : job[p].form \in Forms \cup {NoForm} \cup {[f EXCEPT !.publish = TRUE] : f \in Forms}

(* A call that reports COMPLETE had every thread it owns answered on       *)
(* GitHub: publish_outcome_status looks at what its publish covered, which *)
(* may leave out a thread that a refresh took away in between and may hold *)
(* threads of other agents.                                                *)
CompleteIsTrue == \A p \in Procs : report[p].status = "COMPLETE" => report[p].owned \subseteq posted

(* The threads an agent holds once its call has ended are those it took    *)
(* with agent next: whichever thread of whichever route was rejected, the  *)
(* call leaves no lease of its own behind.                                 *)
NoLeaseLeft == \A p \in Procs : pc[p] = "idle" => {t \in Threads : lease[t] = p} \subseteq kept[p]

(* What a call answers is what it was asked to: the one thread it names;   *)
(* or threads of the files given, all with the same concern unless the     *)
(* call is about outdated ones; or those its input lists.                  *)
AnswersWhatIsAsked ==
  \A p \in Procs :
    LET f == job[p].form
        S == job[p].accepted
    IN  IF HasItem(f) THEN S \subseteq {job[p].target} /\ (f.item \in Threads => S \subseteq {f.item})
        ELSE IF f.input # {} THEN S \subseteq f.input
        ELSE /\ \A t \in S : Path[t] \in Files(f)
             /\ f.stale \/ \A t, u \in S : Concern[t] # NoConcern /\ Concern[t] = Concern[u]
=============================================================================
