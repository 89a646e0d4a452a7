------------------------------ MODULE StackGate ------------------------------
(***************************************************************************)
(* final-gate --stack (core/stack_gate.py) over a stack of pull requests:  *)
(* the stack is read page by page (GitHubClient.get_stack_context), every  *)
(* unmerged member up to the selected one goes through its own gate        *)
(* against that opening read, and the stack is read again at the end.      *)
(* People push, merge, queue and restack all the while, and after a push   *)
(* GitHub shows the head branch at its old commit for some time.  A member *)
(* has one fix to prove; the rest of its gate is ReviewSession's.          *)
(***************************************************************************)
EXTENDS Naturals, Sequences, FiniteSets

CONSTANTS
  Size,       \* number of members; a member's number is its position
  Selected,   \* the pull request the gate is run for
  PageSize,   \* entries in one page of the stack query
  LagReads,   \* HEAD_REF_LAG_READS
  ForcedBack, \* a forced push may bring a head back to the commit it had first
  MaxEvents   \* bound on what people do to the stack

StackAssumption ==
  /\ Size \in Nat \ {0, 1} /\ Selected \in 1..Size
  /\ PageSize \in Nat \ {0} /\ LagReads \in Nat \ {0} /\ MaxEvents \in Nat /\ ForcedBack \in BOOLEAN

VARIABLES
  pr,        \* GitHub: the pull requests
  stack,     \* GitHub: number of their stack, 0 if there is none
  evidence,  \* sessions: head tree each member's validation is bound to
  events,    \* what happened to the stack so far
  gate       \* the gate command

vars == <<pr, stack, evidence, events, gate>>
PRs == 1..Size

(* Commits and trees are numbered by the event that brings them; the head  *)
(* branch may lag behind the head commit.  Evidence: NoSession, or a tree, *)
(* 0 for none.                                                             *)
NoSession == MaxEvents + 2
HeadAt(c, t) == [commit |-> c, tree |-> t]

(* Mutant: the tree the branch shows is taken whatever commit it is from. *)
HeadTreeOidAny(p) == p.branch.tree

(* _head_tree_oid: the tree, when it was read from the head commit. *)
HeadTreeOid(p) == IF p.branch.commit = p.head.commit THEN p.head.tree ELSE 0

(* _stack_member_from_pull_request.  A member's base is the head of the    *)
(* unmerged member below it, or the trunk: GitHub retargets it on a merge. *)
Base(k) == IF k = 1 \/ pr[k - 1].state = "MERGED" THEN 0 ELSE k - 1
MemberRow(k) ==
  [state |-> pr[k].state, draft |-> pr[k].draft, queued |-> pr[k].queued, base |-> Base(k),
   commit |-> pr[k].head.commit, tree |-> HeadTreeOid(pr[k]),
   lagging |-> pr[k].state = "OPEN" /\ pr[k].branch.commit # pr[k].head.commit]

Context(availability, number, rows) ==
  [availability |-> availability, stack |-> number, rows |-> rows]
NoContext == Context("none", 0, <<>>)
Invalid == Context("invalid", 0, <<>>)
Unavailable == Context("unavailable", 0, <<>>)

(* PullRequestMemberFact.from_dict *)
MissingTree(row) == row.tree = 0 /\ row.state # "MERGED"

(* _stack_invariant_failure: merged members come first, the first unmerged *)
(* one targets the trunk and every other the member below it.              *)
IsChain(rows) ==
  /\ \A i, j \in DOMAIN rows : i < j /\ rows[j].state = "MERGED" => rows[i].state = "MERGED"
  /\ \A k \in DOMAIN rows : rows[k].state # "MERGED" =>
       rows[k].base = IF k = 1 \/ rows[k - 1].state = "MERGED" THEN 0 ELSE k - 1

(* project_stack_context of what a complete read returned. *)
ProjectStackContext(availability, number, rows) ==
  IF \E k \in DOMAIN rows : MissingTree(rows[k]) THEN Invalid
  ELSE IF availability = "present" /\ ~IsChain(rows) THEN Invalid
  ELSE Context(availability, number, rows)

(* _is_head_ref_lag: a missing tree is all that is wrong, and the lag      *)
(* explains every one.                                                     *)
IsHeadRefLag(rows) ==
  /\ \E k \in DOMAIN rows : MissingTree(rows[k])
  /\ \A k \in DOMAIN rows : MissingTree(rows[k]) => rows[k].lagging

(* Mutant: the fingerprint leaves the members' commits out. *)
FingerprintTopology(c) ==
  <<c.stack, [k \in DOMAIN c.rows |-> <<c.rows[k].state, c.rows[k].base>>]>>

(* _fingerprint_present, _fingerprint_absent *)
Fingerprint(c) == <<c.stack, [k \in DOMAIN c.rows |-> [c.rows[k] EXCEPT !.lagging = FALSE]]>>

(* Mutant: a closing read that failed leaves the opening one standing. *)
StaleIfRead(opening, closing) ==
  closing.availability = opening.availability /\ Fingerprint(closing) # Fingerprint(opening)

(* evaluate_stack_gate: the two reads must agree. *)
Stale(opening, closing) ==
  closing.availability # opening.availability \/ Fingerprint(closing) # Fingerprint(opening)

(* project_stack_segment: the unmerged members up to the selected one; the *)
(* rows of an unstacked read are the selected pull request alone.          *)
Included(c) ==
  IF c.availability = "absent" THEN {Selected} ELSE {k \in 1..Selected : c.rows[k].state # "MERGED"}
RowOf(c, k) == IF c.availability = "absent" THEN c.rows[1] ELSE c.rows[k]

-----------------------------------------------------------------------------
(* Reading the stack *)

(* _stack_page_identity and _selected_pr_page_identity *)
PageIdentity == <<stack, [MemberRow(Selected) EXCEPT !.tree = 0, !.lagging = FALSE]>>

Idle == [step |-> "idle", opening |-> NoContext, page |-> 0, identity |-> <<>>, rows |-> <<>>,
         reads |-> 0, next |-> 0, reason |-> "none", gated |-> [k \in PRs |-> NoSession], moment |-> <<>>]

(* run_stack_gate *)
Start ==
  /\ gate.step = "idle"
  /\ gate' = [Idle EXCEPT !.step = "opening"]
  /\ UNCHANGED <<pr, stack, evidence, events>>

(* What the gate does with a finished read.  moment is a history variable: *)
(* the pull requests at the end of the opening read.                       *)
Opened(c) ==
  gate' = IF c.availability \in {"invalid", "unavailable"}
          THEN [Idle EXCEPT !.step = "done", !.reason = c.availability]
          ELSE [Idle EXCEPT !.step = "members", !.opening = c, !.next = 1, !.moment = pr]
Closed(c) ==
  gate' = [gate EXCEPT !.step = "done", !.rows = <<>>, !.identity = <<>>, !.page = 0, !.reads = 0,
                       !.reason = IF Stale(gate.opening, c) THEN "stale" ELSE @]
Finish(c) == IF gate.step = "opening" THEN Opened(c) ELSE Closed(c)

(* get_stack_context: a read whose only defect is the lag is repeated, and *)
(* in the end invalid for a stacked pull request, unavailable otherwise.   *)
Complete(availability, rows) ==
  IF ~IsHeadRefLag(rows) THEN Finish(ProjectStackContext(availability, stack, rows))
  ELSE IF gate.reads + 1 < LagReads
       THEN gate' = [gate EXCEPT !.page = 0, !.rows = <<>>, !.identity = <<>>, !.reads = @ + 1]
       ELSE Finish(IF availability = "present" THEN Invalid ELSE Unavailable)

(* _read_stack_context, one page: a stack or a selected pull request that  *)
(* changed since the first page makes the read invalid.                    *)
Page ==
  LET first == Len(gate.rows) + 1
      last == IF first + PageSize - 1 < Size THEN first + PageSize - 1 ELSE Size
      rows == gate.rows \o [i \in 1..(last - first + 1) |-> MemberRow(first + i - 1)]
  IN  /\ gate.step \in {"opening", "closing"}
      /\ IF gate.page > 0 /\ PageIdentity # gate.identity THEN Finish(Invalid)
         ELSE IF stack = 0 THEN Complete("absent", <<MemberRow(Selected)>>)
         ELSE IF last < Size
              THEN gate' = [gate EXCEPT !.page = @ + 1, !.rows = rows, !.identity = PageIdentity]
         ELSE Complete("present", rows)
      /\ UNCHANGED <<pr, stack, evidence, events>>

-----------------------------------------------------------------------------
(* The members' gates *)

(* _member_preflight_reason *)
Preflight(row, k) ==
  CASE row.state = "CLOSED" -> "closed"
    [] row.draft -> "draft"
    [] row.queued -> "queued"
    [] evidence[k] = NoSession -> "session_missing"
    [] OTHER -> "none"

(* Mutant: evidence bound to any tree is good enough. *)
EvidenceCurrentAny(c, k) == evidence[k] # 0

(* compare_revision_binding, as generate_logic_validation_signals asks:    *)
(* the gate of a stacked member wants evidence bound to the tree that was  *)
(* read, an unstacked one's just evidence.                                 *)
EvidenceCurrent(c, k) ==
  evidence[k] # 0 /\ (c.availability = "present" => evidence[k] = RowOf(c, k).tree)

(* evaluate_stack_gate: every member is evaluated, in order; the first     *)
(* that fails names the reason.                                            *)
Reason(k) ==
  LET preflight == Preflight(RowOf(gate.opening, k), k)
  IN  IF preflight # "none" THEN preflight
      ELSE IF EvidenceCurrent(gate.opening, k) THEN "none" ELSE "blocked"
Member ==
  LET left == {k \in Included(gate.opening) : k >= gate.next}
  IN  /\ gate.step = "members"
      /\ \/ left = {} /\ gate' = [gate EXCEPT !.step = "closing"]
         \/ \E k \in left :
              /\ \A j \in left : k <= j
              /\ gate' = [gate EXCEPT !.next = k + 1, !.gated[k] = evidence[k],
                                      !.reason = IF @ = "none" THEN Reason(k) ELSE @]
      /\ UNCHANGED <<pr, stack, evidence, events>>

End ==
  /\ gate.step = "done"
  /\ gate' = Idle
  /\ UNCHANGED <<pr, stack, evidence, events>>

-----------------------------------------------------------------------------
(* Agents and people *)

(* An agent handles the member's threads; submission binds the evidence to *)
(* the tree of a fresh read.                                               *)
Answer(k) ==
  /\ HeadTreeOid(pr[k]) # 0 /\ pr[k].state = "OPEN"
  /\ evidence[k] # pr[k].head.tree
  /\ evidence' = [evidence EXCEPT ![k] = pr[k].head.tree]
  /\ UNCHANGED <<pr, stack, events, gate>>

Event == events < MaxEvents /\ events' = events + 1
Lands(k) == \A j \in 1..(k - 1) : pr[j].state = "MERGED"

(* A push brings a new tree, a rebase that keeps the content only a new    *)
(* commit, a forced push may bring the first commit back; the branch shows *)
(* it later.                                                               *)
Pushed(k) ==
  {HeadAt(events + 2, t) : t \in {pr[k].head.tree, events + 2}} \cup {h \in {HeadAt(1, 1)} : ForcedBack}
Push(k) ==
  /\ pr[k].state = "OPEN" /\ Event
  /\ \E h \in Pushed(k) : pr' = [pr EXCEPT ![k].head = h]
  /\ UNCHANGED <<stack, evidence, gate>>
CatchUp(k) ==
  /\ pr[k].branch # pr[k].head
  /\ pr' = [pr EXCEPT ![k].branch = pr[k].head]
  /\ UNCHANGED <<stack, evidence, events, gate>>
Change(k) ==
  /\ pr[k].state = "OPEN" /\ Event
  /\ \/ pr' = [pr EXCEPT ![k].draft = ~@]
     \/ pr' = [pr EXCEPT ![k].queued = ~@]
     \/ pr' = [pr EXCEPT ![k].state = "CLOSED"]
     \/ Lands(k) /\ pr' = [pr EXCEPT ![k].state = "MERGED"]
  /\ UNCHANGED <<stack, evidence, gate>>
Restack ==
  /\ Event
  /\ stack' = IF stack = 0 THEN events + 1 ELSE 0
  /\ UNCHANGED <<pr, evidence, gate>>

Init ==
  /\ pr = [k \in PRs |-> [state |-> "OPEN", draft |-> FALSE, queued |-> FALSE,
                          head |-> HeadAt(1, 1), branch |-> HeadAt(1, 1)]]
  /\ stack = 1
  /\ evidence \in [PRs -> {NoSession, 0}]
  /\ events = 0
  /\ gate = Idle

Next ==
  \/ Start \/ Page \/ Member \/ End
  \/ \E k \in PRs : Answer(k) \/ Push(k) \/ CatchUp(k) \/ Change(k)
  \/ Restack

Spec == Init /\ [][Next]_vars

-----------------------------------------------------------------------------
(* Properties *)

(* A stack gate that passes speaks of one state of the stack, though it    *)
(* was read in pages at different moments and gated member by member: at   *)
(* the end of the opening read every covered member was unmerged, and the  *)
(* evidence its gate accepted was for the tree its head then had.  It      *)
(* holds as long as no forced push brings a commit back between the reads. *)
PassIsOneState ==
  gate.step = "done" /\ gate.reason = "none" /\ gate.opening.availability = "present" =>
    \A k \in 1..Selected :
      gate.moment[k].state # "MERGED" => gate.gated[k] = gate.moment[k].head.tree
=============================================================================
