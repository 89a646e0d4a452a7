---------------------------- MODULE ServicesProofs ----------------------------
(***************************************************************************)
(* Safety of the machines of Services, each for every value of its         *)
(* constants.  One invariant for each machine:                             *)
(*                                                                         *)
(* Stack gate: heads only move forward, so a member whose opening and      *)
(* closing reads show the same commit had it at every moment in between.   *)
(*                                                                         *)
(* Plugin releases: one release run per version; whatever carries the      *)
(* version (file, asset, tip) is that run's, and a run at a step has behind*)
(* it what the earlier steps made.                                         *)
(*                                                                         *)
(* Bottle releases: a name of a version has one content, and the contents  *)
(* of a version fit together at every step of the run that adds them.      *)
(*                                                                         *)
(* GitHub calls: whoever holds the lane is a mutation that waited out the  *)
(* end of the last one; whoever writes the window read it under the lock.  *)
(*                                                                         *)
(* Branch control: what was tested and snapshotted is about the approved   *)
(* commits, and stays true because the repository only grows.              *)
(***************************************************************************)
EXTENDS Services, FiniteSetTheorems, TLAPS

States == {"OPEN", "CLOSED", "MERGED"}
HeadCommits == [commit : Nat, tree : Nat]
StackPR == [state : States, draft : BOOLEAN, queued : BOOLEAN, head : HeadCommits, branch : HeadCommits]
Row == [state : States, draft : BOOLEAN, queued : BOOLEAN, base : Nat, commit : Nat, tree : Nat,
        lagging : BOOLEAN]
Contexts == [availability : {"none", "invalid", "unavailable", "present", "absent"}, stack : Nat,
             rows : Seq(Row)]
Reasons == {"none", "closed", "draft", "queued", "session_missing", "blocked", "stale", "invalid",
            "unavailable"}
GateType == [step : {"idle", "opening", "members", "closing", "done"}, opening : Contexts, page : Nat,
             identity : {<<>>} \cup (Nat \X Row), rows : Seq(Row), reads : Nat, next : Nat,
             reason : Reasons, gated : [Stack!PRs -> Nat], moment : {<<>>} \cup [Stack!PRs -> StackPR]]

StackTypes ==
  /\ pr \in [Stack!PRs -> StackPR] /\ stack \in Nat /\ evidence \in [Stack!PRs -> Nat] /\ events \in Nat
  /\ gate \in GateType

(* A new commit has a new number. *)
Numbered == \A k \in Stack!PRs : pr[k].head.commit <= events + 1

(* From P to Q time passed: heads moved forward, what merged stays merged. *)
Later(P, Q) ==
  \A k \in Stack!PRs :
    /\ P[k].head.commit <= Q[k].head.commit
    /\ P[k].head.commit = Q[k].head.commit => P[k].head.tree = Q[k].head.tree
    /\ P[k].state = "MERGED" => Q[k].state = "MERGED"

(* The rows were read no later than P was the state of GitHub. *)
Before(rows, P) ==
  \A k \in DOMAIN rows :
    /\ rows[k].commit <= P[k].head.commit
    /\ rows[k].commit = P[k].head.commit => rows[k].tree \in {0, P[k].head.tree}
    /\ rows[k].state = "MERGED" => P[k].state = "MERGED"

(* They were read no earlier. *)
After(rows, P) == \A k \in DOMAIN rows : P[k].head.commit <= rows[k].commit

(* What the gate relies on while it reads rows. *)
ReadOK(rows) ==
  /\ gate.step = "opening" => Before(rows, pr)
  /\ gate.step = "closing" => After(rows, gate.moment)

(* The members gated so far had evidence for the tree that was read. *)
GatedOK(g) ==
  g.reason = "none" =>
    \A k \in Stack!Included(g.opening) : k < g.next => g.gated[k] # 0 /\ g.gated[k] = g.opening.rows[k].tree

GateInv ==
  /\ ReadOK(gate.rows) /\ Len(gate.rows) < Size
  /\ gate.step = "members" => gate.rows = <<>>
  /\ gate.step \in {"members", "closing"} =>
       /\ gate.moment \in [Stack!PRs -> StackPR] /\ Later(gate.moment, pr)
       /\ gate.opening.availability = "present" =>
            /\ Len(gate.opening.rows) = Size /\ Before(gate.opening.rows, gate.moment)
            /\ GatedOK(gate)
            /\ gate.step = "closing" => \A k \in Stack!Included(gate.opening) : k < gate.next

StackInv == StackTypes /\ Numbered /\ GateInv /\ Stack!PassIsOneState

-----------------------------------------------------------------------------
(* Rows and contexts *)

LEMMA RowIs ==
  ASSUME Stack!StackAssumption, StackTypes, NEW k \in Stack!PRs
  PROVE  /\ Stack!MemberRow(k) \in Row /\ Stack!MemberRow(k).commit = pr[k].head.commit
         /\ Stack!MemberRow(k).tree \in {0, pr[k].head.tree} /\ Stack!MemberRow(k).state = pr[k].state
<1>1. pr[k] \in StackPR BY DEF StackTypes
<1>2. Stack!Base(k) \in Nat BY DEF Stack!Base, Stack!PRs, Stack!StackAssumption
<1>3. Stack!HeadTreeOid(pr[k]) \in {0, pr[k].head.tree} /\ pr[k].head.tree \in Nat
  BY <1>1 DEF Stack!HeadTreeOid, StackPR, HeadCommits
<1> QED BY <1>1, <1>2, <1>3 DEF Stack!MemberRow, Row, StackPR, HeadCommits

LEMMA ContextIs ==
  ASSUME Stack!StackAssumption, StackTypes, NEW availability \in {"present", "absent"}, NEW rows \in Seq(Row)
  PROVE  LET c == Stack!ProjectStackContext(availability, stack, rows)
         IN  c \in Contexts /\ (c.availability \in {"present", "absent"} => c.availability = availability /\ c.rows = rows)
BY DEF Stack!ProjectStackContext, Stack!Context, Stack!Invalid, Contexts, StackTypes

LEMMA NoContexts ==
  /\ Stack!Invalid \in Contexts /\ Stack!Unavailable \in Contexts /\ Stack!NoContext \in Contexts
  /\ Stack!Invalid.availability = "invalid" /\ Stack!Unavailable.availability = "unavailable"
BY DEF Stack!Invalid, Stack!Unavailable, Stack!NoContext, Stack!Context, Contexts

LEMMA IdleType == ASSUME Stack!StackAssumption PROVE Stack!Idle \in GateType
<1>1. [k \in Stack!PRs |-> Stack!NoSession] \in [Stack!PRs -> Nat]
  BY DEF Stack!NoSession, Stack!StackAssumption
<1>2. <<>> \in Seq(Row) OBVIOUS
<1> QED BY <1>1, <1>2, NoContexts DEF Stack!Idle, GateType, Reasons

-----------------------------------------------------------------------------
(* Time passes *)

LEMMA LaterStays == ASSUME NEW P \in [Stack!PRs -> StackPR] PROVE Later(P, P)
<1> SUFFICES ASSUME NEW k \in Stack!PRs PROVE P[k].head.commit <= P[k].head.commit BY DEF Later
<1>1. P[k].head.commit \in Nat BY DEF StackPR, HeadCommits
<1> QED BY <1>1

(* The gate's step leaves GitHub alone. *)
LEMMA OpenedOK ==
  ASSUME Stack!StackAssumption, StackInv, NEW c \in Contexts, c.availability # "none", gate.step = "opening",
         c.availability = "present" => Len(c.rows) = Size /\ Before(c.rows, pr),
         Stack!Opened(c), UNCHANGED <<pr, stack, evidence, events>>
  PROVE  StackInv'
<1> USE DEF StackInv
<1>1. CASE c.availability \in {"invalid", "unavailable"}
  <2>1. gate' = [Stack!Idle EXCEPT !.step = "done", !.reason = c.availability] BY <1>1 DEF Stack!Opened
  <2>2. gate' \in GateType BY <1>1, <2>1, IdleType DEF GateType, Reasons
  <2>3. gate'.step = "done" /\ gate'.reason # "none" /\ gate'.rows = <<>>
    BY <1>1, <2>1, IdleType DEF GateType, Stack!Idle
  <2>4. Len(gate'.rows) < Size BY <2>3 DEF Stack!StackAssumption
  <2>5. GateInv' BY <2>3, <2>4 DEF GateInv, ReadOK
  <2> QED BY <2>2, <2>3, <2>5 DEF StackTypes, Numbered, Stack!PassIsOneState, Stack!PRs
<1>2. CASE c.availability \notin {"invalid", "unavailable"}
  <2>1. gate' = [Stack!Idle EXCEPT !.step = "members", !.opening = c, !.next = 1, !.moment = pr]
    BY <1>2 DEF Stack!Opened
  <2>2. gate' \in GateType BY <2>1, IdleType DEF GateType, StackTypes
  <2>3. /\ gate'.step = "members" /\ gate'.opening = c /\ gate'.next = 1 /\ gate'.moment = pr
        /\ gate'.rows = <<>>
    BY <2>1, IdleType DEF GateType, Stack!Idle
  <2>4. Len(gate'.rows) < Size BY <2>3 DEF Stack!StackAssumption
  <2>5. Later(pr, pr) BY LaterStays DEF StackTypes
  <2>6. c.availability = "present" => GatedOK(gate')
    <3>1. c.availability = "present" => \A k \in Stack!Included(c) : ~(k < 1) BY DEF Stack!Included
    <3> QED BY <2>3, <3>1 DEF GatedOK
  <2>7. GateInv' BY <2>3, <2>4, <2>5, <2>6 DEF GateInv, ReadOK, GatedOK, StackTypes, Stack!PRs
  <2> QED BY <2>2, <2>3, <2>7 DEF StackTypes, Numbered, Stack!PassIsOneState, Stack!PRs
<1> QED BY <1>1, <1>2

LEMMA ClosedOK ==
  ASSUME Stack!StackAssumption, StackInv, NEW c \in Contexts, gate.step = "closing",
         c.availability = "present" => Len(c.rows) = Size /\ After(c.rows, gate.moment),
         Stack!Closed(c), UNCHANGED <<pr, stack, evidence, events>>
  PROVE  StackInv'
<1> USE DEF StackInv
<1>1. gate' \in GateType /\ gate'.step = "done" /\ gate'.rows = <<>>
  <2>1. gate \in GateType /\ <<>> \in Seq(Row) /\ 0 \in Nat BY DEF StackTypes
  <2>2. \/ gate' = [gate EXCEPT !.step = "done", !.rows = <<>>, !.identity = <<>>, !.page = 0, !.reads = 0,
                                !.reason = "stale"]
        \/ gate' = [gate EXCEPT !.step = "done", !.rows = <<>>, !.identity = <<>>, !.page = 0, !.reads = 0]
    BY <2>1 DEF Stack!Closed, GateType
  <2> QED BY <2>1, <2>2 DEF GateType, Reasons
<1>2. /\ UNCHANGED <<gate.opening, gate.gated, gate.moment>>
      /\ gate'.reason = "none" => ~Stack!Stale(gate.opening, c) /\ gate.reason = "none"
  BY DEF Stack!Closed, StackTypes, GateType
<1>3. Len(gate'.rows) < Size BY <1>1 DEF Stack!StackAssumption
<1>4. GateInv' BY <1>1, <1>3 DEF GateInv, ReadOK
<1>5. Stack!PassIsOneState'
  <2> DEFINE o == gate.opening
             m == gate.moment
  <2> SUFFICES ASSUME gate'.reason = "none", o.availability = "present",
                      NEW k \in 1..Selected, m[k].state # "MERGED"
               PROVE  gate.gated[k] = m[k].head.tree
    BY <1>2 DEF Stack!PassIsOneState
  <2>1. /\ m \in [Stack!PRs -> StackPR] /\ Len(o.rows) = Size /\ Before(o.rows, m) /\ GatedOK(gate)
        /\ \A j \in Stack!Included(o) : j < gate.next
    BY DEF GateInv
  <2>2. k \in Stack!PRs /\ k \in DOMAIN o.rows /\ o.rows \in Seq(Row)
    BY <2>1 DEF Stack!StackAssumption, Stack!PRs, StackTypes, GateType, Contexts
  <2>3. o.rows[k].state # "MERGED" BY <2>1, <2>2 DEF Before
  <2>4. k \in Stack!Included(o) BY <2>3 DEF Stack!Included
  <2>5. gate.gated[k] # 0 /\ gate.gated[k] = o.rows[k].tree BY <1>2, <2>1, <2>4 DEF GatedOK
  <2>6. c.availability = "present" /\ Stack!Fingerprint(c) = Stack!Fingerprint(o) BY <1>2 DEF Stack!Stale
  <2>7. c.rows \in Seq(Row) /\ k \in DOMAIN c.rows BY <2>2, <2>6 DEF Contexts, Stack!PRs
  <2>8. [c.rows[k] EXCEPT !.lagging = FALSE] = [o.rows[k] EXCEPT !.lagging = FALSE]
    <3>1. [j \in DOMAIN c.rows |-> [c.rows[j] EXCEPT !.lagging = FALSE]]
            = [j \in DOMAIN o.rows |-> [o.rows[j] EXCEPT !.lagging = FALSE]]
      BY <2>6 DEF Stack!Fingerprint
    <3> QED BY <2>2, <2>7, <3>1
  <2>9. c.rows[k].commit = o.rows[k].commit
    <3>1. c.rows[k] \in Row /\ o.rows[k] \in Row BY <2>2, <2>7
    <3> QED BY <2>8, <3>1 DEF Row
  <2>10. m[k].head.commit <= c.rows[k].commit BY <2>6, <2>7 DEF After
  <2>11. o.rows[k].commit <= m[k].head.commit BY <2>1, <2>2 DEF Before
  <2>12. m[k].head.commit \in Nat /\ o.rows[k].commit \in Nat
    <3>1. m[k] \in StackPR /\ o.rows[k] \in Row BY <2>1, <2>2
    <3> QED BY <3>1 DEF StackPR, HeadCommits, Row
  <2>13. o.rows[k].commit = m[k].head.commit BY <2>9, <2>10, <2>11, <2>12
  <2> QED BY <2>1, <2>2, <2>5, <2>13 DEF Before
<1> QED BY <1>1, <1>4, <1>5 DEF StackTypes, Numbered, Stack!PRs

LEMMA FinishOK ==
  ASSUME Stack!StackAssumption, StackInv, NEW c \in Contexts, c.availability # "none",
         gate.step \in {"opening", "closing"},
         c.availability = "present" => Len(c.rows) = Size /\ ReadOK(c.rows),
         Stack!Finish(c), UNCHANGED <<pr, stack, evidence, events>>
  PROVE  StackInv'
BY OpenedOK, ClosedOK DEF Stack!Finish, ReadOK

-----------------------------------------------------------------------------
(* Reading *)

LEMMA CompleteOK ==
  ASSUME Stack!StackAssumption, StackInv, gate.step \in {"opening", "closing"},
         NEW availability \in {"present", "absent"}, NEW rows \in Seq(Row),
         availability = "present" => Len(rows) = Size /\ ReadOK(rows),
         Stack!Complete(availability, rows), UNCHANGED <<pr, stack, evidence, events>>
  PROVE  StackInv'
<1> USE DEF StackInv
<1>1. CASE Stack!Finish(Stack!ProjectStackContext(availability, stack, rows))
  <2> DEFINE c == Stack!ProjectStackContext(availability, stack, rows)
  <2>1. c \in Contexts /\ (c.availability \in {"present", "absent"} => c.availability = availability /\ c.rows = rows)
    BY ContextIs
  <2>2. c.availability # "none" BY DEF Stack!ProjectStackContext, Stack!Context, Stack!Invalid
  <2> HIDE DEF c
  <2>3. Stack!Finish(c) BY <1>1 DEF c
  <2> QED BY <2>1, <2>2, <2>3, FinishOK
<1>2. CASE Stack!Finish(Stack!Invalid) \/ Stack!Finish(Stack!Unavailable) BY <1>2, NoContexts, FinishOK
<1>3. CASE gate' = [gate EXCEPT !.page = 0, !.rows = <<>>, !.identity = <<>>, !.reads = @ + 1]
  <2>1. gate' \in GateType /\ gate'.rows = <<>>
    <3> DEFINE n == gate.reads + 1
    <3>1. gate \in GateType /\ <<>> \in Seq(Row) /\ 0 \in Nat BY DEF StackTypes
    <3>2. n \in Nat BY <3>1 DEF GateType
    <3>3. gate' = [gate EXCEPT !.page = 0, !.rows = <<>>, !.identity = <<>>, !.reads = n] BY <1>3
    <3> HIDE DEF n
    <3> QED BY <3>1, <3>2, <3>3 DEF GateType
  <2>2. UNCHANGED <<gate.step, gate.opening, gate.next, gate.reason, gate.gated, gate.moment>>
    BY <1>3 DEF StackTypes, GateType
  <2>3. Len(gate'.rows) < Size BY <2>1 DEF Stack!StackAssumption
  <2>4. ReadOK(gate.rows)' BY <2>1, <2>2 DEF ReadOK, Before, After
  <2>5. GateInv' BY <2>1, <2>2, <2>3, <2>4 DEF GateInv, GatedOK, Stack!Included, Stack!PRs
  <2> QED BY <2>1, <2>2, <2>5 DEF StackTypes, Numbered, Stack!PassIsOneState, Stack!PRs
<1> QED BY <1>1, <1>2, <1>3 DEF Stack!Complete

(* A page adds rows of this moment to rows of earlier ones. *)
LEMMA RowsRead ==
  ASSUME Stack!StackAssumption, StackInv, gate.step \in {"opening", "closing"}, NEW last \in Len(gate.rows)..Size
  PROVE  LET first == Len(gate.rows) + 1
             rows == gate.rows \o [i \in 1..(last - first + 1) |-> Stack!MemberRow(first + i - 1)]
         IN  rows \in Seq(Row) /\ Len(rows) = last /\ ReadOK(rows)
<1> USE DEF StackInv
<1> DEFINE n == Len(gate.rows)
           page == [i \in 1..(last - (n + 1) + 1) |-> Stack!MemberRow((n + 1) + i - 1)]
           rows == gate.rows \o page
<1>1. gate.rows \in Seq(Row) /\ n \in Nat /\ last \in Nat /\ n <= last /\ last <= Size
  BY DEF StackTypes, GateType, Stack!StackAssumption
<1>2. last - (n + 1) + 1 = last - n /\ last - n \in Nat BY <1>1
<1>3. \A i \in 1..(last - n) : (n + 1) + i - 1 = n + i /\ n + i \in Stack!PRs
  BY <1>1 DEF Stack!PRs, Stack!StackAssumption
<1>4. page \in Seq(Row) /\ Len(page) = last - n
  <2>1. page = [i \in 1..(last - n) |-> Stack!MemberRow(n + i)] BY <1>2, <1>3
  <2>2. \A i \in 1..(last - n) : Stack!MemberRow(n + i) \in Row BY <1>3, RowIs
  <2> HIDE DEF page
  <2> QED BY <1>2, <2>1, <2>2
<1>5. \A i \in 1..(last - n) : page[i] = Stack!MemberRow(n + i) BY <1>2, <1>3
<1> HIDE DEF page
<1>6. rows \in Seq(Row) /\ Len(rows) = last /\ DOMAIN rows = 1..last BY <1>1, <1>2, <1>4
<1>7. \A k \in 1..n : rows[k] = gate.rows[k] BY <1>1, <1>4
<1>8. \A k \in (n + 1)..last : k \in Stack!PRs /\ rows[k] = Stack!MemberRow(k)
  <2> TAKE k \in (n + 1)..last
  <2>1. k - n \in 1..(last - n) /\ n + (k - n) = k BY <1>1
  <2>2. rows[k] = page[k - n] BY <1>1, <1>4, <2>1
  <2> QED BY <1>3, <1>5, <2>1, <2>2
<1>9. \A k \in 1..last : k \in 1..n \/ k \in (n + 1)..last BY <1>1
<1> HIDE DEF rows
<1>10. ASSUME gate.step = "opening" PROVE Before(rows, pr)
  <2> SUFFICES ASSUME NEW k \in 1..last
               PROVE  /\ rows[k].commit <= pr[k].head.commit
                      /\ rows[k].commit = pr[k].head.commit => rows[k].tree \in {0, pr[k].head.tree}
                      /\ rows[k].state = "MERGED" => pr[k].state = "MERGED"
    BY <1>6 DEF Before
  <2>1. CASE k \in 1..n BY <1>1, <1>7, <1>10, <2>1 DEF GateInv, ReadOK, Before
  <2>2. CASE k \in (n + 1)..last
    <3>1. pr[k].head.commit \in Nat BY <1>8, <2>2 DEF StackTypes, StackPR, HeadCommits
    <3> QED BY <1>8, <2>2, <3>1, RowIs
  <2> QED BY <1>9, <2>1, <2>2
<1>11. ASSUME gate.step = "closing" PROVE After(rows, gate.moment)
  <2> SUFFICES ASSUME NEW k \in 1..last PROVE gate.moment[k].head.commit <= rows[k].commit
    BY <1>6 DEF After
  <2>1. CASE k \in 1..n BY <1>1, <1>7, <1>11, <2>1 DEF GateInv, ReadOK, After
  <2>2. CASE k \in (n + 1)..last BY <1>8, <1>11, <2>2, RowIs DEF GateInv, Later
  <2> QED BY <1>9, <2>1, <2>2
<1>12. ReadOK(rows) BY <1>10, <1>11 DEF ReadOK
<1> QED BY <1>6, <1>12 DEF rows, page

LEMMA PageOK ==
  ASSUME Stack!StackAssumption, StackInv, Stack!Page
  PROVE  StackInv'
<1> USE DEF StackInv
<1> DEFINE first == Len(gate.rows) + 1
           last == IF first + PageSize - 1 < Size THEN first + PageSize - 1 ELSE Size
           rows == gate.rows \o [i \in 1..(last - first + 1) |-> Stack!MemberRow(first + i - 1)]
<1>1. gate.step \in {"opening", "closing"} /\ UNCHANGED <<pr, stack, evidence, events>> BY DEF Stack!Page
<1>2. Len(gate.rows) \in Nat /\ Len(gate.rows) < Size BY DEF StackTypes, GateType, GateInv
<1>3. last \in Len(gate.rows)..Size /\ last <= Size BY <1>2 DEF Stack!StackAssumption
<1>4. rows \in Seq(Row) /\ Len(rows) = last /\ ReadOK(rows) BY <1>1, <1>3, RowsRead
<1>5. CASE Stack!Finish(Stack!Invalid) BY <1>1, <1>5, NoContexts, FinishOK
<1>6. CASE Stack!Complete("absent", <<Stack!MemberRow(Selected)>>)
  <2>1. <<Stack!MemberRow(Selected)>> \in Seq(Row) BY RowIs DEF Stack!StackAssumption, Stack!PRs
  <2> QED BY <1>1, <1>6, <2>1, CompleteOK
<1>7. CASE last < Size /\ gate' = [gate EXCEPT !.page = @ + 1, !.rows = rows, !.identity = Stack!PageIdentity]
  <2>1. Stack!PageIdentity \in Nat \X Row
    <3>1. Stack!MemberRow(Selected) \in Row BY RowIs DEF Stack!StackAssumption, Stack!PRs
    <3> QED BY <3>1 DEF Stack!PageIdentity, StackTypes, Row
  <2> DEFINE n == gate.page + 1
             identity == Stack!PageIdentity
  <2>2. gate \in GateType /\ n \in Nat BY DEF StackTypes, GateType
  <2>3. gate' = [gate EXCEPT !.page = n, !.rows = rows, !.identity = identity] BY <1>7
  <2> HIDE DEF n, identity, rows, last
  <2>4. gate' \in GateType /\ gate'.rows = rows
    BY <1>4, <2>1, <2>2, <2>3 DEF GateType, identity
  <2>5. UNCHANGED <<gate.step, gate.opening, gate.next, gate.reason, gate.gated, gate.moment>>
    BY <2>2, <2>3 DEF GateType
  <2>6. ReadOK(gate.rows)' BY <1>1, <1>4, <2>4, <2>5 DEF ReadOK, Before, After
  <2>7. GateInv' BY <1>1, <1>4, <1>7, <2>4, <2>5, <2>6 DEF GateInv, GatedOK, Stack!Included, Stack!PRs
  <2>8. Stack!PassIsOneState' BY <1>1, <2>5 DEF Stack!PassIsOneState
  <2> QED BY <1>1, <2>4, <2>7, <2>8 DEF StackTypes, Numbered, Stack!PRs
<1>8. CASE last >= Size /\ Stack!Complete("present", rows)
  <2>1. last = Size BY <1>3, <1>8 DEF Stack!StackAssumption
  <2> HIDE DEF rows, last
  <2> QED BY <1>1, <1>4, <1>8, <2>1, CompleteOK
<1>9. ~(last < Size) => last >= Size BY <1>3 DEF Stack!StackAssumption
<1> QED BY <1>5, <1>6, <1>7, <1>8, <1>9 DEF Stack!Page

-----------------------------------------------------------------------------
(* Gating *)

LEMMA ReasonIs ==
  ASSUME Stack!StackAssumption, StackTypes, NEW k \in Stack!Included(gate.opening), gate.opening \in Contexts
  PROVE  /\ Stack!Reason(k) \in Reasons
         /\ Stack!Reason(k) = "none" /\ gate.opening.availability = "present" =>
              evidence[k] # 0 /\ evidence[k] = gate.opening.rows[k].tree
<1>1. Stack!Preflight(Stack!RowOf(gate.opening, k), k) \in {"closed", "draft", "queued", "session_missing", "none"}
  BY DEF Stack!Preflight
<1> QED BY <1>1 DEF Stack!Reason, Reasons, Stack!EvidenceCurrent, Stack!RowOf

LEMMA MemberOK ==
  ASSUME Stack!StackAssumption, StackInv, Stack!Member
  PROVE  StackInv'
<1> USE DEF StackInv
<1> DEFINE left == {k \in Stack!Included(gate.opening) : k >= gate.next}
<1>1. gate \in GateType /\ gate.step = "members" /\ UNCHANGED <<pr, stack, evidence, events>>
  BY DEF Stack!Member, StackTypes
<1>2. Stack!Included(gate.opening) \subseteq Stack!PRs /\ \A k \in Stack!Included(gate.opening) : k \in Nat
  BY DEF Stack!Included, Stack!StackAssumption, Stack!PRs
<1>3. gate.next \in Nat /\ gate.opening \in Contexts BY <1>1 DEF GateType
<1>4. CASE left = {} /\ gate' = [gate EXCEPT !.step = "closing"]
  <2>1. gate' \in GateType /\ gate'.step = "closing" BY <1>1, <1>4 DEF GateType
  <2>2. UNCHANGED <<gate.opening, gate.rows, gate.next, gate.reason, gate.gated, gate.moment>>
    BY <1>1, <1>4 DEF GateType
  <2>3. \A k \in Stack!Included(gate.opening) : k < gate.next BY <1>2, <1>3, <1>4
  <2>4. gate'.rows = <<>> BY <1>1, <2>2 DEF GateInv
  <2>5. ReadOK(gate.rows)' BY <2>1, <2>4 DEF ReadOK, After
  <2>6. GateInv' BY <1>1, <2>1, <2>2, <2>3, <2>5 DEF GateInv, GatedOK, Stack!Included, Stack!PRs
  <2>7. Stack!PassIsOneState' BY <2>1 DEF Stack!PassIsOneState
  <2> QED BY <1>1, <2>1, <2>6, <2>7 DEF StackTypes, Numbered, Stack!PRs
<1>5. ASSUME NEW k \in left, \A j \in left : k <= j,
             gate' = [gate EXCEPT !.next = k + 1, !.gated[k] = evidence[k],
                                  !.reason = IF @ = "none" THEN Stack!Reason(k) ELSE @]
      PROVE  StackInv'
  <2>1. k \in Stack!Included(gate.opening) /\ k \in Stack!PRs /\ k + 1 \in Nat BY <1>2
  <2> DEFINE reason == IF gate.reason = "none" THEN Stack!Reason(k) ELSE gate.reason
             gated == [gate.gated EXCEPT ![k] = evidence[k]]
             n == k + 1
  <2>2. reason \in Reasons BY <1>1, <1>3, <2>1, ReasonIs DEF GateType
  <2>3. gated \in [Stack!PRs -> Nat] BY <1>1, <2>1 DEF GateType, StackTypes
  <2>4. gate' = [gate EXCEPT !.next = n, !.gated = gated, !.reason = reason] BY <1>1, <1>5 DEF GateType
  <2>5. n \in Nat /\ n = k + 1 BY <2>1
  <2>6. gated[k] = evidence[k] /\ \A j \in Stack!PRs \ {k} : gated[j] = gate.gated[j]
    BY <1>1, <2>1 DEF GateType
  <2>7. reason = "none" => gate.reason = "none" /\ Stack!Reason(k) = "none" OBVIOUS
  <2> HIDE DEF reason, gated, n
  <2>8. gate' \in GateType /\ gate'.next = k + 1 /\ gate'.gated = gated /\ gate'.reason = reason
    BY <1>1, <2>2, <2>3, <2>4, <2>5 DEF GateType
  <2>9. UNCHANGED <<gate.step, gate.opening, gate.rows, gate.moment>> BY <1>1, <2>4 DEF GateType
  <2>10. ASSUME gate.opening.availability = "present" PROVE GatedOK(gate')
    <3> SUFFICES ASSUME reason = "none", NEW j \in Stack!Included(gate.opening), j < k + 1
                 PROVE  gated[j] # 0 /\ gated[j] = gate.opening.rows[j].tree
      BY <2>8, <2>9 DEF GatedOK, Stack!Included
    <3>1. CASE j = k BY <1>3, <2>1, <2>6, <2>7, <2>10, <3>1, ReasonIs
    <3>2. CASE j # k
      <4>1. j < k BY <1>2, <2>1, <3>2
      <4>2. j < gate.next
        <5>1. j \notin left BY <1>2, <1>5, <2>1, <4>1
        <5> QED BY <1>2, <1>3, <5>1
      <4> QED BY <1>1, <1>2, <2>6, <2>7, <2>10, <3>2, <4>2 DEF GateInv, GatedOK
    <3> QED BY <3>1, <3>2
  <2>11. ReadOK(gate.rows)' BY <1>1, <2>9 DEF ReadOK
  <2>12. GateInv' BY <1>1, <2>9, <2>10, <2>11 DEF GateInv, Stack!PRs
  <2>13. Stack!PassIsOneState' BY <1>1, <2>9 DEF Stack!PassIsOneState
  <2> QED BY <1>1, <2>8, <2>12, <2>13 DEF StackTypes, Numbered, Stack!PRs
<1> QED BY <1>4, <1>5 DEF Stack!Member

-----------------------------------------------------------------------------
(* GitHub *)

(* What people do only moves the pull requests forward. *)
LEMMA MovesOn ==
  ASSUME Stack!StackAssumption, StackInv, pr' \in [Stack!PRs -> StackPR], Numbered', Later(pr, pr'),
         stack' \in Nat, evidence' \in [Stack!PRs -> Nat], events' \in Nat, UNCHANGED gate
  PROVE  StackInv'
<1> USE DEF StackInv
<1>1. StackTypes' BY DEF StackTypes, Stack!PRs
<1>2. gate.step = "opening" => Before(gate.rows, pr')
  <2> SUFFICES ASSUME gate.step = "opening", NEW k \in DOMAIN gate.rows
               PROVE  /\ gate.rows[k].commit <= pr'[k].head.commit
                      /\ gate.rows[k].commit = pr'[k].head.commit => gate.rows[k].tree \in {0, pr'[k].head.tree}
                      /\ gate.rows[k].state = "MERGED" => pr'[k].state = "MERGED"
    BY DEF Before
  <2>1. Before(gate.rows, pr) BY DEF GateInv, ReadOK
  <2>2. gate.rows \in Seq(Row) /\ Len(gate.rows) < Size BY DEF StackTypes, GateType, GateInv
  <2>3. k \in Stack!PRs /\ gate.rows[k] \in Row BY <2>2 DEF Stack!PRs, Stack!StackAssumption
  <2>4. gate.rows[k].commit \in Nat BY <2>3 DEF Row
  <2>5. pr[k].head.commit \in Nat /\ pr'[k].head.commit \in Nat BY <2>3 DEF StackTypes, StackPR, HeadCommits
  <2>6. /\ pr[k].head.commit <= pr'[k].head.commit
        /\ pr[k].head.commit = pr'[k].head.commit => pr[k].head.tree = pr'[k].head.tree
        /\ pr[k].state = "MERGED" => pr'[k].state = "MERGED"
    BY <2>3 DEF Later
  <2>7. /\ gate.rows[k].commit <= pr[k].head.commit
        /\ gate.rows[k].commit = pr[k].head.commit => gate.rows[k].tree \in {0, pr[k].head.tree}
        /\ gate.rows[k].state = "MERGED" => pr[k].state = "MERGED"
    BY <2>1 DEF Before
  <2> QED BY <2>4, <2>5, <2>6, <2>7
<1>3. gate.step \in {"members", "closing"} => Later(gate.moment, pr')
  <2> SUFFICES ASSUME gate.step \in {"members", "closing"}, NEW k \in Stack!PRs
               PROVE  /\ gate.moment[k].head.commit <= pr'[k].head.commit
                      /\ gate.moment[k].head.commit = pr'[k].head.commit
                           => gate.moment[k].head.tree = pr'[k].head.tree
                      /\ gate.moment[k].state = "MERGED" => pr'[k].state = "MERGED"
    BY DEF Later
  <2>1. gate.moment \in [Stack!PRs -> StackPR] /\ Later(gate.moment, pr) BY DEF GateInv
  <2>2. gate.moment[k].head.commit \in Nat /\ pr[k].head.commit \in Nat /\ pr'[k].head.commit \in Nat
    BY <2>1 DEF StackTypes, StackPR, HeadCommits
  <2>3. /\ pr[k].head.commit <= pr'[k].head.commit
        /\ pr[k].head.commit = pr'[k].head.commit => pr[k].head.tree = pr'[k].head.tree
        /\ pr[k].state = "MERGED" => pr'[k].state = "MERGED"
    BY DEF Later
  <2>4. /\ gate.moment[k].head.commit <= pr[k].head.commit
        /\ gate.moment[k].head.commit = pr[k].head.commit => gate.moment[k].head.tree = pr[k].head.tree
        /\ gate.moment[k].state = "MERGED" => pr[k].state = "MERGED"
    BY <2>1 DEF Later
  <2> QED BY <2>2, <2>3, <2>4
<1>4. ReadOK(gate.rows)' BY <1>2 DEF GateInv, ReadOK
<1>5. GateInv' BY <1>3, <1>4 DEF GateInv, Stack!PRs
<1>6. Stack!PassIsOneState' BY DEF Stack!PassIsOneState
<1> QED BY <1>1, <1>5, <1>6

LEMMA PeopleOK ==
  ASSUME Stack!StackAssumption, ~ForcedBack, StackInv, NEW k \in Stack!PRs,
         Stack!Answer(k) \/ Stack!Push(k) \/ Stack!CatchUp(k) \/ Stack!Change(k)
  PROVE  StackInv'
<1> USE DEF StackInv
<1>1. pr[k] \in StackPR /\ pr[k].head \in HeadCommits /\ pr[k].head.commit \in Nat /\ pr[k].head.tree \in Nat
  BY DEF StackTypes, StackPR, HeadCommits
<1>2. Later(pr, pr) BY LaterStays DEF StackTypes
<1>3. CASE Stack!Answer(k)
  <2>1. UNCHANGED <<pr, stack, events, gate>> /\ evidence' \in [Stack!PRs -> Nat]
    BY <1>1, <1>3 DEF Stack!Answer, StackTypes
  <2> QED BY <1>2, <2>1, MovesOn DEF StackTypes, Numbered
<1>4. CASE Stack!Push(k)
  <2>1. PICK t \in {pr[k].head.tree, events + 2} : pr' = [pr EXCEPT ![k].head = Stack!HeadAt(events + 2, t)]
    BY <1>4 DEF Stack!Push, Stack!Pushed
  <2>2. events \in Nat /\ events' = events + 1 /\ UNCHANGED <<stack, evidence, gate>> /\ t \in Nat
    BY <1>1, <1>4 DEF Stack!Push, Stack!Event, StackTypes
  <2> DEFINE h == Stack!HeadAt(events + 2, t)
  <2>3. h \in HeadCommits /\ h.commit = events + 2 BY <2>2 DEF Stack!HeadAt, HeadCommits
  <2> HIDE DEF h
  <2>4. /\ pr' \in [Stack!PRs -> StackPR] /\ pr'[k].head = h /\ pr'[k].state = pr[k].state
        /\ \A j \in Stack!PRs \ {k} : pr'[j] = pr[j]
    BY <2>1, <2>3 DEF StackTypes, StackPR, h
  <2>5. \A j \in Stack!PRs : pr[j].head.commit \in Nat /\ pr[j].head.commit <= events + 1
    BY DEF StackTypes, StackPR, HeadCommits, Numbered
  <2>6. Numbered' BY <2>2, <2>3, <2>4, <2>5 DEF Numbered, Stack!PRs
  <2>7. Later(pr, pr') BY <1>2, <2>2, <2>3, <2>4, <2>5 DEF Later
  <2> QED BY <2>2, <2>4, <2>6, <2>7, MovesOn DEF StackTypes
<1>5. CASE Stack!CatchUp(k)
  <2>1. pr' = [pr EXCEPT ![k].branch = pr[k].head] /\ UNCHANGED <<stack, evidence, events, gate>>
    BY <1>5 DEF Stack!CatchUp
  <2>2. /\ pr' \in [Stack!PRs -> StackPR]
        /\ \A j \in Stack!PRs : pr'[j].head = pr[j].head /\ pr'[j].state = pr[j].state
    BY <1>1, <2>1 DEF StackTypes, StackPR
  <2> QED BY <1>2, <2>1, <2>2, MovesOn DEF StackTypes, Numbered, Later, Stack!PRs
<1>6. CASE Stack!Change(k)
  <2>1. /\ pr[k].state = "OPEN" /\ events' = events + 1 /\ UNCHANGED <<stack, evidence, gate>>
        /\ \/ pr' = [pr EXCEPT ![k].draft = ~@] \/ pr' = [pr EXCEPT ![k].queued = ~@]
           \/ pr' = [pr EXCEPT ![k].state = "CLOSED"] \/ pr' = [pr EXCEPT ![k].state = "MERGED"]
    BY <1>6 DEF Stack!Change, Stack!Event
  <2> DEFINE Moved == /\ pr' \in [Stack!PRs -> StackPR]
                      /\ \A j \in Stack!PRs : /\ pr'[j].head = pr[j].head
                                              /\ pr[j].state = "MERGED" => pr'[j].state = "MERGED"
  <2>a. ASSUME NEW b \in BOOLEAN, pr' = [pr EXCEPT ![k].draft = b] PROVE Moved
    BY <1>1, <2>a DEF StackTypes, StackPR
  <2>b. ASSUME NEW b \in BOOLEAN, pr' = [pr EXCEPT ![k].queued = b] PROVE Moved
    BY <1>1, <2>b DEF StackTypes, StackPR
  <2>c. ASSUME NEW s \in States, pr' = [pr EXCEPT ![k].state = s] PROVE Moved
    BY <1>1, <2>1, <2>c DEF StackTypes, StackPR
  <2>d. (~pr[k].draft) \in BOOLEAN /\ (~pr[k].queued) \in BOOLEAN OBVIOUS
  <2>e. "CLOSED" \in States /\ "MERGED" \in States BY DEF States
  <2>2. Moved
    <3>1. ASSUME pr' = [pr EXCEPT ![k].draft = ~@] PROVE Moved BY <2>a, <2>d, <3>1, Zenon
    <3>2. ASSUME pr' = [pr EXCEPT ![k].queued = ~@] PROVE Moved BY <2>b, <2>d, <3>2, Zenon
    <3>3. ASSUME pr' = [pr EXCEPT ![k].state = "CLOSED"] PROVE Moved BY <2>c, <2>e, <3>3
    <3>4. ASSUME pr' = [pr EXCEPT ![k].state = "MERGED"] PROVE Moved BY <2>c, <2>e, <3>4
    <3> QED BY <2>1, <3>1, <3>2, <3>3, <3>4
  <2>3. events \in Nat /\ \A j \in Stack!PRs : pr[j].head.commit \in Nat
    BY DEF StackTypes, StackPR, HeadCommits
  <2>4. Numbered' BY <2>1, <2>2, <2>3 DEF Numbered, Stack!PRs
  <2>5. Later(pr, pr') BY <1>2, <2>2 DEF Later
  <2> QED BY <2>1, <2>2, <2>3, <2>4, <2>5, MovesOn DEF StackTypes
<1> QED BY <1>3, <1>4, <1>5, <1>6

LEMMA RestackOK ==
  ASSUME Stack!StackAssumption, StackInv, Stack!Restack
  PROVE  StackInv'
<1> USE DEF StackInv
<1>1. events \in Nat /\ events' = events + 1 /\ UNCHANGED <<pr, evidence, gate>> /\ stack' \in Nat
  BY DEF Stack!Restack, Stack!Event, StackTypes
<1>2. \A j \in Stack!PRs : pr[j].head.commit \in Nat BY DEF StackTypes, StackPR, HeadCommits
<1>3. Numbered' BY <1>1, <1>2 DEF Numbered, Stack!PRs
<1>4. Later(pr, pr') BY <1>1, LaterStays DEF StackTypes
<1> QED BY <1>1, <1>3, <1>4, MovesOn DEF StackTypes

-----------------------------------------------------------------------------
(* The theorem *)

LEMMA StackBeginsOK ==
  ASSUME Stack!StackAssumption, StackInv, Stack!Start \/ Stack!End
  PROVE  StackInv'
<1> USE DEF StackInv
<1>1. gate' = [Stack!Idle EXCEPT !.step = "opening"] \/ gate' = Stack!Idle BY DEF Stack!Start, Stack!End
<1>2. UNCHANGED <<pr, stack, evidence, events>> BY DEF Stack!Start, Stack!End
<1>3. gate' \in GateType /\ gate'.step \in {"idle", "opening"} /\ gate'.rows = <<>>
  <2>1. Stack!Idle \in GateType /\ Stack!Idle.step = "idle" /\ Stack!Idle.rows = <<>>
    BY IdleType DEF Stack!Idle
  <2> QED BY <1>1, <2>1 DEF GateType
<1>4. Len(gate'.rows) < Size BY <1>3 DEF Stack!StackAssumption
<1>5. ReadOK(gate.rows)' BY <1>3 DEF ReadOK, Before
<1>6. GateInv' BY <1>3, <1>4, <1>5 DEF GateInv
<1> QED BY <1>2, <1>3, <1>6 DEF StackTypes, Numbered, Stack!PassIsOneState, Stack!PRs

LEMMA StackInitOK ==
  ASSUME Stack!StackAssumption, Stack!Init
  PROVE  StackInv
<1>1. gate \in GateType BY IdleType DEF Stack!Init
<1>2. Stack!HeadAt(1, 1) \in HeadCommits /\ Stack!HeadAt(1, 1).commit = 1 BY DEF Stack!HeadAt, HeadCommits
<1>3. pr \in [Stack!PRs -> StackPR] /\ \A k \in Stack!PRs : pr[k].head = Stack!HeadAt(1, 1)
  BY <1>2 DEF Stack!Init, StackPR, States
<1>4. Stack!NoSession \in Nat BY DEF Stack!NoSession, Stack!StackAssumption
<1>5. evidence \in [Stack!PRs -> Nat] /\ stack \in Nat /\ events \in Nat /\ events = 0
  BY <1>4 DEF Stack!Init
<1>6. Numbered BY <1>2, <1>3, <1>5 DEF Numbered
<1>7. gate.step = "idle" /\ gate.rows = <<>> BY DEF Stack!Init, Stack!Idle
<1>8. Len(gate.rows) < Size BY <1>7 DEF Stack!StackAssumption
<1>9. GateInv /\ Stack!PassIsOneState BY <1>7, <1>8 DEF GateInv, ReadOK, Stack!PassIsOneState
<1> QED BY <1>1, <1>3, <1>5, <1>6, <1>9 DEF StackInv, StackTypes

LEMMA StackStepOK ==
  ASSUME Stack!StackAssumption, ~ForcedBack, StackInv, Stack!Next \/ UNCHANGED <<pr, stack, evidence, events, gate>>
  PROVE  StackInv'
<1>1. CASE Stack!Start \/ Stack!End BY <1>1, StackBeginsOK
<1>2. CASE Stack!Page BY <1>2, PageOK
<1>3. CASE Stack!Member BY <1>3, MemberOK
<1>4. CASE \E k \in Stack!PRs : Stack!Answer(k) \/ Stack!Push(k) \/ Stack!CatchUp(k) \/ Stack!Change(k)
  BY <1>4, PeopleOK
<1>5. CASE Stack!Restack BY <1>5, RestackOK
<1>6. CASE UNCHANGED <<pr, stack, evidence, events, gate>>
  BY <1>6 DEF StackInv, StackTypes, Numbered, GateInv, ReadOK, Before, After, Stack!PassIsOneState, Stack!PRs
<1> QED BY <1>1, <1>2, <1>3, <1>4, <1>5, <1>6 DEF Stack!Next

(* A stack gate that passes speaks of one state of the stack, whatever     *)
(* people push, merge, close or restack while it reads pages and gates the *)
(* members one by one (run_stack_gate, evaluate_stack_gate): the closing   *)
(* read shows the commits of the opening one, and no forced push brings a  *)
(* commit back.                                                            *)
THEOREM StackPassIsOneState == ~ForcedBack => (Spec => []PassIsOneState)
<1> SUFFICES ASSUME ~ForcedBack PROVE Spec => []PassIsOneState OBVIOUS
<1> DEFINE IInv == subject = "stack" => StackInv
<1>1. Init => IInv BY ServicesAssumption, StackInitOK DEF Init
<1>2. IInv /\ [Next]_vars => IInv'
  <2> SUFFICES ASSUME StackInv, subject = "stack", [Next]_vars PROVE StackInv'
    BY DEF Next, vars
  <2>1. Stack!Next \/ UNCHANGED <<pr, stack, evidence, events, gate>>
    BY DEF Next, vars, OfStack, OfPullRequests
  <2> QED BY <2>1, ServicesAssumption, StackStepOK
<1>3. IInv => PassIsOneState BY DEF PassIsOneState, StackInv
<1> QED BY <1>1, <1>2, <1>3, PTL DEF Spec

-----------------------------------------------------------------------------
(* Plugin releases *)

AssetSet == {Plugin!AssetNames[i] : i \in 1..3}
Confirmed == {"wait"} \cup Plugin!Grouped
Released == {"stage", "upload", "confirm"} \cup Confirmed
PluginRun ==
  [kind : {"release", "recover"}, state : {"active", "failed", "done"},
   step : {"verify", "publish"} \cup Released, version : Nat, built : Nat, main : Nat,
   missing : SUBSET Plugin!Archives, uploaded : 0..3, parent : Nat, tries : Nat]
PluginTypes ==
  /\ main \in Nat /\ tags \in Seq(Nat) /\ faults \in Nat
  /\ shown \subseteq pypi /\ pypi \in SUBSET [version : Nat, name : Plugin!Archives, built : Nat]
  /\ assets \in SUBSET [version : Nat, name : AssetSet, built : Nat]
  /\ branch \in [commit : Nat, version : Nat, built : Nat]
  /\ runs \in Seq(PluginRun)

(* Run n is the release of version v, and has come as far as steps. *)
Maker(n, v, steps) ==
  n \in DOMAIN runs /\ runs[n].kind = "release" /\ runs[n].version = v /\ runs[n].step \in steps
HasAssets(v, built, k) == \A i \in 1..k : Plugin!File(v, Plugin!AssetNames[i], built) \in assets

(* What a run at its step can rely on. *)
RunFacts(n, r) ==
  /\ r.kind = "release" /\ r.step \in {"publish"} \cup Released => r.built = n
  /\ r.kind = "release" /\ r.step \in Released => r.version \in 1..Len(tags)
  /\ r.kind = "release" /\ r.step \in Confirmed =>
       \A name \in Plugin!Archives : Plugin!File(r.version, name, n) \in pypi
  /\ r.kind = "recover" => r.step \in Confirmed
  /\ r.step \in Plugin!Grouped => Maker(r.built, r.version, Confirmed)
  /\ r.step # "assets" => r.uploaded = 0
  /\ r.step = "assets" => HasAssets(r.version, r.built, r.uploaded)
  /\ r.step \in {"git", "push", "remote"} => HasAssets(r.version, r.built, 3)
  /\ r.step = "push" =>
       r.parent <= branch.commit /\ (r.parent = branch.commit => branch.version < r.version)
RunOK(n) == RunFacts(n, runs[n])

(* A version is released by one run. *)
OneMaker == \A n, m, v : Maker(n, v, Released) /\ Maker(m, v, Released) => n = m

(* Every file, asset and tip of the marketplace branch is of that run. *)
FilesOK ==
  /\ \A f \in pypi : Maker(f.built, f.version, Released)
  /\ \A a \in assets : Maker(a.built, a.version, Confirmed)
TipOK ==
  branch.version # 0 =>
    Maker(branch.built, branch.version, Confirmed) /\ HasAssets(branch.version, branch.built, 3)

PluginInv == PluginTypes /\ (\A n \in DOMAIN runs : RunOK(n)) /\ OneMaker /\ FilesOK /\ TipOK

-----------------------------------------------------------------------------
LEMMA PluginSteps ==
  /\ Confirmed \subseteq Released /\ {"verify", "publish"} \cap Released = {}
  /\ Confirmed = {"wait", "assets", "git", "push", "remote"}
  /\ Plugin!Grouped = {"assets", "git", "push", "remote"}
  /\ AssetSet = {"archive", "checksum", "receipt"}
BY DEF Confirmed, Released, Plugin!Grouped, AssetSet, Plugin!AssetNames

(* What the release of a version has reached stays reached. *)
Forward(old, new) ==
  /\ new.kind = old.kind
  /\ old.kind = "release" /\ old.step \in Released => new.step \in Released /\ new.version = old.version
  /\ old.kind = "release" /\ old.step \in Confirmed => new.step \in Confirmed

(* GitHub and PyPI forget nothing. *)
Grows ==
  /\ main' \in Nat /\ faults' \in Nat /\ tags' \in Seq(Nat) /\ Len(tags) <= Len(tags')
  /\ shown' \subseteq pypi' /\ pypi \subseteq pypi' /\ assets \subseteq assets'
  /\ pypi' \in SUBSET [version : Nat, name : Plugin!Archives, built : Nat]
  /\ assets' \in SUBSET [version : Nat, name : AssetSet, built : Nat]
  /\ branch' \in [commit : Nat, version : Nat, built : Nat]
  /\ branch' = branch \/ branch'.commit > branch.commit

LEMMA MakersStay ==
  ASSUME PluginTypes, NEW n \in DOMAIN runs, NEW r \in PluginRun,
         runs' = [runs EXCEPT ![n] = r], Forward(runs[n], r), NEW m, NEW v
  PROVE  /\ Maker(m, v, Released) => Maker(m, v, Released)'
         /\ Maker(m, v, Confirmed) => Maker(m, v, Confirmed)'
<1>1. DOMAIN runs' = DOMAIN runs /\ runs'[n] = r /\ \A k \in DOMAIN runs : k # n => runs'[k] = runs[k]
  BY DEF PluginTypes
<1>2. CASE m = n BY <1>1, <1>2, PluginSteps DEF Maker, Forward
<1>3. CASE m # n BY <1>1, <1>3 DEF Maker
<1> QED BY <1>2, <1>3

(* A run that does not move keeps what it relies on. *)
LEMMA RunStays ==
  ASSUME PluginTypes, Grows, NEW k \in DOMAIN runs, RunOK(k), runs'[k] = runs[k],
         \A m, v : Maker(m, v, Confirmed) => Maker(m, v, Confirmed)'
  PROVE  RunOK(k)'
<1>1. runs[k] \in PluginRun BY DEF PluginTypes
<1>2. \A v, built, i : HasAssets(v, built, i) => HasAssets(v, built, i)' BY DEF HasAssets, Grows
<1>3. runs[k].step = "push" =>
        runs[k].parent <= branch'.commit /\ (runs[k].parent = branch'.commit => branch'.version < runs[k].version)
  <2>1. runs[k].parent \in Nat /\ branch.commit \in Nat /\ branch'.commit \in Nat
    BY <1>1 DEF PluginRun, PluginTypes, Grows
  <2>2. runs[k].step = "push" =>
          runs[k].parent <= branch.commit /\ (runs[k].parent = branch.commit => branch.version < runs[k].version)
    BY DEF RunOK, RunFacts
  <2> QED BY <2>1, <2>2 DEF Grows
<1>4. runs[k].version \in 1..Len(tags) => runs[k].version \in 1..Len(tags')
  BY DEF Grows, PluginTypes
<1>5. pypi \subseteq pypi' BY DEF Grows
<1> QED BY <1>2, <1>3, <1>4, <1>5 DEF RunOK, RunFacts

(* One run moves: what is new must be its own. *)
LEMMA RunMoves ==
  ASSUME PluginInv, Grows, NEW n \in DOMAIN runs, NEW r \in PluginRun,
         runs' = [runs EXCEPT ![n] = r], Forward(runs[n], r), RunOK(n)',
         r.step \in Released /\ runs[n].step \notin Released => \A m : ~Maker(m, r.version, Released),
         \A f \in pypi' \ pypi : Maker(f.built, f.version, Released)',
         \A a \in assets' \ assets : Maker(a.built, a.version, Confirmed)',
         branch' = branch \/ (Maker(branch.built, branch.version, Confirmed)
                              /\ HasAssets(branch.version, branch.built, 3))'
  PROVE  PluginInv'
<1> USE DEF PluginInv
<1>1. DOMAIN runs' = DOMAIN runs /\ runs'[n] = r /\ \A k \in DOMAIN runs : k # n => runs'[k] = runs[k]
  BY DEF PluginTypes
<1>2. \A m, v : /\ Maker(m, v, Released) => Maker(m, v, Released)'
                /\ Maker(m, v, Confirmed) => Maker(m, v, Confirmed)'
  BY MakersStay
<1>3. PluginTypes'
  <2>1. runs' \in Seq(PluginRun) BY DEF PluginTypes
  <2> QED BY <2>1 DEF PluginTypes, Grows
<1>4. \A k \in DOMAIN runs' : RunOK(k)' BY <1>1, <1>2, RunStays
<1>5. OneMaker'
  <2>1. \A m, v : Maker(m, v, Released)' => Maker(m, v, Released) \/ m = n BY <1>1 DEF Maker
  <2>2. \A v : Maker(n, v, Released)' => v = r.version BY <1>1 DEF Maker
  <2>3. CASE Maker(n, r.version, Released) BY <2>1, <2>2, <2>3 DEF OneMaker
  <2>4. CASE ~Maker(n, r.version, Released)
    <3>1. ~Maker(n, r.version, Released)' \/ runs[n].step \notin Released
      BY <1>1, <2>4 DEF Maker, Forward
    <3>2. CASE ~Maker(n, r.version, Released)' BY <2>1, <2>2, <3>2 DEF OneMaker
    <3>3. CASE Maker(n, r.version, Released)'
      <4>1. \A m : ~Maker(m, r.version, Released) BY <1>1, <3>1, <3>3 DEF Maker
      <4> QED BY <2>1, <2>2, <4>1 DEF OneMaker
    <3> QED BY <3>2, <3>3
  <2> QED BY <2>3, <2>4
<1>6. FilesOK' BY <1>2 DEF FilesOK
<1>7. TipOK'
  <2>1. \A v, built, i : HasAssets(v, built, i) => HasAssets(v, built, i)' BY DEF HasAssets, Grows
  <2> QED BY <1>2, <2>1 DEF TipOK
<1> QED BY <1>3, <1>4, <1>5, <1>6, <1>7

-----------------------------------------------------------------------------
(* The steps of a run *)

Quiet == /\ UNCHANGED <<main, tags, pypi, shown, assets, branch>> /\ faults' \in Nat

LEMMA QuietGrows == ASSUME PluginTypes, Quiet PROVE Grows
BY DEF PluginTypes, Quiet, Grows

LEMMA QuietRun ==
  ASSUME PluginInv, Quiet, NEW n \in DOMAIN runs, NEW r \in PluginRun,
         runs' = [runs EXCEPT ![n] = r], Forward(runs[n], r), RunOK(n)',
         runs[n].step \in Released \/ r.step \notin Released
  PROVE  PluginInv'
<1>1. Grows BY QuietGrows DEF PluginInv
<1>2. branch' = branch /\ pypi' = pypi /\ assets' = assets BY DEF Quiet
<1> QED BY <1>1, <1>2, RunMoves

(* A run that ends, fails, or is taken up again. *)
LEMMA RunAt ==
  ASSUME PluginInv, NEW n \in DOMAIN runs, NEW r, runs' = [runs EXCEPT ![n] = r]
  PROVE  runs'[n] = r /\ runs[n] \in PluginRun /\ n \in Nat \ {0} /\ DOMAIN runs' = DOMAIN runs
BY DEF PluginInv, PluginTypes

LEMMA RunIs ==
  ASSUME PluginInv, NEW n \in DOMAIN runs
  PROVE  runs[n] \in PluginRun /\ n \in Nat \ {0} /\ RunFacts(n, runs[n])
BY DEF PluginInv, PluginTypes, RunOK

LEMMA FaultQuiet ==
  ASSUME PluginTypes, Plugin!Fault \/ UNCHANGED faults
  PROVE  faults' \in Nat
BY DEF PluginTypes, Plugin!Fault

LEMMA QuietFacts ==
  ASSUME PluginInv, Quiet, NEW n \in DOMAIN runs, NEW r \in PluginRun,
         runs' = [runs EXCEPT ![n] = r], Forward(runs[n], r), RunFacts(n, r),
         runs[n].step \in Released \/ r.step \notin Released
  PROVE  PluginInv'
<1>1. runs'[n] = r BY RunAt
<1>2. \A m, v : Maker(m, v, Confirmed) => Maker(m, v, Confirmed)' BY MakersStay DEF PluginInv
<1>3. \A v, built, i : HasAssets(v, built, i)' <=> HasAssets(v, built, i) BY DEF HasAssets, Quiet
<1>4. tags' = tags /\ branch' = branch /\ pypi' = pypi BY DEF Quiet
<1>5. RunOK(n)' BY <1>1, <1>2, <1>3, <1>4 DEF RunOK, RunFacts
<1> QED BY <1>5, QuietRun

LEMMA StateStep ==
  ASSUME PluginInv, Quiet, NEW n \in DOMAIN runs, NEW s \in {"active", "failed", "done"},
         Plugin!Set(n, [runs[n] EXCEPT !.state = s])
  PROVE  PluginInv'
<1> DEFINE r == [runs[n] EXCEPT !.state = s]
<1>1. runs[n] \in PluginRun /\ runs' = [runs EXCEPT ![n] = r] BY RunAt DEF Plugin!Set
<1>2. /\ r \in PluginRun
      /\ r.kind = runs[n].kind /\ r.step = runs[n].step /\ r.version = runs[n].version
      /\ r.built = runs[n].built /\ r.uploaded = runs[n].uploaded /\ r.parent = runs[n].parent
  BY <1>1 DEF PluginRun
<1> HIDE DEF r
<1>3. Forward(runs[n], r) BY <1>2 DEF Forward
<1>4. RunFacts(n, runs[n]) BY RunIs
<1>5. RunFacts(n, r) BY <1>2, <1>4 DEF RunFacts
<1> QED BY <1>1, <1>2, <1>3, <1>5, QuietFacts

LEMMA VerifyJobOK ==
  ASSUME PluginInv, NEW n \in DOMAIN runs, Plugin!VerifyJob(n)
  PROVE  PluginInv'
<1> USE DEF Plugin!VerifyJob
<1>1. Quiet BY DEF Quiet, PluginInv, PluginTypes
<1>2. CASE Plugin!Set(n, [runs[n] EXCEPT !.state = "done"]) BY <1>1, <1>2, StateStep
<1>3. CASE Plugin!Set(n, [runs[n] EXCEPT !.step = "publish", !.version = Len(tags) + 1, !.built = n])
  <2> DEFINE r == [runs[n] EXCEPT !.step = "publish", !.version = Len(tags) + 1, !.built = n]
  <2>1. runs[n] \in PluginRun /\ n \in Nat /\ runs' = [runs EXCEPT ![n] = r] BY <1>3, RunAt DEF Plugin!Set
  <2>2. Len(tags) + 1 \in Nat BY DEF PluginInv, PluginTypes
  <2>3. /\ r \in PluginRun /\ r.kind = runs[n].kind /\ r.step = "publish" /\ r.built = n
        /\ r.uploaded = runs[n].uploaded
    BY <2>1, <2>2 DEF PluginRun
  <2> HIDE DEF r
  <2>4. runs[n].step = "verify" BY DEF Plugin!At
  <2>5. RunFacts(n, runs[n]) BY RunIs
  <2>6. Forward(runs[n], r) BY <2>3, <2>4, PluginSteps DEF Forward
  <2>7. RunFacts(n, r) BY <2>3, <2>4, <2>5, PluginSteps DEF RunFacts
  <2> QED BY <1>1, <2>1, <2>3, <2>6, <2>7, PluginSteps, QuietFacts
<1> QED BY <1>2, <1>3

(* The release of a plan: no run has released that version before. *)
LEMMA PublishJobOK ==
  ASSUME PluginInv, NEW n \in DOMAIN runs, Plugin!PublishJob(n)
  PROVE  PluginInv'
<1>1. runs[n].step = "publish" /\ UNCHANGED <<main, pypi, shown, assets, branch>>
  BY DEF Plugin!PublishJob, Plugin!At
<1>2. runs[n] \in PluginRun /\ tags \in Seq(Nat) /\ main \in Nat BY RunAt DEF PluginInv, PluginTypes
<1>3. CASE Plugin!Fails(n) /\ UNCHANGED <<tags, faults>>
  <2>1. Quiet BY <1>1, <1>3 DEF Quiet, PluginInv, PluginTypes
  <2> QED BY <1>3, <2>1, StateStep DEF Plugin!Fails
<1>4. ASSUME tags' = Append(tags, main), Len(tags) + 1 = runs[n].version, faults' \in Nat,
             NEW r \in PluginRun, runs' = [runs EXCEPT ![n] = r], r.kind = runs[n].kind,
             r.version = runs[n].version, r.built = runs[n].built, r.uploaded = runs[n].uploaded,
             r.step \in {"publish", "stage"}
      PROVE  PluginInv'
  <2>1. tags' \in Seq(Nat) /\ Len(tags') = Len(tags) + 1 BY <1>2, <1>4
  <2>2. Len(tags) \in Nat BY <1>2
  <2>3. Grows BY <1>1, <1>4, <2>1, <2>2 DEF Grows, PluginInv, PluginTypes
  <2>4. Forward(runs[n], r) BY <1>1, <1>4, PluginSteps DEF Forward
  <2>5. RunFacts(n, runs[n]) BY RunIs
  <2>6. runs'[n] = r BY <1>4, RunAt
  <2>7. r.version \in 1..Len(tags') BY <1>4, <2>1, <2>2
  <2>8. r.step \notin Confirmed /\ r.step \notin Plugin!Grouped /\ r.step \notin {"assets", "git", "push", "remote"}
    BY <1>4, PluginSteps
  <2>9. runs[n].built = n \/ r.kind # "release" BY <1>1, <1>4, <2>5 DEF RunFacts
  <2>10. r.kind # "recover" /\ r.uploaded = 0 BY <1>1, <1>4, <2>5, PluginSteps DEF RunFacts
  <2>11. RunOK(n)' BY <1>4, <2>6, <2>7, <2>8, <2>9, <2>10 DEF RunOK, RunFacts
  <2>12. \A m : ~Maker(m, r.version, Released)
    <3> SUFFICES ASSUME NEW m, Maker(m, r.version, Released) PROVE FALSE OBVIOUS
    <3>1. RunFacts(m, runs[m]) /\ m \in DOMAIN runs BY DEF Maker, PluginInv, RunOK
    <3>2. runs[m].version \in 1..Len(tags) /\ runs[m].version = Len(tags) + 1
      BY <1>4, <3>1 DEF Maker, RunFacts
    <3> QED BY <2>2, <3>2
  <2> QED BY <1>1, <1>4, <2>3, <2>4, <2>11, <2>12, RunMoves
<1>5. CASE tags' = Append(tags, main) /\ Len(tags) + 1 = runs[n].version /\ Plugin!Step(n, "stage") /\ UNCHANGED faults
  <2> DEFINE r == [runs[n] EXCEPT !.step = "stage"]
  <2>1. /\ r \in PluginRun /\ r.kind = runs[n].kind /\ r.version = runs[n].version /\ r.built = runs[n].built
        /\ r.uploaded = runs[n].uploaded /\ r.step = "stage"
    BY <1>2 DEF PluginRun, Released
  <2>2. runs' = [runs EXCEPT ![n] = r] /\ faults' \in Nat
    BY <1>5 DEF Plugin!Step, Plugin!Set, PluginInv, PluginTypes
  <2> HIDE DEF r
  <2> QED BY <1>4, <1>5, <2>1, <2>2
<1>6. CASE tags' = Append(tags, main) /\ Len(tags) + 1 = runs[n].version /\ Plugin!Fails(n) /\ Plugin!Fault
  <2> DEFINE r == [runs[n] EXCEPT !.state = "failed"]
  <2>1. /\ r \in PluginRun /\ r.kind = runs[n].kind /\ r.version = runs[n].version /\ r.built = runs[n].built
        /\ r.uploaded = runs[n].uploaded /\ r.step = "publish"
    BY <1>1, <1>2 DEF PluginRun
  <2>2. runs' = [runs EXCEPT ![n] = r] /\ faults' \in Nat
    BY <1>6, FaultQuiet DEF Plugin!Fails, Plugin!Set, PluginInv
  <2> HIDE DEF r
  <2> QED BY <1>4, <1>6, <2>1, <2>2
<1> QED BY <1>3, <1>5, <1>6 DEF Plugin!PublishJob

(* Staging and confirming: the step and the staged files change. *)
LEMMA PyPIStep ==
  ASSUME PluginInv, Quiet, NEW n \in DOMAIN runs, NEW r \in PluginRun, runs' = [runs EXCEPT ![n] = r],
         runs[n].step \in {"stage", "upload", "confirm"}, r.kind = runs[n].kind,
         r.version = runs[n].version, r.built = runs[n].built, r.uploaded = runs[n].uploaded,
         r.step \in {"stage", "upload", "confirm", "wait"},
         r.step = "wait" => \A name \in Plugin!Archives : Plugin!File(r.version, name, n) \in pypi
  PROVE  PluginInv'
<1>1. RunFacts(n, runs[n]) BY RunIs
<1>2. runs[n].step \notin Confirmed /\ runs[n].step \in Released BY PluginSteps DEF Released
<1>3. r.step \in Released /\ r.step \notin Plugin!Grouped /\ (r.step \in Confirmed => r.step = "wait")
      /\ r.step \notin {"assets", "git", "push", "remote"} /\ runs[n].step # "assets"
  BY PluginSteps DEF Released
<1>4. Forward(runs[n], r) BY <1>2, <1>3 DEF Forward
<1>5. RunFacts(n, r) BY <1>1, <1>2, <1>3 DEF RunFacts
<1> QED BY <1>2, <1>4, <1>5, QuietFacts

(* What has been released by the run at hand. *)
LEMMA PyPIOfRun ==
  ASSUME PluginInv, NEW n \in DOMAIN runs, runs[n].step \in {"stage", "upload", "confirm"}
  PROVE  /\ runs[n].kind = "release" /\ runs[n].built = n /\ Maker(n, runs[n].version, Released)
         /\ \A f \in pypi : f.version = runs[n].version => f.built = n
<1>1. RunFacts(n, runs[n]) /\ runs[n] \in PluginRun BY RunIs
<1>2. runs[n].step \notin Confirmed /\ runs[n].step \in Released BY PluginSteps DEF Released
<1>3. runs[n].kind = "release" BY <1>1, <1>2 DEF RunFacts, PluginRun
<1>4. Maker(n, runs[n].version, Released) /\ runs[n].built = n BY <1>1, <1>2, <1>3 DEF Maker, RunFacts
<1> QED BY <1>3, <1>4 DEF PluginInv, FilesOK, OneMaker

LEMMA StageOK ==
  ASSUME PluginInv, NEW n \in DOMAIN runs, Plugin!Stage(n)
  PROVE  PluginInv'
<1>1. Quiet /\ runs[n].step = "stage" BY DEF Plugin!Stage, Plugin!At, Quiet, PluginInv, PluginTypes
<1>2. CASE Plugin!Fails(n) BY <1>1, <1>2, StateStep DEF Plugin!Fails
<1>3. CASE Plugin!Set(n, [runs[n] EXCEPT !.step = "upload", !.missing = Plugin!MissingFiles(n)])
  <2> DEFINE r == [runs[n] EXCEPT !.step = "upload", !.missing = Plugin!MissingFiles(n)]
  <2>1. runs[n] \in PluginRun /\ runs' = [runs EXCEPT ![n] = r] BY <1>3, RunAt DEF Plugin!Set
  <2>2. Plugin!MissingFiles(n) \in SUBSET Plugin!Archives BY DEF Plugin!MissingFiles
  <2>3. /\ r \in PluginRun /\ r.kind = runs[n].kind /\ r.version = runs[n].version
        /\ r.built = runs[n].built /\ r.uploaded = runs[n].uploaded /\ r.step = "upload"
    BY <2>1, <2>2 DEF PluginRun, Released
  <2> HIDE DEF r
  <2> QED BY <1>1, <2>1, <2>3, PyPIStep
<1> QED BY <1>2, <1>3 DEF Plugin!Stage

LEMMA UploadFileOK ==
  ASSUME PluginInv, NEW n \in DOMAIN runs, Plugin!UploadFile(n)
  PROVE  PluginInv'
<1>0. PICK v : v = runs[n].version OBVIOUS
<1>1. runs[n].step = "upload" /\ UNCHANGED <<main, tags, shown, assets, branch, faults>>
  BY DEF Plugin!UploadFile, Plugin!At
<1>2. runs[n] \in PluginRun BY RunIs
<1>3. UNCHANGED pypi => Quiet BY <1>1 DEF Quiet, PluginInv, PluginTypes
<1>4. CASE Plugin!Step(n, "confirm") /\ UNCHANGED pypi
  <2> DEFINE r == [runs[n] EXCEPT !.step = "confirm"]
  <2>1. runs' = [runs EXCEPT ![n] = r] BY <1>4 DEF Plugin!Step, Plugin!Set
  <2>2. /\ r \in PluginRun /\ r.kind = runs[n].kind /\ r.version = runs[n].version
        /\ r.built = runs[n].built /\ r.uploaded = runs[n].uploaded /\ r.step = "confirm"
    BY <1>2 DEF PluginRun, Released
  <2> HIDE DEF r
  <2> QED BY <1>1, <1>3, <1>4, <2>1, <2>2, PyPIStep
<1>5. CASE Plugin!Fails(n) /\ UNCHANGED pypi BY <1>3, <1>5, StateStep DEF Plugin!Fails
<1>6. ASSUME NEW name \in runs[n].missing, pypi' = pypi \cup {Plugin!File(runs[n].version, name, runs[n].built)},
             Plugin!Set(n, [runs[n] EXCEPT !.missing = @ \ {name}])
      PROVE  PluginInv'
  <2> DEFINE r == [runs[n] EXCEPT !.missing = @ \ {name}]
  <2>1. runs' = [runs EXCEPT ![n] = r] BY <1>6 DEF Plugin!Set
  <2>2. name \in Plugin!Archives /\ runs[n].missing \ {name} \in SUBSET Plugin!Archives /\ v \in Nat /\ runs[n].built \in Nat
    BY <1>0, <1>2, <1>6 DEF PluginRun
  <2>3. /\ r \in PluginRun /\ r.kind = runs[n].kind /\ r.version = v
        /\ r.built = runs[n].built /\ r.uploaded = runs[n].uploaded /\ r.step = "upload"
    BY <1>0, <1>1, <1>2, <2>2 DEF PluginRun
  <2> HIDE DEF r
  <2>4. runs[n].built = n /\ Maker(n, v, Released) BY <1>0, <1>1, PyPIOfRun
  <2>5. Plugin!File(v, name, n) \in [version : Nat, name : Plugin!Archives, built : Nat]
        /\ Plugin!File(v, name, n).version = v /\ Plugin!File(v, name, n).built = n
    BY <2>2, <2>4 DEF Plugin!File
  <2>6. Grows BY <1>0, <1>1, <1>6, <2>4, <2>5 DEF Grows, PluginInv, PluginTypes
  <2>7. Forward(runs[n], r) BY <1>0, <1>1, <2>3, PluginSteps DEF Forward, Released
  <2>8. Maker(n, v, Released)' BY <2>1, <2>3, <2>4, <2>7, MakersStay DEF PluginInv
  <2>9. RunOK(n)'
    <3>1. RunFacts(n, runs[n]) BY RunIs
    <3>2. runs'[n] = r /\ tags' = tags BY <1>1, <2>1, RunAt
    <3>3. r.step \notin Confirmed /\ r.step \notin Plugin!Grouped /\ r.step \notin {"assets", "git", "push", "remote"}
          /\ r.step \in Released /\ runs[n].step = r.step
      BY <1>1, <2>3, PluginSteps DEF Released
    <3> QED BY <1>0, <2>3, <3>1, <3>2, <3>3 DEF RunOK, RunFacts
  <2>10. runs[n].step \in Released BY <1>1, PluginSteps DEF Released
  <2>11. \A f \in pypi' \ pypi : Maker(f.built, f.version, Released)'
    <3>1. \A f \in pypi' \ pypi : f = Plugin!File(v, name, n) BY <1>0, <1>6, <2>4
    <3> QED BY <2>5, <2>8, <3>1
  <2> QED BY <1>1, <2>1, <2>3, <2>6, <2>7, <2>9, <2>10, <2>11, RunMoves
<1> QED BY <1>4, <1>5, <1>6 DEF Plugin!UploadFile

(* A runtime that PyPI shows completely is this run's. *)
LEMMA ConfirmOK ==
  ASSUME PluginInv, NEW n \in DOMAIN runs, Plugin!Confirm(n)
  PROVE  PluginInv'
<1>1. Quiet /\ runs[n].step = "confirm" BY DEF Plugin!Confirm, Plugin!At, Quiet, PluginInv, PluginTypes
<1>2. runs[n] \in PluginRun BY RunIs
<1>3. CASE Plugin!Set(n, [runs[n] EXCEPT !.state = "failed", !.step = "stage"])
  <2> DEFINE r == [runs[n] EXCEPT !.state = "failed", !.step = "stage"]
  <2>1. runs' = [runs EXCEPT ![n] = r] BY <1>3 DEF Plugin!Set
  <2>2. /\ r \in PluginRun /\ r.kind = runs[n].kind /\ r.version = runs[n].version
        /\ r.built = runs[n].built /\ r.uploaded = runs[n].uploaded /\ r.step = "stage"
    BY <1>2 DEF PluginRun, Released
  <2> HIDE DEF r
  <2> QED BY <1>1, <2>1, <2>2, PyPIStep
<1>4. CASE Plugin!MissingFiles(n) = {} /\ Plugin!Step(n, "wait")
  <2> DEFINE r == [runs[n] EXCEPT !.step = "wait"]
  <2>1. runs' = [runs EXCEPT ![n] = r] BY <1>4 DEF Plugin!Step, Plugin!Set
  <2>2. /\ r \in PluginRun /\ r.kind = runs[n].kind /\ r.version = runs[n].version
        /\ r.built = runs[n].built /\ r.uploaded = runs[n].uploaded /\ r.step = "wait"
    BY <1>2 DEF PluginRun, Released, Confirmed
  <2> HIDE DEF r
  <2>3. ASSUME NEW name \in Plugin!Archives PROVE Plugin!File(r.version, name, n) \in pypi
    <3>1. PICK f \in shown : f.version = runs[n].version /\ f.name = name
      BY <1>4 DEF Plugin!MissingFiles, Plugin!Remote
    <3>2. f \in pypi /\ f \in [version : Nat, name : Plugin!Archives, built : Nat]
      BY DEF PluginInv, PluginTypes
    <3>3. f.built = n BY <1>1, <3>1, <3>2, PyPIOfRun
    <3>4. f = Plugin!File(r.version, name, n) BY <2>2, <3>1, <3>2, <3>3 DEF Plugin!File
    <3> QED BY <3>2, <3>4
  <2> QED BY <1>1, <2>1, <2>2, <2>3, PyPIStep
<1> QED BY <1>3, <1>4 DEF Plugin!Confirm

-----------------------------------------------------------------------------
(* The plugin *)

LEMMA PhaseOrder ==
  Plugin!Phases[1] = "assets" /\ Plugin!Phases[2] = "git" /\ Plugin!After("assets") = "git" /\ Plugin!After("git") = "end"
BY DEF Plugin!Phases, Plugin!After

LEMMA AssetNameOf ==
  \A i \in 1..3 : Plugin!AssetNames[i] \in AssetSet
BY DEF AssetSet

(* The group is taken: the built bytes are the release's. *)
LEMMA BeginOK ==
  ASSUME PluginInv, NEW n \in DOMAIN runs, Plugin!Begin(n)
  PROVE  PluginInv'
<1>1. Quiet /\ runs[n].step = "wait" BY DEF Plugin!Begin, Plugin!At, Quiet, PluginInv, PluginTypes
<1>2. runs[n] \in PluginRun /\ n \in Nat \ {0} /\ RunFacts(n, runs[n]) BY RunIs
<1>3. CASE Plugin!Fails(n) BY <1>1, <1>3, StateStep DEF Plugin!Fails
<1>4. ASSUME NEW r \in PluginRun, runs' = [runs EXCEPT ![n] = r], r.kind = runs[n].kind,
             r.version = runs[n].version, r.uploaded = runs[n].uploaded, r.step = "assets",
             Maker(r.built, r.version, Confirmed), r.kind = "release" => r.built = n
      PROVE  PluginInv'
  <2>1. r.step \in Released /\ r.step \in Confirmed /\ runs[n].step \in Released /\ runs[n].step \in Confirmed
    BY <1>1, <1>4, PluginSteps
  <2>2. Forward(runs[n], r) BY <1>4, <2>1 DEF Forward
  <2>3. r.uploaded = 0 BY <1>1, <1>2, <1>4 DEF RunFacts
  <2>4. HasAssets(r.version, r.built, r.uploaded) BY <2>3 DEF HasAssets
  <2>5. RunFacts(n, r) BY <1>2, <1>4, <2>1, <2>4 DEF RunFacts
  <2> QED BY <1>1, <1>4, <2>1, <2>2, <2>5, QuietFacts
<1>5. CASE runs[n].kind = "release" /\ Plugin!Step(n, Plugin!Phases[1])
  <2> DEFINE r == [runs[n] EXCEPT !.step = Plugin!Phases[1]]
  <2>1. runs' = [runs EXCEPT ![n] = r] BY <1>5 DEF Plugin!Step, Plugin!Set
  <2>2. /\ r \in PluginRun /\ r.kind = runs[n].kind /\ r.version = runs[n].version
        /\ r.built = runs[n].built /\ r.uploaded = runs[n].uploaded /\ r.step = "assets"
    BY <1>2, PhaseOrder, PluginSteps DEF PluginRun
  <2> HIDE DEF r
  <2>3. runs[n].step \in Released /\ runs[n].step \in Confirmed BY <1>1, PluginSteps
  <2>4. runs[n].built = n /\ Maker(n, runs[n].version, Confirmed) BY <1>2, <1>5, <2>3 DEF RunFacts, Maker
  <2> QED BY <1>4, <2>1, <2>2, <2>4
<1>6. CASE /\ runs[n].kind = "recover"
           /\ {a.name : a \in Plugin!Assets(runs[n].version)} = {Plugin!AssetNames[i] : i \in 1..3}
           /\ Plugin!Set(n, [runs[n] EXCEPT !.step = Plugin!Phases[1],
                                     !.built = (CHOOSE a \in Plugin!Assets(runs[n].version) : TRUE).built])
  <2> DEFINE chosen == CHOOSE a \in Plugin!Assets(runs[n].version) : TRUE
             r == [runs[n] EXCEPT !.step = Plugin!Phases[1], !.built = chosen.built]
  <2>1. Plugin!Assets(runs[n].version) # {}
    <3>1. Plugin!AssetNames[1] \in {Plugin!AssetNames[i] : i \in 1..3} OBVIOUS
    <3> QED BY <1>6, <3>1
  <2>2. chosen \in assets /\ chosen.version = runs[n].version BY <2>1 DEF Plugin!Assets
  <2>3. chosen.built \in Nat /\ Maker(chosen.built, runs[n].version, Confirmed)
    BY <2>2 DEF PluginInv, PluginTypes, FilesOK
  <2>4. runs' = [runs EXCEPT ![n] = r] BY <1>6 DEF Plugin!Set
  <2> HIDE DEF chosen
  <2>5. /\ r \in PluginRun /\ r.kind = runs[n].kind /\ r.version = runs[n].version
        /\ r.built = chosen.built /\ r.uploaded = runs[n].uploaded /\ r.step = "assets"
    BY <1>2, <2>3, PhaseOrder, PluginSteps DEF PluginRun
  <2> HIDE DEF r
  <2> QED BY <1>4, <1>6, <2>3, <2>4, <2>5
<1>7. runs[n].kind \in {"release", "recover"} BY <1>2 DEF PluginRun
<1> QED BY <1>3, <1>5, <1>6, <1>7 DEF Plugin!Begin

(* A run of the group moves on to a step it is ready for. *)
LEMMA GroupStep ==
  ASSUME PluginInv, Quiet, NEW n \in DOMAIN runs, NEW r \in PluginRun, runs' = [runs EXCEPT ![n] = r],
         runs[n].step \in Plugin!Grouped, r.step \in Confirmed, r.kind = runs[n].kind,
         r.version = runs[n].version, r.built = runs[n].built,
         r.step # "assets" => r.uploaded = 0,
         r.step = "assets" => HasAssets(r.version, r.built, r.uploaded),
         r.step \in {"git", "push", "remote"} => HasAssets(r.version, r.built, 3),
         r.step = "push" => r.parent = branch.commit /\ branch.version < r.version
  PROVE  PluginInv'
<1>1. runs[n] \in PluginRun /\ RunFacts(n, runs[n]) BY RunIs
<1>2. runs[n].step \in Confirmed /\ runs[n].step \in Released /\ r.step \in Released BY PluginSteps
<1>3. Forward(runs[n], r) BY <1>2 DEF Forward
<1>4. branch.commit \in Nat BY DEF PluginInv, PluginTypes
<1>5. r.step = "push" => r.parent <= branch.commit /\ (r.parent = branch.commit => branch.version < r.version)
  BY <1>4
<1>6. RunFacts(n, r) BY <1>1, <1>2, <1>5 DEF RunFacts
<1> QED BY <1>2, <1>3, <1>6, QuietFacts

LEMMA GitFetchOK ==
  ASSUME PluginInv, NEW n \in DOMAIN runs, Plugin!GitFetch(n)
  PROVE  PluginInv'
<1>1. Quiet /\ runs[n].step = "git" BY DEF Plugin!GitFetch, Plugin!At, Quiet, PluginInv, PluginTypes
<1>2. runs[n] \in PluginRun /\ RunFacts(n, runs[n]) BY RunIs
<1>3. /\ runs[n].step \in Plugin!Grouped /\ runs[n].uploaded = 0 /\ HasAssets(runs[n].version, runs[n].built, 3)
      /\ branch.commit \in Nat
  BY <1>1, <1>2, PluginSteps DEF RunFacts, PluginInv, PluginTypes
<1>4. CASE Plugin!Fails(n) BY <1>1, <1>4, StateStep DEF Plugin!Fails
<1>5. CASE Plugin!Set(n, Plugin!To(runs[n], Plugin!After("git")))
  BY <1>1, <1>5, PhaseOrder, StateStep DEF Plugin!To
<1>6. ASSUME NEW s \in {"push", "remote"}, s = "push" => branch.version < runs[n].version,
             Plugin!Set(n, [runs[n] EXCEPT !.step = s, !.parent = branch.commit])
      PROVE  PluginInv'
  <2> DEFINE r == [runs[n] EXCEPT !.step = s, !.parent = branch.commit]
  <2>1. runs' = [runs EXCEPT ![n] = r] BY <1>6 DEF Plugin!Set
  <2>2. s \in Confirmed /\ s \in Released BY PluginSteps
  <2>3. /\ r \in PluginRun /\ r.kind = runs[n].kind /\ r.version = runs[n].version
        /\ r.built = runs[n].built /\ r.uploaded = runs[n].uploaded /\ r.step = s /\ r.parent = branch.commit
    BY <1>2, <1>3, <2>2 DEF PluginRun
  <2> HIDE DEF r
  <2> QED BY <1>1, <1>3, <1>6, <2>1, <2>2, <2>3, GroupStep
<1>7. Plugin!Policy(runs[n].version, runs[n].built) = "publish" => branch.version < runs[n].version
  BY DEF Plugin!Policy
<1>8. Plugin!Policy(runs[n].version, runs[n].built) \in {"publish", "superseded", "unchanged", "diverges"}
  BY <1>2 DEF Plugin!Policy, PluginRun, PluginInv, PluginTypes
<1> QED BY <1>4, <1>5, <1>6, <1>7, <1>8 DEF Plugin!GitFetch

LEMMA VerifyRemoteOK ==
  ASSUME PluginInv, NEW n \in DOMAIN runs, Plugin!VerifyRemote(n)
  PROVE  PluginInv'
<1>1. Quiet BY DEF Plugin!VerifyRemote, Quiet, PluginInv, PluginTypes
<1> QED BY <1>1, PhaseOrder, StateStep DEF Plugin!VerifyRemote, Plugin!To, Plugin!Fails

(* An asset that is there after the upload is this run's bytes. *)
LEMMA UploadAssetOK ==
  ASSUME PluginInv, NEW n \in DOMAIN runs, Plugin!UploadAsset(n)
  PROVE  PluginInv'
<1>0. PICK v, built, k : v = runs[n].version /\ built = runs[n].built /\ k = runs[n].uploaded OBVIOUS
<1> DEFINE name == Plugin!AssetNames[k + 1]
           file == Plugin!File(v, name, built)
<1>1. runs[n].step = "assets" /\ UNCHANGED <<main, tags, pypi, shown, branch>>
  BY DEF Plugin!UploadAsset, Plugin!At
<1>2. runs[n] \in PluginRun /\ RunFacts(n, runs[n]) BY RunIs
<1>3. runs[n].step \in Plugin!Grouped /\ runs[n].step \in Confirmed /\ runs[n].step \in Released
  BY <1>1, PluginSteps
<1>4. Maker(built, v, Confirmed) /\ HasAssets(v, built, k) /\ k \in 0..3 /\ v \in Nat /\ built \in Nat
  BY <1>0, <1>1, <1>2, <1>3 DEF RunFacts, PluginRun
<1>5. assets' = assets /\ faults' \in Nat => Quiet BY <1>1 DEF Quiet
<1>6. faults \in Nat BY DEF PluginInv, PluginTypes
<1>7. k # 3 => k + 1 \in 1..3 /\ name \in AssetSet BY <1>4, AssetNameOf
<1>8. ASSUME UNCHANGED <<assets, faults>>, k = 3, Plugin!Set(n, Plugin!To([runs[n] EXCEPT !.uploaded = 0], Plugin!After("assets")))
      PROVE  PluginInv'
  <2> DEFINE r == [runs[n] EXCEPT !.uploaded = 0, !.step = "git"]
  <2>1. runs' = [runs EXCEPT ![n] = r] BY <1>2, <1>8, PhaseOrder DEF Plugin!Set, Plugin!To, PluginRun
  <2>2. /\ r \in PluginRun /\ r.kind = runs[n].kind /\ r.version = v
        /\ r.built = built /\ r.uploaded = 0 /\ r.step = "git"
    <3>1. "git" \in Released /\ 0 \in 0..3 BY PluginSteps
    <3> QED BY <1>0, <1>2, <3>1 DEF PluginRun
  <2> HIDE DEF r
  <2>3. r.step \in Confirmed BY <2>2, PluginSteps
  <2>4. Quiet BY <1>5, <1>6, <1>8
  <2> QED BY <1>0, <1>3, <1>4, <1>8, <2>1, <2>2, <2>3, <2>4, GroupStep
<1>9. ASSUME k # 3, file \in assets, UNCHANGED <<assets, faults>>, Plugin!Set(n, [runs[n] EXCEPT !.uploaded = @ + 1])
      PROVE  PluginInv'
  <2> DEFINE r == [runs[n] EXCEPT !.uploaded = @ + 1]
  <2>1. runs' = [runs EXCEPT ![n] = r] BY <1>9 DEF Plugin!Set
  <2>2. /\ r \in PluginRun /\ r.kind = runs[n].kind /\ r.version = v
        /\ r.built = built /\ r.uploaded = k + 1 /\ r.step = "assets"
    BY <1>0, <1>1, <1>2, <1>4, <1>9 DEF PluginRun
  <2> HIDE DEF r
  <2>3. r.step \in Confirmed BY <2>2, PluginSteps
  <2>4. Quiet BY <1>5, <1>6, <1>9
  <2>5. HasAssets(v, built, k + 1) BY <1>4, <1>9 DEF HasAssets
  <2> QED BY <1>0, <1>3, <2>1, <2>2, <2>3, <2>4, <2>5, GroupStep
<1>10. ASSUME Plugin!Fails(n), assets' = assets, faults' \in Nat PROVE PluginInv'
  BY <1>5, <1>10, StateStep DEF Plugin!Fails
<1>11. ASSUME k # 3, assets' = assets \cup {file}, UNCHANGED faults,
              Plugin!Set(n, [runs[n] EXCEPT !.uploaded = @ + 1])
       PROVE  PluginInv'
  <2> DEFINE r == [runs[n] EXCEPT !.uploaded = @ + 1]
  <2>1. runs' = [runs EXCEPT ![n] = r] BY <1>11 DEF Plugin!Set
  <2>2. /\ r \in PluginRun /\ r.kind = runs[n].kind /\ r.version = v
        /\ r.built = built /\ r.uploaded = k + 1 /\ r.step = "assets"
    BY <1>0, <1>1, <1>2, <1>4, <1>11 DEF PluginRun
  <2> HIDE DEF r
  <2>3. file \in [version : Nat, name : AssetSet, built : Nat] /\ file.version = v /\ file.built = built
    BY <1>4, <1>7, <1>11 DEF Plugin!File
  <2>4. Grows BY <1>1, <1>11, <2>3 DEF Grows, PluginInv, PluginTypes
  <2>5. Forward(runs[n], r) BY <1>0, <1>1, <1>3, <2>2 DEF Forward
  <2>6. Maker(built, v, Confirmed)' BY <1>4, <2>1, <2>2, <2>5, MakersStay DEF PluginInv
  <2>7. HasAssets(v, built, k + 1)' BY <1>4, <1>11 DEF HasAssets
  <2>8. RunOK(n)'
    <3>1. runs'[n] = r /\ tags' = tags /\ pypi' = pypi BY <1>1, <2>1, RunAt
    <3>2. r.kind = "recover" \/ r.kind = "release" BY <2>2 DEF PluginRun
    <3> QED BY <1>0, <1>1, <1>2, <1>3, <2>2, <2>6, <2>7, <3>1 DEF RunOK, RunFacts
  <2>9. \A a \in assets' \ assets : Maker(a.built, a.version, Confirmed)'
    <3>1. \A a \in assets' \ assets : a = file BY <1>11
    <3> HIDE DEF file
    <3> QED BY <2>3, <2>6, <3>1
  <2> QED BY <1>1, <1>3, <2>1, <2>2, <2>4, <2>5, <2>8, <2>9, RunMoves
<1>12. k = 3 \/ k # 3 OBVIOUS
<1>13. {a \in Plugin!Assets(v) : a.name = name} = {file} => file \in assets BY DEF Plugin!Assets
<1>14. Plugin!Fault => faults' \in Nat BY FaultQuiet DEF PluginInv
<1> QED BY <1>0, <1>6, <1>8, <1>9, <1>10, <1>11, <1>13, <1>14 DEF Plugin!UploadAsset

(* The tip that lands is newer than the one the run fetched. *)
LEMMA GitPushOK ==
  ASSUME PluginInv, NEW n \in DOMAIN runs, Plugin!GitPush(n)
  PROVE  PluginInv'
<1>0. PICK v, built : v = runs[n].version /\ built = runs[n].built OBVIOUS
<1>1. runs[n].step = "push" /\ UNCHANGED <<main, tags, pypi, shown, assets>>
  BY DEF Plugin!GitPush, Plugin!At
<1>2. runs[n] \in PluginRun /\ RunFacts(n, runs[n]) BY RunIs
<1>3. runs[n].step \in Plugin!Grouped /\ runs[n].step \in Confirmed /\ runs[n].step \in Released
  BY <1>1, PluginSteps
<1>4. /\ runs[n].uploaded = 0 /\ HasAssets(v, built, 3) /\ Maker(built, v, Confirmed)
      /\ branch \in [commit : Nat, version : Nat, built : Nat]
  BY <1>0, <1>1, <1>2, <1>3 DEF RunFacts, PluginInv, PluginTypes
<1>5. faults' \in Nat BY FaultQuiet DEF Plugin!GitPush, PluginInv
<1>6. PICK r \in PluginRun : /\ runs' = [runs EXCEPT ![n] = r]
                             /\ r.kind = runs[n].kind /\ r.version = v /\ r.built = built /\ r.uploaded = 0
                             /\ r.step \in {"git", "remote"}
  <2> DEFINE Moved(r) == /\ runs' = [runs EXCEPT ![n] = r]
                         /\ r.kind = runs[n].kind /\ r.version = v /\ r.built = built /\ r.uploaded = 0
                         /\ r.step \in {"git", "remote"}
  <2>1. ASSUME NEW s \in {"git", "remote"}, NEW parent \in Nat, NEW tries \in Nat,
               NEW state \in {"active", "failed", "done"}, NEW r,
               r = [runs[n] EXCEPT !.step = s, !.parent = parent, !.tries = tries, !.state = state],
               Plugin!Set(n, r)
        PROVE  r \in PluginRun /\ Moved(r)
    <3>1. s \in Released BY PluginSteps
    <3>2. r \in PluginRun BY <1>2, <2>1, <3>1 DEF PluginRun
    <3>3. /\ r.kind = runs[n].kind /\ r.version = v /\ r.built = built /\ r.uploaded = 0
          /\ r.step \in {"git", "remote"}
      BY <1>0, <1>2, <1>4, <2>1 DEF PluginRun
    <3> QED BY <2>1, <3>2, <3>3 DEF Plugin!Set
  <2>2. runs[n] = [runs[n] EXCEPT !.parent = runs[n].parent, !.state = runs[n].state]
        /\ runs[n].tries \in Nat /\ runs[n].parent \in Nat /\ runs[n].state \in {"active", "failed", "done"}
    BY <1>2 DEF PluginRun
  <2>3. CASE Plugin!Set(n, [runs[n] EXCEPT !.step = "remote", !.parent = branch.commit + 1])
    <3> DEFINE r == [runs[n] EXCEPT !.step = "remote", !.parent = branch.commit + 1, !.tries = runs[n].tries,
                                   !.state = runs[n].state]
    <3>1. r = [runs[n] EXCEPT !.step = "remote", !.parent = branch.commit + 1] BY <1>2 DEF PluginRun
    <3>2. Plugin!Set(n, r) BY <2>3, <3>1, Zenon
    <3>3. branch.commit + 1 \in Nat /\ "remote" \in {"git", "remote"} BY <1>4, <2>2
    <3>4. r \in PluginRun /\ Moved(r)
      <4> HIDE DEF Moved
      <4> QED BY <2>1, <2>2, <3>2, <3>3, Zenon
    <3> HIDE DEF r
    <3> QED BY <3>4
  <2>4. CASE Plugin!Set(n, [runs[n] EXCEPT !.step = "git", !.tries = @ + 1])
    <3> DEFINE r == [runs[n] EXCEPT !.step = "git", !.parent = runs[n].parent, !.tries = runs[n].tries + 1,
                                   !.state = runs[n].state]
    <3>1. r = [runs[n] EXCEPT !.step = "git", !.tries = @ + 1] BY <1>2 DEF PluginRun
    <3>2. Plugin!Set(n, r) BY <2>4, <3>1, Zenon
    <3>3. runs[n].tries + 1 \in Nat /\ "git" \in {"git", "remote"} BY <1>4, <2>2
    <3>4. r \in PluginRun /\ Moved(r)
      <4> HIDE DEF Moved
      <4> QED BY <2>1, <2>2, <3>2, <3>3, Zenon
    <3> HIDE DEF r
    <3> QED BY <3>4
  <2>5. CASE Plugin!Set(n, [runs[n] EXCEPT !.step = "git", !.tries = 0, !.state = "failed"])
    <3> DEFINE r == [runs[n] EXCEPT !.step = "git", !.parent = runs[n].parent, !.tries = 0, !.state = "failed"]
    <3>1. r = [runs[n] EXCEPT !.step = "git", !.tries = 0, !.state = "failed"] BY <1>2 DEF PluginRun
    <3>2. Plugin!Set(n, r) BY <2>5, <3>1, Zenon
    <3>3. 0 \in Nat /\ "git" \in {"git", "remote"} /\ "failed" \in {"active", "failed", "done"}
      BY <1>4, <2>2
    <3>4. r \in PluginRun /\ Moved(r)
      <4> HIDE DEF Moved
      <4> QED BY <2>1, <2>2, <3>2, <3>3, Zenon
    <3> HIDE DEF r
    <3> QED BY <3>4
  <2> QED BY <2>3, <2>4, <2>5 DEF Plugin!GitPush
<1>7. Forward(runs[n], r) BY <1>0, <1>3, <1>6, PluginSteps DEF Forward
<1>8. HasAssets(v, built, 3)' BY <1>1, <1>4 DEF HasAssets
<1>9. Maker(built, v, Confirmed)' BY <1>4, <1>6, <1>7, MakersStay DEF PluginInv
<1>10. RunOK(n)'
  <2>1. runs'[n] = r /\ tags' = tags /\ pypi' = pypi BY <1>1, <1>6, RunAt
  <2> QED BY <1>0, <1>1, <1>2, <1>3, <1>6, <1>8, <1>9, <2>1, PluginSteps DEF RunOK, RunFacts
<1>11. branch' = branch
       \/ (branch' = [commit |-> branch.commit + 1, version |-> v, built |-> built])
  BY <1>0 DEF Plugin!GitPush
<1>12. v \in Nat /\ built \in Nat BY <1>0, <1>2 DEF PluginRun
<1>13. Grows BY <1>1, <1>4, <1>5, <1>11, <1>12 DEF Grows, PluginInv, PluginTypes
<1>14. branch' = branch \/ (Maker(branch.built, branch.version, Confirmed)
                            /\ HasAssets(branch.version, branch.built, 3))'
  <2>1. CASE branch' = branch BY <2>1
  <2>2. CASE branch' = [commit |-> branch.commit + 1, version |-> v, built |-> built]
    <3>1. branch'.version = v /\ branch'.built = built BY <2>2
    <3> QED BY <1>8, <1>9, <3>1
  <2> QED BY <1>11, <2>1, <2>2
<1> QED BY <1>1, <1>3, <1>6, <1>7, <1>10, <1>13, <1>14, RunMoves

-----------------------------------------------------------------------------
(* Runs and their surroundings *)

(* A run taken up again starts at the first step of its job. *)
LEMMA RerunOK ==
  ASSUME PluginInv, NEW n \in DOMAIN runs, Plugin!RerunFailedJobs(n)
  PROVE  PluginInv'
<1> DEFINE r == [runs[n] EXCEPT !.state = "active", !.step = Plugin!JobOf(@), !.uploaded = 0, !.tries = 0,
                                !.missing = {}]
           s == Plugin!JobOf(runs[n].step)
<1>1. Quiet /\ runs' = [runs EXCEPT ![n] = r]
  BY DEF Plugin!RerunFailedJobs, Quiet, Plugin!Set, PluginInv, PluginTypes
<1>2. runs[n] \in PluginRun /\ RunFacts(n, runs[n]) BY RunIs
<1>3. runs[n].step \in {"verify", "publish", "stage", "upload", "confirm", "wait", "assets", "git", "push", "remote"}
  BY <1>2, PluginSteps DEF PluginRun, Released
<1>4. \/ runs[n].step \in {"verify", "publish"} /\ s = runs[n].step
      \/ runs[n].step \in {"stage", "upload", "confirm"} /\ s = "stage"
      \/ runs[n].step \in Confirmed /\ s = "wait"
  <2>1. CASE runs[n].step \in {"verify", "publish"} BY <2>1, PluginSteps DEF Plugin!JobOf
  <2>2. CASE runs[n].step \in {"stage", "upload", "confirm"} BY <2>2, PluginSteps DEF Plugin!JobOf
  <2>3. CASE runs[n].step \in Confirmed BY <2>3, PluginSteps DEF Plugin!JobOf, Confirmed
  <2> QED BY <1>3, <2>1, <2>2, <2>3, PluginSteps
<1>5. s \in {"verify", "publish"} \cup Released BY <1>4, PluginSteps DEF Released
<1>6. /\ r \in PluginRun /\ r.kind = runs[n].kind /\ r.version = runs[n].version
      /\ r.built = runs[n].built /\ r.uploaded = 0 /\ r.step = s
  <2>1. r = [runs[n] EXCEPT !.state = "active", !.step = s, !.uploaded = 0, !.tries = 0, !.missing = {}]
    BY <1>2 DEF PluginRun
  <2> HIDE DEF r, s
  <2>2. {} \in SUBSET Plugin!Archives /\ 0 \in 0..3 /\ 0 \in Nat OBVIOUS
  <2>3. r \in PluginRun BY <1>2, <1>5, <2>1, <2>2 DEF PluginRun
  <2> QED BY <1>2, <2>1, <2>3 DEF PluginRun
<1> HIDE DEF r, s
<1>7. Forward(runs[n], r) BY <1>4, <1>6, PluginSteps DEF Forward, Released
<1>8. s \notin {"assets", "git", "push", "remote"} /\ s \notin Plugin!Grouped BY <1>4, PluginSteps
<1>9. /\ s \in Released <=> runs[n].step \in Released
      /\ s \in Confirmed <=> runs[n].step \in Confirmed
      /\ s = "publish" => runs[n].step = "publish"
  BY <1>4, PluginSteps DEF Released
<1>10. RunFacts(n, r) BY <1>2, <1>6, <1>8, <1>9 DEF RunFacts
<1> QED BY <1>1, <1>6, <1>7, <1>9, <1>10, QuietFacts

LEMMA CrashOK ==
  ASSUME PluginInv, NEW n \in DOMAIN runs, Plugin!Crash(n)
  PROVE  PluginInv'
<1>1. Quiet BY FaultQuiet DEF Plugin!Crash, Quiet, PluginInv
<1> QED BY <1>1, StateStep DEF Plugin!Crash, Plugin!Fails

LEMMA DispatchOK ==
  ASSUME PluginInv, Plugin!Dispatch
  PROVE  PluginInv'
<1> USE DEF PluginInv
<1>1. PICK kind \in {"release", "recover"}, v \in Nat : runs' = Append(runs, Plugin!NewRun(kind, v))
  <2>1. \A v \in 1..MaxVersion : v \in Nat OBVIOUS
  <2>2. 0 \in Nat OBVIOUS
  <2> QED BY <2>1, <2>2 DEF Plugin!Dispatch
<1>2. UNCHANGED <<main, tags, pypi, shown, assets, branch, faults>> BY DEF Plugin!Dispatch
<1>0. PICK n : n = Len(runs) + 1 OBVIOUS
<1> DEFINE r == Plugin!NewRun(kind, v)
<1>3. /\ r \in PluginRun /\ r.kind = kind /\ r.uploaded = 0
      /\ kind = "release" => r.step = "verify"
      /\ kind = "recover" => r.step = "wait"
  BY PluginSteps DEF Plugin!NewRun, PluginRun, PluginTypes, Released, Confirmed
<1>4. runs \in Seq(PluginRun) BY DEF PluginTypes
<1> HIDE DEF r
<1>5. runs' = Append(runs, r) BY <1>1 DEF r
<1>6. /\ runs' \in Seq(PluginRun) /\ DOMAIN runs' = DOMAIN runs \cup {n} /\ runs'[n] = r
      /\ n \notin DOMAIN runs /\ \A k \in DOMAIN runs : runs'[k] = runs[k]
  BY <1>0, <1>3, <1>4, <1>5
<1>7. \A m, w : /\ Maker(m, w, Released)' <=> Maker(m, w, Released)
                /\ Maker(m, w, Confirmed)' <=> Maker(m, w, Confirmed)
  <2>1. \A w : Maker(n, w, Released)' => FALSE BY <1>3, <1>6, PluginSteps DEF Maker
  <2>2. \A w : Maker(n, w, Confirmed)' => FALSE BY <1>3, <1>6, PluginSteps DEF Maker
  <2>3. \A w : ~Maker(n, w, Released) /\ ~Maker(n, w, Confirmed) BY <1>6 DEF Maker
  <2>4. \A m, w : m # n => /\ Maker(m, w, Released)' <=> Maker(m, w, Released)
                           /\ Maker(m, w, Confirmed)' <=> Maker(m, w, Confirmed)
    BY <1>6 DEF Maker
  <2> QED BY <2>1, <2>2, <2>3, <2>4
<1>8. PluginTypes' BY <1>2, <1>6 DEF PluginTypes
<1>9. Grows BY <1>2 DEF Grows, PluginTypes
<1>10. ASSUME NEW k \in DOMAIN runs' PROVE RunOK(k)'
  <2>1. CASE k \in DOMAIN runs BY <1>6, <1>7, <1>9, <2>1, RunStays
  <2>2. CASE k = n
    <3>1. r.step \notin {"assets", "git", "push", "remote", "publish"} /\ r.step \notin Plugin!Grouped
      BY <1>3, PluginSteps
    <3>2. r.kind = "recover" => r.step \in Confirmed BY <1>3, PluginSteps
    <3>3. r.kind = "release" => r.step \notin Released /\ r.step \notin Confirmed BY <1>3, PluginSteps
    <3> QED BY <1>3, <1>6, <2>2, <3>1, <3>2, <3>3 DEF RunOK, RunFacts
  <2> QED BY <1>6, <2>1, <2>2
<1>11. OneMaker' /\ FilesOK' /\ TipOK'
  <2>1. \A w, built, i : HasAssets(w, built, i)' <=> HasAssets(w, built, i) BY <1>2 DEF HasAssets
  <2> QED BY <1>2, <1>7, <2>1 DEF OneMaker, FilesOK, TipOK
<1> QED BY <1>8, <1>10, <1>11

LEMMA AroundOK ==
  ASSUME PluginInv, Plugin!MainMoves \/ Plugin!Show \/ UNCHANGED Plugin!vars
  PROVE  PluginInv'
<1> USE DEF PluginInv
<1>1. UNCHANGED <<tags, pypi, assets, branch, runs>> BY DEF Plugin!MainMoves, Plugin!Show, Plugin!vars
<1>2. main' \in Nat /\ faults' \in Nat /\ shown' \subseteq pypi
  BY DEF Plugin!MainMoves, Plugin!Fault, Plugin!Show, Plugin!vars, PluginTypes
<1>3. PluginTypes' BY <1>1, <1>2 DEF PluginTypes
<1>4. Grows BY <1>1, <1>2 DEF Grows, PluginTypes
<1>5. \A m, w : /\ Maker(m, w, Released)' <=> Maker(m, w, Released)
                /\ Maker(m, w, Confirmed)' <=> Maker(m, w, Confirmed)
  BY <1>1 DEF Maker
<1>6. \A k \in DOMAIN runs' : RunOK(k)' BY <1>1, <1>4, <1>5, RunStays
<1>7. OneMaker' /\ FilesOK' /\ TipOK'
  <2>1. \A w, built, i : HasAssets(w, built, i)' <=> HasAssets(w, built, i) BY <1>1 DEF HasAssets
  <2> QED BY <1>1, <1>5, <2>1 DEF OneMaker, FilesOK, TipOK
<1> QED BY <1>3, <1>6, <1>7

LEMMA PluginInitOK == ASSUME Plugin!Init PROVE PluginInv
<1>1. runs = <<>> /\ DOMAIN runs = {} /\ <<>> \in Seq(PluginRun) /\ <<>> \in Seq(Nat) BY DEF Plugin!Init
<1>2. PluginTypes BY <1>1 DEF Plugin!Init, PluginTypes
<1>3. OneMaker /\ FilesOK /\ TipOK BY <1>1 DEF Plugin!Init, OneMaker, Maker, FilesOK, TipOK
<1> QED BY <1>1, <1>2, <1>3 DEF PluginInv

LEMMA PluginStepOK ==
  ASSUME PluginInv, Plugin!Next \/ UNCHANGED Plugin!vars
  PROVE  PluginInv'
<1>1. CASE Plugin!Dispatch BY <1>1, DispatchOK
<1>2. CASE Plugin!MainMoves \/ Plugin!Show \/ UNCHANGED Plugin!vars BY <1>2, AroundOK
<1>3. ASSUME NEW n \in DOMAIN runs,
             \/ Plugin!VerifyJob(n) \/ Plugin!PublishJob(n) \/ Plugin!Stage(n) \/ Plugin!UploadFile(n) \/ Plugin!Confirm(n)
             \/ Plugin!Begin(n) \/ Plugin!UploadAsset(n) \/ Plugin!GitFetch(n) \/ Plugin!GitPush(n) \/ Plugin!VerifyRemote(n)
             \/ Plugin!RerunFailedJobs(n) \/ Plugin!Crash(n)
      PROVE  PluginInv'
  BY <1>3, VerifyJobOK, PublishJobOK, StageOK, UploadFileOK, ConfirmOK, BeginOK, UploadAssetOK,
     GitFetchOK, GitPushOK, VerifyRemoteOK, RerunOK, CrashOK
<1> QED BY <1>1, <1>2, <1>3 DEF Plugin!Next

LEMMA PluginSafe == ASSUME PluginInv PROVE Plugin!AdvertisedIsRecoverable
<1> SUFFICES ASSUME branch.version # 0
             PROVE  /\ {f \in pypi : f.version = branch.version}
                         = {Plugin!File(branch.version, name, branch.built) : name \in Plugin!Archives}
                    /\ Plugin!Assets(branch.version) = {Plugin!File(branch.version, Plugin!AssetNames[i], branch.built) : i \in 1..3}
  BY DEF Plugin!AdvertisedIsRecoverable
<1> USE DEF PluginInv
<1> DEFINE n == branch.built
           v == branch.version
<1>1. Maker(n, v, Confirmed) /\ HasAssets(v, n, 3) BY DEF TipOK
<1>2. n \in DOMAIN runs /\ Maker(n, v, Released) /\ RunFacts(n, runs[n])
  BY <1>1, PluginSteps, RunIs DEF Maker
<1>3. \A name \in Plugin!Archives : Plugin!File(v, name, n) \in pypi BY <1>1, <1>2 DEF Maker, RunFacts
<1>4. \A i \in 1..3 : Plugin!File(v, Plugin!AssetNames[i], n) \in assets BY <1>1 DEF HasAssets
<1>5. \A f \in pypi : f.version = v => f.built = n BY <1>2 DEF FilesOK, OneMaker
<1>6. \A a \in assets : a.version = v => a.built = n
  <2>1. \A a \in assets : Maker(a.built, a.version, Released) BY PluginSteps DEF FilesOK, Maker
  <2> QED BY <1>2, <2>1 DEF OneMaker
<1>7. \A f \in pypi : f.version = v => f.name \in Plugin!Archives /\ f = Plugin!File(v, f.name, n)
  BY <1>5 DEF PluginTypes, Plugin!File
<1>8. \A a \in assets : a.version = v => \E i \in 1..3 : a = Plugin!File(v, Plugin!AssetNames[i], n)
  BY <1>6 DEF PluginTypes, Plugin!File, AssetSet
<1>9. \A name : Plugin!File(v, name, n).version = v BY DEF Plugin!File
<1> HIDE DEF n, v
<1>10. {f \in pypi : f.version = v} = {Plugin!File(v, name, n) : name \in Plugin!Archives}
  BY <1>3, <1>7, <1>9
<1>11. Plugin!Assets(v) = {Plugin!File(v, Plugin!AssetNames[i], n) : i \in 1..3}
  BY <1>4, <1>8, <1>9 DEF Plugin!Assets
<1> QED BY <1>10, <1>11 DEF n, v

LEMMA PluginForward ==
  ASSUME PluginInv, Plugin!Next \/ UNCHANGED Plugin!vars
  PROVE  Plugin!MarketplaceForward
<1>1. branch \in [commit : Nat, version : Nat, built : Nat] BY DEF PluginInv, PluginTypes
<1>2. CASE branch' = branch BY <1>1, <1>2 DEF Plugin!MarketplaceForward
<1>3. CASE branch' # branch
  <2>1. PICK n \in DOMAIN runs : Plugin!GitPush(n)
    BY <1>3
      DEF Plugin!Next, Plugin!vars, Plugin!Dispatch, Plugin!MainMoves, Plugin!Show, Plugin!VerifyJob, Plugin!PublishJob, Plugin!Stage, Plugin!UploadFile, Plugin!Confirm, Plugin!Begin,
                Plugin!UploadAsset, Plugin!GitFetch, Plugin!VerifyRemote, Plugin!RerunFailedJobs, Plugin!Crash
  <2>2. /\ runs[n].step = "push" /\ runs[n].parent = branch.commit
        /\ branch' = [commit |-> branch.commit + 1, version |-> runs[n].version, built |-> runs[n].built]
    BY <1>3, <2>1 DEF Plugin!GitPush, Plugin!At
  <2>3. RunFacts(n, runs[n]) /\ runs[n].version \in Nat BY RunIs DEF PluginRun
  <2>4. branch.version < branch'.version /\ branch'.version \in Nat BY <2>2, <2>3 DEF RunFacts
  <2> QED BY <1>1, <2>4 DEF Plugin!MarketplaceForward
<1> QED BY <1>2, <1>3

(* The advertised plugin version can be installed and recovered, whatever  *)
(* jobs die, answers get lost or files show late: its runtime is complete  *)
(* on PyPI, its assets are the bundle on the branch (publish, publish_git).*)
THEOREM PluginRecoverable == Spec => []AdvertisedIsRecoverable
<1> DEFINE IInv == subject = "plugin" => PluginInv
<1>1. Init => IInv BY PluginInitOK DEF Init
<1>2. IInv /\ [Next]_vars => IInv'
  <2> SUFFICES ASSUME PluginInv, subject = "plugin", [Next]_vars PROVE PluginInv'
    BY DEF Next, vars
  <2>1. Plugin!Next \/ UNCHANGED Plugin!vars
    BY DEF Next, vars, OfPlugin, OfReleases, Plugin!vars
  <2> QED BY <2>1, PluginStepOK
<1>3. IInv => AdvertisedIsRecoverable BY PluginSafe DEF AdvertisedIsRecoverable
<1> QED BY <1>1, <1>2, <1>3, PTL DEF Spec

-----------------------------------------------------------------------------
(* Bottle releases *)

Has(v, name, bytes) == Bottles!Asset(v, name, bytes) \in assets
FormulaType == [version : Nat, rebuild : Nat, snapshot : Nat, bottles : [Targets -> Nat]]
TapType == [commit : Nat, stable : FormulaType, preview : Nat]
Verified == {"verify", "fetch", "push", "done"}
BottleRun ==
  [version : Versions, rebuild : Rebuilds, step : {"prepare", "preserve", "build", "publish"} \cup Verified,
   snapshot : Nat, builds : [Targets -> Nat], verified : SUBSET Targets, uploaded : Nat,
   seen : {0} \cup TapType, pushes : Nat]
BottleTypes ==
  /\ tap \in TapType /\ active \in 0..Len(runs) /\ fresh \in Nat /\ faults \in Nat
  /\ runs \in Seq(BottleRun)
  /\ \A a \in assets : a = Bottles!Asset(a.version, a.name, a.bytes)

(* What a run at its step can rely on. *)
BottleFacts(r) ==
  /\ r.step = "preserve" => r.uploaded \in 0..2
  /\ r.step = "preserve" /\ r.uploaded > 0 => Has(r.version, Bottles!Formula, r.snapshot)
  /\ r.step \in {"build", "publish"} \cup Verified => Has(r.version, Bottles!Formula, r.snapshot)
  /\ r.step = "publish" =>
       /\ r.uploaded \in 0..Len(Bottles!Published(r))
       /\ \A i \in 1..r.uploaded : Has(r.version, Bottles!Published(r)[i].name, Bottles!Published(r)[i].bytes)
  /\ r.step \notin {"preserve", "publish"} => r.uploaded = 0
  /\ r.step \in Verified => \A t \in Targets : Has(r.version, Bottles!Bottle(t, r.rebuild), r.builds[t])
  /\ r.step = "push" => /\ r.seen.commit <= tap.commit /\ r.seen \in TapType
                        /\ r.seen.commit = tap.commit => r.seen = tap
                        /\ ~Bottles!Newer(r.seen.stable, Bottles!Merged(r))

(* A file has one content, and what was published can be resumed. *)
ContentOK ==
  /\ \A v, name, b, c : Has(v, name, b) /\ Has(v, name, c) => b = c
  /\ \A v, b : Has(v, Bottles!Formula, b) => b \in Nat
  /\ \A v, b : Has(v, Bottles!Metadata, b) => Has(v, Bottles!Formula, b)
  /\ \A v, t, r, b : Has(v, Bottles!Bundle(t, r), b) => b.snapshot \in Nat /\ b.bottle \in Nat /\ Has(v, Bottles!Formula, b.snapshot)
  /\ \A v, t, r, b : Has(v, Bottles!Record(t, r), b) => Has(v, Bottles!Bundle(t, r), b)
  /\ \A v, t, r, b : Has(v, Bottles!Bottle(t, r), b) => \E c : Has(v, Bottles!Bundle(t, r), c) /\ c.bottle = b
TapOK ==
  tap.stable # Bottles!NoFormula =>
    \A t \in Targets : Has(tap.stable.version, Bottles!Bottle(t, tap.stable.rebuild), tap.stable.bottles[t])

BottleInv == BottleTypes /\ (\A n \in DOMAIN runs : BottleFacts(runs[n])) /\ ContentOK /\ TapOK

-----------------------------------------------------------------------------
(* Files *)

LEMMA BottleSteps ==
  /\ Verified \cap {"prepare", "preserve", "build", "publish"} = {}
BY DEF Verified

LEMMA NamesOf ==
  ASSUME BottleTypes, ContentOK, NEW v, NEW name
  PROVE  /\ name \in Bottles!Names(v) <=> \E b : Has(v, name, b)
         /\ \A b : Has(v, name, b) => Bottles!Bytes(v, name) = b
         /\ name \in Bottles!Names(v) => Has(v, name, Bottles!Bytes(v, name))
<1>1. \A a \in assets : a = Bottles!Asset(a.version, a.name, a.bytes) BY DEF BottleTypes
<1>2. \A b : Bottles!Asset(v, name, b).version = v /\ Bottles!Asset(v, name, b).name = name /\ Bottles!Asset(v, name, b).bytes = b
  BY DEF Bottles!Asset
<1>3. name \in Bottles!Names(v) <=> \E b : Has(v, name, b)
  <2>1. name \in Bottles!Names(v) <=> \E a \in assets : a.version = v /\ a.name = name BY DEF Bottles!Names
  <2> QED BY <1>1, <1>2, <2>1 DEF Has
<1>4. ASSUME NEW b, Has(v, name, b) PROVE Bottles!Bytes(v, name) = b
  <2> DEFINE a == CHOOSE a \in assets : a.version = v /\ a.name = name
  <2>1. a \in assets /\ a.version = v /\ a.name = name BY <1>2, <1>4 DEF Has
  <2> HIDE DEF a
  <2>2. a = Bottles!Asset(v, name, a.bytes) BY <1>1, <2>1
  <2>3. a.bytes = b BY <1>4, <2>1, <2>2 DEF Has, ContentOK
  <2> QED BY <2>3 DEF Bottles!Bytes, a
<1> QED BY <1>3, <1>4

LEMMA FileNames ==
  /\ Bottles!Formula[1] = "formula" /\ Bottles!Metadata[1] = "metadata"
  /\ \A t, r : /\ Bottles!Bundle(t, r)[1] = "bundle" /\ Bottles!Bundle(t, r)[2] = t /\ Bottles!Bundle(t, r)[3] = r
               /\ Bottles!Bottle(t, r)[1] = "bottle" /\ Bottles!Bottle(t, r)[2] = t /\ Bottles!Bottle(t, r)[3] = r
               /\ Bottles!Record(t, r)[1] = "record" /\ Bottles!Record(t, r)[2] = t /\ Bottles!Record(t, r)[3] = r
  /\ \A r : Bottles!Final(r)[1] = "final" /\ Bottles!Publication(r)[1] = "publication"
BY
  DEF Bottles!Formula, Bottles!Metadata, Bottles!Bundle, Bottles!Bottle, Bottles!Record, Bottles!Final, Bottles!Publication

(* The file a run may publish next. *)
MayPublish(v, name, b) ==
  /\ name = Bottles!Formula => b \in Nat
  /\ name = Bottles!Metadata => Has(v, Bottles!Formula, b)
  /\ \A t, r : name = Bottles!Bundle(t, r) => b.snapshot \in Nat /\ b.bottle \in Nat /\ Has(v, Bottles!Formula, b.snapshot)
  /\ \A t, r : name = Bottles!Record(t, r) => Has(v, Bottles!Bundle(t, r), b)
  /\ \A t, r : name = Bottles!Bottle(t, r) => \E c : Has(v, Bottles!Bundle(t, r), c) /\ c.bottle = b

LEMMA ContentStays ==
  ASSUME BottleTypes, ContentOK, NEW v, NEW name, NEW bytes, name \notin Bottles!Names(v), MayPublish(v, name, bytes),
         assets' = assets \cup {Bottles!Asset(v, name, bytes)}
  PROVE  ContentOK' /\ (\A a \in assets' : a = Bottles!Asset(a.version, a.name, a.bytes))
         /\ Has(v, name, bytes)' /\ \A w, n, b : Has(w, n, b) => Has(w, n, b)'
<1>1. \A w, n, b, x, y, z : Bottles!Asset(w, n, b) = Bottles!Asset(x, y, z) <=> w = x /\ n = y /\ b = z
  BY DEF Bottles!Asset
<1>2. \A w, n, b : Has(w, n, b)' <=> Has(w, n, b) \/ (w = v /\ n = name /\ b = bytes) BY <1>1 DEF Has
<1>3. \A b : ~Has(v, name, b) BY NamesOf
<1>4. \A a \in assets' : a = Bottles!Asset(a.version, a.name, a.bytes) BY DEF BottleTypes, Bottles!Asset
<1>5. (\A w, n, b, c : Has(w, n, b) /\ Has(w, n, c) => b = c)'
  <2> SUFFICES ASSUME NEW w, NEW n, NEW b, NEW c, Has(w, n, b)', Has(w, n, c)' PROVE b = c OBVIOUS
  <2> QED BY <1>2, <1>3 DEF ContentOK
<1>6. (\A w, b : Has(w, Bottles!Formula, b) => b \in Nat)' BY <1>2 DEF ContentOK, MayPublish
<1>7. (\A w, b : Has(w, Bottles!Metadata, b) => Has(w, Bottles!Formula, b))'
  BY <1>2 DEF ContentOK, MayPublish
<1>8. (\A w, t, r, b : Has(w, Bottles!Bundle(t, r), b) => b.snapshot \in Nat /\ b.bottle \in Nat /\ Has(w, Bottles!Formula, b.snapshot))'
  BY <1>2 DEF ContentOK, MayPublish
<1>9. (\A w, t, r, b : Has(w, Bottles!Record(t, r), b) => Has(w, Bottles!Bundle(t, r), b))'
  BY <1>2 DEF ContentOK, MayPublish
<1>10. (\A w, t, r, b : Has(w, Bottles!Bottle(t, r), b) => \E c : Has(w, Bottles!Bundle(t, r), c) /\ c.bottle = b)'
  <2> SUFFICES ASSUME NEW w, NEW t, NEW r, NEW b, Has(w, Bottles!Bottle(t, r), b)'
               PROVE  \E c : Has(w, Bottles!Bundle(t, r), c)' /\ c.bottle = b
    OBVIOUS
  <2>1. \E c : Has(w, Bottles!Bundle(t, r), c) /\ c.bottle = b BY <1>2 DEF ContentOK, MayPublish
  <2> QED BY <1>2, <2>1
<1> QED BY <1>2, <1>4, <1>5, <1>6, <1>7, <1>8, <1>9, <1>10 DEF ContentOK

(* What a run relies on stays, as files are added and the tap moves on. *)
TapGrows == tap' \in TapType /\ (tap' = tap \/ tap'.commit > tap.commit)

LEMMA BottleFactsStay ==
  ASSUME BottleTypes, TapGrows, assets \subseteq assets', NEW r \in BottleRun, BottleFacts(r)
  PROVE  BottleFacts(r)'
<1>1. \A w, n, b : Has(w, n, b) => Has(w, n, b)' BY DEF Has
<1>2. r.step = "push" => /\ r.seen.commit <= tap'.commit
                         /\ r.seen.commit = tap'.commit => r.seen = tap'
  <2>1. r.step = "push" => r.seen.commit \in Nat BY DEF BottleFacts, TapType
  <2>2. tap.commit \in Nat /\ tap'.commit \in Nat BY DEF BottleTypes, TapGrows, TapType
  <2> QED BY <2>1, <2>2 DEF TapGrows, BottleFacts
<1> QED BY <1>1, <1>2 DEF BottleFacts

(* The instance counts as this module does. *)
LEMMA CountedAlike ==
  /\ Bottles!IsFiniteSet(Targets) <=> IsFiniteSet(Targets)
  /\ Bottles!Cardinality(Targets) = Cardinality(Targets)
BY DEF IsFiniteSet, Bottles!IsFiniteSet, Cardinality, Bottles!Cardinality

(* The order of the targets names each of them. *)
LEMMA OrderOfTargets ==
  ASSUME Bottles!ReleaseAssumption
  PROVE  /\ Cardinality(Targets) \in Nat
         /\ Bottles!Order \in [1..Cardinality(Targets) -> Targets]
         /\ \A t \in Targets : \E i \in 1..Cardinality(Targets) : Bottles!Order[i] = t
<1>1. /\ Cardinality(Targets) \in Nat
      /\ \E f : f \in Bijection(1..Cardinality(Targets), Targets)
  BY FS_CardinalityType, CountedAlike DEF Bottles!ReleaseAssumption, ExistsBijection
<1>2. PICK f : f \in Bijection(1..Cardinality(Targets), Targets) BY <1>1
<1>3. f \in [1..Cardinality(Targets) -> Targets] /\ \A t \in Targets : \E i \in DOMAIN f : f[i] = t
  BY <1>2 DEF Bijection, Injection, Surjection
<1>4. /\ Bottles!Order \in [1..Cardinality(Targets) -> Targets]
      /\ \A t \in Targets : \E i \in DOMAIN Bottles!Order : Bottles!Order[i] = t
  BY <1>3, CountedAlike DEF Bottles!Order
<1> QED BY <1>1, <1>4

(* The files of a run, in the order of their publication. *)
LEMMA PublishedIs ==
  ASSUME Bottles!ReleaseAssumption, NEW r
  PROVE  /\ Len(Bottles!Published(r)) = 3 * Cardinality(Targets) + 2
         /\ DOMAIN Bottles!Published(r) = 1..(3 * Cardinality(Targets) + 2)
         /\ \A j \in 1..Cardinality(Targets) :
              /\ Bottles!Published(r)[3 * j - 2] = Bottles!FilesOf(r, Bottles!Order[j]).bundle
              /\ Bottles!Published(r)[3 * j - 1] = Bottles!FilesOf(r, Bottles!Order[j]).bottle
              /\ Bottles!Published(r)[3 * j] = Bottles!FilesOf(r, Bottles!Order[j]).record
         /\ Bottles!Published(r)[3 * Cardinality(Targets) + 1].name = Bottles!Final(r.rebuild)
         /\ Bottles!Published(r)[3 * Cardinality(Targets) + 2].name = Bottles!Publication(r.rebuild)
         /\ \A i \in 1..(3 * Cardinality(Targets)) :
              \E j \in 1..Cardinality(Targets) : i = 3 * j - 2 \/ i = 3 * j - 1 \/ i = 3 * j
<1> DEFINE N == Cardinality(Targets)
           File(i) == CASE i <= 3 * N -> Bottles!Files(Bottles!FilesOf(r, Bottles!Order[((i - 1) \div 3) + 1]))[((i - 1) % 3) + 1]
                        [] i = 3 * N + 1 -> [name |-> Bottles!Final(r.rebuild), bytes |-> Bottles!Merged(r)]
                        [] i = 3 * N + 2 -> [name |-> Bottles!Publication(r.rebuild), bytes |-> Bottles!Merged(r)]
<1>1. N \in Nat BY OrderOfTargets
<1>2. Bottles!Published(r) = [i \in 1..(3 * N + 2) |-> File(i)] BY CountedAlike DEF Bottles!Published
<1>3. Len(Bottles!Published(r)) = 3 * N + 2
  <2> HIDE DEF File, N
  <2>1. DOMAIN Bottles!Published(r) = 1..(3 * N + 2) BY <1>2
  <2> QED BY <1>1, <2>1
<1>4. ASSUME NEW j \in 1..N
      PROVE  /\ Bottles!Published(r)[3 * j - 2] = Bottles!FilesOf(r, Bottles!Order[j]).bundle
             /\ Bottles!Published(r)[3 * j - 1] = Bottles!FilesOf(r, Bottles!Order[j]).bottle
             /\ Bottles!Published(r)[3 * j] = Bottles!FilesOf(r, Bottles!Order[j]).record
  <2> DEFINE f == Bottles!FilesOf(r, Bottles!Order[j])
  <2>1. j \in Nat /\ 1 <= j /\ j <= N BY <1>1, <1>4
  <2>2. /\ (((3 * j - 2) - 1) \div 3) + 1 = j /\ (((3 * j - 2) - 1) % 3) + 1 = 1
        /\ (((3 * j - 1) - 1) \div 3) + 1 = j /\ (((3 * j - 1) - 1) % 3) + 1 = 2
        /\ (((3 * j) - 1) \div 3) + 1 = j /\ (((3 * j) - 1) % 3) + 1 = 3
    <3> HIDE DEF N
    <3> QED BY <2>1
  <2>3. Bottles!Files(f)[1] = f.bundle /\ Bottles!Files(f)[2] = f.bottle /\ Bottles!Files(f)[3] = f.record
    BY DEF Bottles!Files
  <2>4. ASSUME NEW i \in {3 * j - 2, 3 * j - 1, 3 * j}
        PROVE  Bottles!Published(r)[i] = Bottles!Files(Bottles!FilesOf(r, Bottles!Order[((i - 1) \div 3) + 1]))[((i - 1) % 3) + 1]
    <3>1. i \in 1..(3 * N + 2) /\ i <= 3 * N
      <4> HIDE DEF N
      <4> QED BY <1>1, <2>1
    <3>2. File(i) = Bottles!Files(Bottles!FilesOf(r, Bottles!Order[((i - 1) \div 3) + 1]))[((i - 1) % 3) + 1]
      <4> HIDE DEF N
      <4>1. ~(i = 3 * N + 1) /\ ~(i = 3 * N + 2) BY <1>1, <3>1
      <4> QED BY <3>1, <4>1
    <3> HIDE DEF File, N
    <3> QED BY <1>2, <3>1, <3>2
  <2> QED BY <2>2, <2>3, <2>4
<1>5. Bottles!Published(r)[3 * N + 1].name = Bottles!Final(r.rebuild) /\ Bottles!Published(r)[3 * N + 2].name = Bottles!Publication(r.rebuild)
  <2>1. 3 * N + 1 \in 1..(3 * N + 2) /\ 3 * N + 2 \in 1..(3 * N + 2) /\ ~(3 * N + 1 <= 3 * N) /\ ~(3 * N + 2 <= 3 * N)
        /\ 3 * N + 2 # 3 * N + 1
    <3> HIDE DEF N
    <3> QED BY <1>1
  <2>2. File(3 * N + 1) = [name |-> Bottles!Final(r.rebuild), bytes |-> Bottles!Merged(r)]
        /\ File(3 * N + 2) = [name |-> Bottles!Publication(r.rebuild), bytes |-> Bottles!Merged(r)]
    BY <2>1
  <2>3. Bottles!Published(r)[3 * N + 1] = File(3 * N + 1) /\ Bottles!Published(r)[3 * N + 2] = File(3 * N + 2)
    <3> HIDE DEF File, N
    <3> QED BY <1>2, <2>1
  <2> HIDE DEF File, N
  <2> QED BY <2>2, <2>3
<1>6. \A i \in 1..(3 * N) : \E j \in 1..N : i = 3 * j - 2 \/ i = 3 * j - 1 \/ i = 3 * j
  <2> SUFFICES ASSUME NEW i \in 1..(3 * N)
    PROVE \E j \in 1..N : i = 3 * j - 2 \/ i = 3 * j - 1 \/ i = 3 * j OBVIOUS
  <2> DEFINE j == (i + 2) \div 3
  <2> HIDE DEF N
  <2>1. j \in 1..N /\ (i = 3 * j - 2 \/ i = 3 * j - 1 \/ i = 3 * j) BY <1>1
  <2> QED BY <2>1
<1>7. DOMAIN Bottles!Published(r) = 1..(3 * N + 2) BY <1>2
<1> QED BY <1>3, <1>4, <1>5, <1>6, <1>7

-----------------------------------------------------------------------------
(* One run at a time changes what it knows *)

LEMMA BottleSet ==
  ASSUME BottleInv, active # 0, NEW r \in BottleRun, runs' = [runs EXCEPT ![active] = r], BottleFacts(r)',
         active' \in {0, active}, fresh' \in Nat, faults' \in Nat, TapGrows, TapOK',
         assets \subseteq assets', ContentOK', \A a \in assets' : a = Bottles!Asset(a.version, a.name, a.bytes)
  PROVE  BottleInv'
<1>1. active \in DOMAIN runs /\ DOMAIN runs = 1..Len(runs) /\ Len(runs) \in Nat /\ runs \in Seq(BottleRun)
  BY DEF BottleInv, BottleTypes
<1>2. runs' \in Seq(BottleRun) /\ Len(runs') = Len(runs) /\ DOMAIN runs' = DOMAIN runs
  BY <1>1
<1>3. \A n \in DOMAIN runs' : runs'[n] = IF n = active THEN r ELSE runs[n] BY <1>1
<1>4. ASSUME NEW n \in DOMAIN runs' PROVE BottleFacts(runs[n])' \/ n = active
  <2> SUFFICES ASSUME n # active PROVE BottleFacts(runs[n])' OBVIOUS
  <2>1. PICK s \in BottleRun : s = runs[n] BY <1>1, <1>2
  <2>2. BottleFacts(s)' BY <1>2, <2>1, BottleFactsStay DEF BottleInv
  <2> QED BY <1>3, <2>1, <2>2
<1>5. (\A n \in DOMAIN runs : BottleFacts(runs[n]))'
  <2> SUFFICES ASSUME NEW n \in DOMAIN runs' PROVE BottleFacts(runs[n])' OBVIOUS
  <2>1. CASE n = active BY <1>3, <2>1
  <2>2. CASE n # active BY <1>4, <2>2
  <2> QED BY <2>1, <2>2
<1>6. BottleTypes' BY <1>1, <1>2 DEF BottleInv, BottleTypes, TapGrows
<1> QED BY <1>5, <1>6 DEF BottleInv

LEMMA TapStays ==
  ASSUME BottleTypes, TapOK, UNCHANGED tap, assets \subseteq assets'
  PROVE  TapOK' /\ TapGrows
BY DEF TapOK, TapGrows, BottleTypes, Has

(* Nothing but the run changes. *)
LEMMA BottleOnlyRun ==
  ASSUME BottleInv, active # 0, NEW r \in BottleRun, runs' = [runs EXCEPT ![active] = r], BottleFacts(r),
         active' \in {0, active}, fresh' \in Nat, faults' \in Nat, UNCHANGED <<assets, tap>>
  PROVE  BottleInv'
<1>1. TapOK' /\ TapGrows BY TapStays DEF BottleInv
<1>2. BottleFacts(r)' BY <1>1, BottleFactsStay DEF BottleInv
<1>3. ContentOK' BY DEF BottleInv, ContentOK, Has
<1>4. \A a \in assets' : a = Bottles!Asset(a.version, a.name, a.bytes) BY DEF BottleInv, BottleTypes
<1> QED BY <1>1, <1>2, <1>3, <1>4, BottleSet

(* The run that holds the group. *)
LEMMA ActiveRun ==
  ASSUME BottleInv, active # 0
  PROVE  /\ active \in DOMAIN runs /\ Bottles!run \in BottleRun /\ BottleFacts(Bottles!run)
         /\ BottleTypes /\ ContentOK /\ TapOK /\ fresh \in Nat /\ faults \in Nat
BY DEF BottleInv, BottleTypes, Bottles!run

(* What a run publishes is in four of its fields. *)
LEMMA SameFiles ==
  ASSUME NEW r, NEW s, r.version = s.version, r.rebuild = s.rebuild, r.snapshot = s.snapshot, r.builds = s.builds
  PROVE  Bottles!Published(r) = Bottles!Published(s) /\ Bottles!Merged(r) = Bottles!Merged(s)
BY DEF Bottles!Published, Bottles!FilesOf, Bottles!Merged, Bottles!Sealed

(* A run that dies keeps what its finished jobs left. *)
LEMMA RunDies ==
  ASSUME Bottles!ReleaseAssumption, BottleInv, active # 0, Bottles!Dies, UNCHANGED <<assets, tap>>, fresh' \in Nat, faults' \in Nat
  PROVE  BottleInv'
<1> DEFINE r == [Bottles!run EXCEPT !.uploaded = 0, !.pushes = 0]
<1>1. r \in BottleRun BY ActiveRun DEF BottleRun
<1>2. runs' = [runs EXCEPT ![active] = r] BY ActiveRun DEF Bottles!Dies, Bottles!run
<1>3. /\ r.version = Bottles!run.version /\ r.rebuild = Bottles!run.rebuild /\ r.step = Bottles!run.step /\ r.snapshot = Bottles!run.snapshot
      /\ r.builds = Bottles!run.builds /\ r.seen = Bottles!run.seen /\ r.uploaded = 0
  BY ActiveRun DEF BottleRun
<1>4. BottleFacts(r)
  <2> HIDE DEF r
  <2>1. Bottles!Published(r) = Bottles!Published(Bottles!run) /\ Bottles!Merged(r) = Bottles!Merged(Bottles!run)
    BY <1>3, SameFiles
  <2>2. Len(Bottles!Published(Bottles!run)) \in Nat BY PublishedIs, OrderOfTargets
  <2> QED BY <1>3, <2>1, <2>2, ActiveRun DEF BottleFacts
<1>5. active' \in {0, active} BY DEF Bottles!Dies
<1> HIDE DEF r
<1> QED BY <1>1, <1>2, <1>4, <1>5, BottleOnlyRun

-----------------------------------------------------------------------------
(* The jobs *)

(* A file that is missing is added, one that exists has these bytes or ends *)
(* the run.                                                                *)
LEMMA UploadStep ==
  ASSUME Bottles!ReleaseAssumption, BottleInv, active # 0, NEW name, NEW bytes, MayPublish(Bottles!run.version, name, bytes),
         Bottles!Upload(Bottles!run.version, name, bytes), UNCHANGED <<tap, fresh, faults>>,
         \/ /\ Bottles!run.step = "preserve" /\ Bottles!run.uploaded # 2 /\ bytes = Bottles!run.snapshot
            /\ name = IF Bottles!run.uploaded = 0 THEN Bottles!Formula ELSE Bottles!Metadata
         \/ /\ Bottles!run.step = "publish" /\ Bottles!run.uploaded # Len(Bottles!Published(Bottles!run))
            /\ name = Bottles!Published(Bottles!run)[Bottles!run.uploaded + 1].name /\ bytes = Bottles!Published(Bottles!run)[Bottles!run.uploaded + 1].bytes
  PROVE  BottleInv'
<1>1. Bottles!run \in BottleRun /\ BottleFacts(Bottles!run) /\ BottleTypes /\ ContentOK BY ActiveRun
<1>2. PICK s \in BottleRun : s = Bottles!run BY <1>1
<1> DEFINE v == s.version
           r == [s EXCEPT !.uploaded = @ + 1]
<1>3. r \in BottleRun BY DEF BottleRun
<1>4. /\ r.version = s.version /\ v = s.version /\ r.rebuild = s.rebuild /\ r.step = s.step /\ r.snapshot = s.snapshot
      /\ r.builds = s.builds /\ r.seen = s.seen /\ r.uploaded = s.uploaded + 1 /\ s.uploaded \in Nat
  BY DEF BottleRun
<1>5. Bottles!Published(r) = Bottles!Published(s) /\ Bottles!Merged(r) = Bottles!Merged(s)
  <2>1. r.version = s.version /\ r.rebuild = s.rebuild /\ r.snapshot = s.snapshot /\ r.builds = s.builds
    BY <1>4
  <2> HIDE DEF r
  <2> QED BY <2>1, SameFiles
<1>6. MayPublish(v, name, bytes) /\ BottleFacts(s) /\ s.step \in {"preserve", "publish"} BY <1>1, <1>2
<1>7. Len(Bottles!Published(s)) \in Nat BY PublishedIs, OrderOfTargets
<1>8. CASE name \notin Bottles!Names(v) \/ Bottles!Accepts(v, name, bytes)
  <2>1. runs' = [runs EXCEPT ![active] = r] /\ active' = active
    BY <1>2, <1>8 DEF Bottles!Upload, Bottles!Set, Bottles!Goes
  <2>2. /\ ContentOK' /\ (\A a \in assets' : a = Bottles!Asset(a.version, a.name, a.bytes)) /\ Has(v, name, bytes)'
        /\ assets \subseteq assets'
    <3>1. CASE name \notin Bottles!Names(v)
      <4>1. assets' = assets \cup {Bottles!Asset(v, name, bytes)} BY <1>2, <3>1 DEF Bottles!Upload
      <4> HIDE DEF v
      <4>2. ContentOK' /\ (\A a \in assets' : a = Bottles!Asset(a.version, a.name, a.bytes)) /\ Has(v, name, bytes)'
        BY <1>1, <1>6, <3>1, <4>1, ContentStays
      <4> QED BY <4>1, <4>2
    <3>2. CASE name \in Bottles!Names(v)
      <4>1. assets' = assets BY <1>2, <3>2 DEF Bottles!Upload
      <4>2. Has(v, name, bytes) BY <1>1, <1>8, <3>2, NamesOf DEF Bottles!Accepts
      <4>3. ContentOK' BY <1>1, <4>1 DEF ContentOK, Has
      <4>4. Has(v, name, bytes)' BY <4>1, <4>2 DEF Has
      <4> QED BY <1>1, <4>1, <4>3, <4>4 DEF BottleTypes
    <3> QED BY <3>1, <3>2
  <2>3. TapOK' /\ TapGrows BY TapStays, <2>2, ActiveRun
  <2>4. BottleFacts(s)' BY <1>1, <1>6, <2>2, <2>3, BottleFactsStay
  <2>5. r.step = "preserve" => r.uploaded \in 0..2 /\ Has(v, Bottles!Formula, r.snapshot)'
    <3> HIDE DEF r, v
    <3>1. SUFFICES ASSUME r.step = "preserve"
      PROVE r.uploaded \in 0..2 /\ Has(v, Bottles!Formula, r.snapshot)' OBVIOUS
    <3>2. s.uploaded \in 0..2 /\ s.uploaded # 2 /\ bytes = s.snapshot /\ name = IF s.uploaded = 0 THEN Bottles!Formula ELSE Bottles!Metadata
      BY <1>2, <1>4, <1>6, <3>1 DEF BottleFacts
    <3>3. Has(v, Bottles!Formula, s.snapshot)'
      <4>1. CASE s.uploaded = 0 BY <2>2, <3>2, <4>1
      <4>2. CASE s.uploaded # 0 BY <1>4, <2>4, <3>1, <3>2, <4>2 DEF BottleFacts
      <4> QED BY <4>1, <4>2
    <3> QED BY <1>4, <3>2, <3>3
  <2>6. r.step = "publish" =>
          /\ r.uploaded \in 0..Len(Bottles!Published(r))
          /\ \A i \in 1..r.uploaded : Has(v, Bottles!Published(r)[i].name, Bottles!Published(r)[i].bytes)'
    <3> HIDE DEF r, v
    <3> SUFFICES ASSUME r.step = "publish"
                 PROVE  /\ s.uploaded + 1 \in 0..Len(Bottles!Published(s))
                        /\ \A i \in 1..(s.uploaded + 1) : Has(v, Bottles!Published(s)[i].name, Bottles!Published(s)[i].bytes)'
      BY <1>4, <1>5
    <3>1. /\ s.uploaded # Len(Bottles!Published(s)) /\ s.uploaded \in 0..Len(Bottles!Published(s))
          /\ name = Bottles!Published(s)[s.uploaded + 1].name /\ bytes = Bottles!Published(s)[s.uploaded + 1].bytes
          /\ \A i \in 1..s.uploaded : Has(v, Bottles!Published(s)[i].name, Bottles!Published(s)[i].bytes)'
      <4>1. s.step = "publish" BY <1>4
      <4>2. \A i \in 1..s.uploaded : Has(v, Bottles!Published(s)[i].name, Bottles!Published(s)[i].bytes)'
        BY <1>4, <2>4, <4>1 DEF BottleFacts
      <4> QED BY <1>2, <1>6, <4>1, <4>2 DEF BottleFacts
    <3>2. s.uploaded + 1 \in 0..Len(Bottles!Published(s)) BY <1>4, <1>7, <3>1
    <3>3. \A i \in 1..(s.uploaded + 1) : i \in 1..s.uploaded \/ i = s.uploaded + 1 BY <1>4
    <3> QED BY <2>2, <3>1, <3>2, <3>3
  <2>7. BottleFacts(r)'
    <3> HIDE DEF r
    <3>1. v = r.version /\ r.step \in {"preserve", "publish"} BY <1>4, <1>6
    <3> QED BY <1>4, <2>4, <2>5, <2>6, <3>1 DEF BottleFacts, Verified
  <2> HIDE DEF r
  <2> QED BY <1>3, <2>1, <2>2, <2>3, <2>7, BottleSet, ActiveRun
<1>9. CASE name \in Bottles!Names(v) /\ ~Bottles!Accepts(v, name, bytes)
  <2>1. Bottles!Dies /\ UNCHANGED assets BY <1>2, <1>9 DEF Bottles!Upload
  <2> QED BY <2>1, RunDies, ActiveRun
<1> QED BY <1>8, <1>9

LEMMA PrepareStep == ASSUME Bottles!ReleaseAssumption, BottleInv, Bottles!Prepare PROVE BottleInv'
<1>1. active # 0 /\ Bottles!run.step = "prepare" /\ UNCHANGED <<assets, tap, faults>> BY DEF Bottles!Prepare
<1>2. PICK s \in BottleRun : s = Bottles!run BY <1>1, ActiveRun
<1>3. BottleFacts(s) /\ s.step = "prepare" /\ s.uploaded = 0 BY <1>1, <1>2, ActiveRun DEF BottleFacts
<1>4. fresh \in Nat /\ faults \in Nat BY <1>1, ActiveRun
<1>5. ASSUME NEW x \in Nat, Bottles!Set([Bottles!run EXCEPT !.step = "preserve", !.snapshot = x]), Bottles!Goes, fresh' \in Nat
      PROVE  BottleInv'
  <2> DEFINE r == [s EXCEPT !.step = "preserve", !.snapshot = x]
  <2>1. r \in BottleRun BY DEF BottleRun
  <2>2. r.step = "preserve" /\ r.uploaded = 0 BY <1>3 DEF BottleRun
  <2>3. runs' = [runs EXCEPT ![active] = r] /\ active' = active BY <1>2, <1>5 DEF Bottles!Set, Bottles!Goes
  <2> HIDE DEF r
  <2>4. BottleFacts(r) BY <2>2 DEF BottleFacts, Verified
  <2> QED BY <1>1, <1>4, <1>5, <2>1, <2>3, <2>4, BottleOnlyRun
<1>6. CASE Bottles!Formula \in Bottles!Names(Bottles!run.version)
  <2>1. PICK v : v = Bottles!run.version OBVIOUS
  <2>2. Bottles!Bytes(v, Bottles!Formula) \in Nat BY <1>1, <1>6, <2>1, NamesOf, ActiveRun DEF ContentOK
  <2> QED BY <1>4, <1>5, <1>6, <2>1, <2>2 DEF Bottles!Prepare
<1>7. CASE Bottles!Formula \notin Bottles!Names(Bottles!run.version) /\ Bottles!Metadata \in Bottles!Names(Bottles!run.version)
  BY <1>1, <1>4, <1>7, RunDies DEF Bottles!Prepare
<1>8. CASE Bottles!Formula \notin Bottles!Names(Bottles!run.version) /\ Bottles!Metadata \notin Bottles!Names(Bottles!run.version)
  <2>1. Bottles!Set([Bottles!run EXCEPT !.step = "preserve", !.snapshot = fresh + 1]) /\ fresh' = fresh + 1 /\ Bottles!Goes
    BY <1>8 DEF Bottles!Prepare
  <2>2. fresh + 1 \in Nat BY <1>4
  <2> QED BY <1>5, <2>1, <2>2
<1> QED BY <1>6, <1>7, <1>8

LEMMA PreserveStep == ASSUME Bottles!ReleaseAssumption, BottleInv, Bottles!PreserveSnapshot PROVE BottleInv'
<1>1. active # 0 /\ Bottles!run.step = "preserve" /\ UNCHANGED <<tap, fresh, faults>>
  BY DEF Bottles!PreserveSnapshot
<1>2. PICK s \in BottleRun : s = Bottles!run BY <1>1, ActiveRun
<1>3. /\ BottleFacts(s) /\ s.step = "preserve" /\ s.uploaded \in 0..2 /\ s.snapshot \in Nat
      /\ s.uploaded > 0 => Has(s.version, Bottles!Formula, s.snapshot)
  BY <1>1, <1>2, ActiveRun DEF BottleFacts, BottleRun
<1>4. fresh \in Nat /\ faults \in Nat BY <1>1, ActiveRun
<1>5. CASE Bottles!run.uploaded = 2
  <2> DEFINE r == [s EXCEPT !.step = "build", !.uploaded = 0]
  <2>1. r \in BottleRun BY DEF BottleRun
  <2>2. r.step = "build" /\ r.uploaded = 0 /\ r.version = s.version /\ r.snapshot = s.snapshot
    BY DEF BottleRun
  <2>3. runs' = [runs EXCEPT ![active] = r] /\ active' = active /\ UNCHANGED assets
    BY <1>2, <1>5 DEF Bottles!PreserveSnapshot, Bottles!Step, Bottles!Set, Bottles!Goes
  <2> HIDE DEF r
  <2>4. Has(s.version, Bottles!Formula, s.snapshot) BY <1>2, <1>3, <1>5
  <2>5. BottleFacts(r) BY <2>2, <2>4 DEF BottleFacts, Verified
  <2> QED BY <1>1, <1>4, <2>1, <2>3, <2>5, BottleOnlyRun
<1>6. CASE Bottles!run.uploaded # 2
  <2>1. PICK name : name = IF Bottles!run.uploaded = 0 THEN Bottles!Formula ELSE Bottles!Metadata OBVIOUS
  <2>2. Bottles!Upload(Bottles!run.version, name, s.snapshot)
    BY <1>2, <1>6, <2>1 DEF Bottles!PreserveSnapshot
  <2>3. MayPublish(s.version, name, s.snapshot)
    <3>1. CASE s.uploaded = 0 BY <1>2, <1>3, <2>1, <3>1, FileNames DEF MayPublish
    <3>2. CASE s.uploaded # 0
      <4>1. name = Bottles!Metadata /\ Has(s.version, Bottles!Formula, s.snapshot) BY <1>2, <1>3, <2>1, <3>2
      <4> QED BY <1>3, <4>1, FileNames DEF MayPublish
    <3> QED BY <3>1, <3>2
  <2>4. s.snapshot = Bottles!run.snapshot /\ MayPublish(Bottles!run.version, name, s.snapshot) BY <1>2, <2>3
  <2> QED BY <1>1, <1>6, <2>1, <2>2, <2>4, UploadStep
<1> QED BY <1>5, <1>6

LEMMA BuildStep == ASSUME Bottles!ReleaseAssumption, BottleInv, NEW t \in Targets, Bottles!Build(t)
  PROVE BottleInv'
<1>1. active # 0 /\ Bottles!run.step = "build" /\ UNCHANGED <<assets, tap, faults>> BY DEF Bottles!Build
<1>2. PICK s \in BottleRun : s = Bottles!run BY <1>1, ActiveRun
<1>3. /\ BottleFacts(s) /\ s.step = "build" /\ s.uploaded = 0 /\ Has(s.version, Bottles!Formula, s.snapshot)
  BY <1>1, <1>2, ActiveRun DEF BottleFacts, Verified
<1>4. fresh \in Nat /\ faults \in Nat BY <1>1, ActiveRun
<1>5. ASSUME NEW x \in Nat, Bottles!Set([Bottles!run EXCEPT !.builds[t] = x]), Bottles!Goes, fresh' \in Nat
      PROVE  BottleInv'
  <2> DEFINE r == [s EXCEPT !.builds[t] = x]
  <2>1. r \in BottleRun
    <3>1. [s.builds EXCEPT ![t] = x] \in [Targets -> Nat] BY DEF BottleRun
    <3> QED BY <3>1 DEF BottleRun
  <2>2. r.step = "build" /\ r.uploaded = 0 /\ r.version = s.version /\ r.snapshot = s.snapshot
    BY <1>3 DEF BottleRun
  <2>3. runs' = [runs EXCEPT ![active] = r] /\ active' = active BY <1>2, <1>5 DEF Bottles!Set, Bottles!Goes
  <2> HIDE DEF r
  <2>4. BottleFacts(r) BY <1>3, <2>2 DEF BottleFacts, Verified
  <2> QED BY <1>1, <1>4, <1>5, <2>1, <2>3, <2>4, BottleOnlyRun
<1> DEFINE bundle == Bottles!Bundle(t, Bottles!run.rebuild)
           sealed == Bottles!Bytes(Bottles!run.version, bundle)
<1>6. CASE bundle \in Bottles!Names(Bottles!run.version)
  <2>1. sealed.bottle \in Nat
    <3>1. PICK v : v = Bottles!run.version OBVIOUS
    <3>2. PICK b : b = Bottles!run.rebuild OBVIOUS
    <3>3. Has(v, Bottles!Bundle(t, b), Bottles!Bytes(v, Bottles!Bundle(t, b)))
      BY <1>1, <1>6, <3>1, <3>2, NamesOf, ActiveRun
    <3>4. Bottles!Bytes(v, Bottles!Bundle(t, b)).bottle \in Nat BY <1>1, <3>3, ActiveRun DEF ContentOK
    <3> QED BY <3>1, <3>2, <3>4
  <2>2. UNCHANGED fresh /\ ((Bottles!Set([Bottles!run EXCEPT !.builds[t] = sealed.bottle]) /\ Bottles!Goes) \/ Bottles!Dies)
    BY <1>6 DEF Bottles!Build
  <2>3. CASE Bottles!Dies BY <1>1, <1>4, <2>2, <2>3, RunDies
  <2>4. CASE Bottles!Set([Bottles!run EXCEPT !.builds[t] = sealed.bottle]) /\ Bottles!Goes
    <3> HIDE DEF sealed
    <3> QED BY <1>4, <1>5, <2>1, <2>2, <2>4
  <2> QED BY <2>2, <2>3, <2>4
<1>7. CASE bundle \notin Bottles!Names(Bottles!run.version)
  <2>1. (Bottles!Dies /\ UNCHANGED fresh) \/ (Bottles!Set([Bottles!run EXCEPT !.builds[t] = fresh + 1]) /\ fresh' = fresh + 1 /\ Bottles!Goes)
    BY <1>7 DEF Bottles!Build
  <2>2. fresh + 1 \in Nat BY <1>4
  <2>3. CASE Bottles!Dies /\ UNCHANGED fresh BY <1>1, <1>4, <2>3, RunDies
  <2> QED BY <1>5, <2>1, <2>2, <2>3
<1> QED BY <1>6, <1>7

LEMMA MergeStep == ASSUME Bottles!ReleaseAssumption, BottleInv, Bottles!Merge PROVE BottleInv'
<1>1. active # 0 /\ Bottles!run.step = "build" /\ UNCHANGED <<assets, tap, fresh, faults>>
  BY DEF Bottles!Merge
<1>2. PICK s \in BottleRun : s = Bottles!run BY <1>1, ActiveRun
<1>3. BottleFacts(s) /\ s.step = "build" /\ Has(s.version, Bottles!Formula, s.snapshot)
  BY <1>1, <1>2, ActiveRun DEF BottleFacts, Verified
<1>4. fresh \in Nat /\ faults \in Nat BY <1>1, ActiveRun
<1> DEFINE r == [s EXCEPT !.step = "publish", !.uploaded = 0]
<1>5. r \in BottleRun BY DEF BottleRun
<1>6. r.step = "publish" /\ r.uploaded = 0 /\ r.version = s.version /\ r.snapshot = s.snapshot
  BY DEF BottleRun
<1>7. runs' = [runs EXCEPT ![active] = r] /\ active' = active
  BY <1>2 DEF Bottles!Merge, Bottles!Step, Bottles!Set, Bottles!Goes
<1> HIDE DEF r
<1>8. BottleFacts(r)
  <2>1. Len(Bottles!Published(r)) \in Nat BY PublishedIs, OrderOfTargets
  <2> QED BY <1>3, <1>6, <2>1 DEF BottleFacts, Verified
<1> QED BY <1>1, <1>4, <1>5, <1>7, <1>8, BottleOnlyRun

(* The next file of a run: a bundle, and what follows it in its bundle. *)
LEMMA NextFile ==
  ASSUME Bottles!ReleaseAssumption, NEW r \in BottleRun, BottleFacts(r), r.step = "publish", r.uploaded # Len(Bottles!Published(r))
  PROVE  MayPublish(r.version, Bottles!Published(r)[r.uploaded + 1].name, Bottles!Published(r)[r.uploaded + 1].bytes)
<1> DEFINE N == Cardinality(Targets)
           i == r.uploaded + 1
           file == Bottles!Published(r)[i]
<1> SUFFICES MayPublish(r.version, file.name, file.bytes) OBVIOUS
<1>1. N \in Nat /\ Bottles!Order \in [1..N -> Targets] BY OrderOfTargets
<1>2. Len(Bottles!Published(r)) = 3 * N + 2 BY PublishedIs
<1>3. /\ r.uploaded \in 0..Len(Bottles!Published(r)) /\ Has(r.version, Bottles!Formula, r.snapshot)
      /\ \A k \in 1..r.uploaded : Has(r.version, Bottles!Published(r)[k].name, Bottles!Published(r)[k].bytes)
  BY DEF BottleFacts, Verified
<1> HIDE DEF N
<1>4. i \in 1..(3 * N + 2) /\ r.uploaded = i - 1 /\ i \in Nat BY <1>1, <1>2, <1>3
<1>5. CASE i \in 1..(3 * N)
  <2>1. PICK j \in 1..N : i = 3 * j - 2 \/ i = 3 * j - 1 \/ i = 3 * j BY <1>5, PublishedIs DEF N
  <2>2. Bottles!Order[j] \in Targets BY <1>1
  <2> DEFINE f == Bottles!FilesOf(r, Bottles!Order[j])
  <2>3. /\ Bottles!Published(r)[3 * j - 2] = f.bundle /\ Bottles!Published(r)[3 * j - 1] = f.bottle /\ Bottles!Published(r)[3 * j] = f.record
    BY PublishedIs DEF N
  <2>4. /\ f.bundle.name = Bottles!Bundle(Bottles!Order[j], r.rebuild) /\ f.bottle.name = Bottles!Bottle(Bottles!Order[j], r.rebuild)
        /\ f.record.name = Bottles!Record(Bottles!Order[j], r.rebuild) /\ f.bottle.bytes = r.builds[Bottles!Order[j]]
        /\ f.record.bytes = f.bundle.bytes /\ f.bundle.bytes.snapshot = r.snapshot
        /\ f.bundle.bytes.bottle = r.builds[Bottles!Order[j]]
    BY DEF Bottles!FilesOf, Bottles!Sealed
  <2>5. r.snapshot \in Nat /\ r.builds[Bottles!Order[j]] \in Nat BY <2>2 DEF BottleRun
  <2> HIDE DEF f
  <2>6. CASE i = 3 * j - 2
    <3>1. file = f.bundle BY <2>3, <2>6
    <3> HIDE DEF file
    <3> QED BY <1>3, <2>4, <2>5, <3>1, FileNames DEF MayPublish
  <2>7. i = 3 * j - 1 \/ i = 3 * j => Has(r.version, f.bundle.name, f.bundle.bytes)
    <3>1. i = 3 * j - 1 \/ i = 3 * j => 3 * j - 2 \in 1..r.uploaded BY <1>1, <1>4
    <3> QED BY <1>3, <2>3, <3>1
  <2>8. CASE i = 3 * j - 1
    <3>1. file = f.bottle BY <2>3, <2>8
    <3> HIDE DEF file
    <3> QED BY <2>4, <2>7, <2>8, <3>1, FileNames DEF MayPublish
  <2>9. CASE i = 3 * j
    <3>1. file = f.record BY <2>3, <2>9
    <3> HIDE DEF file
    <3> QED BY <2>4, <2>7, <2>9, <3>1, FileNames DEF MayPublish
  <2> QED BY <2>1, <2>6, <2>8, <2>9
<1>6. CASE i \notin 1..(3 * N)
  <2>1. i = 3 * N + 1 \/ i = 3 * N + 2 BY <1>1, <1>4, <1>6
  <2>2. file.name = Bottles!Final(r.rebuild) \/ file.name = Bottles!Publication(r.rebuild)
    BY <2>1, PublishedIs DEF N
  <2> HIDE DEF file
  <2> QED BY <2>2, FileNames DEF MayPublish
<1> QED BY <1>5, <1>6

(* Once all of it is out, every target's bottle is. *)
LEMMA AllBottlesOut ==
  ASSUME Bottles!ReleaseAssumption, NEW r \in BottleRun, BottleFacts(r), r.step = "publish", r.uploaded = Len(Bottles!Published(r))
  PROVE  \A t \in Targets : Has(r.version, Bottles!Bottle(t, r.rebuild), r.builds[t])
<1> SUFFICES ASSUME NEW t \in Targets
  PROVE Has(r.version, Bottles!Bottle(t, r.rebuild), r.builds[t]) OBVIOUS
<1>1. PICK j \in 1..Cardinality(Targets) : Bottles!Order[j] = t BY OrderOfTargets
<1>2. 3 * j - 1 \in 1..r.uploaded
  <2>1. PICK N \in Nat : N = Cardinality(Targets) BY OrderOfTargets
  <2>2. r.uploaded = 3 * N + 2 /\ j \in 1..N BY <2>1, PublishedIs
  <2> QED BY <2>2
<1>3. Bottles!Published(r)[3 * j - 1] = Bottles!FilesOf(r, t).bottle BY <1>1, PublishedIs
<1>4. Has(r.version, Bottles!FilesOf(r, t).bottle.name, Bottles!FilesOf(r, t).bottle.bytes)
  BY <1>2, <1>3 DEF BottleFacts
<1> QED BY <1>4 DEF Bottles!FilesOf

LEMMA PublishStep == ASSUME Bottles!ReleaseAssumption, BottleInv, Bottles!PublishBottles PROVE BottleInv'
<1>1. active # 0 /\ Bottles!run.step = "publish" /\ UNCHANGED <<tap, fresh, faults>>
  BY DEF Bottles!PublishBottles
<1>2. PICK s \in BottleRun : s = Bottles!run BY <1>1, ActiveRun
<1>3. BottleFacts(s) /\ s.step = "publish" /\ Has(s.version, Bottles!Formula, s.snapshot)
  BY <1>1, <1>2, ActiveRun DEF BottleFacts, Verified
<1>4. fresh \in Nat /\ faults \in Nat BY <1>1, ActiveRun
<1>5. CASE Bottles!run.uploaded = Len(Bottles!Published(Bottles!run))
  <2> DEFINE r == [s EXCEPT !.step = "verify", !.uploaded = 0]
  <2>1. r \in BottleRun BY DEF BottleRun, Verified
  <2>2. /\ r.step = "verify" /\ r.uploaded = 0 /\ r.version = s.version /\ r.snapshot = s.snapshot
        /\ r.rebuild = s.rebuild /\ r.builds = s.builds
    BY DEF BottleRun
  <2>3. runs' = [runs EXCEPT ![active] = r] /\ active' = active /\ UNCHANGED assets
    BY <1>2, <1>5 DEF Bottles!PublishBottles, Bottles!Step, Bottles!Set, Bottles!Goes
  <2>4. \A t \in Targets : Has(s.version, Bottles!Bottle(t, s.rebuild), s.builds[t])
    BY <1>2, <1>3, <1>5, AllBottlesOut
  <2> HIDE DEF r
  <2>5. BottleFacts(r) BY <1>3, <2>2, <2>4 DEF BottleFacts
  <2> QED BY <1>1, <1>4, <2>1, <2>3, <2>5, BottleOnlyRun
<1>6. CASE Bottles!run.uploaded # Len(Bottles!Published(Bottles!run))
  <2>1. PICK file : file = Bottles!Published(Bottles!run)[Bottles!run.uploaded + 1] OBVIOUS
  <2>2. Bottles!Upload(Bottles!run.version, file.name, file.bytes) BY <1>6, <2>1 DEF Bottles!PublishBottles
  <2>3. MayPublish(Bottles!run.version, file.name, file.bytes) BY <1>1, <1>2, <1>3, <1>6, <2>1, NextFile
  <2>4. file.name = Bottles!Published(Bottles!run)[Bottles!run.uploaded + 1].name /\ file.bytes = Bottles!Published(Bottles!run)[Bottles!run.uploaded + 1].bytes
    BY <2>1
  <2> QED BY <1>1, <1>6, <2>2, <2>3, <2>4, UploadStep
<1> QED BY <1>5, <1>6

LEMMA VerifyStep == ASSUME Bottles!ReleaseAssumption, BottleInv, NEW t \in Targets, Bottles!Verify(t)
  PROVE BottleInv'
<1>1. active # 0 /\ Bottles!run.step = "verify" /\ UNCHANGED <<assets, tap, fresh, faults>>
  BY DEF Bottles!Verify
<1>2. PICK s \in BottleRun : s = Bottles!run BY <1>1, ActiveRun
<1>3. BottleFacts(s) /\ s.step = "verify" /\ fresh \in Nat /\ faults \in Nat BY <1>1, <1>2, ActiveRun
<1>4. CASE Bottles!Dies BY <1>1, <1>3, <1>4, RunDies
<1>5. CASE Bottles!Set([Bottles!run EXCEPT !.verified = @ \cup {t}]) /\ Bottles!Goes
  <2> DEFINE r == [s EXCEPT !.verified = @ \cup {t}]
  <2>1. r \in BottleRun BY DEF BottleRun
  <2>2. /\ r.step = "verify" /\ r.uploaded = s.uploaded /\ r.version = s.version /\ r.snapshot = s.snapshot
        /\ r.rebuild = s.rebuild /\ r.builds = s.builds
    BY <1>3 DEF BottleRun
  <2>3. runs' = [runs EXCEPT ![active] = r] /\ active' = active BY <1>2, <1>5 DEF Bottles!Set, Bottles!Goes
  <2> HIDE DEF r
  <2>4. BottleFacts(r) BY <1>3, <2>2 DEF BottleFacts
  <2> QED BY <1>1, <1>3, <2>1, <2>3, <2>4, BottleOnlyRun
<1> QED BY <1>4, <1>5 DEF Bottles!Verify

LEMMA PublishTapStep == ASSUME Bottles!ReleaseAssumption, BottleInv, Bottles!PublishTap PROVE BottleInv'
<1>1. active # 0 /\ Bottles!run.step = "verify" /\ UNCHANGED <<assets, tap, fresh, faults>>
  BY DEF Bottles!PublishTap
<1>2. PICK s \in BottleRun : s = Bottles!run BY <1>1, ActiveRun
<1>3. BottleFacts(s) /\ s.step = "verify" /\ fresh \in Nat /\ faults \in Nat BY <1>1, <1>2, ActiveRun
<1>4. CASE Bottles!Dies BY <1>1, <1>3, <1>4, RunDies
<1>5. CASE Bottles!Step("fetch") /\ Bottles!Goes
  <2> DEFINE r == [s EXCEPT !.step = "fetch", !.uploaded = 0]
  <2>1. r \in BottleRun BY DEF BottleRun, Verified
  <2>2. /\ r.step = "fetch" /\ r.uploaded = 0 /\ r.version = s.version /\ r.snapshot = s.snapshot
        /\ r.rebuild = s.rebuild /\ r.builds = s.builds
    BY DEF BottleRun
  <2>3. runs' = [runs EXCEPT ![active] = r] /\ active' = active
    BY <1>2, <1>5 DEF Bottles!Step, Bottles!Set, Bottles!Goes
  <2> HIDE DEF r
  <2>4. BottleFacts(r) BY <1>3, <2>2 DEF BottleFacts, Verified
  <2> QED BY <1>1, <1>3, <2>1, <2>3, <2>4, BottleOnlyRun
<1> QED BY <1>4, <1>5 DEF Bottles!PublishTap

LEMMA FetchStep == ASSUME Bottles!ReleaseAssumption, BottleInv, Bottles!Fetch PROVE BottleInv'
<1>1. active # 0 /\ Bottles!run.step = "fetch" /\ UNCHANGED <<assets, tap, fresh, faults>>
  BY DEF Bottles!Fetch
<1>2. PICK s \in BottleRun : s = Bottles!run BY <1>1, ActiveRun
<1>3. /\ BottleFacts(s) /\ s.step = "fetch" /\ s.uploaded = 0 /\ fresh \in Nat /\ faults \in Nat /\ tap \in TapType
  BY <1>1, <1>2, ActiveRun DEF BottleFacts, BottleTypes
<1>4. CASE Bottles!Dies BY <1>1, <1>3, <1>4, RunDies
<1>5. CASE Bottles!Step("done") /\ active' = 0
  <2> DEFINE r == [s EXCEPT !.step = "done", !.uploaded = 0]
  <2>1. r \in BottleRun BY DEF BottleRun, Verified
  <2>2. /\ r.step = "done" /\ r.uploaded = 0 /\ r.version = s.version /\ r.snapshot = s.snapshot
        /\ r.rebuild = s.rebuild /\ r.builds = s.builds
    BY DEF BottleRun
  <2>3. runs' = [runs EXCEPT ![active] = r] BY <1>2, <1>5 DEF Bottles!Step, Bottles!Set
  <2> HIDE DEF r
  <2>4. BottleFacts(r) BY <1>3, <2>2 DEF BottleFacts, Verified
  <2> QED BY <1>1, <1>3, <1>5, <2>1, <2>3, <2>4, BottleOnlyRun
<1>6. CASE Bottles!Set([Bottles!run EXCEPT !.step = "push", !.seen = tap]) /\ Bottles!Goes /\ ~Bottles!Newer(tap.stable, Bottles!Merged(Bottles!run))
  <2>1. PICK seen \in TapType : seen = tap BY <1>3
  <2> DEFINE r == [s EXCEPT !.step = "push", !.seen = seen]
  <2>2. r \in BottleRun BY DEF BottleRun, Verified
  <2>3. /\ r.step = "push" /\ r.uploaded = 0 /\ r.version = s.version /\ r.snapshot = s.snapshot
        /\ r.rebuild = s.rebuild /\ r.builds = s.builds /\ r.seen = tap
    BY <1>3, <2>1 DEF BottleRun
  <2>4. runs' = [runs EXCEPT ![active] = r] /\ active' = active
    BY <1>2, <1>6, <2>1 DEF Bottles!Set, Bottles!Goes
  <2> HIDE DEF r
  <2>5. ~Bottles!Newer(r.seen.stable, Bottles!Merged(r)) BY <1>2, <1>6, <2>3, SameFiles
  <2>6. tap.commit \in Nat BY <1>3 DEF TapType
  <2>7. BottleFacts(r) BY <1>3, <2>3, <2>5, <2>6 DEF BottleFacts, Verified
  <2> QED BY <1>1, <1>3, <2>2, <2>4, <2>7, BottleOnlyRun
<1> QED BY <1>4, <1>5, <1>6 DEF Bottles!Fetch

(* The push: the tip it replaces is the one it fetched. *)
LEMMA PushStep == ASSUME Bottles!ReleaseAssumption, BottleInv, Bottles!Push PROVE BottleInv'
<1>1. active # 0 /\ Bottles!run.step = "push" /\ UNCHANGED <<assets, fresh>> BY DEF Bottles!Push
<1>2. PICK s \in BottleRun : s = Bottles!run BY <1>1, ActiveRun
<1>3. /\ BottleFacts(s) /\ s.step = "push" /\ s.uploaded = 0 /\ fresh \in Nat /\ faults \in Nat /\ tap \in TapType
      /\ BottleTypes /\ ContentOK /\ TapOK
  BY <1>1, <1>2, ActiveRun DEF BottleFacts, BottleTypes, Verified
<1>4. PICK answered \in BOOLEAN :
        /\ answered \/ faults < MaxFaults
        /\ LET done == Bottles!FastForward(Bottles!run.seen) /\ answered
           IN  /\ tap' = IF Bottles!FastForward(Bottles!run.seen)
                         THEN [Bottles!run.seen EXCEPT !.commit = tap.commit + 1, !.stable = Bottles!Merged(Bottles!run)] ELSE tap
               /\ faults' = IF answered THEN faults ELSE faults + 1
               /\ IF done THEN Bottles!Set([Bottles!run EXCEPT !.step = "done", !.seen = 0]) /\ active' = 0
                  ELSE IF Bottles!run.pushes + 1 < Attempts
                       THEN Bottles!Set([Bottles!run EXCEPT !.step = "fetch", !.seen = 0, !.pushes = @ + 1]) /\ Bottles!Goes
                  ELSE runs' = [runs EXCEPT ![active].step = "verify", ![active].seen = 0, ![active].pushes = 0]
                       /\ active' = 0
  BY DEF Bottles!Push
<1>5. faults' \in Nat /\ fresh' \in Nat BY <1>1, <1>3, <1>4
<1>6. Bottles!Merged(s) \in FormulaType /\ Bottles!Merged(s).version = s.version /\ Bottles!Merged(s).rebuild = s.rebuild /\ Bottles!Merged(s).bottles = s.builds
  BY DEF Bottles!Merged, BottleRun, FormulaType, Bottles!ReleaseAssumption
<1>7. TapGrows /\ TapOK'
  <2>1. CASE Bottles!FastForward(Bottles!run.seen)
    <3>1. s.seen = tap BY <1>2, <1>3, <2>1 DEF Bottles!FastForward, BottleFacts
    <3>2. tap' = [s.seen EXCEPT !.commit = tap.commit + 1, !.stable = Bottles!Merged(s)] BY <1>2, <1>4, <2>1
    <3>3. tap.commit \in Nat BY <1>3 DEF TapType
    <3> HIDE DEF Bottles!Merged
    <3>4. /\ tap' \in TapType /\ tap'.commit = tap.commit + 1 /\ tap'.stable = Bottles!Merged(s)
      <4>1. tap.preview \in Nat BY <1>3 DEF TapType
      <4>2. tap' = [commit |-> tap.commit + 1, stable |-> Bottles!Merged(s), preview |-> tap.preview]
        BY <1>3, <3>1, <3>2 DEF TapType
      <4> QED BY <1>6, <3>3, <4>1, <4>2 DEF TapType
    <3>5. \A t \in Targets : Has(s.version, Bottles!Bottle(t, s.rebuild), s.builds[t])
      BY <1>3 DEF BottleFacts, Verified
    <3>6. TapOK' BY <1>1, <1>6, <3>4, <3>5 DEF TapOK, Has
    <3> QED BY <3>3, <3>4, <3>6 DEF TapGrows
  <2>2. CASE ~Bottles!FastForward(Bottles!run.seen)
    <3>1. UNCHANGED tap BY <1>4, <2>2
    <3> QED BY <1>1, <1>3, <3>1, TapStays
  <2> QED BY <2>1, <2>2
<1>8. ContentOK' /\ \A a \in assets' : a = Bottles!Asset(a.version, a.name, a.bytes)
  BY <1>1, <1>3 DEF ContentOK, Has, BottleTypes
<1>9. ASSUME NEW r \in BottleRun, r.step \in Verified \ {"push"}, r.uploaded = 0, r.version = s.version,
             r.rebuild = s.rebuild, r.builds = s.builds, r.snapshot = s.snapshot,
             runs' = [runs EXCEPT ![active] = r], active' \in {0, active}
      PROVE  BottleInv'
  <2>1. BottleFacts(r) BY <1>3, <1>9 DEF BottleFacts, Verified
  <2>2. BottleFacts(r)' BY <1>1, <1>3, <1>7, <2>1, BottleFactsStay
  <2> QED BY <1>1, <1>5, <1>7, <1>8, <1>9, <2>2, BottleSet
<1>10. CASE Bottles!Set([Bottles!run EXCEPT !.step = "done", !.seen = 0]) /\ active' = 0
  <2> DEFINE r == [s EXCEPT !.step = "done", !.seen = 0]
  <2>1. r \in BottleRun BY DEF BottleRun, Verified
  <2>2. /\ r.step = "done" /\ r.uploaded = 0 /\ r.version = s.version /\ r.snapshot = s.snapshot
        /\ r.rebuild = s.rebuild /\ r.builds = s.builds
    BY <1>3 DEF BottleRun
  <2>3. runs' = [runs EXCEPT ![active] = r] BY <1>2, <1>10 DEF Bottles!Set
  <2> HIDE DEF r
  <2> QED BY <1>9, <1>10, <2>1, <2>2, <2>3 DEF Verified
<1>11. CASE Bottles!Set([Bottles!run EXCEPT !.step = "fetch", !.seen = 0, !.pushes = @ + 1]) /\ Bottles!Goes
  <2> DEFINE r == [s EXCEPT !.step = "fetch", !.seen = 0, !.pushes = @ + 1]
  <2>1. r \in BottleRun
    <3>1. s.pushes + 1 \in Nat BY DEF BottleRun
    <3>2. r = [s EXCEPT !.step = "fetch", !.seen = 0, !.pushes = s.pushes + 1] BY DEF BottleRun
    <3> QED BY <3>1, <3>2 DEF BottleRun, Verified
  <2>2. /\ r.step = "fetch" /\ r.uploaded = 0 /\ r.version = s.version /\ r.snapshot = s.snapshot
        /\ r.rebuild = s.rebuild /\ r.builds = s.builds
    BY <1>3 DEF BottleRun
  <2>3. runs' = [runs EXCEPT ![active] = r] /\ active' = active BY <1>2, <1>11 DEF Bottles!Set, Bottles!Goes
  <2> HIDE DEF r
  <2> QED BY <1>9, <2>1, <2>2, <2>3 DEF Verified
<1>12. CASE /\ runs' = [runs EXCEPT ![active].step = "verify", ![active].seen = 0, ![active].pushes = 0]
            /\ active' = 0
  <2> DEFINE r == [s EXCEPT !.step = "verify", !.seen = 0, !.pushes = 0]
  <2>1. r \in BottleRun BY DEF BottleRun, Verified
  <2>2. /\ r.step = "verify" /\ r.uploaded = 0 /\ r.version = s.version /\ r.snapshot = s.snapshot
        /\ r.rebuild = s.rebuild /\ r.builds = s.builds
    BY <1>3 DEF BottleRun
  <2>3. runs' = [runs EXCEPT ![active] = r] BY <1>1, <1>2, <1>12, ActiveRun DEF Bottles!run
  <2> HIDE DEF r
  <2> QED BY <1>9, <1>12, <2>1, <2>2, <2>3 DEF Verified
<1> QED BY <1>4, <1>10, <1>11, <1>12

-----------------------------------------------------------------------------
(* Steps between the runs *)

LEMMA PreviewStep == ASSUME BottleInv, Bottles!PreviewPush PROVE BottleInv'
<1>1. /\ UNCHANGED <<assets, runs, active, fresh>> /\ faults' = faults + 1
      /\ tap' = [tap EXCEPT !.commit = @ + 1, !.preview = @ + 1]
  BY DEF Bottles!PreviewPush
<1>2. BottleTypes /\ ContentOK /\ TapOK /\ tap \in TapType BY DEF BottleInv, BottleTypes
<1>3. tap' \in TapType /\ tap'.commit > tap.commit /\ tap'.stable = tap.stable
  <2>1. tap.commit \in Nat /\ tap.stable \in FormulaType /\ tap.preview \in Nat BY <1>2 DEF TapType
  <2>2. tap' = [commit |-> tap.commit + 1, stable |-> tap.stable, preview |-> tap.preview + 1]
    BY <1>1, <1>2 DEF TapType
  <2> QED BY <2>1, <2>2 DEF TapType
<1>4. TapGrows BY <1>3 DEF TapGrows
<1>5. \A n \in DOMAIN runs' : BottleFacts(runs[n])'
  <2> SUFFICES ASSUME NEW n \in DOMAIN runs' PROVE BottleFacts(runs[n])' OBVIOUS
  <2>1. PICK s \in BottleRun : s = runs[n] /\ s = runs'[n] BY <1>1, <1>2 DEF BottleTypes
  <2>2. BottleFacts(s)' BY <1>1, <1>2, <1>4, <2>1, BottleFactsStay DEF BottleInv
  <2> QED BY <2>1, <2>2
<1>6. BottleTypes' BY <1>1, <1>2, <1>3 DEF BottleTypes
<1>7. ContentOK' BY <1>1, <1>2 DEF ContentOK, Has
<1>8. TapOK' BY <1>1, <1>2, <1>3 DEF TapOK, Has
<1> QED BY <1>5, <1>6, <1>7, <1>8 DEF BottleInv

LEMMA BottleDispatch == ASSUME Bottles!ReleaseAssumption, BottleInv, Bottles!Dispatch PROVE BottleInv'
<1>1. active = 0 /\ active' = Len(runs) + 1 /\ UNCHANGED <<assets, tap, fresh, faults>>
  BY DEF Bottles!Dispatch
<1>2. PICK v \in Versions, b \in Rebuilds : runs' = Append(runs, Bottles!NewRun(v, b))
  BY DEF Bottles!Dispatch
<1>3. BottleTypes /\ ContentOK /\ TapOK BY DEF BottleInv
<1> DEFINE r == Bottles!NewRun(v, b)
<1>4. r \in BottleRun /\ r.step = "prepare" /\ r.uploaded = 0
  BY DEF Bottles!NewRun, BottleRun, Bottles!Missing
<1> HIDE DEF r
<1>5. /\ runs' \in Seq(BottleRun) /\ Len(runs') = Len(runs) + 1 /\ Len(runs) \in Nat
      /\ DOMAIN runs' = DOMAIN runs \cup {Len(runs) + 1}
      /\ runs'[Len(runs) + 1] = r /\ \A n \in DOMAIN runs : runs'[n] = runs[n]
  BY <1>2, <1>3, <1>4 DEF BottleTypes, r
<1>6. TapGrows /\ TapOK' BY <1>1, <1>3, TapStays
<1>7. \A n \in DOMAIN runs' : BottleFacts(runs[n])'
  <2> SUFFICES ASSUME NEW n \in DOMAIN runs' PROVE BottleFacts(runs[n])' OBVIOUS
  <2>1. PICK s \in BottleRun : s = runs'[n] BY <1>5
  <2>2. BottleFacts(r) BY <1>4 DEF BottleFacts, Verified
  <2>3. BottleFacts(s) BY <1>5, <2>1, <2>2 DEF BottleInv
  <2>4. BottleFacts(s)' BY <1>1, <1>3, <1>6, <2>3, BottleFactsStay
  <2> QED BY <2>1, <2>4
<1>8. BottleTypes' BY <1>1, <1>3, <1>5 DEF BottleTypes
<1>9. ContentOK' BY <1>1, <1>3 DEF ContentOK, Has
<1> QED BY <1>6, <1>7, <1>8, <1>9 DEF BottleInv

LEMMA BottleRerun == ASSUME Bottles!ReleaseAssumption, BottleInv, Bottles!RerunFailedJobs PROVE BottleInv'
<1>1. active = 0 /\ UNCHANGED <<assets, tap, fresh, faults>> BY DEF Bottles!RerunFailedJobs
<1>2. PICK n \in DOMAIN runs :
        /\ runs[n].step # "done" /\ active' = n
        /\ runs' = [runs EXCEPT ![n].seen = 0, ![n].step = IF @ \in {"fetch", "push"} THEN "verify" ELSE @]
  BY DEF Bottles!RerunFailedJobs
<1>3. BottleTypes /\ ContentOK /\ TapOK /\ runs \in Seq(BottleRun) BY DEF BottleInv, BottleTypes
<1>4. PICK s \in BottleRun : s = runs[n] BY <1>2, <1>3
<1> DEFINE step == IF s.step \in {"fetch", "push"} THEN "verify" ELSE s.step
           r == [s EXCEPT !.seen = 0, !.step = step]
<1>5. r \in BottleRun
  <2>1. step \in {"prepare", "preserve", "build", "publish"} \cup Verified BY DEF BottleRun, Verified
  <2> HIDE DEF step
  <2> QED BY <2>1 DEF BottleRun
<1>6. /\ r.version = s.version /\ r.rebuild = s.rebuild /\ r.snapshot = s.snapshot /\ r.builds = s.builds
      /\ r.uploaded = s.uploaded /\ r.step = step
  BY DEF BottleRun
<1>7. runs' = [runs EXCEPT ![n] = r] BY <1>2, <1>3, <1>4
<1>8. BottleFacts(r)
  <2> HIDE DEF r
  <2>1. Bottles!Published(r) = Bottles!Published(s) BY <1>6, SameFiles
  <2>2. BottleFacts(s) BY <1>2, <1>4 DEF BottleInv
  <2>3. CASE step = "verify" /\ s.step \in {"fetch", "push"} BY <1>6, <2>2, <2>3 DEF BottleFacts, Verified
  <2>4. CASE step = s.step /\ s.step # "push" BY <1>6, <2>1, <2>2, <2>4 DEF BottleFacts
  <2> QED BY <2>3, <2>4
<1> HIDE DEF r, step
<1>9. /\ runs' \in Seq(BottleRun) /\ Len(runs') = Len(runs) /\ Len(runs) \in Nat
      /\ DOMAIN runs' = DOMAIN runs /\ n \in 1..Len(runs)
      /\ \A k \in DOMAIN runs : runs'[k] = IF k = n THEN r ELSE runs[k]
  BY <1>3, <1>5, <1>7
<1>10. TapGrows /\ TapOK' BY <1>1, <1>3, TapStays
<1>11. \A k \in DOMAIN runs' : BottleFacts(runs[k])'
  <2> SUFFICES ASSUME NEW k \in DOMAIN runs' PROVE BottleFacts(runs[k])' OBVIOUS
  <2>1. PICK q \in BottleRun : q = runs'[k] BY <1>9
  <2>2. BottleFacts(q) BY <1>8, <1>9, <2>1 DEF BottleInv
  <2>3. BottleFacts(q)' BY <1>1, <1>3, <1>10, <2>2, BottleFactsStay
  <2> QED BY <2>1, <2>3
<1>12. BottleTypes' BY <1>1, <1>2, <1>3, <1>9 DEF BottleTypes
<1>13. ContentOK' BY <1>1, <1>3 DEF ContentOK, Has
<1> QED BY <1>10, <1>11, <1>12, <1>13 DEF BottleInv

LEMMA BottleCrash == ASSUME Bottles!ReleaseAssumption, BottleInv, Bottles!Crash PROVE BottleInv'
<1>1. active # 0 /\ Bottles!Dies /\ faults' = faults + 1 /\ UNCHANGED <<assets, tap, fresh>>
  BY DEF Bottles!Crash
<1>2. fresh \in Nat /\ faults \in Nat BY <1>1, ActiveRun
<1> QED BY <1>1, <1>2, RunDies

LEMMA BottleInitOK == ASSUME Bottles!Init PROVE BottleInv
<1>1. tap \in TapType BY DEF Bottles!Init, TapType, FormulaType, Bottles!NoFormula
<1>2. BottleTypes BY <1>1 DEF Bottles!Init, BottleTypes
<1>3. ContentOK /\ TapOK BY DEF Bottles!Init, ContentOK, Has, TapOK
<1> QED BY <1>2, <1>3 DEF BottleInv, Bottles!Init

LEMMA BottleStepOK == ASSUME Bottles!ReleaseAssumption, BottleInv, Bottles!Next \/ UNCHANGED Bottles!vars
  PROVE BottleInv'
<1>1. ASSUME UNCHANGED Bottles!vars PROVE BottleInv'
  BY <1>1 DEF Bottles!vars, BottleInv, BottleTypes, BottleFacts, ContentOK, TapOK, Has
<1> QED
  BY <1>1, PrepareStep, PreserveStep, BuildStep, MergeStep, PublishStep, VerifyStep, PublishTapStep, FetchStep,
     PushStep, PreviewStep, BottleDispatch, BottleRerun, BottleCrash DEF Bottles!Next

-----------------------------------------------------------------------------
(* What it means *)

LEMMA BottleSafe == ASSUME BottleInv PROVE Bottles!TapServesBottles /\ Bottles!RetryCanFinish
<1>1. BottleTypes /\ ContentOK /\ TapOK BY DEF BottleInv
<1>2. Bottles!TapServesBottles BY <1>1, NamesOf DEF Bottles!TapServesBottles, TapOK
<1>3. ASSUME NEW v \in Versions, NEW r \in Rebuilds, NEW t \in Targets
      PROVE  /\ Bottles!Metadata \in Bottles!Names(v) => Bottles!Formula \in Bottles!Names(v) /\ Bottles!Bytes(v, Bottles!Metadata) = Bottles!Bytes(v, Bottles!Formula)
             /\ Bottles!Bundle(t, r) \in Bottles!Names(v) => Bottles!Formula \in Bottles!Names(v) /\ Bottles!Bytes(v, Bottles!Bundle(t, r)).snapshot = Bottles!Bytes(v, Bottles!Formula)
             /\ Bottles!Record(t, r) \in Bottles!Names(v) =>
                  Bottles!Bundle(t, r) \in Bottles!Names(v) /\ Bottles!Bytes(v, Bottles!Record(t, r)) = Bottles!Bytes(v, Bottles!Bundle(t, r))
             /\ Bottles!Bottle(t, r) \in Bottles!Names(v) =>
                  Bottles!Bundle(t, r) \in Bottles!Names(v) /\ Bottles!Bytes(v, Bottles!Bottle(t, r)) = Bottles!Bytes(v, Bottles!Bundle(t, r)).bottle
  <2>1. \A n : n \in Bottles!Names(v) => Has(v, n, Bottles!Bytes(v, n)) BY <1>1, NamesOf
  <2>2. \A n, b : Has(v, n, b) => n \in Bottles!Names(v) /\ Bottles!Bytes(v, n) = b BY <1>1, NamesOf
  <2>3. Bottles!Metadata \in Bottles!Names(v) => Bottles!Formula \in Bottles!Names(v) /\ Bottles!Bytes(v, Bottles!Metadata) = Bottles!Bytes(v, Bottles!Formula)
    BY <1>1, <2>1, <2>2 DEF ContentOK
  <2>4. Bottles!Bundle(t, r) \in Bottles!Names(v) => Bottles!Formula \in Bottles!Names(v) /\ Bottles!Bytes(v, Bottles!Bundle(t, r)).snapshot = Bottles!Bytes(v, Bottles!Formula)
    BY <1>1, <2>1, <2>2 DEF ContentOK
  <2>5. Bottles!Record(t, r) \in Bottles!Names(v) => Bottles!Bundle(t, r) \in Bottles!Names(v) /\ Bottles!Bytes(v, Bottles!Record(t, r)) = Bottles!Bytes(v, Bottles!Bundle(t, r))
    BY <1>1, <2>1, <2>2 DEF ContentOK
  <2>6. Bottles!Bottle(t, r) \in Bottles!Names(v) => Bottles!Bundle(t, r) \in Bottles!Names(v) /\ Bottles!Bytes(v, Bottles!Bottle(t, r)) = Bottles!Bytes(v, Bottles!Bundle(t, r)).bottle
    BY <1>1, <2>1, <2>2 DEF ContentOK
  <2> QED BY <2>3, <2>4, <2>5, <2>6
<1> QED BY <1>2, <1>3 DEF Bottles!RetryCanFinish

LEMMA BottleForward ==
  ASSUME Bottles!ReleaseAssumption, BottleInv, Bottles!Next \/ UNCHANGED Bottles!vars
  PROVE  Bottles!TapForward
<1>1. tap \in TapType BY DEF BottleInv, BottleTypes
<1>2. tap.stable \in FormulaType /\ tap.preview \in Nat BY <1>1 DEF TapType
<1>3. ~Bottles!Newer(tap.stable, tap.stable) BY <1>2 DEF Bottles!Newer, FormulaType
<1>4. CASE UNCHANGED tap BY <1>2, <1>3, <1>4 DEF Bottles!TapForward
<1>5. CASE Bottles!PreviewPush
  <2>1. tap'.stable = tap.stable /\ tap'.preview = tap.preview + 1
    BY <1>1, <1>5 DEF Bottles!PreviewPush, TapType
  <2> QED BY <1>2, <1>3, <2>1 DEF Bottles!TapForward
<1>6. CASE Bottles!Push
  <2>1. active # 0 /\ Bottles!run.step = "push" BY <1>6 DEF Bottles!Push
  <2>2. BottleFacts(Bottles!run) /\ Bottles!run \in BottleRun BY <2>1, ActiveRun
  <2>3. CASE ~Bottles!FastForward(Bottles!run.seen)
    <3>1. UNCHANGED tap BY <1>6, <2>3 DEF Bottles!Push
    <3> QED BY <1>4, <3>1
  <2>4. CASE Bottles!FastForward(Bottles!run.seen)
    <3>1. tap' = [Bottles!run.seen EXCEPT !.commit = tap.commit + 1, !.stable = Bottles!Merged(Bottles!run)]
      BY <1>6, <2>4 DEF Bottles!Push
    <3>2. Bottles!run.seen = tap /\ ~Bottles!Newer(Bottles!run.seen.stable, Bottles!Merged(Bottles!run))
      BY <2>1, <2>2, <2>4 DEF Bottles!FastForward, BottleFacts
    <3> HIDE DEF Bottles!Merged
    <3>3. tap'.stable = Bottles!Merged(Bottles!run) /\ tap'.preview = tap.preview
      BY <1>1, <3>1, <3>2 DEF TapType
    <3> QED BY <1>2, <3>2, <3>3 DEF Bottles!TapForward
  <2> QED BY <2>3, <2>4
<1>7. Bottles!Next \/ UNCHANGED Bottles!vars => UNCHANGED tap \/ Bottles!PreviewPush \/ Bottles!Push
  BY
    DEF Bottles!Next, Bottles!vars, Bottles!Prepare, Bottles!PreserveSnapshot, Bottles!Merge, Bottles!PublishBottles, Bottles!PublishTap, Bottles!Fetch, Bottles!Build, Bottles!Verify, Bottles!Dispatch,
         Bottles!RerunFailedJobs, Bottles!Crash
<1> QED BY <1>4, <1>5, <1>6, <1>7

(* The formula in the tap names bottles that are published with its       *)
(* checksums, and whatever a dead run left behind can be resumed           *)
(* (publish_bottles, restore_bundle).                                      *)
THEOREM BottlesServed == Spec => []TapServesBottles
<1> DEFINE IInv == subject = "bottles" => BottleInv
<1>1. Init => IInv BY BottleInitOK DEF Init
<1>2. IInv /\ [Next]_vars => IInv'
  <2> SUFFICES ASSUME BottleInv, subject = "bottles", [Next]_vars PROVE BottleInv'
    BY DEF Next, vars
  <2>1. Bottles!Next \/ UNCHANGED Bottles!vars
    BY DEF Next, vars, OfBottles, OfReleases, Bottles!vars
  <2> QED BY <2>1, ServicesAssumption, BottleStepOK
<1>3. IInv => TapServesBottles BY BottleSafe DEF TapServesBottles
<1> QED BY <1>1, <1>2, <1>3, PTL DEF Spec

(* Neither the tap nor the marketplace branch goes back to an older        *)
(* release, however runs overlap, die and are resumed (_write_and_push,    *)
(* publish_git).                                                           *)
THEOREM ReleasesForward == Spec => ReleasesMoveForward
<1> DEFINE IInv == /\ subject = "bottles" => BottleInv
                   /\ subject = "plugin" => PluginInv
           Onward == /\ subject = "bottles" => Bottles!TapForward
                     /\ subject = "plugin" => Plugin!MarketplaceForward
<1>1. Init => IInv BY BottleInitOK, PluginInitOK DEF Init
<1>2. IInv /\ [Next]_vars => IInv' /\ Onward
  <2> SUFFICES ASSUME IInv, [Next]_vars PROVE IInv' /\ Onward OBVIOUS
  <2>1. UNCHANGED subject BY DEF Next, vars
  <2>2. ASSUME subject = "bottles" PROVE BottleInv' /\ Bottles!TapForward
    <3>1. Bottles!Next \/ UNCHANGED Bottles!vars
      BY <2>2 DEF Next, vars, OfBottles, OfReleases, Bottles!vars
    <3> QED BY <2>2, <3>1, ServicesAssumption, BottleStepOK, BottleForward
  <2>3. ASSUME subject = "plugin" PROVE PluginInv' /\ Plugin!MarketplaceForward
    <3>1. Plugin!Next \/ UNCHANGED Plugin!vars
      BY <2>3 DEF Next, vars, OfPlugin, OfReleases, Plugin!vars
    <3> QED BY <2>3, <3>1, PluginStepOK, PluginForward
  <2> QED BY <2>1, <2>2, <2>3
<1>3. IInv /\ [Next]_vars => [Onward]_vars BY <1>2
<1>4. Spec => []IInv BY <1>1, <1>2, PTL DEF Spec
<1>5. [][Onward]_vars => ReleasesMoveForward BY DEF ReleasesMoveForward
<1> QED BY <1>3, <1>4, <1>5, PTL DEF Spec

-----------------------------------------------------------------------------
(* GitHub calls *)

CallSteps == {"idle", "check", "queue", "recheck", "space", "go", "running", "signal", "record", "returned"}
OnLane == {"recheck", "space", "go", "running"}
Outcomes == {"none"} \cup {Calls!Outcome(print[1], print[2]) : print \in Calls!Prints}
CallType == [step : CallSteps, mutation : BOOLEAN, attempt : Nat, lock : {{}}, deadline : Nat, started : Nat,
             outcome : Outcomes, window : Nat]
CallsTypes ==
  /\ now \in Nat /\ until \in Nat /\ marked \in Nat /\ ended \in Nat
  /\ holder \in [Calls!Locks -> Callers \cup {Calls!Nobody}] /\ call \in [Callers -> CallType]

(* Whoever holds the lane is a mutation that waited out the last one, and  *)
(* whoever is about to write the window read it under the lock.            *)
CallerOK(c) ==
  /\ holder[Calls!Lane] = c => call[c].mutation = TRUE /\ call[c].step \in OnLane
  /\ holder[Calls!Lane] = c /\ call[c].step = "go" /\ ended > 0 => now >= ended + Spacing
  /\ holder[Calls!Lane] = c /\ call[c].step = "running" /\ ended > 0 => call[c].started >= ended + Spacing
  /\ call[c].step = "record" => holder[Calls!BackoffLock] = c /\ call[c].window >= until

CallsInv ==
  /\ CallsTypes /\ ended <= marked /\ marked <= now
  /\ \A c \in Callers : CallerOK(c)

LEMMA LockNames ==
  ASSUME Calls!CallsAssumption
  PROVE  /\ Calls!Lane \in Calls!Locks /\ Calls!BackoffLock \in Calls!Locks /\ Calls!SlotNames \subseteq Calls!Locks
         /\ Calls!Lane # Calls!BackoffLock /\ Calls!Lane \notin Calls!SlotNames /\ Calls!BackoffLock \notin Calls!SlotNames /\ Calls!Nobody \notin Callers
BY DEF Calls!CallsAssumption, Calls!Lane, Calls!BackoffLock, Calls!SlotNames, Calls!Locks, Calls!Nobody

LEMMA UnlockedIs ==
  ASSUME Calls!CallsAssumption, CallsTypes, NEW c \in Callers
  PROVE  /\ Calls!Unlocked(c) \in [Calls!Locks -> Callers \cup {Calls!Nobody}]
         /\ \A l \in Calls!Locks : Calls!Unlocked(c)[l] # c /\ (holder[l] # c => Calls!Unlocked(c)[l] = holder[l])
                             /\ \A d \in Callers \ {c} : Calls!Unlocked(c)[l] = d <=> holder[l] = d
BY LockNames DEF Calls!Unlocked, CallsTypes

(* One caller moves, and the locks of the others stay. *)
LEMMA CallerMoves ==
  ASSUME Calls!CallsAssumption, CallsInv, NEW c \in Callers, NEW r \in CallType, call' = [call EXCEPT ![c] = r],
         UNCHANGED now, holder' \in [Calls!Locks -> Callers \cup {Calls!Nobody}],
         \A l \in Calls!Locks, d \in Callers \ {c} : holder'[l] = d <=> holder[l] = d,
         until' \in Nat, until' = until \/ holder[Calls!BackoffLock] = c,
         ended' \in Nat, ended' = ended \/ holder[Calls!Lane] = c,
         marked' \in Nat, ended' <= marked', marked' <= now,
         holder'[Calls!Lane] = c => r.mutation = TRUE /\ r.step \in OnLane,
         holder'[Calls!Lane] = c /\ r.step = "go" /\ ended' > 0 => now >= ended' + Spacing,
         holder'[Calls!Lane] = c /\ r.step = "running" /\ ended' > 0 => r.started >= ended' + Spacing,
         r.step = "record" => holder'[Calls!BackoffLock] = c /\ r.window >= until'
  PROVE  CallsInv'
<1>1. CallsTypes' BY DEF CallsInv, CallsTypes
<1>2. call'[c] = r BY DEF CallsInv, CallsTypes
<1>3. CallerOK(c)' BY <1>2 DEF CallerOK
<1>4. ASSUME NEW d \in Callers \ {c} PROVE CallerOK(d)'
  <2>1. call'[d] = call[d] BY DEF CallsInv, CallsTypes
  <2>2. (holder'[Calls!Lane] = d <=> holder[Calls!Lane] = d) /\ (holder'[Calls!BackoffLock] = d <=> holder[Calls!BackoffLock] = d)
    BY LockNames
  <2>3. CallerOK(d) BY DEF CallsInv
  <2>4. holder[Calls!Lane] = d => ended' = ended BY <1>4
  <2>5. holder[Calls!BackoffLock] = d => until' = until BY <1>4
  <2> QED BY <2>1, <2>2, <2>3, <2>4, <2>5 DEF CallerOK
<1>5. \A d \in Callers : CallerOK(d)' BY <1>3, <1>4
<1> QED BY <1>1, <1>5 DEF CallsInv

(* The locks and the files stay: what the caller is at, it may be at. *)
LEMMA CallerThinks ==
  ASSUME Calls!CallsAssumption, CallsInv, NEW c \in Callers, NEW r \in CallType, call' = [call EXCEPT ![c] = r],
         UNCHANGED <<now, Calls!files, holder, ended>>,
         r.step # "record", r.step # "running" \/ r.started = now,
         holder[Calls!Lane] = c => r.mutation = call[c].mutation /\ r.step \in OnLane,
         r.step \in {"go", "running"} => call[c].step = "go" \/ (call[c].step = "space" /\ Calls!Spaced(c))
                                        \/ holder[Calls!Lane] # c
  PROVE  CallsInv'
<1>1. CallerOK(c) /\ CallsTypes /\ ended <= marked /\ marked <= now BY DEF CallsInv
<1>2. now \in Nat /\ ended \in Nat /\ marked \in Nat /\ until \in Nat /\ Spacing \in Nat
  BY <1>1 DEF CallsTypes, Calls!CallsAssumption
<1>3. holder[Calls!Lane] = c /\ r.step \in {"go", "running"} /\ ended > 0 => now >= ended + Spacing
  <2>1. CASE call[c].step = "go" BY <1>1, <2>1 DEF CallerOK
  <2>2. CASE call[c].step = "space" /\ Calls!Spaced(c) BY <1>1, <1>2, <2>2 DEF Calls!Spaced
  <2> QED BY <2>1, <2>2
<1>4. holder[Calls!Lane] = c /\ r.step = "running" /\ ended > 0 => r.started >= ended + Spacing BY <1>3
<1>5. holder[Calls!Lane] = c => r.mutation = TRUE /\ r.step \in OnLane BY <1>1 DEF CallerOK
<1> QED BY <1>1, <1>2, <1>3, <1>4, <1>5, CallerMoves DEF Calls!files, CallsTypes

(* A caller that stops lets go of its locks. *)
LEMMA CallerStops ==
  ASSUME Calls!CallsAssumption, CallsInv, NEW c \in Callers, NEW r \in CallType, call' = [call EXCEPT ![c] = r],
         UNCHANGED <<now, Calls!files, ended>>, holder' = Calls!Unlocked(c), r.step # "record"
  PROVE  CallsInv'
<1>1. CallsTypes /\ ended <= marked /\ marked <= now BY DEF CallsInv
<1>2. holder'[Calls!Lane] # c /\ holder' \in [Calls!Locks -> Callers \cup {Calls!Nobody}]
      /\ \A l \in Calls!Locks, d \in Callers \ {c} : holder'[l] = d <=> holder[l] = d
  BY <1>1, UnlockedIs, LockNames
<1> QED BY <1>1, <1>2, CallerMoves DEF Calls!files, CallsTypes

LEMMA IdleCall == Calls!Idle \in CallType
BY DEF Calls!Idle, CallType, CallSteps, Outcomes

LEMMA BeginCall ==
  ASSUME Calls!CallsAssumption, CallsInv, NEW c \in Callers, NEW mutation \in BOOLEAN, Calls!Begin(c, mutation)
  PROVE  CallsInv'
<1> DEFINE r == [Calls!Idle EXCEPT !.step = "check", !.mutation = mutation, !.attempt = 1]
<1>1. r \in CallType
  <2>1. ASSUME NEW i \in CallType, NEW m \in BOOLEAN
        PROVE  [i EXCEPT !.step = "check", !.mutation = m, !.attempt = 1] \in CallType
    BY DEF CallType, CallSteps
  <2> QED BY <2>1, IdleCall
<1>2. r.step = "check" BY DEF Calls!Idle
<1>3. call[c].step = "idle" /\ call' = [call EXCEPT ![c] = r] /\ UNCHANGED <<now, Calls!files, holder, ended>>
  BY DEF Calls!Begin
<1>4. holder[Calls!Lane] # c BY <1>3 DEF CallsInv, CallerOK, OnLane
<1> HIDE DEF r
<1> QED BY <1>1, <1>2, <1>3, <1>4, CallerThinks

(* The steps that change the step and the deadline. *)
LEMMA CallerAt ==
  ASSUME CallsTypes, NEW c \in Callers, NEW step \in CallSteps, NEW deadline \in Nat,
         call' = [call EXCEPT ![c].step = step, ![c].deadline = deadline]
  PROVE  \E r \in CallType : call' = [call EXCEPT ![c] = r] /\ r.step = step /\ r.mutation = call[c].mutation
<1>1. PICK s \in CallType : s = call[c] BY DEF CallsTypes
<1> DEFINE r == [s EXCEPT !.step = step, !.deadline = deadline]
<1>2. r \in CallType BY DEF CallType
<1>3. call' = [call EXCEPT ![c] = r] BY <1>1 DEF CallsTypes
<1>4. r.step = step /\ r.mutation = s.mutation BY DEF CallType
<1> HIDE DEF r
<1> QED BY <1>1, <1>2, <1>3, <1>4

LEMMA CheckCall == ASSUME Calls!CallsAssumption, CallsInv, NEW c \in Callers, Calls!Check(c) PROVE CallsInv'
<1>1. call[c].step = "check" /\ UNCHANGED <<now, Calls!files, holder, ended>> BY DEF Calls!Check
<1>2. holder[Calls!Lane] # c BY <1>1 DEF CallsInv, CallerOK, OnLane
<1>3. CASE Calls!Fail(c)
  <2>1. call' = [call EXCEPT ![c] = Calls!Idle] /\ Calls!Idle.step = "idle"
    BY <1>3 DEF Calls!Fail, Calls!Idle
  <2> QED BY <1>1, <1>2, <2>1, IdleCall, CallerThinks
<1>4. CASE call' = [call EXCEPT ![c].step = "queue", ![c].deadline = now + Wait]
  <2>1. CallsTypes /\ now + Wait \in Nat BY DEF CallsInv, CallsTypes, Calls!CallsAssumption
  <2>2. PICK s \in CallType : s = call[c] BY <2>1 DEF CallsTypes
  <2>3. PICK deadline \in Nat : deadline = now + Wait BY <2>1
  <2> DEFINE r == [s EXCEPT !.step = "queue", !.deadline = deadline]
  <2>4. r \in CallType /\ r.step = "queue" BY DEF CallType, CallSteps
  <2>5. call' = [call EXCEPT ![c] = r] BY <1>4, <2>1, <2>2, <2>3 DEF CallsTypes
  <2> HIDE DEF r
  <2> QED BY <1>1, <1>2, <2>4, <2>5, CallerThinks
<1> QED BY <1>3, <1>4 DEF Calls!Check

LEMMA GotoCall ==
  ASSUME CallsInv, NEW c \in Callers, NEW step \in CallSteps, Calls!Goto(c, step)
  PROVE  \E r \in CallType : call' = [call EXCEPT ![c] = r] /\ r.step = step /\ r.mutation = call[c].mutation
<1>1. CallsTypes /\ 0 \in Nat BY DEF CallsInv
<1> QED BY <1>1, CallerAt DEF Calls!Goto

LEMMA QueueCall ==
  ASSUME Calls!CallsAssumption, CallsInv, NEW c \in Callers, Calls!Acquire(c) \/ Calls!GoWithout(c) \/ Calls!LockFileFails(c)
  PROVE  CallsInv'
<1>1. call[c].step = "queue" /\ Calls!Goto(c, "recheck") /\ UNCHANGED <<now, Calls!files, ended>>
  BY DEF Calls!Acquire, Calls!GoWithout, Calls!LockFileFails
<1>2. "recheck" \in CallSteps BY DEF CallSteps
<1>3. PICK r \in CallType :
        call' = [call EXCEPT ![c] = r] /\ r.step = "recheck" /\ r.mutation = call[c].mutation
  BY <1>1, <1>2, GotoCall
<1>4. holder[Calls!Lane] # c /\ CallsTypes BY <1>1 DEF CallsInv, CallerOK, OnLane
<1>5. CASE UNCHANGED holder BY <1>1, <1>3, <1>4, <1>5, CallerThinks
<1>6. CASE Calls!Acquire(c)
  <2>1. PICK l \in Calls!Wanted(c) : holder[l] = Calls!Nobody /\ holder' = [holder EXCEPT ![l] = c]
    BY <1>6 DEF Calls!Acquire
  <2>2. l \in Calls!Locks /\ l # Calls!BackoffLock /\ (l = Calls!Lane => call[c].mutation = TRUE)
    BY LockNames DEF Calls!Wanted
  <2>3. holder' \in [Calls!Locks -> Callers \cup {Calls!Nobody}] /\ \A k \in Calls!Locks : holder'[k] = IF k = l THEN c ELSE holder[k]
    BY <1>4, <2>1, <2>2 DEF CallsTypes
  <2>4. \A k \in Calls!Locks, d \in Callers \ {c} : holder'[k] = d <=> holder[k] = d
    BY <2>1, <2>3, LockNames
  <2>5. holder'[Calls!Lane] = c => r.mutation = TRUE /\ r.step \in OnLane
    BY <1>3, <1>4, <2>2, <2>3, LockNames DEF OnLane
  <2> QED BY <1>1, <1>3, <1>4, <2>3, <2>4, <2>5, CallerMoves DEF CallsInv, CallsTypes, Calls!files
<1> QED BY <1>5, <1>6 DEF Calls!GoWithout, Calls!LockFileFails

LEMMA RecheckCall == ASSUME Calls!CallsAssumption, CallsInv, NEW c \in Callers, Calls!Recheck(c)
  PROVE CallsInv'
<1>1. call[c].step = "recheck" /\ UNCHANGED <<now, Calls!files, ended>> BY DEF Calls!Recheck
<1>2. CASE Calls!Fail(c) /\ holder' = Calls!Unlocked(c)
  <2>1. call' = [call EXCEPT ![c] = Calls!Idle] /\ Calls!Idle.step = "idle"
    BY <1>2 DEF Calls!Fail, Calls!Idle
  <2> QED BY <1>1, <1>2, <2>1, IdleCall, CallerStops
<1>3. CASE Calls!Goto(c, IF call[c].mutation THEN "space" ELSE "go") /\ UNCHANGED holder
  <2>1. PICK step \in {"space", "go"} : step = IF call[c].mutation THEN "space" ELSE "go" OBVIOUS
  <2>2. step \in CallSteps /\ step \in OnLane BY <2>1 DEF CallSteps, OnLane
  <2>3. PICK r \in CallType : call' = [call EXCEPT ![c] = r] /\ r.step = step /\ r.mutation = call[c].mutation
    BY <1>3, <2>1, <2>2, GotoCall
  <2>4. holder[Calls!Lane] = c => call[c].mutation = TRUE BY DEF CallsInv, CallerOK
  <2>5. holder[Calls!Lane] = c => step = "space" BY <2>1, <2>4
  <2> QED BY <1>1, <1>3, <2>2, <2>3, <2>5, CallerThinks
<1> QED BY <1>2, <1>3 DEF Calls!Recheck

LEMMA SpaceCall == ASSUME Calls!CallsAssumption, CallsInv, NEW c \in Callers, Calls!Space(c) PROVE CallsInv'
<1>1. call[c].step = "space" /\ Calls!Spaced(c) /\ Calls!Goto(c, "go") /\ UNCHANGED <<now, Calls!files, holder, ended>>
  BY DEF Calls!Space
<1>2. "go" \in CallSteps /\ "go" \in OnLane BY DEF CallSteps, OnLane
<1>3. PICK r \in CallType : call' = [call EXCEPT ![c] = r] /\ r.step = "go" /\ r.mutation = call[c].mutation
  BY <1>1, <1>2, GotoCall
<1> QED BY <1>1, <1>2, <1>3, CallerThinks

LEMMA GoCall == ASSUME Calls!CallsAssumption, CallsInv, NEW c \in Callers, Calls!Go(c) PROVE CallsInv'
<1>1. call[c].step = "go" /\ UNCHANGED <<now, Calls!files, holder, ended>>
      /\ call' = [call EXCEPT ![c].step = "running", ![c].started = now]
  BY DEF Calls!Go
<1>2. PICK s \in CallType : s = call[c] BY DEF CallsInv, CallsTypes
<1> DEFINE r == [s EXCEPT !.step = "running", !.started = now]
<1>3. r \in CallType
  <2>1. now \in Nat /\ "running" \in CallSteps BY DEF CallsInv, CallsTypes, CallSteps
  <2> QED BY <2>1 DEF CallType
<1>4. r.step = "running" /\ r.started = now /\ r.mutation = call[c].mutation BY <1>2 DEF CallType
<1>5. call' = [call EXCEPT ![c] = r] BY <1>1, <1>2 DEF CallsInv, CallsTypes
<1>6. "running" \in OnLane BY DEF OnLane
<1>7. PICK q \in CallType : q = r BY <1>3
<1> HIDE DEF r
<1> QED BY <1>1, <1>4, <1>5, <1>6, <1>7, CallerThinks

(* The mark is written before the lane is let go. *)
LEMMA ReturnCall ==
  ASSUME Calls!CallsAssumption, CallsInv, NEW c \in Callers, NEW outcome \in Outcomes, Calls!Return(c, outcome)
  PROVE  CallsInv'
<1>1. /\ call[c].step = "running" /\ UNCHANGED <<now, until>> /\ holder' = Calls!Unlocked(c)
      /\ marked' = IF call[c].mutation THEN now ELSE marked
      /\ ended' = IF holder[Calls!Lane] = c THEN now ELSE ended
      /\ call' = [call EXCEPT ![c].outcome = outcome, ![c].started = 0,
                              ![c].deadline = IF Calls!IsSignal(outcome) THEN now + Wait ELSE 0,
                              ![c].step = IF Calls!IsSignal(outcome) THEN "signal" ELSE "returned"]
  BY DEF Calls!Return, Calls!Marks
<1>2. CallsTypes /\ CallerOK(c) /\ ended <= marked /\ marked <= now BY DEF CallsInv
<1>3. now \in Nat /\ marked \in Nat /\ ended \in Nat /\ until \in Nat /\ Wait \in Nat
  BY <1>2 DEF CallsTypes, Calls!CallsAssumption
<1>4. PICK s \in CallType : s = call[c] BY <1>2 DEF CallsTypes
<1>5. PICK deadline \in Nat : deadline = IF Calls!IsSignal(outcome) THEN now + Wait ELSE 0 BY <1>3
<1>6. PICK step \in {"signal", "returned"} : step = IF Calls!IsSignal(outcome) THEN "signal" ELSE "returned" OBVIOUS
<1> DEFINE r == [s EXCEPT !.outcome = outcome, !.started = 0, !.deadline = deadline, !.step = step]
<1>7. r \in CallType /\ r.step = step BY DEF CallType, CallSteps
<1>8. call' = [call EXCEPT ![c] = r]
  BY <1>1, <1>2, <1>4, <1>5, <1>6 DEF CallsTypes
<1> HIDE DEF r
<1>9. /\ holder'[Calls!Lane] # c /\ holder' \in [Calls!Locks -> Callers \cup {Calls!Nobody}]
      /\ \A l \in Calls!Locks, d \in Callers \ {c} : holder'[l] = d <=> holder[l] = d
  BY <1>1, <1>2, UnlockedIs, LockNames
<1>10. marked' \in Nat /\ ended' \in Nat /\ ended' <= marked' /\ marked' <= now
  <2>1. CASE holder[Calls!Lane] = c
    <3>1. call[c].mutation = TRUE BY <1>2, <2>1 DEF CallerOK
    <3> QED BY <1>1, <1>3, <2>1, <3>1
  <2>2. CASE holder[Calls!Lane] # c BY <1>1, <1>2, <1>3, <2>2
  <2> QED BY <2>1, <2>2
<1>11. r.step # "record" /\ (ended' = ended \/ holder[Calls!Lane] = c) BY <1>1, <1>7
<1> QED BY <1>1, <1>3, <1>7, <1>8, <1>9, <1>10, <1>11, CallerMoves

LEMMA ReadWindowCall == ASSUME Calls!CallsAssumption, CallsInv, NEW c \in Callers, Calls!ReadWindow(c)
  PROVE CallsInv'
<1>1. /\ call[c].step = "signal" /\ holder[Calls!BackoffLock] = Calls!Nobody /\ holder' = [holder EXCEPT ![Calls!BackoffLock] = c]
      /\ call' = [call EXCEPT ![c].step = "record", ![c].deadline = 0, ![c].window = Calls!ExtendedWindow]
      /\ UNCHANGED <<now, until, marked, ended>>
  BY DEF Calls!ReadWindow, Calls!MayRecord, Calls!files
<1>2. CallsTypes /\ CallerOK(c) /\ ended <= marked /\ marked <= now BY DEF CallsInv
<1>3. now \in Nat /\ marked \in Nat /\ ended \in Nat /\ until \in Nat /\ Window \in Nat
  BY <1>2 DEF CallsTypes, Calls!CallsAssumption
<1>4. PICK window \in Nat : window = Calls!ExtendedWindow /\ window >= until
  BY <1>3 DEF Calls!ExtendedWindow, Calls!Larger
<1>5. PICK s \in CallType : s = call[c] BY <1>2 DEF CallsTypes
<1> DEFINE r == [s EXCEPT !.step = "record", !.deadline = 0, !.window = window]
<1>6. r \in CallType /\ r.step = "record" /\ r.window = window BY DEF CallType, CallSteps
<1>7. call' = [call EXCEPT ![c] = r] BY <1>1, <1>2, <1>4, <1>5 DEF CallsTypes
<1> HIDE DEF r
<1>8. /\ holder' \in [Calls!Locks -> Callers \cup {Calls!Nobody}] /\ holder'[Calls!BackoffLock] = c /\ holder'[Calls!Lane] = holder[Calls!Lane]
      /\ \A l \in Calls!Locks, d \in Callers \ {c} : holder'[l] = d <=> holder[l] = d
  BY <1>1, <1>2, LockNames DEF CallsTypes
<1>9. holder'[Calls!Lane] # c BY <1>1, <1>2, <1>8 DEF CallerOK, OnLane
<1>10. /\ until' \in Nat /\ until' = until /\ ended' \in Nat /\ ended' = ended /\ marked' \in Nat
       /\ ended' <= marked' /\ marked' <= now /\ UNCHANGED now
  BY <1>1, <1>2, <1>3
<1>11. holder'[Calls!BackoffLock] = c /\ r.window >= until' BY <1>1, <1>4, <1>6, <1>8
<1> QED BY <1>6, <1>7, <1>8, <1>9, <1>10, <1>11, CallerMoves

LEMMA WriteWindowCall ==
  ASSUME Calls!CallsAssumption, CallsInv, NEW c \in Callers, Calls!WriteWindow(c)
  PROVE  CallsInv' /\ Calls!LaterWindow
<1>1. /\ call[c].step = "record" /\ holder' = Calls!Unlocked(c) /\ until' = call[c].window
      /\ call' = [call EXCEPT ![c].step = "returned", ![c].window = 0]
      /\ UNCHANGED <<now, marked, ended>>
  BY DEF Calls!WriteWindow
<1>2. CallsTypes /\ CallerOK(c) /\ ended <= marked /\ marked <= now BY DEF CallsInv
<1>3. now \in Nat /\ marked \in Nat /\ ended \in Nat /\ until \in Nat BY <1>2 DEF CallsTypes
<1>4. PICK s \in CallType : s = call[c] BY <1>2 DEF CallsTypes
<1> DEFINE r == [s EXCEPT !.step = "returned", !.window = 0]
<1>5. r \in CallType /\ r.step = "returned" BY DEF CallType, CallSteps
<1>6. call' = [call EXCEPT ![c] = r] BY <1>1, <1>2, <1>4 DEF CallsTypes
<1> HIDE DEF r
<1>7. /\ holder'[Calls!Lane] # c /\ holder' \in [Calls!Locks -> Callers \cup {Calls!Nobody}]
      /\ \A l \in Calls!Locks, d \in Callers \ {c} : holder'[l] = d <=> holder[l] = d
  BY <1>1, <1>2, UnlockedIs, LockNames
<1>8. s.window \in Nat BY DEF CallType
<1>9. holder[Calls!BackoffLock] = c /\ until' >= until /\ until' \in Nat
  BY <1>1, <1>2, <1>4, <1>8 DEF CallerOK
<1>10. /\ ended' \in Nat /\ ended' = ended /\ marked' \in Nat
       /\ ended' <= marked' /\ marked' <= now /\ UNCHANGED now /\ r.step # "record"
  BY <1>1, <1>2, <1>3, <1>5
<1>11. CallsInv' BY <1>5, <1>6, <1>7, <1>9, <1>10, CallerMoves
<1> QED BY <1>9, <1>11 DEF Calls!LaterWindow

LEMMA AfterwardsCall ==
  ASSUME Calls!CallsAssumption, CallsInv, NEW c \in Callers, Calls!DropSignal(c) \/ Calls!Retry(c) \/ Calls!Done(c)
  PROVE  CallsInv'
<1>1. call[c].step \in {"signal", "returned"} /\ UNCHANGED <<now, Calls!files, holder, ended>>
  BY DEF Calls!DropSignal, Calls!Retry, Calls!Done
<1>2. holder[Calls!Lane] # c BY <1>1 DEF CallsInv, CallerOK, OnLane
<1>3. ASSUME Calls!DropSignal(c) PROVE CallsInv'
  <2>1. Calls!Goto(c, "returned") /\ "returned" \in CallSteps BY <1>3 DEF Calls!DropSignal, CallSteps
  <2>2. PICK r \in CallType : call' = [call EXCEPT ![c] = r] /\ r.step = "returned" BY <2>1, GotoCall
  <2> QED BY <1>1, <1>2, <2>2, CallerThinks
<1>4. ASSUME Calls!Retry(c) PROVE CallsInv'
  <2>1. PICK s \in CallType : s = call[c] BY DEF CallsInv, CallsTypes
  <2>2. s.attempt + 1 \in Nat BY DEF CallType
  <2>3. ASSUME NEW i \in CallType, NEW n \in Nat
        PROVE  [i EXCEPT !.step = "check", !.attempt = n] \in CallType
               /\ [i EXCEPT !.step = "check", !.attempt = n].step = "check"
    BY DEF CallType, CallSteps
  <2>4. call' = [call EXCEPT ![c] = [Calls!Idle EXCEPT !.step = "check", !.attempt = s.attempt + 1]]
    BY <1>4, <2>1 DEF Calls!Retry
  <2>5. PICK r \in CallType : call' = [call EXCEPT ![c] = r] /\ r.step = "check"
    BY <2>2, <2>3, <2>4, IdleCall
  <2> QED BY <1>1, <1>2, <2>5, CallerThinks
<1>5. ASSUME Calls!Done(c) PROVE CallsInv'
  <2>1. call' = [call EXCEPT ![c] = Calls!Idle] /\ Calls!Idle.step = "idle"
    BY <1>5 DEF Calls!Done, Calls!Fail, Calls!Idle
  <2> QED BY <1>1, <1>2, <2>1, IdleCall, CallerThinks
<1> QED BY <1>3, <1>4, <1>5

LEMMA CrashCall == ASSUME Calls!CallsAssumption, CallsInv, NEW c \in Callers, Calls!Crash(c) PROVE CallsInv'
<1>1. call' = [call EXCEPT ![c] = Calls!Idle] /\ Calls!Idle.step = "idle" /\ holder' = Calls!Unlocked(c) /\ UNCHANGED <<now, Calls!files, ended>>
  BY DEF Calls!Crash, Calls!Fail, Calls!Idle
<1> QED BY <1>1, IdleCall, CallerStops

LEMMA ClockTicks == ASSUME Calls!CallsAssumption, CallsInv, Calls!Tick PROVE CallsInv'
<1>1. now' = now + 1 /\ UNCHANGED <<until, marked, holder, call, ended>> BY DEF Calls!Tick, Calls!files
<1>2. CallsTypes /\ now \in Nat /\ marked \in Nat /\ ended \in Nat /\ Spacing \in Nat
  BY DEF CallsInv, CallsTypes, Calls!CallsAssumption
<1>3. CallsTypes' BY <1>1, <1>2 DEF CallsTypes
<1>4. \A c \in Callers : CallerOK(c)' BY <1>1, <1>2 DEF CallerOK, CallsInv
<1>5. ended' <= marked' /\ marked' <= now' BY <1>1, <1>2 DEF CallsInv
<1> QED BY <1>3, <1>4, <1>5 DEF CallsInv

LEMMA CallsInitOK == ASSUME Calls!CallsAssumption, Calls!Init PROVE CallsInv
<1>1. call \in [Callers -> CallType] /\ holder \in [Calls!Locks -> Callers \cup {Calls!Nobody}]
  BY IdleCall DEF Calls!Init
<1>2. \A c \in Callers : CallerOK(c)
  <2> SUFFICES ASSUME NEW c \in Callers PROVE CallerOK(c) OBVIOUS
  <2>1. holder[Calls!Lane] # c BY LockNames DEF Calls!Init
  <2>2. call[c].step = "idle" BY DEF Calls!Init, Calls!Idle
  <2> QED BY <2>1, <2>2 DEF CallerOK
<1> QED BY <1>1, <1>2 DEF Calls!Init, CallsInv, CallsTypes

LEMMA CallsStepOK == ASSUME Calls!CallsAssumption, CallsInv, Calls!Next \/ UNCHANGED Calls!vars
  PROVE CallsInv'
<1>1. ASSUME UNCHANGED Calls!vars PROVE CallsInv' BY <1>1 DEF Calls!vars, CallsInv, CallsTypes, CallerOK
<1>2. ASSUME NEW c \in Callers, NEW print \in Calls!Prints, Calls!Return(c, Calls!Outcome(print[1], print[2]))
  PROVE CallsInv'
  <2>1. PICK outcome \in Outcomes : outcome = Calls!Outcome(print[1], print[2]) BY DEF Outcomes
  <2> QED BY <1>2, <2>1, ReturnCall
<1> QED
  BY <1>1, <1>2, BeginCall, CheckCall, QueueCall, RecheckCall, SpaceCall, GoCall, ReadWindowCall, WriteWindowCall,
     AfterwardsCall, CrashCall, ClockTicks DEF Calls!Next

LEMMA CallsLater == ASSUME Calls!CallsAssumption, CallsInv, Calls!Next \/ UNCHANGED Calls!vars
  PROVE Calls!LaterWindow
<1>1. until \in Nat BY DEF CallsInv, CallsTypes
<1>2. Calls!Next \/ UNCHANGED Calls!vars => UNCHANGED until \/ \E c \in Callers : Calls!WriteWindow(c)
  BY
    DEF Calls!Next, Calls!vars, Calls!files, Calls!Begin, Calls!Check, Calls!Acquire, Calls!GoWithout, Calls!LockFileFails, Calls!Recheck, Calls!Space, Calls!Go, Calls!Return, Calls!ReadWindow,
         Calls!DropSignal, Calls!Retry, Calls!Done, Calls!Crash, Calls!Tick
<1>3. CASE UNCHANGED until BY <1>1, <1>3 DEF Calls!LaterWindow
<1> QED BY <1>2, <1>3, WriteWindowCall

(* No session shortens the machine's backoff window, and mutations that    *)
(* share the lane keep their distance whatever became of the one before    *)
(* (record_rate_limit, _space_mutation, _mark_mutation).                   *)
THEOREM BackoffAndSpacing == Spec => BackoffHolds
<1> DEFINE IInv == subject = "calls" => CallsInv
           Holds == subject = "calls" => Calls!LaterWindow /\ Calls!MutationsSpaced'
<1>1. Init => IInv BY ServicesAssumption, CallsInitOK DEF Init
<1>2. IInv /\ [Next]_vars => IInv' /\ Holds
  <2> SUFFICES ASSUME IInv, [Next]_vars PROVE IInv' /\ Holds OBVIOUS
  <2>1. UNCHANGED subject BY DEF Next, vars
  <2>2. ASSUME subject = "calls" PROVE CallsInv' /\ Calls!LaterWindow /\ Calls!MutationsSpaced'
    <3>1. Calls!Next \/ UNCHANGED Calls!vars BY <2>2 DEF Next, vars, OfCalls, Calls!vars
    <3>2. CallsInv' /\ Calls!LaterWindow BY <2>2, <3>1, ServicesAssumption, CallsStepOK, CallsLater
    <3>3. CallsInv' => Calls!MutationsSpaced' BY DEF CallsInv, CallerOK, Calls!MutationsSpaced
    <3> QED BY <3>2, <3>3
  <2> QED BY <2>1, <2>2
<1>3. IInv /\ [Next]_vars => [Holds]_vars BY <1>2
<1>4. Spec => []IInv BY <1>1, <1>2, PTL DEF Spec
<1>5. [][Holds]_vars => BackoffHolds BY DEF BackoffHolds
<1> QED BY <1>3, <1>4, <1>5, PTL DEF Spec

-----------------------------------------------------------------------------
(* Branch control *)

Branches == {"main", "develop", "snapshot"}
CIRun == [head : Nat, base : Nat, tested : Nat, conclusion : {"running", "success", "failure"}]
PullType ==
  [kind : {"release", "sync"}, state : {"open", "closed"}, draft : BOOLEAN, merge : Nat, headAt : Nat,
   base : Nat, snapshotOf : Nat, human : Nat, block : {"none", "merged", "ready", "blocked"}]

BranchTypes ==
  /\ \E S : commits \in Seq(S)
  /\ ref \in [Branches -> 1..Len(commits)] /\ pr \in PullType /\ ci \in Seq(CIRun) /\ review \in BOOLEAN
  /\ pr.merge # 0 => pr.merge \in DOMAIN commits /\ pr.state = "closed"
  /\ \A n \in DOMAIN ci : ci[n].conclusion = "success" => ci[n].tested = ci[n].base

(* What was true of the approved commits when it was looked at stays true. *)
Tested(m) ==
  \E n \in DOMAIN ci : ci[n].conclusion = "success" /\ ci[n].head = m.head /\ ci[n].tested = m.base
Snapshotted(m) ==
  pr.kind = "sync" =>
    /\ m.head \in DOMAIN commits
    /\ \E tip \in DOMAIN commits :
         commits[m.head].parents = <<tip>> /\ commits[m.head].tree = commits[tip].tree

Compared == {"refs-base", "ready", "ci"}
Evidenced == {"review", "checks", "live", "live-head", "live-base", "snapshot", "put", "after"}

MergeFields == {"step", "pr", "head", "base", "declined", "already", "status"}
ReportFields == {"step", "pr", "status", "body", "seen"}

(* What the merge command relies on at its step. *)
MergeOK(m) ==
  /\ DOMAIN m = MergeFields
  /\ m.step \in Compared => m.pr.head = m.head /\ m.pr.base = m.base
  /\ m.step \in Compared \cup {"refs-head"} => m.pr.kind = pr.kind
  /\ m.step \in Evidenced \cup {"ci"} => Snapshotted(m)
  /\ m.step \in Evidenced => Tested(m)
  /\ m.step = "verify" => /\ pr.merge # 0 /\ m.pr.commit = pr.merge
                          /\ ~m.already => Tested(m) /\ Snapshotted(m)
  /\ m.status = "merged" => /\ m.step = "done" /\ pr.merge # 0
                            /\ commits[pr.merge].parents = <<m.base, m.head>>
                            /\ ~m.already => Tested(m) /\ Snapshotted(m)

(* What the readiness command relies on. *)
ReportOK(r) ==
  /\ DOMAIN r = ReportFields
  /\ r.status \in {"none", "merged", "ready", "blocked"} /\ r.body \in Nat /\ r.seen \in Nat
  /\ r.step = "body" => pr.human >= r.seen
  /\ r.step = "patch" => r.body >= r.seen

BranchInv == BranchTypes /\ MergeOK(merge) /\ ReportOK(report)

-----------------------------------------------------------------------------
(* The repository only grows *)

(* Commits are added, a merge and a successful CI run stay. *)
RepositoryGrows ==
  /\ \A k \in DOMAIN commits : k \in DOMAIN commits' /\ commits'[k] = commits[k]
  /\ \A n \in DOMAIN ci : ci[n].conclusion = "success" => n \in DOMAIN ci' /\ ci'[n] = ci[n]
  /\ pr'.kind = pr.kind /\ (pr.merge # 0 => pr'.merge = pr.merge)

LEMMA MergeStays ==
  ASSUME BranchTypes, RepositoryGrows, NEW m, MergeOK(m)
  PROVE  MergeOK(m)'
<1>1. Tested(m) => Tested(m)' BY DEF Tested, RepositoryGrows
<1>2. Snapshotted(m) => Snapshotted(m)' BY DEF Snapshotted, RepositoryGrows
<1>3. pr.merge # 0 => pr'.merge = pr.merge /\ commits'[pr.merge] = commits[pr.merge]
  BY DEF BranchTypes, RepositoryGrows
<1>4. m.step = "verify" => /\ pr'.merge # 0 /\ m.pr.commit = pr'.merge
                           /\ ~m.already => Tested(m)' /\ Snapshotted(m)'
  BY <1>1, <1>2, <1>3 DEF MergeOK
<1>5. m.status = "merged" => /\ m.step = "done" /\ pr'.merge # 0
                             /\ commits'[pr'.merge].parents = <<m.base, m.head>>
                             /\ ~m.already => Tested(m)' /\ Snapshotted(m)'
  BY <1>1, <1>2, <1>3 DEF MergeOK
<1>6. m.step \in Compared \cup {"refs-head"} => m.pr.kind = pr'.kind BY DEF MergeOK, RepositoryGrows
<1>7. /\ m.step \in Evidenced \cup {"ci"} => Snapshotted(m)'
      /\ m.step \in Evidenced => Tested(m)'
  BY <1>1, <1>2 DEF MergeOK
<1> QED BY <1>4, <1>5, <1>6, <1>7 DEF MergeOK

(* A new commit is on no branch but its own. *)
LEMMA CommitsGrow ==
  ASSUME BranchTypes, NEW x, commits' = Append(commits, x), NEW b \in Branches, ref' = [ref EXCEPT ![b] = Branch!New]
  PROVE  /\ \E S : commits' \in Seq(S)
         /\ Len(commits') = Len(commits) + 1 /\ Len(commits) \in Nat /\ DOMAIN commits = 1..Len(commits)
         /\ DOMAIN commits' = 1..Len(commits')
         /\ \A k \in DOMAIN commits : k \in DOMAIN commits' /\ commits'[k] = commits[k]
         /\ ref' \in [Branches -> 1..Len(commits')] /\ commits'[Branch!New] = x
<1>1. PICK S : commits \in Seq(S) BY DEF BranchTypes
<1>2. commits \in Seq(S \cup {x}) /\ x \in S \cup {x} BY <1>1
<1>3. commits' \in Seq(S \cup {x}) BY <1>2
<1>4. /\ Len(commits') = Len(commits) + 1 /\ Len(commits) \in Nat /\ DOMAIN commits = 1..Len(commits)
      /\ DOMAIN commits' = 1..Len(commits')
      /\ \A k \in DOMAIN commits : k \in DOMAIN commits' /\ commits'[k] = commits[k]
      /\ commits'[Branch!New] = x
  BY <1>2, <1>3 DEF Branch!New
<1>5. ref' \in [Branches -> 1..Len(commits')] BY <1>4 DEF BranchTypes, Branch!New
<1> QED BY <1>3, <1>4, <1>5

-----------------------------------------------------------------------------
(* merge *)

LEMMA MergeOnly ==
  ASSUME BranchInv, NEW m, MergeOK(m), merge' = m, Branch!NoWrite
  PROVE  BranchInv'
<1>1. UNCHANGED <<commits, ref, pr, ci, review, report>> BY DEF Branch!NoWrite
<1>2. BranchTypes' BY <1>1 DEF BranchInv, BranchTypes
<1>3. MergeOK(m)' BY <1>1, MergeStays DEF BranchInv, RepositoryGrows
<1>4. MergeOK(merge)'
  <2>1. PICK q : q = m OBVIOUS
  <2>2. MergeOK(q)' /\ merge' = q BY <1>3, <2>1
  <2> QED BY <2>2
<1>5. ReportOK(report)' BY <1>1 DEF BranchInv, ReportOK
<1> QED BY <1>2, <1>4, <1>5 DEF BranchInv

LEMMA EndsOK ==
  ASSUME BranchInv, NEW status, status # "merged", Branch!Ends(status), Branch!NoWrite
  PROVE  BranchInv'
<1>1. PICK m : m = merge OBVIOUS
<1>2. MergeOK(m) BY <1>1 DEF BranchInv
<1> DEFINE r == [m EXCEPT !.step = "done", !.status = status]
<1>3. DOMAIN r = MergeFields /\ r.step = "done" /\ r.status = status BY <1>2 DEF MergeOK, MergeFields
<1>4. merge' = r BY <1>1 DEF Branch!Ends
<1> HIDE DEF r
<1>5. MergeOK(r) BY <1>3 DEF MergeOK, Compared, Evidenced
<1> QED BY <1>4, <1>5, MergeOnly

(* The command goes on when what the next step relies on is there. *)
LEMMA GoesOK ==
  ASSUME BranchInv, NEW step, Branch!Goes(step), Branch!NoWrite, merge.status # "merged",
         step \in Compared => merge.pr.head = merge.head /\ merge.pr.base = merge.base,
         step \in Compared \cup {"refs-head"} => merge.pr.kind = pr.kind,
         step \in Evidenced \cup {"ci"} => Snapshotted(merge), step \in Evidenced => Tested(merge),
         step # "verify"
  PROVE  BranchInv'
<1>1. PICK m : m = merge OBVIOUS
<1>2. MergeOK(m) BY <1>1 DEF BranchInv
<1> DEFINE r == [m EXCEPT !.step = step]
<1>3. DOMAIN r = MergeFields /\ r.step = step /\ r.status = m.status /\ r.head = m.head /\ r.base = m.base /\ r.pr = m.pr
  BY <1>2 DEF MergeOK, MergeFields
<1>4. merge' = r BY <1>1 DEF Branch!Goes
<1> HIDE DEF r
<1>5. (Tested(m) => Tested(r)) /\ (Snapshotted(m) => Snapshotted(r)) BY <1>3 DEF Tested, Snapshotted
<1>6. MergeOK(r) BY <1>1, <1>3, <1>5 DEF MergeOK
<1> QED BY <1>4, <1>6, MergeOnly

LEMMA NotYetMerged ==
  ASSUME BranchInv, merge.step # "done"
  PROVE  merge.status # "merged"
BY DEF BranchInv, MergeOK

LEMMA DispatchMerge == ASSUME BranchInv, Branch!Dispatch \/ Branch!Redispatch PROVE BranchInv'
<1>1. CASE Branch!Dispatch
  <2>1. PICK base, head : merge' = [Branch!NoMerge EXCEPT !.step = "read", !.head = head, !.base = base]
    BY <1>1 DEF Branch!Dispatch
  <2>2. PICK m : m = [Branch!NoMerge EXCEPT !.step = "read", !.head = head, !.base = base] OBVIOUS
  <2>3. DOMAIN Branch!NoMerge = MergeFields /\ Branch!NoMerge.status = "none"
    BY DEF Branch!NoMerge, MergeFields
  <2>4. DOMAIN m = MergeFields /\ m.step = "read" /\ m.status = "none" BY <2>2, <2>3 DEF MergeFields
  <2>5. MergeOK(m) BY <2>4 DEF MergeOK, Compared, Evidenced
  <2> QED BY <1>1, <2>1, <2>2, <2>5, MergeOnly DEF Branch!Dispatch
<1>2. CASE Branch!Redispatch
  <2>1. merge' = Branch!NoMerge /\ UNCHANGED <<commits, ref, pr, ci, review, report>>
    BY <1>2 DEF Branch!Redispatch
  <2>2. MergeOK(Branch!NoMerge)' BY DEF Branch!NoMerge, MergeOK, MergeFields, Compared, Evidenced
  <2>3. BranchTypes' /\ ReportOK(report)' BY <2>1 DEF BranchInv, BranchTypes, ReportOK
  <2> QED BY <2>1, <2>2, <2>3 DEF BranchInv
<1> QED BY <1>1, <1>2

(* The requests before the merge: the payload is compared, then looked at. *)
LEMMA ReadsOK ==
  ASSUME BranchInv, Branch!ReadPull \/ Branch!ReadHead \/ Branch!ReadBase \/ Branch!ReadLive \/ Branch!RequestFails
  PROVE  BranchInv'
<1>1. PICK m : m = merge OBVIOUS
<1>2. MergeOK(m) /\ BranchTypes BY <1>1 DEF BranchInv
<1>3. CASE Branch!RequestFails BY <1>3, EndsOK DEF Branch!RequestFails
<1>4. CASE Branch!ReadPull
  <2>1. PICK p : p = Branch!Payload OBVIOUS
  <2>2. p.kind = pr.kind /\ p.merged = (pr.merge # 0) /\ p.commit = pr.merge BY <2>1 DEF Branch!Payload
  <2>3. PICK step \in {"verify", "refs-head"} : step = IF p.merged THEN "verify" ELSE "refs-head" OBVIOUS
  <2> DEFINE r == [m EXCEPT !.step = step, !.already = p.merged, !.pr = p]
  <2>4. /\ DOMAIN r = MergeFields /\ r.step = step /\ r.already = p.merged /\ r.pr = p /\ r.status = m.status
        /\ r.head = m.head /\ r.base = m.base
    BY <1>2 DEF MergeOK, MergeFields
  <2>5. merge' = r BY <1>1, <1>4, <2>1, <2>3 DEF Branch!ReadPull
  <2>6. m.status # "merged" BY <1>1, <1>4, NotYetMerged DEF Branch!ReadPull
  <2> HIDE DEF r
  <2>7. MergeOK(r) BY <2>2, <2>3, <2>4, <2>6 DEF MergeOK, Compared, Evidenced
  <2> QED BY <1>4, <2>5, <2>7, MergeOnly DEF Branch!ReadPull
<1>5. CASE Branch!ReadLive
  <2>1. CASE merge' = [merge EXCEPT !.step = "done", !.status = "blocked"]
    BY <1>5, <2>1, EndsOK DEF Branch!ReadLive, Branch!Ends
  <2>2. CASE merge' = [merge EXCEPT !.step = "live-head", !.pr = Branch!Payload]
    <3>1. PICK p : p = Branch!Payload OBVIOUS
    <3> DEFINE r == [m EXCEPT !.step = "live-head", !.pr = p]
    <3>2. DOMAIN r = MergeFields /\ r.step = "live-head" /\ r.status = m.status /\ r.head = m.head /\ r.base = m.base
      BY <1>2 DEF MergeOK, MergeFields
    <3>3. merge' = r BY <1>1, <2>2, <3>1
    <3> HIDE DEF r
    <3>4. m.step = "live" BY <1>1, <1>5 DEF Branch!ReadLive
    <3>5. m.status # "merged" BY <1>1, <1>5, <3>4, NotYetMerged
    <3>6. Tested(r) /\ Snapshotted(r) BY <1>2, <3>2, <3>4 DEF MergeOK, Evidenced, Tested, Snapshotted
    <3>7. MergeOK(r) BY <3>2, <3>5, <3>6 DEF MergeOK, Compared
    <3> QED BY <1>5, <3>3, <3>7, MergeOnly DEF Branch!ReadLive
  <2> QED BY <1>5, <2>1, <2>2 DEF Branch!ReadLive
<1>6. ASSUME NEW step, NEW b, NEW sha, NEW next, Branch!ExactRefs(step, b, sha, next), step # "done",
             \/ step = "refs-head" /\ next = "refs-base"
             \/ step = "refs-base" /\ next = "ready"
             \/ step \in {"live-head", "live-base"} /\ next \in {"live-base", "snapshot", "put"}
      PROVE  BranchInv'
  <2>1. merge.step = step /\ Branch!NoWrite /\ merge.status # "merged"
    BY <1>6, NotYetMerged DEF Branch!ExactRefs
  <2>2. CASE Branch!Ends("blocked") BY <2>1, <2>2, EndsOK
  <2>3. CASE Branch!Goes(next) /\ merge.pr.head = merge.head /\ merge.pr.base = merge.base
    <3>1. next \in Compared => merge.pr.kind = pr.kind BY <1>1, <1>2, <1>6, <2>1 DEF MergeOK, Compared
    <3>2. next \in Evidenced => Tested(merge) /\ Snapshotted(merge)
      BY <1>1, <1>2, <1>6, <2>1 DEF MergeOK, Evidenced
    <3>3. next \notin {"refs-head", "ci", "verify"} BY <1>6
    <3> QED BY <2>1, <2>3, <3>1, <3>2, <3>3, GoesOK
  <2> QED BY <1>6, <2>2, <2>3 DEF Branch!ExactRefs, Branch!Check
<1>7. CASE Branch!ReadHead BY <1>6, <1>7 DEF Branch!ReadHead
<1>8. CASE Branch!ReadBase
  <2>1. PICK next \in {"snapshot", "put"} : next = IF pr.kind = "sync" THEN "snapshot" ELSE "put" OBVIOUS
  <2> QED BY <1>6, <1>8, <2>1 DEF Branch!ReadBase
<1> QED BY <1>3, <1>4, <1>5, <1>7, <1>8

(* Evidence is looked for at the approved head and base. *)
LEMMA EvidenceOK ==
  ASSUME BranchInv, Branch!Identity \/ Branch!SourceCI \/ Branch!FinalGate \/ Branch!Snapshot
  PROVE  BranchInv'
<1>1. MergeOK(merge) /\ BranchTypes BY DEF BranchInv
<1>2. Branch!NoWrite /\ merge.step # "done"
  BY DEF Branch!Identity, Branch!SourceCI, Branch!FinalGate, Branch!Snapshot
<1>3. merge.status # "merged" BY <1>2, NotYetMerged
<1>4. ASSUME NEW condition, NEW next, Branch!Check(condition, next), condition => Snapshotted(merge),
             condition => next \in {"ci", "review", "checks", "live", "put"},
             condition /\ next # "ci" => Tested(merge),
             condition /\ next = "ci" => merge.pr.head = merge.head /\ merge.pr.base = merge.base /\ merge.pr.kind = pr.kind
      PROVE  BranchInv'
  <2>1. CASE Branch!Ends("blocked") BY <1>2, <2>1, EndsOK
  <2>2. CASE condition /\ Branch!Goes(next)
    <3>1. /\ next \in Compared => merge.pr.head = merge.head /\ merge.pr.base = merge.base
          /\ next \in Compared \cup {"refs-head"} => merge.pr.kind = pr.kind
          /\ next \in Evidenced \cup {"ci"} => Snapshotted(merge)
          /\ next \in Evidenced => Tested(merge)
          /\ next # "verify"
      BY <1>4, <2>2 DEF Compared, Evidenced
    <3> QED BY <1>2, <1>3, <2>2, <3>1, GoesOK
  <2> QED BY <1>4, <2>1, <2>2 DEF Branch!Check
<1>5. CASE Branch!Identity
  <2>1. merge.step = "ready" /\ Branch!Check(Branch!IdentityValid(merge.pr), "ci")
    BY <1>5 DEF Branch!Identity
  <2>2. merge.pr.head = merge.head /\ merge.pr.base = merge.base /\ merge.pr.kind = pr.kind
    BY <1>1, <2>1 DEF MergeOK, Compared
  <2>3. Branch!IdentityValid(merge.pr) => Snapshotted(merge)
    <3> SUFFICES ASSUME Branch!IdentityValid(merge.pr), pr.kind = "sync"
                 PROVE  /\ merge.head \in DOMAIN commits
                        /\ \E tip \in DOMAIN commits :
                             /\ commits[merge.head].parents = <<tip>>
                             /\ commits[merge.head].tree = commits[tip].tree
      BY DEF Snapshotted
    <3>1. Branch!ValidSnapshot(merge.pr) /\ ref[Branch!HeadRef] = merge.head
      BY <2>2 DEF Branch!IdentityValid
    <3>2. Branch!HeadRef \in Branches /\ "main" \in Branches BY DEF Branch!HeadRef, Branches
    <3>3. PICK S : commits \in Seq(S) BY <1>1 DEF BranchTypes
    <3>4. merge.head \in DOMAIN commits /\ ref["main"] \in DOMAIN commits
      BY <1>1, <3>1, <3>2, <3>3 DEF BranchTypes
    <3> QED BY <2>2, <3>1, <3>4 DEF Branch!ValidSnapshot
  <2>4. PICK condition : condition = Branch!IdentityValid(merge.pr) OBVIOUS
  <2> QED BY <1>4, <2>1, <2>2, <2>3
<1>6. CASE Branch!SourceCI
  <2>1. merge.step = "ci" /\ Branch!Check(Branch!SourceValidation(merge.pr), "review")
    BY <1>6 DEF Branch!SourceCI
  <2>2. merge.pr.head = merge.head /\ merge.pr.base = merge.base /\ Snapshotted(merge)
    BY <1>1, <2>1 DEF MergeOK, Compared
  <2>3. Branch!SourceValidation(merge.pr) => Tested(merge)
    <3> SUFFICES ASSUME Branch!SourceValidation(merge.pr) PROVE Tested(merge) OBVIOUS
    <3>1. PICK n \in DOMAIN ci :
            ci[n].head = merge.pr.head /\ ci[n].conclusion = "success" /\ Branch!ValidReceipt(ci[n], merge.pr)
      BY DEF Branch!SourceValidation
    <3>2. ci[n].base = merge.pr.base /\ ci[n].tested = ci[n].base
      BY <1>1, <3>1 DEF Branch!ValidReceipt, BranchTypes
    <3> QED BY <2>2, <3>1, <3>2 DEF Tested
  <2> QED BY <1>4, <2>1, <2>2, <2>3
<1>7. CASE Branch!FinalGate
  <2>1. CASE Branch!Ends("blocked") BY <1>2, <2>1, EndsOK
  <2>2. CASE \/ merge.step = "review" /\ Branch!Check(review, "checks")
             \/ merge.step = "checks" /\ Branch!Check(review, "live")
    <3>1. Tested(merge) /\ Snapshotted(merge) BY <1>1, <2>2 DEF MergeOK, Evidenced
    <3> QED BY <1>4, <2>2, <3>1
  <2> QED BY <1>7, <2>1, <2>2 DEF Branch!FinalGate
<1>8. CASE Branch!Snapshot
  <2>1. merge.step = "snapshot" /\ Branch!Check(Branch!ValidSnapshot(merge.pr), "put")
    BY <1>8 DEF Branch!Snapshot
  <2>2. Tested(merge) /\ Snapshotted(merge) BY <1>1, <2>1 DEF MergeOK, Evidenced
  <2> QED BY <1>4, <2>1, <2>2
<1> QED BY <1>5, <1>6, <1>7, <1>8

(* GitHub's merge: a new commit on the base, and a pull request that stays *)
(* merged.                                                                 *)
LEMMA MergedOK ==
  ASSUME BranchInv, NEW head \in Nat, Branch!Mergeable, Branch!Merged(head), UNCHANGED <<ci, review>>
  PROVE  BranchTypes' /\ RepositoryGrows /\ pr'.human = pr.human
<1>1. BranchTypes BY DEF BranchInv
<1>2. PICK c : c = Branch!Commit(<<ref[Branch!BaseRef], head>>, Branch!New) OBVIOUS
<1>3. PICK b \in Branches : b = Branch!BaseRef BY DEF Branch!BaseRef, Branches
<1>4. commits' = Append(commits, c) /\ ref' = [ref EXCEPT ![b] = Branch!New] BY <1>2, <1>3 DEF Branch!Merged
<1>5. /\ \E S : commits' \in Seq(S)
      /\ Len(commits') = Len(commits) + 1 /\ Len(commits) \in Nat /\ DOMAIN commits' = 1..Len(commits')
      /\ \A k \in DOMAIN commits : k \in DOMAIN commits' /\ commits'[k] = commits[k]
      /\ ref' \in [Branches -> 1..Len(commits')]
  BY <1>1, <1>3, <1>4, CommitsGrow
<1>6. Branch!New \in Nat /\ Branch!New \in DOMAIN commits' BY <1>5 DEF Branch!New
<1>7. PICK n \in Nat : n = Branch!New BY <1>6
<1>8. pr' = [pr EXCEPT !.state = "closed", !.merge = n, !.headAt = head] BY <1>7 DEF Branch!Merged
<1>9. pr' \in PullType /\ pr'.state = "closed" /\ pr'.merge = n /\ pr'.kind = pr.kind /\ pr'.human = pr.human
  BY <1>1, <1>8 DEF BranchTypes, PullType
<1>10. pr.merge = 0 BY <1>1 DEF BranchTypes, Branch!Mergeable
<1>11. BranchTypes' BY <1>1, <1>5, <1>6, <1>7, <1>9 DEF BranchTypes
<1>12. RepositoryGrows BY <1>5, <1>9, <1>10 DEF RepositoryGrows
<1> QED BY <1>9, <1>11, <1>12

LEMMA PutOK == ASSUME BranchInv, Branch!Put PROVE BranchInv'
<1>1. PICK m : m = merge OBVIOUS
<1>2. MergeOK(m) /\ BranchTypes /\ m.step = "put" BY <1>1 DEF BranchInv, Branch!Put
<1>3. m.status # "merged" /\ Tested(m) /\ Snapshotted(m) BY <1>2 DEF MergeOK, Evidenced
<1>4. CASE Branch!Ends("blocked") /\ Branch!NoWrite BY <1>4, EndsOK
<1>5. ASSUME NEW declined, merge' = [merge EXCEPT !.step = "after", !.declined = declined]
      PROVE  \E r : merge' = r /\ MergeOK(r)
  <2> DEFINE r == [m EXCEPT !.step = "after", !.declined = declined]
  <2>1. DOMAIN r = MergeFields /\ r.step = "after" /\ r.status = m.status /\ r.head = m.head /\ r.base = m.base
    BY <1>2 DEF MergeOK, MergeFields
  <2>2. merge' = r BY <1>1, <1>5
  <2> HIDE DEF r
  <2>3. Tested(r) /\ Snapshotted(r) BY <1>3, <2>1 DEF Tested, Snapshotted
  <2>4. MergeOK(r) BY <1>3, <2>1, <2>3 DEF MergeOK, Compared
  <2> QED BY <2>2, <2>4
<1>6. CASE /\ Branch!Mergeable /\ ref[Branch!HeadRef] = merge.head /\ Branch!Merged(merge.head)
           /\ merge' = [merge EXCEPT !.step = "after"] /\ UNCHANGED <<ci, review, clock, report, events>>
  <2> DEFINE r == [m EXCEPT !.step = "after"]
  <2>1. DOMAIN r = MergeFields /\ r.step = "after" /\ r.status = m.status /\ r.head = m.head /\ r.base = m.base
    BY <1>2 DEF MergeOK, MergeFields
  <2>2. merge' = r BY <1>1, <1>6
  <2>3. PICK q : q = r OBVIOUS
  <2> HIDE DEF r
  <2>4. Tested(r) /\ Snapshotted(r) BY <1>3, <2>1 DEF Tested, Snapshotted
  <2>5. MergeOK(r) BY <1>3, <2>1, <2>4 DEF MergeOK, Compared
  <2>6. PICK head \in Nat : head = merge.head
    <3>1. Branch!HeadRef \in Branches BY DEF Branch!HeadRef, Branches
    <3>2. PICK S : commits \in Seq(S) BY <1>2 DEF BranchTypes
    <3>3. ref[Branch!HeadRef] \in 1..Len(commits) /\ Len(commits) \in Nat
      BY <1>2, <3>1, <3>2 DEF BranchTypes
    <3> QED BY <1>6, <3>3
  <2>7. BranchTypes' /\ RepositoryGrows /\ pr'.human = pr.human BY <1>6, <2>6, MergedOK
  <2>8. MergeOK(q)' BY <1>2, <2>3, <2>5, <2>7, MergeStays
  <2>9. MergeOK(merge)' BY <2>2, <2>3, <2>8
  <2>10. ReportOK(report)' BY <1>6, <2>7 DEF BranchInv, ReportOK
  <2> QED BY <2>7, <2>9, <2>10 DEF BranchInv
<1>7. CASE /\ \E declined \in {FALSE, ~(Branch!Mergeable /\ ref[Branch!HeadRef] = merge.head)} :
                merge' = [merge EXCEPT !.step = "after", !.declined = declined]
           /\ UNCHANGED <<commits, ref, pr>> /\ UNCHANGED <<ci, review, clock, report, events>>
  <2>1. PICK r : merge' = r /\ MergeOK(r) BY <1>5, <1>7
  <2> QED BY <1>7, <2>1, MergeOnly DEF Branch!NoWrite
<1> QED BY <1>4, <1>6, <1>7 DEF Branch!Put

LEMMA ReadAfterOK == ASSUME BranchInv, Branch!ReadAfter PROVE BranchInv'
<1>1. PICK m : m = merge OBVIOUS
<1>2. MergeOK(m) /\ BranchTypes /\ m.step = "after" /\ Branch!NoWrite
  BY <1>1 DEF BranchInv, Branch!ReadAfter
<1>3. m.status # "merged" /\ Tested(m) /\ Snapshotted(m) BY <1>2 DEF MergeOK, Evidenced
<1>4. CASE Branch!Ends("blocked") \/ Branch!Ends("unknown") BY <1>2, <1>4, EndsOK
<1>5. CASE Branch!Payload.merged /\ merge' = [merge EXCEPT !.step = "verify", !.pr = Branch!Payload]
  <2>1. PICK p : p = Branch!Payload OBVIOUS
  <2>2. pr.merge # 0 /\ p.commit = pr.merge BY <1>5, <2>1 DEF Branch!Payload
  <2> DEFINE r == [m EXCEPT !.step = "verify", !.pr = p]
  <2>3. /\ DOMAIN r = MergeFields /\ r.step = "verify" /\ r.status = m.status /\ r.head = m.head /\ r.base = m.base
        /\ r.pr = p
    BY <1>2 DEF MergeOK, MergeFields
  <2>4. merge' = r BY <1>1, <1>5, <2>1
  <2> HIDE DEF r
  <2>5. Tested(r) /\ Snapshotted(r) BY <1>3, <2>3 DEF Tested, Snapshotted
  <2>6. MergeOK(r) BY <1>3, <2>2, <2>3, <2>5 DEF MergeOK, Compared, Evidenced
  <2> QED BY <1>2, <2>4, <2>6, MergeOnly
<1> QED BY <1>4, <1>5 DEF Branch!ReadAfter

(* Merged is reported of the approved parents only. *)
LEMMA VerifyOK == ASSUME BranchInv, Branch!Verify PROVE BranchInv'
<1>1. PICK m : m = merge OBVIOUS
<1>2. MergeOK(m) /\ BranchTypes /\ m.step = "verify" /\ Branch!NoWrite BY <1>1 DEF BranchInv, Branch!Verify
<1>3. pr.merge # 0 /\ m.pr.commit = pr.merge /\ (~m.already => Tested(m) /\ Snapshotted(m))
  BY <1>2 DEF MergeOK
<1>4. CASE Branch!Ends("blocked") \/ Branch!Ends("unknown") BY <1>2, <1>4, EndsOK
<1>5. CASE Branch!Approved(merge.pr) /\ Branch!Ends("merged")
  <2> DEFINE r == [m EXCEPT !.step = "done", !.status = "merged"]
  <2>1. /\ DOMAIN r = MergeFields /\ r.step = "done" /\ r.status = "merged" /\ r.head = m.head /\ r.base = m.base
        /\ r.already = m.already
    BY <1>2 DEF MergeOK, MergeFields
  <2>2. merge' = r BY <1>1, <1>5 DEF Branch!Ends
  <2> HIDE DEF r
  <2>3. ~r.already => Tested(r) /\ Snapshotted(r) BY <1>3, <2>1 DEF Tested, Snapshotted
  <2>4. commits[pr.merge].parents = <<r.base, r.head>> BY <1>1, <1>3, <1>5, <2>1 DEF Branch!Approved
  <2>5. MergeOK(r) BY <1>3, <2>1, <2>3, <2>4 DEF MergeOK, Compared, Evidenced
  <2> QED BY <1>2, <2>2, <2>5, MergeOnly
<1> QED BY <1>4, <1>5 DEF Branch!Verify

-----------------------------------------------------------------------------
(* readiness *)

(* Steps that leave the merge command alone. *)
LEMMA MergeKeeps ==
  ASSUME BranchInv, RepositoryGrows, UNCHANGED merge
  PROVE  MergeOK(merge)'
<1>1. PICK m : m = merge OBVIOUS
<1>2. MergeOK(m)' BY <1>1, MergeStays DEF BranchInv
<1> QED BY <1>1, <1>2

LEMMA ReportKeeps ==
  ASSUME BranchInv, UNCHANGED report, pr'.human >= pr.human, pr'.human \in Nat
  PROVE  ReportOK(report)'
<1>1. pr.human \in Nat BY DEF BranchInv, BranchTypes, PullType
<1>2. report.seen \in Nat BY DEF BranchInv, ReportOK
<1> QED BY <1>1, <1>2 DEF BranchInv, ReportOK

LEMMA ReportOnlyOK ==
  ASSUME BranchInv, Branch!ReportOnly, NEW r, report' = r, ReportOK(r)
  PROVE  BranchInv'
<1>1. UNCHANGED <<commits, ref, pr, ci, review, merge>> BY DEF Branch!ReportOnly
<1>2. BranchTypes' BY <1>1 DEF BranchInv, BranchTypes
<1>3. RepositoryGrows BY <1>1 DEF RepositoryGrows
<1>4. MergeOK(merge)' BY <1>1, <1>3, MergeKeeps
<1>5. ReportOK(report)' BY <1>1 DEF ReportOK
<1> QED BY <1>2, <1>4, <1>5 DEF BranchInv

LEMMA NoReportOK == ReportOK(Branch!NoReport) /\ Branch!NoReport.step = "idle"
BY DEF ReportOK, Branch!NoReport, ReportFields

LEMMA ReadinessOK ==
  ASSUME BranchInv, Branch!StartReport \/ Branch!Collect \/ Branch!ReadBody \/ Branch!PatchBody
  PROVE  BranchInv'
<1>1. PICK q : q = report OBVIOUS
<1>2. ReportOK(q) /\ BranchTypes /\ pr \in PullType BY <1>1 DEF BranchInv, BranchTypes
<1>3. pr.human \in Nat BY <1>2 DEF PullType
<1>4. CASE Branch!StartReport
  <2>1. PICK p : p = Branch!Payload OBVIOUS
  <2> DEFINE r == [Branch!NoReport EXCEPT !.step = "collect", !.pr = p]
  <2>2. DOMAIN r = ReportFields /\ r.step = "collect" /\ r.status = "none" /\ r.body = 0 /\ r.seen = 0
    BY DEF Branch!NoReport, ReportFields
  <2>3. report' = r BY <1>4, <2>1 DEF Branch!StartReport
  <2> HIDE DEF r
  <2>4. ReportOK(r) BY <2>2 DEF ReportOK
  <2> QED BY <1>4, <2>3, <2>4, ReportOnlyOK DEF Branch!StartReport
<1>5. CASE Branch!Collect
  <2>1. PICK status \in {"merged", "ready", "blocked"} :
          status = IF report.pr.merged THEN "merged"
                   ELSE IF Branch!IdentityValid(report.pr) /\ Branch!SourceValidation(report.pr) /\ review THEN "ready" ELSE "blocked"
    OBVIOUS
  <2>2. PICK human \in Nat : human = pr.human BY <1>3
  <2> DEFINE r == [q EXCEPT !.step = "body", !.seen = human, !.status = status]
  <2>3. DOMAIN r = ReportFields /\ r.step = "body" /\ r.status = status /\ r.body = q.body /\ r.seen = human
    BY <1>2 DEF ReportOK, ReportFields
  <2>4. report' = r BY <1>1, <1>5, <2>1, <2>2 DEF Branch!Collect
  <2> HIDE DEF r
  <2>5. ReportOK(r) BY <1>2, <2>2, <2>3 DEF ReportOK
  <2> QED BY <1>5, <2>4, <2>5, ReportOnlyOK DEF Branch!Collect
<1>6. CASE Branch!ReadBody
  <2>1. CASE report' = Branch!NoReport BY <1>6, <2>1, NoReportOK, ReportOnlyOK DEF Branch!ReadBody
  <2>2. CASE report' = [report EXCEPT !.step = "patch", !.body = Branch!BodyToEdit(Branch!Payload)]
    <3>1. Branch!BodyToEdit(Branch!Payload) = pr.human BY DEF Branch!BodyToEdit, Branch!Payload
    <3>2. PICK human \in Nat : human = pr.human BY <1>3
    <3> DEFINE r == [q EXCEPT !.step = "patch", !.body = human]
    <3>3. DOMAIN r = ReportFields /\ r.step = "patch" /\ r.status = q.status /\ r.body = human /\ r.seen = q.seen
      BY <1>2 DEF ReportOK, ReportFields
    <3>4. report' = r BY <1>1, <2>2, <3>1, <3>2
    <3> HIDE DEF r
    <3>5. q.step = "body" BY <1>1, <1>6 DEF Branch!ReadBody
    <3>6. ReportOK(r) BY <1>2, <3>2, <3>3, <3>5 DEF ReportOK
    <3> QED BY <1>6, <3>4, <3>6, ReportOnlyOK DEF Branch!ReadBody
  <2> QED BY <1>6, <2>1, <2>2 DEF Branch!ReadBody
<1>7. CASE Branch!PatchBody
  <2>1. pr' = [pr EXCEPT !.human = report.body, !.block = report.status] /\ report' = Branch!NoReport
        /\ UNCHANGED <<commits, ref, ci, review, merge>>
    BY <1>7 DEF Branch!PatchBody
  <2>2. q.body \in Nat /\ q.status \in {"none", "merged", "ready", "blocked"} BY <1>2 DEF ReportOK
  <2>3. pr' \in PullType /\ pr'.merge = pr.merge /\ pr'.state = pr.state /\ pr'.kind = pr.kind
    BY <1>1, <1>2, <2>1, <2>2 DEF PullType
  <2>4. BranchTypes' BY <1>2, <2>1, <2>3 DEF BranchTypes
  <2>5. RepositoryGrows BY <2>1, <2>3 DEF RepositoryGrows
  <2>6. MergeOK(merge)' BY <2>1, <2>5, MergeKeeps
  <2>7. ReportOK(report)'
    <3>1. PICK r : r = Branch!NoReport OBVIOUS
    <3>2. ReportOK(r)' BY <3>1, NoReportOK DEF ReportOK
    <3> QED BY <2>1, <3>1, <3>2
  <2> QED BY <2>4, <2>6, <2>7 DEF BranchInv
<1> QED BY <1>4, <1>5, <1>6, <1>7

-----------------------------------------------------------------------------
(* People, CI and GitHub *)

LEMMA PushOK == ASSUME BranchInv, NEW b \in Branches, Branch!Push(b) PROVE BranchInv'
<1>1. BranchTypes BY DEF BranchInv
<1>2. UNCHANGED <<pr, ci, review, merge, report>> /\ ref' = [ref EXCEPT ![b] = Branch!New]
  BY DEF Branch!Push, Branch!NoCommand
<1>3. PICK parent : commits' = Append(commits, Branch!Commit(<<parent>>, Branch!New)) BY DEF Branch!Push
<1>4. PICK c : c = Branch!Commit(<<parent>>, Branch!New) OBVIOUS
<1>5. /\ \E S : commits' \in Seq(S)
      /\ DOMAIN commits' = 1..Len(commits')
      /\ \A k \in DOMAIN commits : k \in DOMAIN commits' /\ commits'[k] = commits[k]
      /\ ref' \in [Branches -> 1..Len(commits')]
  BY <1>1, <1>2, <1>3, <1>4, CommitsGrow
<1>6. BranchTypes' BY <1>1, <1>2, <1>5 DEF BranchTypes
<1>7. RepositoryGrows BY <1>2, <1>5 DEF RepositoryGrows
<1>8. MergeOK(merge)' BY <1>2, <1>7, MergeKeeps
<1>9. pr.human \in Nat BY <1>1 DEF BranchTypes, PullType
<1>10. ReportOK(report)' BY <1>2, <1>9, ReportKeeps
<1> QED BY <1>6, <1>8, <1>10 DEF BranchInv

(* A pull request that is shown, edited, closed or reopened. *)
LEMMA PullChanges ==
  ASSUME BranchInv, UNCHANGED <<commits, ref, ci, merge, report>>, review' \in BOOLEAN, pr' \in PullType,
         pr'.kind = pr.kind, pr'.merge = pr.merge, pr'.human >= pr.human, pr.merge # 0 => pr'.state = pr.state
  PROVE  BranchInv'
<1>1. BranchTypes' BY DEF BranchInv, BranchTypes
<1>2. RepositoryGrows BY DEF RepositoryGrows
<1>3. pr'.human \in Nat BY DEF PullType
<1> QED BY <1>1, <1>2, <1>3, MergeKeeps, ReportKeeps DEF BranchInv

LEMMA PullRequestOK == ASSUME BranchInv, Branch!ShowBase \/ Branch!Change \/ Branch!MergeByHand
  PROVE BranchInv'
<1>1. BranchTypes /\ pr \in PullType /\ review \in BOOLEAN BY DEF BranchInv, BranchTypes
<1>2. PICK S : commits \in Seq(S) BY <1>1 DEF BranchTypes
<1>3. \A b \in Branches : ref[b] \in Nat BY <1>1, <1>2 DEF BranchTypes
<1>4. Branch!BaseRef \in Branches /\ Branch!HeadRef \in Branches
  BY DEF Branch!BaseRef, Branch!HeadRef, Branches
<1>5. pr.human \in Nat BY <1>1 DEF PullType
<1>6. CASE Branch!ShowBase
  <2>1. PICK base \in Nat : base = ref[Branch!BaseRef] BY <1>3, <1>4
  <2>2. pr' = [pr EXCEPT !.base = base] /\ UNCHANGED <<commits, ref, ci, review, merge, report>>
    BY <1>6, <2>1 DEF Branch!ShowBase, Branch!NoCommand
  <2>3. pr' \in PullType /\ pr'.kind = pr.kind /\ pr'.merge = pr.merge /\ pr'.human = pr.human /\ pr'.state = pr.state
    BY <1>1, <2>2 DEF PullType
  <2> QED BY <1>1, <1>5, <2>2, <2>3, PullChanges
<1>7. CASE Branch!Change
  <2>1. UNCHANGED <<commits, ref, ci, merge, report>> BY <1>7 DEF Branch!Change, Branch!NoCommand
  <2>2. CASE pr.merge = 0 /\ pr' = [pr EXCEPT !.state = IF @ = "open" THEN "closed" ELSE "open"] /\ UNCHANGED review
    <3>1. PICK state \in {"open", "closed"} : state = IF pr.state = "open" THEN "closed" ELSE "open" OBVIOUS
    <3>2. pr' = [pr EXCEPT !.state = state] BY <1>1, <2>2, <3>1 DEF PullType
    <3>3. pr' \in PullType /\ pr'.kind = pr.kind /\ pr'.merge = pr.merge /\ pr'.human = pr.human
      BY <1>1, <3>2 DEF PullType
    <3> QED BY <1>1, <1>5, <2>1, <2>2, <3>3, PullChanges
  <2>3. CASE pr' = [pr EXCEPT !.draft = ~@] /\ UNCHANGED review
    <3>1. ASSUME NEW p \in PullType, NEW d \in BOOLEAN
          PROVE  /\ [p EXCEPT !.draft = d] \in PullType /\ [p EXCEPT !.draft = d].kind = p.kind
                 /\ [p EXCEPT !.draft = d].merge = p.merge /\ [p EXCEPT !.draft = d].human = p.human
                 /\ [p EXCEPT !.draft = d].state = p.state
      BY DEF PullType
    <3>2. pr' = [pr EXCEPT !.draft = ~pr.draft] BY <2>3, Zenon
    <3>3. (~pr.draft) \in BOOLEAN OBVIOUS
    <3>4. pr' \in PullType /\ pr'.kind = pr.kind /\ pr'.merge = pr.merge /\ pr'.human = pr.human /\ pr'.state = pr.state
      BY <1>1, <3>1, <3>2, <3>3, Zenon
    <3> QED BY <1>1, <1>5, <2>1, <2>3, <3>4, PullChanges
  <2>4. CASE pr' = [pr EXCEPT !.human = @ + 1] /\ UNCHANGED review
    <3>1. pr' \in PullType /\ pr'.kind = pr.kind /\ pr'.merge = pr.merge /\ pr'.human = pr.human + 1 /\ pr'.state = pr.state
      BY <1>1, <1>5, <2>4 DEF PullType
    <3> QED BY <1>1, <1>5, <2>1, <2>4, <3>1, PullChanges
  <2>5. CASE review' = ~review /\ UNCHANGED pr BY <1>1, <1>5, <2>1, <2>5, PullChanges
  <2> QED BY <1>7, <2>2, <2>3, <2>4, <2>5 DEF Branch!Change
<1>8. CASE Branch!MergeByHand
  <2>1. PICK head \in Nat : head = ref[Branch!HeadRef] BY <1>3, <1>4
  <2>2. Branch!Mergeable /\ Branch!Merged(head) /\ UNCHANGED <<ci, review, merge, report>>
    BY <1>8, <2>1 DEF Branch!MergeByHand, Branch!NoCommand
  <2>3. BranchTypes' /\ RepositoryGrows /\ pr'.human = pr.human BY <2>2, MergedOK
  <2>4. MergeOK(merge)' BY <2>2, <2>3, MergeKeeps
  <2>5. ReportOK(report)' BY <1>5, <2>2, <2>3, ReportKeeps
  <2> QED BY <2>3, <2>4, <2>5 DEF BranchInv
<1> QED BY <1>6, <1>7, <1>8

(* A run that succeeded tested what its event named. *)
LEMMA CIOK == ASSUME BranchInv, Branch!StartCI \/ Branch!FinishCI PROVE BranchInv'
<1>1. BranchTypes /\ pr \in PullType /\ ci \in Seq(CIRun) BY DEF BranchInv, BranchTypes
<1>2. UNCHANGED <<commits, ref, pr, review, merge, report>>
  BY DEF Branch!StartCI, Branch!FinishCI, Branch!NoCommand
<1>3. ASSUME ci' \in Seq(CIRun),
             \A n \in DOMAIN ci' : ci'[n].conclusion = "success" => ci'[n].tested = ci'[n].base,
             \A n \in DOMAIN ci : ci[n].conclusion = "success" => n \in DOMAIN ci' /\ ci'[n] = ci[n]
      PROVE  BranchInv'
  <2>1. BranchTypes' BY <1>1, <1>2, <1>3 DEF BranchTypes
  <2>2. RepositoryGrows BY <1>2, <1>3 DEF RepositoryGrows
  <2>3. pr.human \in Nat BY <1>1 DEF PullType
  <2>4. MergeOK(merge)' BY <1>2, <2>2, MergeKeeps
  <2>5. ReportOK(report)' BY <1>2, <2>3, ReportKeeps
  <2> QED BY <2>1, <2>4, <2>5 DEF BranchInv
<1>4. CASE Branch!StartCI
  <2>1. Branch!BaseRef \in Branches /\ Branch!HeadRef \in Branches
    BY DEF Branch!BaseRef, Branch!HeadRef, Branches
  <2>2. PICK S : commits \in Seq(S) BY <1>1 DEF BranchTypes
  <2>3. ref[Branch!BaseRef] \in Nat /\ ref[Branch!HeadRef] \in Nat /\ pr.base \in Nat
    BY <1>1, <2>1, <2>2 DEF BranchTypes, PullType
  <2>4. PICK h \in Nat, base \in Nat, tested \in Nat : h = ref[Branch!HeadRef] /\ base = pr.base /\ tested = ref[Branch!BaseRef]
    BY <2>3
  <2> DEFINE r == [head |-> h, base |-> base, tested |-> tested, conclusion |-> "running"]
  <2>7. r \in CIRun /\ r.conclusion = "running" BY DEF CIRun
  <2>5. ci' = Append(ci, r) BY <1>4, <2>4 DEF Branch!StartCI
  <2> HIDE DEF r
  <2>6. /\ ci' \in Seq(CIRun) /\ Len(ci') = Len(ci) + 1 /\ ci'[Len(ci) + 1] = r
        /\ \A n \in DOMAIN ci : n \in DOMAIN ci' /\ ci'[n] = ci[n]
        /\ \A n \in DOMAIN ci' : n \in DOMAIN ci \/ n = Len(ci) + 1
    BY <1>1, <2>5, <2>7
  <2> QED BY <1>1, <1>3, <2>6, <2>7 DEF BranchTypes
<1>5. CASE Branch!FinishCI
  <2>1. PICK n \in DOMAIN ci :
          /\ ci[n].conclusion = "running"
          /\ \E conclusion \in {"failure"} \cup {c \in {"success"} : Branch!ValidContext(ci[n])} :
               ci' = [ci EXCEPT ![n].conclusion = conclusion]
    BY <1>5 DEF Branch!FinishCI
  <2>2. PICK conclusion \in {"failure", "success"} :
          /\ conclusion = "success" => Branch!ValidContext(ci[n])
          /\ ci' = [ci EXCEPT ![n].conclusion = conclusion]
    BY <2>1
  <2>3. PICK s \in CIRun : s = ci[n] BY <1>1
  <2> DEFINE r == [s EXCEPT !.conclusion = conclusion]
  <2>4. r \in CIRun /\ r.conclusion = conclusion /\ r.tested = s.tested /\ r.base = s.base BY DEF CIRun
  <2>5. ci' = [ci EXCEPT ![n] = r] BY <1>1, <2>2, <2>3
  <2> HIDE DEF r
  <2>6. ci' \in Seq(CIRun) /\ DOMAIN ci' = DOMAIN ci /\ \A k \in DOMAIN ci : ci'[k] = IF k = n THEN r ELSE ci[k]
    BY <1>1, <2>4, <2>5
  <2>7. conclusion = "success" => r.tested = r.base BY <2>2, <2>3, <2>4 DEF Branch!ValidContext
  <2> QED BY <1>1, <1>3, <2>1, <2>3, <2>4, <2>6, <2>7 DEF BranchTypes
<1> QED BY <1>4, <1>5

LEMMA ElapseOK == ASSUME BranchInv, Branch!Elapse PROVE BranchInv'
<1>1. UNCHANGED <<commits, ref, pr, ci, review, merge, report>> BY DEF Branch!Elapse
<1>2. pr \in PullType /\ review \in BOOLEAN BY DEF BranchInv, BranchTypes
<1>3. pr.human \in Nat BY <1>2 DEF PullType
<1> QED BY <1>1, <1>2, <1>3, PullChanges

LEMMA BranchInitOK == ASSUME Branch!Init PROVE BranchInv
<1>1. PICK kind \in {"release", "sync"} :
        pr = [kind |-> kind, state |-> "open", draft |-> FALSE, merge |-> 0, headAt |-> 0,
              base |-> IF kind = "release" THEN 1 ELSE 2, snapshotOf |-> 1, human |-> 0, block |-> "none"]
  BY DEF Branch!Init
<1>2. PICK base \in Nat : base = IF kind = "release" THEN 1 ELSE 2 OBVIOUS
<1>3. pr \in PullType /\ pr.merge = 0 /\ pr.human = 0 BY <1>1, <1>2 DEF PullType
<1>4. Len(commits) = 3 /\ \E S : commits \in Seq(S)
  <2>1. PICK a, b, c : commits = <<a, b, c>> BY DEF Branch!Init
  <2>2. commits \in Seq({a, b, c}) /\ Len(commits) = 3 BY <2>1
  <2> QED BY <2>2
<1>5. ref \in [Branches -> 1..Len(commits)] BY <1>4 DEF Branch!Init, Branches
<1>6. ci = <<>> /\ review = TRUE BY DEF Branch!Init
<1>7. BranchTypes BY <1>3, <1>4, <1>5, <1>6 DEF BranchTypes
<1>8. merge = Branch!NoMerge /\ report = Branch!NoReport BY DEF Branch!Init
<1>9. MergeOK(merge) BY <1>8 DEF Branch!NoMerge, MergeOK, MergeFields, Compared, Evidenced
<1> QED BY <1>7, <1>8, <1>9, NoReportOK DEF BranchInv

LEMMA BranchStepOK == ASSUME BranchInv, Branch!Next \/ UNCHANGED Branch!vars PROVE BranchInv'
<1>1. CASE UNCHANGED Branch!vars
  <2>1. UNCHANGED <<commits, ref, pr, ci, review, merge, report>> BY <1>1 DEF Branch!vars
  <2>2. pr \in PullType /\ review \in BOOLEAN BY DEF BranchInv, BranchTypes
  <2>3. pr.human \in Nat BY <2>2 DEF PullType
  <2> QED BY <2>1, <2>2, <2>3, PullChanges
<1>2. ASSUME NEW b \in {"main", "develop", "snapshot"}, Branch!Push(b) PROVE BranchInv'
  BY <1>2, PushOK DEF Branches
<1> QED
  BY <1>1, <1>2, DispatchMerge, ReadsOK, EvidenceOK, PutOK, ReadAfterOK, VerifyOK, ReadinessOK, PullRequestOK, CIOK, ElapseOK
     DEF Branch!Next

LEMMA BranchSafe == ASSUME BranchInv PROVE Branch!ReportedIsApproved
BY DEF BranchInv, MergeOK, Branch!ReportedIsApproved, Tested, Snapshotted

LEMMA BranchEdits == ASSUME BranchInv PROVE Branch!EditsKept
<1> SUFFICES ASSUME Branch!PatchBody PROVE pr'.human >= report.seen BY DEF Branch!EditsKept
<1>1. pr'.human = report.body BY DEF Branch!PatchBody, BranchInv, BranchTypes, PullType
<1> QED BY <1>1 DEF BranchInv, ReportOK, Branch!PatchBody

(* A guarded merge that is reported as merged has the approved base and    *)
(* head for parents, was tested by CI and, for a sync, brings the tree of a*)
(* main only, whoever pushes and merges meanwhile (verify_merged).         *)
THEOREM MergeIsApproved == Spec => []ReportedIsApproved
<1> DEFINE IInv == subject = "branch" => BranchInv
<1>1. Init => IInv BY BranchInitOK DEF Init
<1>2. IInv /\ [Next]_vars => IInv'
  <2> SUFFICES ASSUME BranchInv, subject = "branch", [Next]_vars PROVE BranchInv'
    BY DEF Next, vars
  <2>1. Branch!Next \/ UNCHANGED Branch!vars
    BY DEF Next, vars, OfBranch, OfPullRequests, Branch!vars
  <2> QED BY <2>1, BranchStepOK
<1>3. IInv => ReportedIsApproved BY BranchSafe DEF ReportedIsApproved
<1> QED BY <1>1, <1>2, <1>3, PTL DEF Spec

(* The summary is put into the body as it was after the collection: no     *)
(* edit that was made meanwhile is undone (replace_summary).               *)
THEOREM EditsSurvive == Spec => SummaryKeepsEdits
<1> DEFINE IInv == subject = "branch" => BranchInv
           Kept == subject = "branch" => Branch!EditsKept
<1>1. Init => IInv BY BranchInitOK DEF Init
<1>2. IInv /\ [Next]_vars => IInv'
  <2> SUFFICES ASSUME BranchInv, subject = "branch", [Next]_vars PROVE BranchInv'
    BY DEF Next, vars
  <2>1. Branch!Next \/ UNCHANGED Branch!vars
    BY DEF Next, vars, OfBranch, OfPullRequests, Branch!vars
  <2> QED BY <2>1, BranchStepOK
<1>3. IInv => Kept BY BranchEdits
<1>4. IInv /\ [Next]_vars => [Kept]_vars BY <1>3
<1>5. Spec => []IInv BY <1>1, <1>2, PTL DEF Spec
<1>6. [][Kept]_vars => SummaryKeepsEdits BY DEF SummaryKeepsEdits
<1> QED BY <1>4, <1>5, <1>6, PTL DEF Spec
=============================================================================
