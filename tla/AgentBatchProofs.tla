--------------------------- MODULE AgentBatchProofs ---------------------------
(***************************************************************************)
(* Safety of the batch commands, for any number of threads, agents,        *)
(* processes and leases: the exclusion of single claims holds inside and   *)
(* between batches, an ended lease is left alone by everything but the     *)
(* compensation of its own batch, one submit of a response file accepts    *)
(* every row or none, and racing batch claims stay within the limit of     *)
(* parallel claims.                                                        *)
(***************************************************************************)
EXTENDS AgentBatch, FiniteSetTheorems, TLAPS

-----------------------------------------------------------------------------
(* Types. *)

(* A lease, which a compensation may have removed from the table. *)
Row == [st : {"none", "active", "deleted"} \cup TerminalStatuses, item : Items,
        agent : Agents \cup {NoId}, role : AllRoles, exp : Nat, bind : Nat]

TypeInv ==
  /\ leases \in [LeaseIds -> Row]
  /\ items \in [Items -> Item]
  /\ files \subseteq LeaseIds
  /\ clock \in Nat /\ tree \in Nat
  /\ pc \in [Procs -> Steps]
  /\ job \in [Procs -> Job]
  /\ fresh \subseteq Procs

(* It says more than the type invariant. *)
LEMMA TypeInvIs == TypeInv => TypeOK
<1> SUFFICES ASSUME TypeInv PROVE TypeOK OBVIOUS
<1>1. ASSUME NEW l \in LeaseIds
      PROVE  \/ leases[l] \in Lease
             \/ leases[l].st = "deleted" /\ [leases[l] EXCEPT !.st = "active"] \in Lease
  <2>1. leases[l] \in Row BY DEF TypeInv
  <2>2. CASE leases[l].st = "deleted" BY <2>1, <2>2 DEF Row, Lease
  <2>3. CASE leases[l].st # "deleted" BY <2>1, <2>3 DEF Row, Lease
  <2> QED BY <2>2, <2>3
<1> QED BY <1>1 DEF TypeInv, TypeOK

(* FirstOrNone picks from the lease ids it is given. *)
LEMMA FirstIs ==
  ASSUME NEW S \in SUBSET LeaseIds
  PROVE  FirstOrNone(S) \in Ids /\ (S # {} => FirstOrNone(S) \in S)
BY DEF FirstOrNone, Ids

(* A commit of typed leases and items leaves the store typed. *)
LEMMA CommitType ==
  ASSUME NEW L \in [LeaseIds -> Row], NEW I \in [Items -> Item], Commit(L, I)
  PROVE  leases' \in [LeaseIds -> Row] /\ items' \in [Items -> Item] /\ fresh' \subseteq Procs
<1>1. ASSUME NEW i \in Items PROVE Project(I, L)[i] \in Item
  <2>1. CASE ActiveOn(L, i) = {} BY <2>1 DEF Project, Item, Ids, HandledStates
  <2>2. CASE ActiveOn(L, i) # {}
    <3>1. (CHOOSE l \in ActiveOn(L, i) : TRUE) \in LeaseIds BY <2>2 DEF ActiveOn
    <3> QED BY <2>2, <3>1 DEF Project, Item, Ids, HandledStates
  <2> QED BY <2>1, <2>2
<1>2. Project(I, L) \in [Items -> Item] BY <1>1 DEF Project
<1> QED BY <1>2 DEF Commit

(* Expiry, closing one lease or several, and re-entry. *)
LEMMA ExpireType ==
  ASSUME NEW L \in [LeaseIds -> Row], NEW now
  PROVE  ExpireLeases(L, now) \in [LeaseIds -> Row]
BY DEF ExpireLeases, Row, TerminalStatuses

(* Closing one lease. *)
LEMMA CloseType ==
  ASSUME NEW L \in [LeaseIds -> Row], NEW l, NEW status \in TerminalStatuses
  PROVE  Close(L, l, status) \in [LeaseIds -> Row]
BY DEF Close, Row, TerminalStatuses

(* Closing several. *)
Closed(L, S, status) ==
  [l \in LeaseIds |-> IF l \in S THEN [L[l] EXCEPT !.st = status] ELSE L[l]]

(* It keeps them typed. *)
LEMMA ClosedType ==
  ASSUME NEW L \in [LeaseIds -> Row], NEW S,
         NEW status \in {"active", "deleted"} \cup TerminalStatuses
  PROVE  Closed(L, S, status) \in [LeaseIds -> Row]
BY DEF Closed, Row, TerminalStatuses

(* Re-entry of the leases an agent holds. *)
LEMMA ReenteredType ==
  ASSUME NEW L \in [LeaseIds -> Row], NEW own, NEW bind \in Nat
  PROVE  Reentered(L, own, bind) \in [LeaseIds -> Row]
BY DEF Reentered, Row

(* Granting leases. *)
LEMMA GrantedType ==
  ASSUME NEW L \in [LeaseIds -> Row], NEW new \in SUBSET Items, NEW a \in Agents \cup {NoId},
         NEW now \in Nat, NEW bind \in Nat
  PROVE  Granted(L, new, a, now, bind) \in [LeaseIds -> Row]
<1> DEFINE id == CHOOSE f \in [new -> Unused] : \A i, j \in new : f[i] = f[j] => i = j
<1>1. ASSUME NEW i \in Items PROVE NewLease(i, a, "fixer", now, bind) \in Row
  BY BatchAssumption DEF NewLease, Row, AllRoles
<1>2. ASSUME NEW l \in LeaseIds
      PROVE  (IF \E i \in new : id[i] = l
              THEN NewLease(CHOOSE i \in new : id[i] = l, a, "fixer", now, bind) ELSE L[l]) \in Row
  <2> HIDE DEF id
  <2>1. CASE \E i \in new : id[i] = l
    <3>1. (CHOOSE i \in new : id[i] = l) \in Items BY <2>1
    <3> QED BY <1>1, <2>1, <3>1
  <2> QED BY <2>1
<1> QED BY <1>2 DEF Granted

(* Classifying items. *)
LEMMA ClassifiedType ==
  ASSUME NEW I \in [Items -> Item]
  PROVE  /\ \A S : Classified(I, S) \in [Items -> Item]
         /\ \A i : [I EXCEPT ![i].decision = "fix"] \in [Items -> Item]
         /\ \A i : [I EXCEPT ![i].decision = "other"] \in [Items -> Item]
BY DEF Classified, Item

(* Answering items, or giving them back. *)
Marked(I, S, state) ==
  [i \in Items |-> IF i \in S THEN [I[i] EXCEPT !.state = state, !.owner = NoId] ELSE I[i]]

(* They stay typed. *)
LEMMA MarkedType ==
  ASSUME NEW I \in [Items -> Item], NEW S, NEW state \in {"open", "publish_ready"}
  PROVE  Marked(I, S, state) \in [Items -> Item]
BY DEF Marked, Item, HandledStates, Ids

(* The local variables of an idle process. *)
LEMMA IdleJobType == IdleJob \in Job
BY DEF IdleJob, Job

(* Updates of local variables. *)
LEMMA JobTypes ==
  ASSUME NEW j \in Job
  PROVE  /\ \A S \in SUBSET LeaseIds : [j EXCEPT !.plan = S] \in Job
         /\ \A S \in SUBSET LeaseIds : [j EXCEPT !.rows = S] \in Job
         /\ \A S \in SUBSET LeaseIds : [j EXCEPT !.created = S] \in Job
         /\ \A S \in SUBSET LeaseIds : [j EXCEPT !.targets = S] \in Job
         /\ \A S \in SUBSET Items : [j EXCEPT !.todo = S] \in Job
         /\ \A n \in Nat : [j EXCEPT !.now = n] \in Job
         /\ \A v \in {"none", "accept", "drop", "reject"} : [j EXCEPT !.verdict = v] \in Job
         /\ \A a \in Agents \cup {NoId}, n \in Nat, m \in Nat :
              [j EXCEPT !.agent = a, !.now = n, !.bind = m] \in Job
         /\ \A a \in Agents \cup {NoId}, n \in Nat, S \in SUBSET LeaseIds :
              [j EXCEPT !.agent = a, !.now = n, !.rows = S] \in Job
         /\ \A S, T \in SUBSET LeaseIds : [j EXCEPT !.created = S, !.plan = T] \in Job
BY DEF Job

(* A process that moves on keeps its type. *)
LEMMA GotoType ==
  ASSUME TypeInv, NEW p \in Procs, NEW step \in Steps, NEW j \in Job, Goto(p, step, j)
  PROVE  pc' \in [Procs -> Steps] /\ job' \in [Procs -> Job]
BY DEF TypeInv, Goto

(* So does one that is done, or fails. *)
LEMMA DoneType ==
  ASSUME TypeInv, NEW p \in Procs, Done(p) \/ Fail(p)
  PROVE  pc' \in [Procs -> Steps] /\ job' \in [Procs -> Job]
<1>1. CASE Done(p) BY <1>1, GotoType, IdleJobType DEF Done, Steps
<1>2. CASE Goto(p, "rollback", [job[p] EXCEPT !.targets = {}, !.verdict = "none"])
  <2>1. job[p] \in Job BY DEF TypeInv
  <2>2. [job[p] EXCEPT !.targets = {}, !.verdict = "none"] \in Job BY <2>1 DEF Job
  <2> QED BY <1>2, <2>2, GotoType DEF Steps
<1> QED BY <1>1, <1>2 DEF Fail

(* The steps of the batch commands. *)
LEMMA BatchStepType ==
  ASSUME TypeInv, NEW p \in Procs, BatchStep(p)
  PROVE  TypeInv'
<1> leases \in [LeaseIds -> Row] /\ items \in [Items -> Item] BY DEF TypeInv
<1> job[p] \in Job BY DEF TypeInv
<1>a. /\ job[p].created \in SUBSET LeaseIds /\ job[p].plan \in SUBSET LeaseIds
      /\ job[p].rows \in SUBSET LeaseIds /\ job[p].targets \in SUBSET LeaseIds
      /\ job[p].before \in SUBSET LeaseIds /\ job[p].todo \in SUBSET Items
      /\ job[p].agent \in Agents \cup {NoId} /\ job[p].now \in Nat /\ job[p].bind \in Nat
      /\ tree \in Nat /\ clock \in Nat /\ files \subseteq LeaseIds /\ fresh \subseteq Procs
  BY DEF Job, TypeInv
<1> DEFINE Moved == pc' \in [Procs -> Steps] /\ job' \in [Procs -> Job]
           Stored == /\ leases' \in [LeaseIds -> Row] /\ items' \in [Items -> Item]
                     /\ fresh' \subseteq Procs
<1>b. ASSUME Moved, Stored, files' \subseteq LeaseIds, UNCHANGED world PROVE TypeInv'
  BY <1>a, <1>b DEF TypeInv, world
<1>c. ASSUME UNCHANGED <<leases, items, fresh>> PROVE Stored BY <1>a, <1>c
<1>1. CASE CommitBatch(p)
  <2> DEFINE j == job[p]
             L == ExpireLeases(leases, j.now)
             I == Project(items, L)
             own == {l \in FixerLeases(L, j.agent) : L[l].item \in Thread}
  <2>1. UNCHANGED files /\ UNCHANGED world BY <1>1 DEF CommitBatch
  <2>2. CASE Done(p) /\ UNCHANGED <<leases, items, fresh>>
    BY <1>a, <1>b, <1>c, <2>1, <2>2, DoneType
  <2>3. CASE \E new \in SUBSET BatchTargets(I) :
               LET G == Granted(Reentered(L, own, j.bind), new, j.agent, j.now, j.bind)
                   created == {l \in Unused : G[l].st = "active"}
               IN  /\ Commit(G, Classified(I, new \cup {L[l].item : l \in own}))
                   /\ Goto(p, "write", [IdleJob EXCEPT !.created = created,
                                                       !.plan = created \cup (own \ files)])
    <3>1. PICK new \in SUBSET BatchTargets(I) :
               LET G == Granted(Reentered(L, own, j.bind), new, j.agent, j.now, j.bind)
                   created == {l \in Unused : G[l].st = "active"}
               IN  /\ Commit(G, Classified(I, new \cup {L[l].item : l \in own}))
                   /\ Goto(p, "write", [IdleJob EXCEPT !.created = created,
                                                       !.plan = created \cup (own \ files)])
      BY <2>3
    <3> DEFINE G == Granted(Reentered(L, own, j.bind), new, j.agent, j.now, j.bind)
               created == {l \in Unused : G[l].st = "active"}
               K == [IdleJob EXCEPT !.created = created, !.plan = created \cup (own \ files)]
               C == Classified(I, new \cup {L[l].item : l \in own})
    <3>2. L \in [LeaseIds -> Row] BY ExpireType
    <3>3. I \in [Items -> Item]
      <4>1. ASSUME NEW i \in Items PROVE I[i] \in Item
        <5>1. CASE ActiveOn(L, i) = {} BY <5>1 DEF Project, Item, Ids, HandledStates
        <5>2. CASE ActiveOn(L, i) # {}
          <6>1. (CHOOSE l \in ActiveOn(L, i) : TRUE) \in LeaseIds BY <5>2 DEF ActiveOn
          <6> QED BY <5>2, <6>1 DEF Project, Item, Ids, HandledStates
        <5> QED BY <5>1, <5>2
      <4> QED BY <4>1 DEF Project
    <3>4. new \in SUBSET Items BY ItemsAssumption DEF BatchTargets
    <3>5. Reentered(L, own, j.bind) \in [LeaseIds -> Row] BY <1>a, <3>2, ReenteredType
    <3>6. G \in [LeaseIds -> Row] BY <1>a, <3>4, <3>5, GrantedType
    <3>7. C \in [Items -> Item] BY <3>3, ClassifiedType
    <3>8. created \in SUBSET LeaseIds /\ created \cup (own \ files) \in SUBSET LeaseIds
      BY DEF Unused, FixerLeases
    <3>9. K \in Job BY <3>8, IdleJobType, JobTypes
    <3>10. Commit(G, C) /\ Goto(p, "write", K) BY <3>1
    <3> HIDE DEF G, C, K
    <3>11. Stored BY <3>6, <3>7, <3>10, CommitType
    <3>12. Moved BY <3>9, <3>10, GotoType DEF Steps
    <3> QED BY <1>a, <1>b, <2>1, <3>11, <3>12
  <2> QED BY <1>1, <2>2, <2>3 DEF CommitBatch
<1>2. CASE WriteRequest(p)
  <2>1. UNCHANGED <<leases, items, fresh>> /\ UNCHANGED world BY <1>2 DEF WriteRequest
  <2>2. CASE Done(p) /\ UNCHANGED files BY <1>a, <1>b, <1>c, <2>1, <2>2, DoneType
  <2>3. CASE \E l \in job[p].plan :
               /\ files' = files \cup {l}
               /\ Goto(p, "write", [job[p] EXCEPT !.plan = @ \ {l}])
    <3>1. PICK l \in job[p].plan : /\ files' = files \cup {l}
                                   /\ Goto(p, "write", [job[p] EXCEPT !.plan = job[p].plan \ {l}])
      BY <2>3
    <3>2. [job[p] EXCEPT !.plan = job[p].plan \ {l}] \in Job BY <1>a, JobTypes
    <3>3. Moved BY <3>1, <3>2, GotoType DEF Steps
    <3> QED BY <1>a, <1>b, <1>c, <2>1, <3>1, <3>3
  <2> QED BY <1>2, <2>2, <2>3 DEF WriteRequest
<1>3. CASE WriteFails(p)
  <2>1. [job[p] EXCEPT !.plan = {}] \in Job BY JobTypes
  <2>2. Moved BY <1>3, <2>1, GotoType DEF WriteFails, Steps
  <2> QED BY <1>3, <1>a, <1>b, <1>c, <2>2 DEF WriteFails
<1>4. CASE Compensate(p)
  <2> DEFINE undone == {l \in job[p].created : Known(l)}
             S == {i \in Items : \E l \in undone : leases[l].item = i}
             L == Closed(leases, undone, "deleted")
             I == Marked(items, S, "open")
  <2>1. Commit(L, I) /\ Goto(p, "unlink", job[p]) /\ UNCHANGED <<files, world>>
    BY <1>4 DEF Compensate, Closed, Marked
  <2>2. L \in [LeaseIds -> Row] BY ClosedType
  <2>3. I \in [Items -> Item] BY MarkedType
  <2> HIDE DEF L, I
  <2>4. Stored BY <2>1, <2>2, <2>3, CommitType
  <2>5. Moved BY <2>1, GotoType DEF Steps
  <2> QED BY <1>a, <1>b, <2>1, <2>4, <2>5
<1>5. CASE Unlink(p)
  BY <1>5, <1>a, <1>b, <1>c, DoneType DEF Unlink
<1>6. ASSUME NEW i \in Items, ClaimMatch(p, i) PROVE TypeInv'
  <2> DEFINE j == job[p]
             L == ExpireLeases(leases, j.now)
             I == [items EXCEPT ![i].decision = "fix"]
             own == OwnFixerLeases(L, i, j.agent)
             G == Granted(L, {i}, j.agent, j.now, tree)
             lease == {l \in Unused : G[l].st = "active"}
             next == [j EXCEPT !.todo = @ \ {i}]
  <2>1. L \in [LeaseIds -> Row] /\ I \in [Items -> Item] BY ExpireType, ClassifiedType
  <2>2. G \in [LeaseIds -> Row] BY <1>a, <2>1, GrantedType
  <2>3. Reentered(leases, own, tree) \in [LeaseIds -> Row] BY <1>a, ReenteredType
  <2>4. own \in SUBSET LeaseIds /\ lease \in SUBSET LeaseIds
    BY DEF OwnFixerLeases, ActiveOn, Unused
  <2>5. next \in Job BY <1>a, JobTypes
  <2>6. next.rows \in SUBSET LeaseIds /\ next.created \in SUBSET LeaseIds BY <2>5 DEF Job
  <2>7. [next EXCEPT !.rows = @ \cup lease, !.created = @ \cup lease] \in Job
    <3> DEFINE R == next.rows \cup lease
               C == next.created \cup lease
    <3>1. R \in SUBSET LeaseIds /\ C \in SUBSET LeaseIds BY <2>4, <2>6
    <3> HIDE DEF R, C, next
    <3>2. [next EXCEPT !.rows = R, !.created = C] \in Job BY <2>5, <3>1 DEF Job
    <3> QED BY <3>2 DEF R, C
  <2>8. [next EXCEPT !.rows = @ \cup own] \in Job
    <3> DEFINE R == next.rows \cup own
    <3>1. R \in SUBSET LeaseIds BY <2>4, <2>6
    <3> HIDE DEF R, next
    <3>2. [next EXCEPT !.rows = R] \in Job BY <2>5, <3>1, JobTypes
    <3> QED BY <3>2 DEF R
  <2>9. ASSUME NEW k \in Job, NextMatch(p, k) PROVE Moved
    BY <2>9, GotoType, DoneType DEF NextMatch, Steps
  <2>10. UNCHANGED world BY <1>6 DEF ClaimMatch
  <2>11. \/ /\ Commit(G, I) /\ files' = files \cup lease
            /\ NextMatch(p, [next EXCEPT !.rows = @ \cup lease, !.created = @ \cup lease])
         \/ /\ Commit(Reentered(leases, own, tree), I) /\ files' = files \cup own
            /\ NextMatch(p, [next EXCEPT !.rows = @ \cup own])
         \/ /\ Commit(leases, I) \/ Commit(L, I)
            /\ UNCHANGED files /\ NextMatch(p, next)
    BY <1>6 DEF ClaimMatch
  <2> HIDE DEF I, L, G, own, lease, next
  <2>12. CASE /\ Commit(G, I) /\ files' = files \cup lease
              /\ NextMatch(p, [next EXCEPT !.rows = @ \cup lease, !.created = @ \cup lease])
    <3>1. Moved BY <2>7, <2>9, <2>12
    <3>2. Stored BY <2>1, <2>2, <2>12, CommitType
    <3> QED BY <1>a, <1>b, <2>4, <2>10, <2>12, <3>1, <3>2
  <2>13. CASE /\ Commit(Reentered(leases, own, tree), I) /\ files' = files \cup own
              /\ NextMatch(p, [next EXCEPT !.rows = @ \cup own])
    <3>1. Moved BY <2>8, <2>9, <2>13
    <3>2. Stored BY <2>1, <2>3, <2>13, CommitType
    <3> QED BY <1>a, <1>b, <2>4, <2>10, <2>13, <3>1, <3>2
  <2>14. CASE /\ Commit(leases, I) \/ Commit(L, I)
              /\ UNCHANGED files /\ NextMatch(p, next)
    <3>1. Moved BY <2>5, <2>9, <2>14
    <3>2. Stored BY <2>1, <2>14, CommitType
    <3> QED BY <1>a, <1>b, <2>10, <2>14, <3>1, <3>2
  <2> QED BY <2>11, <2>12, <2>13, <2>14
<1>7. CASE PrepareBatch(p)
  <2> DEFINE targets == {Target(l, job[p].agent) : l \in job[p].rows} \ {NoId}
  <2>1. UNCHANGED <<leases, items, files, world>> /\ fresh' \subseteq Procs
    BY <1>7, <1>a DEF PrepareBatch, Load
  <2>2. targets \in SUBSET LeaseIds
    <3>1. ASSUME NEW l \in job[p].rows PROVE Target(l, job[p].agent) \in Ids
      <4>1. OwnFixerLeases(leases, leases[l].item, job[p].agent) \in SUBSET LeaseIds
        BY DEF OwnFixerLeases, ActiveOn
      <4> QED BY <1>a, <4>1, FirstIs DEF Target, Ids
    <3> QED BY <3>1 DEF Ids
  <2>3. CASE Goto(p, "save", [job[p] EXCEPT !.verdict = "reject", !.now = 0])
    <3>1. [job[p] EXCEPT !.verdict = "reject", !.now = 0] \in Job BY DEF Job
    <3>2. Moved BY <2>3, <3>1, GotoType DEF Steps
    <3> QED BY <1>a, <1>b, <2>1, <3>2 DEF world
  <2>4. CASE \E v \in {"drop", "accept"} :
               Goto(p, "save", [job[p] EXCEPT !.verdict = v, !.targets = targets, !.now = 0])
    <3>1. PICK v \in {"drop", "accept"} :
               Goto(p, "save", [job[p] EXCEPT !.verdict = v, !.targets = targets, !.now = 0])
      BY <2>4
    <3> HIDE DEF targets
    <3>2. [job[p] EXCEPT !.verdict = v, !.targets = targets, !.now = 0] \in Job BY <2>2 DEF Job
    <3>3. Moved BY <3>1, <3>2, GotoType DEF Steps
    <3> QED BY <1>a, <1>b, <2>1, <3>3 DEF world
  <2>5. \/ Goto(p, "save", [job[p] EXCEPT !.verdict = "reject", !.now = 0])
        \/ \E v \in {"drop", "accept"} :
             Goto(p, "save", [job[p] EXCEPT !.verdict = v, !.targets = targets, !.now = 0])
    BY <1>7, Zenon DEF PrepareBatch
  <2> QED BY <2>3, <2>4, <2>5
<1>8. CASE SaveBatch(p)
  <2>1. UNCHANGED <<files, world>> /\ Moved BY <1>8, DoneType DEF SaveBatch
  <2>2. CASE p \notin fresh BY <1>8, <1>a, <1>b, <1>c, <2>1, <2>2 DEF SaveBatch
  <2>3. CASE p \in fresh
    <3> DEFINE S == {i \in Items : \E l \in job[p].targets : leases[l].item = i}
               L(status) == Closed(leases, job[p].targets, status)
               I(state) == Marked(items, S, state)
    <3>1. \E status \in {"accepted", "released", "active"}, state \in {"publish_ready", "open"} :
            Commit(L(status), I(state))
      BY <1>8, <2>3 DEF SaveBatch, Closed, Marked
    <3>2. \A status \in {"accepted", "released", "active"} : L(status) \in [LeaseIds -> Row]
      BY ClosedType DEF TerminalStatuses
    <3>3. \A state \in {"publish_ready", "open"} : I(state) \in [Items -> Item] BY MarkedType
    <3> HIDE DEF L, I
    <3>4. Stored BY <3>1, <3>2, <3>3, CommitType
    <3> QED BY <1>a, <1>b, <2>1, <3>4
  <2> QED BY <2>2, <2>3
<1>9. CASE RollbackRow(p)
  <2>1. UNCHANGED <<files, world>> BY <1>9 DEF RollbackRow
  <2>2. CASE Done(p) /\ UNCHANGED <<leases, items, fresh>>
    BY <1>a, <1>b, <1>c, <2>1, <2>2, DoneType
  <2>3. CASE \E l \in LeaseIds :
               /\ Commit(IF IsActive(leases, l) THEN Close(leases, l, "released") ELSE leases, items)
               /\ Goto(p, "rollback", [job[p] EXCEPT !.rows = @ \ {l}])
    <3>1. PICK l \in LeaseIds :
               /\ Commit(IF IsActive(leases, l) THEN Close(leases, l, "released") ELSE leases, items)
               /\ Goto(p, "rollback", [job[p] EXCEPT !.rows = job[p].rows \ {l}])
      BY <2>3
    <3>2. Close(leases, l, "released") \in [LeaseIds -> Row] BY CloseType DEF TerminalStatuses
    <3>3. Stored BY <3>1, <3>2, CommitType
    <3>4. [job[p] EXCEPT !.rows = job[p].rows \ {l}] \in Job BY <1>a, JobTypes
    <3>5. Moved BY <3>1, <3>4, GotoType DEF Steps
    <3> QED BY <1>a, <1>b, <2>1, <3>3, <3>5
  <2> QED BY <1>9, <1>a, <2>2, <2>3 DEF RollbackRow
<1> QED BY <1>1, <1>2, <1>3, <1>4, <1>5, <1>6, <1>7, <1>8, <1>9 DEF BatchStep

(* Every step keeps the types. *)
LEMMA TypeStep ==
  ASSUME TypeInv, [Next]_vars
  PROVE  TypeInv'
<1>1. ASSUME NEW p \in Procs, BatchStep(p) PROVE TypeInv' BY <1>1, BatchStepType
<1>2. ASSUME NEW p \in Procs, NEW a \in Agents, BatchCommand(p, a) PROVE TypeInv'
  <2> DEFINE j == [IdleJob EXCEPT !.agent = a, !.now = clock, !.bind = tree]
  <2>1. j \in Job BY IdleJobType, JobTypes DEF TypeInv
  <2>2. Goto(p, "claim", j) /\ UNCHANGED <<leases, items, files, world, fresh>>
    BY <1>2 DEF BatchCommand
  <2> HIDE DEF j
  <2>3. pc' \in [Procs -> Steps] /\ job' \in [Procs -> Job] BY <2>1, <2>2, GotoType DEF Steps
  <2> QED BY <2>2, <2>3 DEF TypeInv, world
<1>3. ASSUME NEW p \in Procs, NEW a \in Agents, NEW todo \in SUBSET Thread,
             MatchingCommand(p, a, todo)
      PROVE  TypeInv'
  <2> DEFINE known == {l \in LeaseIds : Known(l)}
             j == [IdleJob EXCEPT !.agent = a, !.now = clock, !.chunk = TRUE,
                                  !.todo = todo, !.before = known]
  <2>1. j \in Job
    <3>1. todo \in SUBSET Items /\ known \in SUBSET LeaseIds /\ clock \in Nat
      BY ItemsAssumption DEF TypeInv
    <3> HIDE DEF known
    <3> QED BY <3>1, IdleJobType DEF Job
  <2>2. Goto(p, "chunk", j) /\ UNCHANGED <<leases, items, files, world, fresh>>
    BY <1>3 DEF MatchingCommand
  <2> HIDE DEF j
  <2>3. pc' \in [Procs -> Steps] /\ job' \in [Procs -> Job] BY <2>1, <2>2, GotoType DEF Steps
  <2> QED BY <2>2, <2>3 DEF TypeInv, world
<1>4. ASSUME NEW p \in Procs, NEW a \in Agents, NEW rows \in SUBSET LeaseIds,
             InputCommand(p, a, rows)
      PROVE  TypeInv'
  <2> DEFINE j == [IdleJob EXCEPT !.agent = a, !.now = clock, !.rows = rows]
  <2>1. j \in Job BY IdleJobType, JobTypes DEF TypeInv
  <2>2. Goto(p, "submit", j) /\ UNCHANGED <<leases, items, files, world, fresh>>
    BY <1>4 DEF InputCommand
  <2> HIDE DEF j
  <2>3. pc' \in [Procs -> Steps] /\ job' \in [Procs -> Job] BY <2>1, <2>2, GotoType DEF Steps
  <2> QED BY <2>2, <2>3 DEF TypeInv, world
<1>5. ASSUME NEW p \in Procs, Crash(p) PROVE TypeInv'
  <2>1. pc' \in [Procs -> Steps] /\ job' \in [Procs -> Job] BY <1>5, DoneType DEF Crash
  <2> QED BY <1>5, <2>1 DEF Crash, TypeInv, world
<1>6. ASSUME NEW i \in Items, NEW d \in Decisions, Classify(i, d) PROVE TypeInv'
  <2>1. [items EXCEPT ![i].decision = d] \in [Items -> Item]
    BY ClassifiedType, BatchAssumption DEF TypeInv
  <2>2. leases' \in [LeaseIds -> Row] /\ items' \in [Items -> Item] /\ fresh' \subseteq Procs
    BY <1>6, <2>1, CommitType DEF Classify, TypeInv
  <2> QED BY <1>6, <2>2 DEF Classify, TypeInv, world
<1>7. CASE ReclaimLeases
  <2>1. ExpireLeases(leases, clock) \in [LeaseIds -> Row] BY ExpireType DEF TypeInv
  <2>2. leases' \in [LeaseIds -> Row] /\ items' \in [Items -> Item] /\ fresh' \subseteq Procs
    BY <1>7, <2>1, CommitType DEF ReclaimLeases, TypeInv
  <2> QED BY <1>7, <2>2 DEF ReclaimLeases, TypeInv, world
<1>8. CASE Tick \/ Push BY <1>8 DEF Tick, Push, TypeInv
<1>9. CASE UNCHANGED vars BY <1>9 DEF vars, TypeInv
<1> QED BY <1>1, <1>2, <1>3, <1>4, <1>5, <1>6, <1>7, <1>8, <1>9 DEF Next

(* The empty workspace is typed. *)
LEMMA InitType == Init => TypeInv
<1>1. (CHOOSE i \in Items : TRUE) \in Items BY ItemsAssumption
<1> QED BY <1>1, IdleJobType DEF Init, TypeInv, Row, Item, Ids, AllRoles, Steps

(* So every reachable state is typed. *)
LEMMA TypeInvariant == Spec => []TypeInv
<1>1. TypeInv /\ [Next]_vars => TypeInv' BY TypeStep
<1> QED BY <1>1, InitType, PTL DEF Spec

(* Leases, items, request files and the commands' local variables stay in  *)
(* their domains, compensated leases included.                              *)
THEOREM BatchTypeCorrect == Spec => []TypeOK
BY TypeInvariant, TypeInvIs, PTL

-----------------------------------------------------------------------------
(* What the operators do to the lease table. *)

(* M is L with active leases changed, or ended, by somebody; their holders *)
(* are not.                                                                *)
Fades(L, M) ==
  \A l \in LeaseIds :
    \/ M[l] = L[l]
    \/ /\ IsActive(L, l)
       /\ M[l].item = L[l].item /\ M[l].agent = L[l].agent /\ M[l].role = L[l].role

(* Every active lease of M is one of L. *)
Holds(L, M) ==
  \A l \in LeaseIds :
    IsActive(M, l) =>
      /\ IsActive(L, l)
      /\ M[l].item = L[l].item /\ M[l].agent = L[l].agent /\ M[l].role = L[l].role

(* Fading grants nothing. *)
LEMMA FadesHolds == ASSUME NEW L, NEW M, Fades(L, M) PROVE Holds(L, M)
BY DEF Fades, Holds, IsActive

(* Two changes fade as one. *)
LEMMA FadesOn ==
  ASSUME NEW L, NEW M, NEW N, Fades(L, M), Fades(M, N)
  PROVE  Fades(L, N)
BY DEF Fades, IsActive

(* Expiry fades. *)
LEMMA ExpireFades ==
  ASSUME NEW L \in [LeaseIds -> Row], NEW now
  PROVE  Fades(L, ExpireLeases(L, now))
BY DEF Fades, ExpireLeases, Row

(* So does closing active leases. *)
LEMMA ClosedFades ==
  ASSUME NEW L \in [LeaseIds -> Row], NEW S, NEW status, \A l \in S : IsActive(L, l)
  PROVE  Fades(L, Closed(L, S, status))
BY DEF Fades, Closed, Row

(* So does re-entering them. *)
LEMMA ReenteredFades ==
  ASSUME NEW L \in [LeaseIds -> Row], NEW own, NEW bind, \A l \in own : IsActive(L, l)
  PROVE  Fades(L, Reentered(L, own, bind))
BY DEF Fades, Reentered, Row

(* Removing leases grants nothing. *)
LEMMA DeletedHolds ==
  ASSUME NEW L \in [LeaseIds -> Row], NEW S
  PROVE  Holds(L, Closed(L, S, "deleted"))
BY DEF Holds, Closed, IsActive, Row

(* As many different new ids can be found as there are threads to claim. *)
LEMMA IdsExist ==
  ASSUME NEW new, IsFiniteSet(new), Cardinality(new) <= Cardinality(Unused)
  PROVE  \E f \in [new -> Unused] : \A i, j \in new : f[i] = f[j] => i = j
<1>1. IsFiniteSet(Unused) BY BatchAssumption, FS_Subset DEF Unused
<1> DEFINE n == Cardinality(new)
           m == Cardinality(Unused)
<1>2. n \in Nat /\ m \in Nat /\ n <= m BY <1>1, FS_CardinalityType
<1>3. PICK g \in Bijection(1..n, new) : TRUE BY FS_CardinalityType DEF ExistsBijection
<1>4. PICK h \in Bijection(1..m, Unused) : TRUE BY <1>1, FS_CardinalityType DEF ExistsBijection
<1>5. \A i \in new : \E k \in 1..n : g[k] = i BY <1>3 DEF Bijection, Surjection
<1> DEFINE at == [i \in new |-> CHOOSE k \in 1..n : g[k] = i]
           f == [i \in new |-> h[at[i]]]
<1>6. \A i \in new : at[i] \in 1..n /\ g[at[i]] = i BY <1>5
<1>7. \A k \in 1..m : h[k] \in Unused BY <1>4 DEF Bijection, Surjection
<1>8. \A k, l \in 1..m : h[k] = h[l] => k = l BY <1>4 DEF Bijection, Injection, IsInjective
<1> HIDE DEF at, n, m
<1>9. \A i \in new : at[i] \in 1..m BY <1>2, <1>6
<1>10. f \in [new -> Unused] BY <1>7, <1>9
<1>11. \A i, j \in new : f[i] = f[j] => i = j BY <1>6, <1>8, <1>9
<1> QED BY <1>10, <1>11

(* A grant writes new ids only. *)
LEMMA GrantedElsewhere ==
  ASSUME NEW L, NEW new, NEW a, NEW now, NEW bind, NEW l \in LeaseIds, l \notin Unused,
         \E f \in [new -> Unused] : \A i, j \in new : f[i] = f[j] => i = j
  PROVE  Granted(L, new, a, now, bind)[l] = L[l]
<1> DEFINE id == CHOOSE f \in [new -> Unused] : \A i, j \in new : f[i] = f[j] => i = j
<1>1. id \in [new -> Unused] OBVIOUS
<1> HIDE DEF id
<1>2. ~\E i \in new : id[i] = l BY <1>1
<1> QED BY <1>2 DEF Granted, id

(* What a grant leaves of a lease: itself, or a new claim of a thread that *)
(* no other new lease is for.                                              *)
LEMMA GrantedIs ==
  ASSUME NEW L, NEW new, NEW a, NEW now, NEW bind
  PROVE  \E id : \A l \in LeaseIds :
           \/ Granted(L, new, a, now, bind)[l] = L[l]
           \/ \E i \in new : /\ id[i] = l
                             /\ Granted(L, new, a, now, bind)[l] = NewLease(i, a, "fixer", now, bind)
<1> DEFINE id == CHOOSE f \in [new -> Unused] : \A i, j \in new : f[i] = f[j] => i = j
<1>1. ASSUME NEW l \in LeaseIds
      PROVE  \/ Granted(L, new, a, now, bind)[l] = L[l]
             \/ \E i \in new : /\ id[i] = l
                               /\ Granted(L, new, a, now, bind)[l]
                                    = NewLease(i, a, "fixer", now, bind)
  <2>1. Granted(L, new, a, now, bind)[l]
          = IF \E i \in new : id[i] = l
            THEN NewLease(CHOOSE i \in new : id[i] = l, a, "fixer", now, bind) ELSE L[l]
    BY DEF Granted
  <2> HIDE DEF id
  <2>2. CASE \E i \in new : id[i] = l
    <3> DEFINE i == CHOOSE i \in new : id[i] = l
    <3>1. i \in new /\ id[i] = l BY <2>2
    <3> QED BY <2>1, <2>2, <3>1
  <2> QED BY <2>1, <2>2
<1> HIDE DEF id
<1> QED BY <1>1

-----------------------------------------------------------------------------
(* Exclusion. *)

Excl(L) ==
  \A l, m \in LeaseIds :
    l # m /\ IsActive(L, l) /\ IsActive(L, m) =>
      /\ L[l].item # L[m].item
      /\ Compatible(L[l].item, L[l].agent, L[l].role, L[m])

(* Compatibility looks at the threads, the agents and the roles only, and  *)
(* not at which claim came first.                                          *)
LEMMA CompatibleLooks ==
  ASSUME NEW i, NEW a, NEW r, NEW x, NEW y, x.item = y.item, x.agent = y.agent, x.role = y.role
  PROVE  Compatible(i, a, r, x) <=> Compatible(i, a, r, y)
BY DEF Compatible

(* ... and is symmetric. *)
LEMMA CompatibleSymmetric ==
  ASSUME NEW x, NEW y, x.item \in Items, y.item \in Items,
         Compatible(x.item, x.agent, x.role, y)
  PROVE  Compatible(y.item, y.agent, y.role, x)
<1>1. KeyOverlap[<<x.item, y.item>>] = KeyOverlap[<<y.item, x.item>>]
  BY OverlapAssumption
<1> QED BY <1>1 DEF Compatible

(* Exclusion survives whatever grants nothing. *)
LEMMA HoldsExcl ==
  ASSUME NEW L, NEW M, Holds(L, M), Excl(L)
  PROVE  Excl(M)
<1> SUFFICES ASSUME NEW l \in LeaseIds, NEW m \in LeaseIds, l # m, IsActive(M, l), IsActive(M, m)
             PROVE  /\ M[l].item # M[m].item
                    /\ Compatible(M[l].item, M[l].agent, M[l].role, M[m])
  BY DEF Excl
<1>1. /\ IsActive(L, l) /\ M[l].item = L[l].item /\ M[l].agent = L[l].agent /\ M[l].role = L[l].role
      /\ IsActive(L, m) /\ M[m].item = L[m].item /\ M[m].agent = L[m].agent /\ M[m].role = L[m].role
  BY DEF Holds
<1>2. L[l].item # L[m].item /\ Compatible(L[l].item, L[l].agent, L[l].role, L[m])
  BY <1>1 DEF Excl
<1> QED BY <1>1, <1>2, CompatibleLooks

(* Threads that fit the table fit one that grants no more. *)
LEMMA HoldsFits ==
  ASSUME NEW L, NEW M, NEW new, NEW a, Holds(L, M), CompatibleBatch(L, new, a)
  PROVE  CompatibleBatch(M, new, a)
<1> SUFFICES ASSUME NEW i \in new PROVE CanClaim(M, i, a, "fixer") BY DEF CompatibleBatch
<1>1. CanClaim(L, i, a, "fixer") BY DEF CompatibleBatch
<1>2. ActiveOn(M, i) = {} BY <1>1 DEF CanClaim, ActiveOn, Holds
<1>3. ASSUME NEW l \in LeaseIds, IsActive(M, l) PROVE Compatible(i, a, "fixer", M[l])
  <2>1. /\ IsActive(L, l) /\ M[l].item = L[l].item /\ M[l].agent = L[l].agent
        /\ M[l].role = L[l].role
    BY <1>3 DEF Holds
  <2>2. Compatible(i, a, "fixer", L[l]) BY <1>1, <2>1 DEF CanClaim
  <2> QED BY <2>1, <2>2, CompatibleLooks
<1> QED BY <1>2, <1>3 DEF CanClaim

(* Granting threads that fit the table and each other keeps it. *)
LEMMA GrantedExcl ==
  ASSUME NEW L \in [LeaseIds -> Row], NEW new \in SUBSET Items, NEW a, NEW now, NEW bind,
         Excl(L), CompatibleBatch(L, new, a)
  PROVE  Excl(Granted(L, new, a, now, bind))
<1> DEFINE G == Granted(L, new, a, now, bind)
<1>1. PICK id : \A l \in LeaseIds :
           G[l] = L[l] \/ \E i \in new : id[i] = l /\ G[l] = NewLease(i, a, "fixer", now, bind)
  BY GrantedIs
<1> HIDE DEF G
<1>2. ASSUME NEW i \in new
      PROVE  LET new_i == NewLease(i, a, "fixer", now, bind)
             IN  new_i.item = i /\ new_i.agent = a /\ new_i.role = "fixer"
  BY DEF NewLease
<1>3. ASSUME NEW l \in LeaseIds, NEW m \in LeaseIds, l # m, IsActive(G, m), G[m] = L[m],
             NEW i \in new, G[l] = NewLease(i, a, "fixer", now, bind)
      PROVE  /\ G[l].item # G[m].item
             /\ Compatible(G[l].item, G[l].agent, G[l].role, G[m])
             /\ Compatible(G[m].item, G[m].agent, G[m].role, G[l])
  <2>1. G[l].item = i /\ G[l].agent = a /\ G[l].role = "fixer" BY <1>2, <1>3
  <2>2. IsActive(L, m) BY <1>3 DEF IsActive
  <2>3. Compatible(i, a, "fixer", L[m]) /\ m \notin ActiveOn(L, i)
    BY <2>2 DEF CompatibleBatch, CanClaim
  <2>4. G[m].item # i BY <1>3, <2>2, <2>3 DEF ActiveOn
  <2>5. G[m].item \in Items /\ G[l].item \in Items BY <1>3, <2>1 DEF Row
  <2>6. Compatible(G[l].item, G[l].agent, G[l].role, G[m]) BY <1>3, <2>1, <2>3
  <2> QED BY <2>1, <2>4, <2>5, <2>6, CompatibleSymmetric
<1> SUFFICES ASSUME NEW l \in LeaseIds, NEW m \in LeaseIds, l # m, IsActive(G, l), IsActive(G, m)
             PROVE  /\ G[l].item # G[m].item
                    /\ Compatible(G[l].item, G[l].agent, G[l].role, G[m])
  BY DEF Excl, G
<1>4. CASE G[l] = L[l] /\ G[m] = L[m] BY <1>4 DEF Excl, IsActive
<1>5. CASE G[m] = L[m] /\ \E i \in new : G[l] = NewLease(i, a, "fixer", now, bind)
  BY <1>3, <1>5
<1>6. CASE G[l] = L[l] /\ \E i \in new : G[m] = NewLease(i, a, "fixer", now, bind)
  BY <1>3, <1>6
<1>7. CASE \E i, j \in new : /\ id[i] = l /\ G[l] = NewLease(i, a, "fixer", now, bind)
                             /\ id[j] = m /\ G[m] = NewLease(j, a, "fixer", now, bind)
  <2>1. PICK i \in new, j \in new : /\ id[i] = l /\ G[l] = NewLease(i, a, "fixer", now, bind)
                                    /\ id[j] = m /\ G[m] = NewLease(j, a, "fixer", now, bind)
    BY <1>7
  <2>2. i # j BY <2>1
  <2>3. Compatible(i, a, "fixer", NewLease(j, a, "fixer", 0, 0)) BY <2>2 DEF CompatibleBatch
  <2>4. Compatible(i, a, "fixer", NewLease(j, a, "fixer", now, bind))
    BY <2>3, CompatibleLooks DEF NewLease
  <2>5. G[l].item = i /\ G[l].agent = a /\ G[l].role = "fixer" /\ G[m].item = j
    BY <2>1 DEF NewLease
  <2> QED BY <2>1, <2>2, <2>4, <2>5
<1> QED BY <1>1, <1>4, <1>5, <1>6, <1>7

-----------------------------------------------------------------------------
(* The invariant. *)

(* The responses a process is about to save are for as many leases as it   *)
(* was given rows, all active while nobody has committed since its load.   *)
SaveOK(step, j, current, L) ==
  /\ ~(step = "save" /\ j.verdict \in {"accept", "drop"}) => j.targets = {}
  /\ step = "save" /\ current /\ j.verdict \in {"accept", "drop"} =>
       /\ \A l \in j.targets : IsActive(L, l)
       /\ Cardinality(j.targets) = Cardinality(j.rows)

BatchInv ==
  /\ Excl(leases)
  /\ \A p \in Procs : SaveOK(pc[p], job[p], p \in fresh, leases)

(* Rows that are not refused name different threads, so they end up at     *)
(* different leases.                                                       *)
LEMMA TargetsCount ==
  ASSUME TypeInv, NEW j \in Job, ~DuplicateItem(j.rows), \A l \in j.rows : ~RowRefused(l, j)
  PROVE  LET targets == {Target(l, j.agent) : l \in j.rows} \ {NoId}
         IN  /\ \A l \in targets : IsActive(leases, l)
             /\ Cardinality(targets) = Cardinality(j.rows)
<1> DEFINE targets == {Target(l, j.agent) : l \in j.rows} \ {NoId}
           f == [l \in j.rows |-> Target(l, j.agent)]
<1>1. j.rows \in SUBSET LeaseIds BY DEF Job
<1>2. ASSUME NEW l \in j.rows
      PROVE  /\ Target(l, j.agent) # NoId
             /\ leases[Target(l, j.agent)].st = "active"
             /\ leases[Target(l, j.agent)].item = leases[l].item
  <2>1. Target(l, j.agent) # NoId BY DEF RowRefused
  <2>2. leases[Target(l, j.agent)].st = "active" BY <2>1 DEF RowRefused
  <2>3. leases[Target(l, j.agent)].item = leases[l].item
    <3>1. CASE Known(l) BY <3>1 DEF Target
    <3>2. CASE ~Known(l)
      <4> DEFINE own == OwnFixerLeases(leases, leases[l].item, j.agent)
      <4>1. Target(l, j.agent) = FirstOrNone(own) BY <3>2 DEF Target
      <4>2. own \in SUBSET LeaseIds /\ \A m \in own : leases[m].item = leases[l].item
        BY DEF OwnFixerLeases, ActiveOn
      <4> HIDE DEF own
      <4>3. own # {} BY <2>1, <4>1 DEF FirstOrNone
      <4> QED BY <4>1, <4>2, <4>3, FirstIs
    <3> QED BY <3>1, <3>2
  <2> QED BY <2>1, <2>2, <2>3
<1>3. \A l \in targets : IsActive(leases, l) BY <1>2 DEF IsActive
<1>4. \A l, m \in j.rows : f[l] = f[m] => l = m BY <1>2 DEF DuplicateItem
<1>5. \A l \in j.rows : f[l] \in targets BY <1>2
<1>6. \A t \in targets : \E l \in j.rows : f[l] = t OBVIOUS
<1>7. f \in [j.rows -> targets] BY <1>5
<1> HIDE DEF targets, f
<1>8. f \in Bijection(j.rows, targets)
  BY <1>4, <1>6, <1>7 DEF Bijection, Injection, Surjection, IsInjective
<1>9. IsFiniteSet(j.rows) BY <1>1, BatchAssumption, FS_Subset
<1>10. Cardinality(targets) = Cardinality(j.rows)
  BY <1>8, <1>9, FS_Bijection DEF ExistsBijection
<1> QED BY <1>3, <1>10 DEF targets

(* Every step either commits, and so outdates every load, or leaves the    *)
(* leases alone; no step moves a process but its own.                      *)
LEMMA OthersKeep ==
  ASSUME TypeInv, BatchInv, NEW p \in Procs,
         \A q \in Procs \ {p} : pc'[q] = pc[q] /\ job'[q] = job[q],
         fresh' = {} \/ (leases' = leases /\ fresh' \subseteq fresh \cup {p}),
         Excl(leases'), SaveOK(pc'[p], job'[p], p \in fresh', leases')
  PROVE  BatchInv'
<1> SUFFICES ASSUME NEW q \in Procs, q # p PROVE SaveOK(pc'[q], job'[q], q \in fresh', leases')
  BY DEF BatchInv
<1>1. SaveOK(pc[q], job[q], q \in fresh, leases) BY DEF BatchInv
<1>2. pc'[q] = pc[q] /\ job'[q] = job[q] OBVIOUS
<1>3. CASE q \notin fresh' BY <1>1, <1>2, <1>3 DEF SaveOK
<1>4. CASE q \in fresh'
  <2>1. leases' = leases /\ q \in fresh BY <1>4
  <2> QED BY <1>1, <1>2, <2>1 DEF SaveOK
<1> QED BY <1>3, <1>4

(* A process that moves on to a step with nothing to save. *)
LEMMA MovesOn ==
  ASSUME TypeInv, BatchInv, NEW p \in Procs, NEW step, NEW j, Goto(p, step, j),
         fresh' = {} \/ (leases' = leases /\ fresh' \subseteq fresh \cup {p}),
         Excl(leases'), step # "save", j.targets = {}
  PROVE  BatchInv'
<1>1. \A q \in Procs \ {p} : pc'[q] = pc[q] /\ job'[q] = job[q] BY DEF Goto, TypeInv
<1>2. pc'[p] = step /\ job'[p] = j BY DEF Goto, TypeInv
<1>3. SaveOK(pc'[p], job'[p], p \in fresh', leases') BY <1>2 DEF SaveOK
<1> QED BY <1>1, <1>3, OthersKeep

(* A command that ends, or fails. *)
LEMMA Ends ==
  ASSUME TypeInv, BatchInv, NEW p \in Procs, Done(p) \/ Fail(p),
         fresh' = {} \/ (leases' = leases /\ fresh' \subseteq fresh \cup {p}),
         Excl(leases')
  PROVE  BatchInv'
<1>1. CASE Done(p)
  <2>1. IdleJob.targets = {} BY DEF IdleJob
  <2> QED BY <1>1, <2>1, MovesOn DEF Done
<1>2. CASE Goto(p, "rollback", [job[p] EXCEPT !.targets = {}, !.verdict = "none"])
  <2> DEFINE j == [job[p] EXCEPT !.targets = {}, !.verdict = "none"]
  <2>1. j.targets = {} BY DEF TypeInv, Job
  <2> HIDE DEF j
  <2> QED BY <1>2, <2>1, MovesOn DEF j
<1> QED BY <1>1, <1>2 DEF Fail

(* The steps of the batch commands. *)
LEMMA BatchStepInv ==
  ASSUME TypeInv, BatchInv, NEW p \in Procs, BatchStep(p)
  PROVE  BatchInv'
<1> leases \in [LeaseIds -> Row] /\ job[p] \in Job BY DEF TypeInv
<1>a. Excl(leases) /\ SaveOK(pc[p], job[p], p \in fresh, leases) BY DEF BatchInv
<1>b. pc[p] # "save" => job[p].targets = {} BY <1>a DEF SaveOK
<1>c. ASSUME UNCHANGED <<leases, items, fresh>>
      PROVE  Excl(leases') /\ (fresh' = {} \/ (leases' = leases /\ fresh' \subseteq fresh \cup {p}))
  BY <1>a, <1>c
<1>d. ASSUME NEW M, NEW I, Commit(M, I), Holds(leases, M)
      PROVE  Excl(leases') /\ fresh' = {}
  BY <1>a, <1>d, HoldsExcl DEF Commit
<1>1. CASE CommitBatch(p)
  <2> DEFINE j == job[p]
             L == ExpireLeases(leases, j.now)
             I == Project(items, L)
             own == {l \in FixerLeases(L, j.agent) : L[l].item \in Thread}
             R == Reentered(L, own, j.bind)
  <2>1. CASE Done(p) /\ UNCHANGED <<leases, items, fresh>> BY <1>c, <2>1, Ends
  <2>2. CASE \E new \in SUBSET BatchTargets(I) :
               LET G == Granted(R, new, j.agent, j.now, j.bind)
                   created == {l \in Unused : G[l].st = "active"}
               IN  /\ CompatibleBatch(L, new, j.agent)
                   /\ Commit(G, Classified(I, new \cup {L[l].item : l \in own}))
                   /\ Goto(p, "write", [IdleJob EXCEPT !.created = created,
                                                       !.plan = created \cup (own \ files)])
    <3>1. PICK new \in SUBSET BatchTargets(I) :
               LET G == Granted(R, new, j.agent, j.now, j.bind)
                   created == {l \in Unused : G[l].st = "active"}
               IN  /\ CompatibleBatch(L, new, j.agent)
                   /\ Commit(G, Classified(I, new \cup {L[l].item : l \in own}))
                   /\ Goto(p, "write", [IdleJob EXCEPT !.created = created,
                                                       !.plan = created \cup (own \ files)])
      BY <2>2
    <3> DEFINE G == Granted(R, new, j.agent, j.now, j.bind)
               created == {l \in Unused : G[l].st = "active"}
               K == [IdleJob EXCEPT !.created = created, !.plan = created \cup (own \ files)]
    <3>2. L \in [LeaseIds -> Row] BY ExpireType
    <3>3. \A l \in own : IsActive(L, l) BY DEF FixerLeases
    <3>4. R \in [LeaseIds -> Row] BY <3>2, ReenteredType DEF Job
    <3>5. Holds(leases, L) /\ Holds(L, R)
      BY <3>2, <3>3, ExpireFades, ReenteredFades, FadesHolds
    <3>6. Excl(R) /\ CompatibleBatch(R, new, j.agent)
      <4>1. Excl(L) BY <1>a, <3>5, HoldsExcl
      <4> QED BY <3>1, <3>5, <4>1, HoldsExcl, HoldsFits
    <3>7. new \in SUBSET Items BY ItemsAssumption DEF BatchTargets
    <3>8. Excl(G) BY <3>4, <3>6, <3>7, GrantedExcl
    <3>9. leases' = G /\ fresh' = {} /\ Goto(p, "write", K) BY <3>1 DEF Commit
    <3>10. K.targets = {} BY DEF IdleJob
    <3> HIDE DEF G, K
    <3> QED BY <3>8, <3>9, <3>10, MovesOn
  <2>3. \/ Done(p) /\ UNCHANGED <<leases, items, fresh>>
        \/ \E new \in SUBSET BatchTargets(I) :
               LET G == Granted(R, new, j.agent, j.now, j.bind)
                   created == {l \in Unused : G[l].st = "active"}
               IN  /\ CompatibleBatch(L, new, j.agent)
                   /\ Commit(G, Classified(I, new \cup {L[l].item : l \in own}))
                   /\ Goto(p, "write", [IdleJob EXCEPT !.created = created,
                                                       !.plan = created \cup (own \ files)])
    BY <1>1 DEF CommitBatch
  <2> QED BY <2>1, <2>2, <2>3
<1>2. CASE WriteRequest(p)
  <2>1. UNCHANGED <<leases, items, fresh>> /\ pc[p] # "save" BY <1>2 DEF WriteRequest
  <2>2. CASE Done(p) BY <1>c, <2>1, <2>2, Ends
  <2>3. CASE \E l : Goto(p, "write", [job[p] EXCEPT !.plan = @ \ {l}])
    <3>1. PICK l : Goto(p, "write", [job[p] EXCEPT !.plan = @ \ {l}]) BY <2>3
    <3> DEFINE k == [job[p] EXCEPT !.plan = @ \ {l}]
    <3>2. k.targets = {} BY <1>b, <2>1 DEF Job
    <3> HIDE DEF k
    <3> QED BY <1>c, <2>1, <3>1, <3>2, MovesOn DEF k
  <2> QED BY <1>2, <2>2, <2>3 DEF WriteRequest
<1>3. CASE WriteFails(p)
  <2> DEFINE k == [job[p] EXCEPT !.plan = {}]
  <2>1. UNCHANGED <<leases, items, fresh>> /\ pc[p] # "save" /\ Goto(p, "compensate", k)
    BY <1>3 DEF WriteFails
  <2>2. k.targets = {} BY <1>b, <2>1 DEF Job
  <2> HIDE DEF k
  <2> QED BY <1>c, <2>1, <2>2, MovesOn
<1>4. CASE Compensate(p)
  <2> DEFINE undone == {l \in job[p].created : Known(l)}
             M == Closed(leases, undone, "deleted")
             I == [i \in Items |-> IF \E l \in undone : leases[l].item = i
                                   THEN [items[i] EXCEPT !.state = "open", !.owner = NoId]
                                   ELSE items[i]]
  <2>1. Commit(M, I) /\ Goto(p, "unlink", job[p]) /\ pc[p] # "save"
    BY <1>4 DEF Compensate, Closed
  <2>2. Holds(leases, M) BY DeletedHolds
  <2> HIDE DEF M, I
  <2> QED BY <1>b, <1>d, <2>1, <2>2, MovesOn
<1>5. CASE Unlink(p) BY <1>5, <1>c, Ends DEF Unlink
<1>6. ASSUME NEW i \in Items, ClaimMatch(p, i) PROVE BatchInv'
  <2> DEFINE j == job[p]
             L == ExpireLeases(leases, j.now)
             I == [items EXCEPT ![i].decision = "fix"]
             own == OwnFixerLeases(L, i, j.agent)
             G == Granted(L, {i}, j.agent, j.now, tree)
             lease == {l \in Unused : G[l].st = "active"}
             next == [j EXCEPT !.todo = @ \ {i}]
  <2>1. pc[p] = "chunk"
        /\ \/ /\ CanClaim(L, i, j.agent, "fixer") /\ Commit(G, I)
              /\ NextMatch(p, [next EXCEPT !.rows = @ \cup lease, !.created = @ \cup lease])
           \/ /\ Commit(Reentered(leases, own, tree), I)
              /\ NextMatch(p, [next EXCEPT !.rows = @ \cup own])
           \/ (Commit(leases, I) \/ Commit(L, I)) /\ NextMatch(p, next)
    BY <1>6 DEF ClaimMatch
  <2>2. L \in [LeaseIds -> Row] /\ Fades(leases, L) BY ExpireType, ExpireFades
  <2>3. \A l \in own : IsActive(leases, l)
    BY <2>2, FadesHolds DEF OwnFixerLeases, ActiveOn, Holds
  <2>4. next.targets = {}
        /\ [next EXCEPT !.rows = @ \cup lease, !.created = @ \cup lease].targets = {}
        /\ [next EXCEPT !.rows = @ \cup own].targets = {}
    <3>1. job[p].targets = {} BY <1>b, <2>1
    <3>2. next \in Job /\ next.targets = {}
      <4>1. job[p].todo \ {i} \in SUBSET Items BY DEF Job
      <4> QED BY <3>1, <4>1 DEF Job
    <3>3. ASSUME NEW r, NEW c
          PROVE  [next EXCEPT !.rows = r, !.created = c].targets = {}
                 /\ [next EXCEPT !.rows = r].targets = {}
      <4> HIDE DEF next
      <4> QED BY <3>2 DEF Job
    <3> QED BY <3>2, <3>3
  <2>5. ASSUME NEW k, NextMatch(p, k), k.targets = {}, Excl(leases'), fresh' = {}
        PROVE  BatchInv'
    BY <2>5, MovesOn, Ends DEF NextMatch
  <2>6. CASE /\ CanClaim(L, i, j.agent, "fixer") /\ Commit(G, I)
             /\ NextMatch(p, [next EXCEPT !.rows = @ \cup lease, !.created = @ \cup lease])
    <3>1. Excl(L) BY <1>a, <2>2, FadesHolds, HoldsExcl
    <3>2. CompatibleBatch(L, {i}, j.agent) BY <2>6 DEF CompatibleBatch
    <3>3. Excl(G) BY <2>2, <3>1, <3>2, GrantedExcl
    <3>4. Excl(leases') /\ fresh' = {} BY <2>6, <3>3 DEF Commit
    <3> QED BY <2>4, <2>5, <2>6, <3>4
  <2>7. CASE /\ Commit(Reentered(leases, own, tree), I)
             /\ NextMatch(p, [next EXCEPT !.rows = @ \cup own])
    <3>1. Excl(leases') /\ fresh' = {} BY <1>d, <2>3, <2>7, ReenteredFades, FadesHolds
    <3> QED BY <2>4, <2>5, <2>7, <3>1
  <2>8. CASE (Commit(leases, I) \/ Commit(L, I)) /\ NextMatch(p, next)
    <3>1. Holds(leases, leases) /\ Holds(leases, L) BY <2>2, FadesHolds DEF Holds
    <3>2. Excl(leases') /\ fresh' = {} BY <1>d, <2>8, <3>1
    <3> QED BY <2>4, <2>5, <2>8, <3>2
  <2> QED BY <2>1, <2>6, <2>7, <2>8
<1>7. CASE PrepareBatch(p)
  <2> DEFINE j == job[p]
             targets == {Target(l, j.agent) : l \in j.rows} \ {NoId}
  <2>1. UNCHANGED leases /\ fresh' = fresh \cup {p} /\ pc[p] # "save"
    BY <1>7 DEF PrepareBatch, Load
  <2>2. \A k, step : Goto(p, step, k) =>
          /\ \A q \in Procs \ {p} : pc'[q] = pc[q] /\ job'[q] = job[q]
          /\ pc'[p] = step /\ job'[p] = k
    BY DEF Goto, TypeInv
  <2>3. CASE Goto(p, "save", [j EXCEPT !.verdict = "reject", !.now = 0])
    <3> DEFINE k == [j EXCEPT !.verdict = "reject", !.now = 0]
    <3>1. k.verdict = "reject" /\ k.targets = {} BY <1>b, <2>1 DEF Job
    <3> HIDE DEF k
    <3>2. SaveOK("save", k, TRUE, leases) BY <3>1 DEF SaveOK
    <3>3. /\ \A q \in Procs \ {p} : pc'[q] = pc[q] /\ job'[q] = job[q]
          /\ pc'[p] = "save" /\ job'[p] = k
      BY <2>2, <2>3 DEF k
    <3>4. SaveOK(pc'[p], job'[p], p \in fresh', leases') BY <2>1, <3>2, <3>3 DEF SaveOK
    <3> QED BY <1>a, <2>1, <3>3, <3>4, OthersKeep
  <2>4. CASE /\ ~DuplicateItem(j.rows) /\ \A l \in j.rows : ~RowRefused(l, j)
             /\ \E v \in {"drop", "accept"} :
                  Goto(p, "save", [j EXCEPT !.verdict = v, !.targets = targets, !.now = 0])
    <3>1. PICK v \in {"drop", "accept"} :
                  Goto(p, "save", [j EXCEPT !.verdict = v, !.targets = targets, !.now = 0])
      BY <2>4
    <3>2. (\A l \in targets : IsActive(leases, l)) /\ Cardinality(targets) = Cardinality(j.rows)
      BY <2>4, TargetsCount
    <3> HIDE DEF targets
    <3> DEFINE k == [j EXCEPT !.verdict = v, !.targets = targets, !.now = 0]
    <3>3. k.verdict = v /\ k.targets = targets /\ k.rows = j.rows BY DEF Job
    <3> HIDE DEF k
    <3>4. SaveOK("save", k, TRUE, leases) BY <3>2, <3>3 DEF SaveOK
    <3>5. /\ \A q \in Procs \ {p} : pc'[q] = pc[q] /\ job'[q] = job[q]
          /\ pc'[p] = "save" /\ job'[p] = k
      BY <2>2, <3>1 DEF k
    <3>6. SaveOK(pc'[p], job'[p], p \in fresh', leases') BY <2>1, <3>4, <3>5 DEF SaveOK
    <3> QED BY <1>a, <2>1, <3>5, <3>6, OthersKeep
  <2>5. \/ Goto(p, "save", [j EXCEPT !.verdict = "reject", !.now = 0])
        \/ /\ ~DuplicateItem(j.rows) /\ \A l \in j.rows : ~RowRefused(l, j)
           /\ \E v \in {"drop", "accept"} :
                  Goto(p, "save", [j EXCEPT !.verdict = v, !.targets = targets, !.now = 0])
    BY <1>7, Zenon DEF PrepareBatch
  <2> QED BY <2>3, <2>4, <2>5
<1>8. CASE SaveBatch(p)
  <2>1. Done(p) \/ Fail(p) BY <1>8 DEF SaveBatch
  <2>2. CASE p \notin fresh BY <1>8, <1>c, <2>2, Ends DEF SaveBatch
  <2>3. CASE p \in fresh
    <3>1. \E status \in {"accepted", "released", "active"} : \E I :
            Commit(Closed(leases, job[p].targets, status), I)
      BY <1>8, <2>3 DEF SaveBatch, Closed
    <3>2. \A l \in job[p].targets : IsActive(leases, l)
      BY <1>8, <1>a, <2>3 DEF SaveOK, SaveBatch
    <3>3. \A status : Holds(leases, Closed(leases, job[p].targets, status))
      BY <3>2, ClosedFades, FadesHolds
    <3>4. Excl(leases') /\ fresh' = {} BY <1>d, <3>1, <3>3
    <3> QED BY <2>1, <3>4, Ends
  <2> QED BY <2>2, <2>3
<1>9. CASE RollbackRow(p)
  <2>1. CASE Done(p) /\ UNCHANGED <<leases, items, fresh>> BY <1>c, <2>1, Ends
  <2>2. CASE \E l :
               /\ Commit(IF IsActive(leases, l) THEN Close(leases, l, "released") ELSE leases, items)
               /\ Goto(p, "rollback", [job[p] EXCEPT !.rows = @ \ {l}])
    <3>1. PICK l :
               /\ Commit(IF IsActive(leases, l) THEN Close(leases, l, "released") ELSE leases, items)
               /\ Goto(p, "rollback", [job[p] EXCEPT !.rows = @ \ {l}])
      BY <2>2
    <3> DEFINE k == [job[p] EXCEPT !.rows = @ \ {l}]
               M == IF IsActive(leases, l) THEN Close(leases, l, "released") ELSE leases
    <3>2. k.targets = {} BY <1>9, <1>b DEF RollbackRow, Job
    <3>3. Holds(leases, M) BY DEF Holds, Close, IsActive, Row
    <3>4. Commit(M, items) /\ Goto(p, "rollback", k) BY <3>1
    <3> HIDE DEF k, M
    <3> QED BY <1>d, <3>2, <3>3, <3>4, MovesOn
  <2> QED BY <1>9, <2>1, <2>2 DEF RollbackRow
<1> QED BY <1>1, <1>2, <1>3, <1>4, <1>5, <1>6, <1>7, <1>8, <1>9 DEF BatchStep

(* Every step keeps the invariant. *)
LEMMA InvStep ==
  ASSUME TypeInv, BatchInv, [Next]_vars
  PROVE  BatchInv'
<1>a. leases \in [LeaseIds -> Row] /\ Excl(leases) BY DEF TypeInv, BatchInv
<1>1. ASSUME NEW p \in Procs, BatchStep(p) PROVE BatchInv' BY <1>1, BatchStepInv
<1>2. ASSUME NEW p \in Procs, NEW step, NEW j, Goto(p, step, j), UNCHANGED <<leases, fresh>>,
             step # "save", j.targets = {}
      PROVE  BatchInv'
  BY <1>2, <1>a, MovesOn
<1>3. ASSUME NEW p \in Procs, NEW a \in Agents, BatchCommand(p, a) PROVE BatchInv'
  <2> DEFINE j == [IdleJob EXCEPT !.agent = a, !.now = clock, !.bind = tree]
  <2>1. j.targets = {} BY DEF IdleJob
  <2>2. Goto(p, "claim", j) /\ UNCHANGED <<leases, fresh>> BY <1>3 DEF BatchCommand
  <2> HIDE DEF j
  <2> QED BY <1>2, <2>1, <2>2
<1>4. ASSUME NEW p \in Procs, NEW a \in Agents, NEW todo \in SUBSET Thread,
             MatchingCommand(p, a, todo)
      PROVE  BatchInv'
  <2> DEFINE known == {l \in LeaseIds : Known(l)}
             j == [IdleJob EXCEPT !.agent = a, !.now = clock, !.chunk = TRUE,
                                  !.todo = todo, !.before = known]
  <2>1. j.targets = {} BY DEF IdleJob
  <2>2. Goto(p, "chunk", j) /\ UNCHANGED <<leases, fresh>> BY <1>4 DEF MatchingCommand
  <2> HIDE DEF j
  <2> QED BY <1>2, <2>1, <2>2
<1>5. ASSUME NEW p \in Procs, NEW a \in Agents, NEW rows \in SUBSET LeaseIds,
             InputCommand(p, a, rows)
      PROVE  BatchInv'
  <2> DEFINE j == [IdleJob EXCEPT !.agent = a, !.now = clock, !.rows = rows]
  <2>1. j.targets = {} BY DEF IdleJob
  <2>2. Goto(p, "submit", j) /\ UNCHANGED <<leases, fresh>> BY <1>5 DEF InputCommand
  <2> HIDE DEF j
  <2> QED BY <1>2, <2>1, <2>2
<1>6. ASSUME NEW p \in Procs, Crash(p) PROVE BatchInv' BY <1>6, <1>a, Ends DEF Crash
<1>7. ASSUME UNCHANGED <<pc, job>>, fresh' = {} \/ UNCHANGED <<leases, fresh>>, Excl(leases')
      PROVE  BatchInv'
  <2> SUFFICES ASSUME NEW p \in Procs PROVE SaveOK(pc[p], job[p], p \in fresh', leases')
    BY <1>7 DEF BatchInv
  <2>1. SaveOK(pc[p], job[p], p \in fresh, leases) BY DEF BatchInv
  <2>2. CASE p \notin fresh' BY <2>1, <2>2 DEF SaveOK
  <2>3. CASE p \in fresh'
    <3>1. leases' = leases /\ p \in fresh BY <1>7, <2>3
    <3> QED BY <2>1, <2>3, <3>1 DEF SaveOK
  <2> QED BY <2>2, <2>3
<1>8. ASSUME NEW i \in Items, NEW d \in Decisions, Classify(i, d) PROVE BatchInv'
  BY <1>7, <1>8, <1>a DEF Classify, Commit
<1>9. CASE ReclaimLeases
  <2>1. Excl(ExpireLeases(leases, clock)) BY <1>a, ExpireFades, FadesHolds, HoldsExcl
  <2> QED BY <1>7, <1>9, <2>1 DEF ReclaimLeases, Commit
<1>10. CASE Tick \/ Push BY <1>7, <1>10, <1>a DEF Tick, Push
<1>11. CASE UNCHANGED vars BY <1>7, <1>11, <1>a DEF vars
<1> QED BY <1>1, <1>3, <1>4, <1>5, <1>6, <1>8, <1>9, <1>10, <1>11 DEF Next

(* It holds at the start. *)
LEMMA InitInv == Init => BatchInv
BY DEF Init, BatchInv, Excl, IsActive, SaveOK, IdleJob

(* So in every reachable state. *)
LEMMA BatchInvariant == Spec => []BatchInv
<1>1. TypeInv /\ BatchInv /\ [Next]_vars => BatchInv' BY InvStep
<1> QED BY <1>1, InitInv, TypeInvariant, PTL DEF Spec

(* Threads claimed in one batch, in racing batches or thread by thread keep *)
(* the exclusion of single claims, whatever is compensated, rolled back,    *)
(* accepted or expired meanwhile (issue_batch_action_request, claim_lease). *)
THEOREM BatchesExclude == Spec => []BatchExclusion
<1>1. BatchInv => BatchExclusion BY DEF BatchInv, Excl, BatchExclusion
<1> QED BY <1>1, BatchInvariant, PTL

-----------------------------------------------------------------------------
(* Leases that have ended. *)

(* A fading table leaves ended leases alone. *)
LEMMA FadesEnded ==
  ASSUME NEW L, NEW M, Fades(L, M), NEW l \in LeaseIds, L[l].st \in TerminalStatuses
  PROVE  M[l] = L[l]
BY DEF Fades, IsActive, TerminalStatuses

(* One step leaves them alone, unless it compensates the batch that created *)
(* them.                                                                    *)
LEMMA EndedStep ==
  ASSUME TypeInv, BatchInv, [Next]_vars, NEW l \in LeaseIds,
         leases[l].st \in TerminalStatuses, leases'[l] # leases[l]
  PROVE  \E p \in Procs : l \in job[p].created /\ pc[p] = "compensate" /\ pc'[p] # pc[p]
<1> leases \in [LeaseIds -> Row] BY DEF TypeInv
<1>a. l \notin Unused BY DEF Unused, TerminalStatuses
<1>b. ASSUME Fades(leases, leases') PROVE FALSE BY <1>b, FadesEnded
<1>c. ASSUME UNCHANGED leases PROVE FALSE BY <1>c
<1>1. ASSUME NEW p \in Procs, Compensate(p)
      PROVE  l \in job[p].created /\ pc[p] = "compensate" /\ pc'[p] # pc[p]
  <2>1. /\ pc[p] = "compensate" /\ Goto(p, "unlink", job[p])
        /\ leases' = Closed(leases, {m \in job[p].created : Known(m)}, "deleted")
    BY <1>1 DEF Compensate, Commit, Closed
  <2>2. l \in job[p].created BY <2>1 DEF Closed
  <2> QED BY <2>1, <2>2 DEF Goto, TypeInv
<1>2. ASSUME NEW p \in Procs, CommitBatch(p) PROVE FALSE
  <2> DEFINE j == job[p]
             L == ExpireLeases(leases, j.now)
             I == Project(items, L)
             own == {m \in FixerLeases(L, j.agent) : L[m].item \in Thread}
             R == Reentered(L, own, j.bind)
  <2>1. PICK new \in SUBSET BatchTargets(I) :
             /\ Cardinality(new) = IF Cardinality(BatchTargets(I)) < Room(L, j.agent)
                                   THEN Cardinality(BatchTargets(I)) ELSE Room(L, j.agent)
             /\ Cardinality(new) <= Cardinality(Unused)
             /\ \/ UNCHANGED leases
                \/ leases' = Granted(R, new, j.agent, j.now, j.bind)
    BY <1>2 DEF CommitBatch, Commit
  <2>2. L \in [LeaseIds -> Row] /\ Fades(leases, L) BY ExpireType, ExpireFades
  <2>3. Fades(L, R) BY <2>2, ReenteredFades DEF FixerLeases
  <2>4. R[l] = leases[l] BY <2>2, <2>3, FadesOn, FadesEnded
  <2>5. IsFiniteSet(new)
    <3>1. new \in SUBSET Items BY ItemsAssumption DEF BatchTargets
    <3>2. IsFiniteSet(Items) BY BatchAssumption
    <3> QED BY <3>1, <3>2, FS_Subset
  <2>6. leases' = Granted(R, new, j.agent, j.now, j.bind) BY <1>c, <2>1
  <2> HIDE DEF R
  <2>7. leases'[l] = R[l] BY <1>a, <2>1, <2>5, <2>6, IdsExist, GrantedElsewhere
  <2> QED BY <2>4, <2>7
<1>3. ASSUME NEW p \in Procs, NEW i \in Items, ClaimMatch(p, i) PROVE FALSE
  <2> DEFINE j == job[p]
             L == ExpireLeases(leases, j.now)
             own == OwnFixerLeases(L, i, j.agent)
             G == Granted(L, {i}, j.agent, j.now, tree)
  <2>1. \/ Unused # {} /\ leases' = G
        \/ leases' = Reentered(leases, own, tree)
        \/ leases' = leases
        \/ leases' = L
    BY <1>3 DEF ClaimMatch, Commit
  <2>2. L \in [LeaseIds -> Row] /\ Fades(leases, L) BY ExpireType, ExpireFades
  <2>3. \A m \in own : IsActive(leases, m)
    BY <2>2, FadesHolds DEF OwnFixerLeases, ActiveOn, Holds
  <2>4. Fades(leases, Reentered(leases, own, tree)) BY <2>3, ReenteredFades
  <2>5. CASE Unused # {} /\ leases' = G
    <3>1. PICK n \in Unused : TRUE BY <2>5
    <3>2. [k \in {i} |-> n] \in [{i} -> Unused] OBVIOUS
    <3>3. \E f \in [{i} -> Unused] : \A h, k \in {i} : f[h] = f[k] => h = k BY <3>2
    <3>4. G[l] = L[l] BY <1>a, <3>3, GrantedElsewhere
    <3>5. L[l] = leases[l] BY <2>2, FadesEnded
    <3> QED BY <2>5, <3>4, <3>5
  <2> QED BY <1>b, <1>c, <2>1, <2>2, <2>4, <2>5
<1>4. ASSUME NEW p \in Procs, SaveBatch(p) PROVE FALSE
  <2>1. p \in fresh BY <1>4, <1>c DEF SaveBatch
  <2>2. \E status : leases' = Closed(leases, job[p].targets, status)
    BY <1>4, <2>1 DEF SaveBatch, Closed, Commit
  <2>3. SaveOK(pc[p], job[p], TRUE, leases) BY <2>1 DEF BatchInv
  <2>4. \A m \in job[p].targets : IsActive(leases, m) BY <1>4, <2>3 DEF SaveOK, SaveBatch
  <2> QED BY <1>b, <2>2, <2>4, ClosedFades
<1>5. ASSUME NEW p \in Procs, RollbackRow(p) PROVE FALSE
  <2>1. PICK m : leases' = IF IsActive(leases, m) THEN Close(leases, m, "released") ELSE leases
    BY <1>5, <1>c DEF RollbackRow, Commit
  <2>2. Fades(leases, leases') BY <2>1 DEF Fades, Close, IsActive, Row
  <2> QED BY <1>b, <2>2
<1>6. ASSUME NEW p \in Procs, WriteRequest(p) \/ WriteFails(p) \/ Unlink(p) \/ PrepareBatch(p)
      PROVE  FALSE
  BY <1>6, <1>c DEF WriteRequest, WriteFails, Unlink, PrepareBatch
<1>7. ASSUME NEW p \in Procs, BatchStep(p)
      PROVE  l \in job[p].created /\ pc[p] = "compensate" /\ pc'[p] # pc[p]
  BY <1>1, <1>2, <1>3, <1>4, <1>5, <1>6, <1>7 DEF BatchStep
<1>8. ASSUME NEW p \in Procs, NEW a \in Agents,
             \/ BatchCommand(p, a)
             \/ \E todo \in SUBSET Thread : MatchingCommand(p, a, todo)
             \/ \E rows \in SUBSET LeaseIds : InputCommand(p, a, rows)
             \/ Crash(p)
      PROVE  FALSE
  BY <1>8, <1>c DEF BatchCommand, MatchingCommand, InputCommand, Crash
<1>9. ASSUME NEW p \in Procs, Crash(p) PROVE FALSE BY <1>9, <1>c DEF Crash
<1>10. ASSUME NEW i \in Items, NEW d \in Decisions, Classify(i, d) PROVE FALSE
  BY <1>10, <1>c DEF Classify, Commit
<1>11. CASE ReclaimLeases BY <1>11, <1>b, ExpireFades DEF ReclaimLeases, Commit
<1>12. CASE Tick \/ Push \/ UNCHANGED vars BY <1>12, <1>c DEF Tick, Push, vars
<1> QED BY <1>7, <1>8, <1>9, <1>10, <1>11, <1>12 DEF Next

(* Rollback, expiry, re-entry, new claims and outdated submissions leave a  *)
(* lease that has ended alone; only the compensation of the batch that      *)
(* created it changes it (release_claimed_lease, expire_leases,             *)
(* _compensate_batch_materialization).                                      *)
THEOREM EndedStays == Spec => EndedLeaseStays
<1>1. TypeInv /\ BatchInv /\ [Next]_vars =>
        [\A l \in LeaseIds :
           leases[l].st \in TerminalStatuses /\ leases'[l] # leases[l] =>
             \E p \in Procs : l \in job[p].created /\ pc[p] = "compensate" /\ pc'[p] # pc[p]]_vars
  BY EndedStep
<1> QED BY <1>1, TypeInvariant, BatchInvariant, PTL DEF Spec, EndedLeaseStays

-----------------------------------------------------------------------------
(* Batches of responses. *)

(* A process that leaves "save" accepts as many leases as it has rows, or   *)
(* none.                                                                    *)
LEMMA WholeStep ==
  ASSUME TypeInv, BatchInv, [Next]_vars, NEW p \in Procs, pc[p] = "save", pc'[p] # "save"
  PROVE  Cardinality({l \in LeaseIds : leases[l].st # "accepted" /\ leases'[l].st = "accepted"})
           \in {0, Cardinality(job[p].rows)}
<1> leases \in [LeaseIds -> Row] /\ job[p] \in Job BY DEF TypeInv
<1> DEFINE Now == {l \in LeaseIds : leases[l].st # "accepted" /\ leases'[l].st = "accepted"}
<1>a. ASSUME Now = {} PROVE Cardinality(Now) = 0 BY <1>a, FS_EmptySet
<1>1. SaveBatch(p) \/ Crash(p)
  <2>1. ASSUME NEW q \in Procs, NEW step, NEW j, Goto(q, step, j) PROVE q = p
    BY <2>1 DEF Goto, TypeInv
  <2>2. ASSUME NEW q \in Procs, Done(q) \/ Fail(q) PROVE q = p BY <2>1, <2>2 DEF Done, Fail
  <2>3. ASSUME NEW q \in Procs, BatchStep(q), q # p PROVE FALSE
    BY <2>1, <2>2, <2>3
       DEF BatchStep, CommitBatch, WriteRequest, WriteFails, Compensate, Unlink, ClaimMatch,
           NextMatch, PrepareBatch, SaveBatch, RollbackRow
  <2>4. BatchStep(p) => SaveBatch(p)
    BY DEF BatchStep, CommitBatch, WriteRequest, WriteFails, Compensate, Unlink, ClaimMatch,
           PrepareBatch, RollbackRow
  <2>5. ASSUME NEW q \in Procs, NEW a \in Agents,
               \/ BatchCommand(q, a)
               \/ \E todo \in SUBSET Thread : MatchingCommand(q, a, todo)
               \/ \E rows \in SUBSET LeaseIds : InputCommand(q, a, rows)
        PROVE  FALSE
    BY <2>1, <2>5 DEF BatchCommand, MatchingCommand, InputCommand
  <2>6. ASSUME NEW q \in Procs, Crash(q), q # p PROVE FALSE BY <2>2, <2>6 DEF Crash
  <2>7. pc' # pc OBVIOUS
  <2> QED BY <2>3, <2>4, <2>5, <2>6, <2>7 DEF Next, Classify, ReclaimLeases, Tick, Push, vars
<1>2. CASE Crash(p)
  <2>1. Now = {} BY <1>2 DEF Crash
  <2> QED BY <1>a, <2>1
<1>3. CASE SaveBatch(p) /\ p \notin fresh
  <2>1. Now = {} BY <1>3 DEF SaveBatch
  <2> QED BY <1>a, <2>1
<1>4. CASE SaveBatch(p) /\ p \in fresh
  <2>1. SaveOK("save", job[p], TRUE, leases) BY <1>4 DEF BatchInv
  <2>2. job[p].targets \in SUBSET LeaseIds BY DEF Job
  <2>3. CASE job[p].verdict = "accept"
    <3>1. leases' = Closed(leases, job[p].targets, "accepted")
      BY <1>4, <2>3 DEF SaveBatch, Closed, Commit
    <3>2. /\ \A l \in job[p].targets : IsActive(leases, l)
          /\ Cardinality(job[p].targets) = Cardinality(job[p].rows)
      BY <2>1, <2>3 DEF SaveOK
    <3>3. Now = job[p].targets BY <2>2, <3>1, <3>2 DEF Closed, IsActive, Row
    <3> QED BY <3>2, <3>3
  <2>4. CASE job[p].verdict # "accept"
    <3>1. \E status \in {"released", "active"} : leases' = Closed(leases, job[p].targets, status)
      BY <1>4, <2>4 DEF SaveBatch, Closed, Commit
    <3>2. Now = {} BY <3>1 DEF Closed, Row
    <3> QED BY <1>a, <3>2
  <2> QED BY <2>3, <2>4
<1> QED BY <1>1, <1>2, <1>3, <1>4

(* One submit of a response file accepts every row or none, rows rebound    *)
(* from deleted leases included: no row is refused after another was        *)
(* accepted, whatever the comments on that refusal say                      *)
(* (submit_batch_action_response, _accepted_item_ids).                      *)
THEOREM BatchIsWhole == Spec => WholeBatch
<1>1. TypeInv /\ BatchInv /\ [Next]_vars =>
        [\A p \in Procs :
           pc[p] = "save" /\ pc'[p] # "save" =>
             Cardinality({l \in LeaseIds : leases[l].st # "accepted" /\ leases'[l].st = "accepted"})
               \in {0, Cardinality(job[p].rows)}]_vars
  BY WholeStep
<1> QED BY <1>1, TypeInvariant, BatchInvariant, PTL DEF Spec, WholeBatch
-----------------------------------------------------------------------------
(* The leases of one agent. *)

(* No agent holds more fixer leases than it may. *)
Limited(L) == \A a \in Agents : Cardinality(FixerLeases(L, a)) <= Limit

(* Without agent resolve over matching threads no process claims a chunk. *)
LimitInv == Limited(leases) /\ \A p \in Procs : pc[p] # "chunk"

(* Who is granted nothing holds no more than before. *)
LEMMA HoldsFewer ==
  ASSUME NEW L, NEW M, Holds(L, M), NEW a
  PROVE  /\ FixerLeases(M, a) \in SUBSET FixerLeases(L, a)
         /\ IsFiniteSet(FixerLeases(L, a)) /\ IsFiniteSet(FixerLeases(M, a))
         /\ Cardinality(FixerLeases(L, a)) \in Nat /\ Cardinality(FixerLeases(M, a)) \in Nat
         /\ Cardinality(FixerLeases(M, a)) <= Cardinality(FixerLeases(L, a))
<1>1. FixerLeases(M, a) \in SUBSET FixerLeases(L, a) BY DEF FixerLeases, Holds
<1>2. FixerLeases(L, a) \in SUBSET LeaseIds BY DEF FixerLeases
<1>3. IsFiniteSet(FixerLeases(L, a)) BY <1>2, BatchAssumption, FS_Subset
<1> QED BY <1>1, <1>3, FS_Subset, FS_CardinalityType

(* So the limit survives whatever grants nothing. *)
LEMMA HoldsLimited ==
  ASSUME NEW L, NEW M, Holds(L, M), Limited(L)
  PROVE  Limited(M)
<1> SUFFICES ASSUME NEW a \in Agents PROVE Cardinality(FixerLeases(M, a)) <= Limit BY DEF Limited
<1>1. Cardinality(FixerLeases(L, a)) <= Limit BY DEF Limited
<1> QED BY <1>1, HoldsFewer, BatchAssumption

(* One lease for each new thread: the agent holds at most those more, and   *)
(* the other agents no more.                                                *)
LEMMA GrantedAdds ==
  ASSUME NEW L, NEW new, IsFiniteSet(new), NEW a, NEW now, NEW bind, NEW b
  PROVE  LET held == Cardinality(FixerLeases(L, b))
             then == Cardinality(FixerLeases(Granted(L, new, a, now, bind), b))
         IN  /\ then \in Nat /\ held \in Nat
             /\ then <= held + Cardinality(new)
             /\ b # a => then <= held
<1> DEFINE G == Granted(L, new, a, now, bind)
<1>1. PICK id : \A l \in LeaseIds :
           G[l] = L[l] \/ \E i \in new : id[i] = l /\ G[l] = NewLease(i, a, "fixer", now, bind)
  BY GrantedIs
<1> HIDE DEF G
<1> DEFINE N == {id[i] : i \in new}
           f == [i \in new |-> id[i]]
<1>2. IsFiniteSet(N) /\ Cardinality(N) <= Cardinality(new)
  <2>1. f \in Surjection(new, N) BY DEF Surjection
  <2> QED BY <2>1, FS_Surjection
<1>3. ASSUME NEW l \in FixerLeases(G, b) PROVE l \in FixerLeases(L, b) \/ (l \in N /\ b = a)
  <2>1. l \in LeaseIds /\ IsActive(G, l) /\ G[l].agent = b /\ G[l].role = "fixer"
    BY DEF FixerLeases
  <2>2. CASE G[l] = L[l] BY <2>1, <2>2 DEF FixerLeases, IsActive
  <2>3. CASE \E i \in new : id[i] = l /\ G[l] = NewLease(i, a, "fixer", now, bind)
    <3>1. \A i \in new : NewLease(i, a, "fixer", now, bind).agent = a BY DEF NewLease
    <3> QED BY <2>1, <2>3, <3>1
  <2> QED BY <1>1, <2>1, <2>2, <2>3
<1>4. IsFiniteSet(FixerLeases(L, b)) /\ IsFiniteSet(FixerLeases(G, b))
  <2>1. FixerLeases(L, b) \in SUBSET LeaseIds /\ FixerLeases(G, b) \in SUBSET LeaseIds
    BY DEF FixerLeases
  <2> QED BY <2>1, BatchAssumption, FS_Subset
<1> HIDE DEF N
<1>5. /\ Cardinality(FixerLeases(L, b)) \in Nat /\ Cardinality(FixerLeases(G, b)) \in Nat
      /\ Cardinality(N) \in Nat /\ Cardinality(new) \in Nat
  BY <1>2, <1>4, FS_CardinalityType
<1>6. Cardinality(FixerLeases(G, b)) <= Cardinality(FixerLeases(L, b)) + Cardinality(new)
  <2> DEFINE U == FixerLeases(L, b) \cup N
  <2>1. FixerLeases(G, b) \in SUBSET U BY <1>3
  <2>2. /\ IsFiniteSet(U)
        /\ Cardinality(U)
             = Cardinality(FixerLeases(L, b)) + Cardinality(N) - Cardinality(FixerLeases(L, b) \cap N)
    BY <1>2, <1>4, FS_Union
  <2>3. IsFiniteSet(FixerLeases(L, b) \cap N) BY <1>2, FS_Subset
  <2>4. Cardinality(FixerLeases(L, b) \cap N) \in Nat BY <2>3, FS_CardinalityType
  <2>5. Cardinality(FixerLeases(G, b)) <= Cardinality(U) BY <2>1, <2>2, FS_Subset
  <2> HIDE DEF U
  <2> QED BY <1>2, <1>5, <2>2, <2>4, <2>5
<1>7. ASSUME b # a PROVE Cardinality(FixerLeases(G, b)) <= Cardinality(FixerLeases(L, b))
  <2>1. FixerLeases(G, b) \in SUBSET FixerLeases(L, b) BY <1>3, <1>7
  <2> QED BY <1>4, <2>1, FS_Subset
<1> QED BY <1>5, <1>6, <1>7 DEF G

(* A batch claim grants what its agent may still get, counted in the leases *)
(* it commits to, after their expiries.                                     *)
LEMMA CommitBatchLimited ==
  ASSUME TypeInv, Limited(leases), NEW p \in Procs, CommitBatch(p)
  PROVE  Limited(leases')
<1> DEFINE j == job[p]
           L == ExpireLeases(leases, j.now)
           I == Project(items, L)
           own == {l \in FixerLeases(L, j.agent) : L[l].item \in Thread}
           R == Reentered(L, own, j.bind)
<1>1. PICK new \in SUBSET BatchTargets(I) :
           /\ Cardinality(new) = IF Cardinality(BatchTargets(I)) < Room(L, j.agent)
                                 THEN Cardinality(BatchTargets(I)) ELSE Room(L, j.agent)
           /\ \/ UNCHANGED leases
              \/ leases' = Granted(R, new, j.agent, j.now, j.bind)
  BY DEF CommitBatch, Commit
<1>2. leases \in [LeaseIds -> Row] BY DEF TypeInv
<1>3. L \in [LeaseIds -> Row] BY <1>2, ExpireType
<1>4. Holds(leases, L) /\ Holds(L, R)
  BY <1>2, <1>3, ExpireFades, ReenteredFades, FadesHolds DEF FixerLeases
<1>5. IsFiniteSet(BatchTargets(I)) /\ IsFiniteSet(new)
  <2>1. BatchTargets(I) \in SUBSET Items BY ItemsAssumption DEF BatchTargets
  <2> HIDE DEF I
  <2> QED BY <2>1, BatchAssumption, FS_Subset
<1>6. Limited(L) BY <1>4, HoldsLimited
<1> HIDE DEF L, I, R
<1>7. Cardinality(new) \in Nat /\ Cardinality(new) <= Room(L, j.agent)
  <2>1. Cardinality(new) \in Nat /\ Cardinality(BatchTargets(I)) \in Nat
    BY <1>5, FS_CardinalityType
  <2>2. Cardinality(FixerLeases(L, j.agent)) \in Nat BY <1>4, HoldsFewer
  <2>3. Room(L, j.agent) \in Nat BY <2>2, BatchAssumption DEF Room
  <2> QED BY <1>1, <2>1, <2>3
<1>8. CASE leases' = Granted(R, new, j.agent, j.now, j.bind)
  <2> SUFFICES ASSUME NEW b \in Agents PROVE Cardinality(FixerLeases(leases', b)) <= Limit
    BY DEF Limited
  <2> DEFINE held == Cardinality(FixerLeases(L, b))
             left == Cardinality(FixerLeases(R, b))
             then == Cardinality(FixerLeases(leases', b))
  <2>1. then \in Nat /\ left \in Nat /\ then <= left + Cardinality(new) /\ (b # j.agent => then <= left)
    BY <1>5, <1>8, GrantedAdds
  <2>2. held \in Nat /\ left <= held BY <1>4, HoldsFewer
  <2>3. held <= Limit BY <1>6 DEF Limited
  <2>4. Limit \in Nat BY BatchAssumption
  <2>5. ASSUME b = j.agent PROVE Room(L, j.agent) = IF held >= Limit THEN 0 ELSE Limit - held
    BY <2>5 DEF Room
  <2> HIDE DEF held, left, then
  <2>6. ASSUME b # j.agent PROVE then <= Limit BY <2>1, <2>2, <2>3, <2>4, <2>6
  <2>7. ASSUME b = j.agent PROVE then <= Limit
    <3>1. Cardinality(new) <= IF held >= Limit THEN 0 ELSE Limit - held BY <1>7, <2>5, <2>7
    <3> QED BY <1>7, <2>1, <2>2, <2>3, <2>4, <3>1
  <2> QED BY <2>6, <2>7 DEF then
<1>9. CASE UNCHANGED leases BY <1>9 DEF Limited
<1> QED BY <1>1, <1>8, <1>9

(* Without chunks, no other step grants a lease. *)
LEMMA OthersGrantNothing ==
  ASSUME TypeInv, BatchInv, \A p \in Procs : pc[p] # "chunk", [Next]_vars
  PROVE  (\E p \in Procs : CommitBatch(p)) \/ Holds(leases, leases')
<1>0. leases \in [LeaseIds -> Row] BY DEF TypeInv
<1>a. ASSUME UNCHANGED leases PROVE Holds(leases, leases') BY <1>a DEF Holds
<1>1. ASSUME NEW p \in Procs, Compensate(p) PROVE Holds(leases, leases')
  <2>1. leases' = Closed(leases, {m \in job[p].created : Known(m)}, "deleted")
    BY <1>1 DEF Compensate, Commit, Closed
  <2> QED BY <1>0, <2>1, DeletedHolds
<1>2. ASSUME NEW p \in Procs, SaveBatch(p) PROVE Holds(leases, leases')
  <2>1. CASE p \notin fresh BY <1>2, <1>a, <2>1 DEF SaveBatch
  <2>2. CASE p \in fresh
    <3>1. \E status : leases' = Closed(leases, job[p].targets, status)
      BY <1>2, <2>2 DEF SaveBatch, Closed, Commit
    <3>2. SaveOK(pc[p], job[p], TRUE, leases) BY <2>2 DEF BatchInv
    <3>3. \A m \in job[p].targets : IsActive(leases, m) BY <1>2, <3>2 DEF SaveOK, SaveBatch
    <3> QED BY <1>0, <3>1, <3>3, ClosedFades, FadesHolds
  <2> QED BY <2>1, <2>2
<1>3. ASSUME NEW p \in Procs, RollbackRow(p) PROVE Holds(leases, leases')
  <2>1. UNCHANGED leases
        \/ \E m : leases' = IF IsActive(leases, m) THEN Close(leases, m, "released") ELSE leases
    BY <1>3 DEF RollbackRow, Commit
  <2>2. CASE \E m : leases' = IF IsActive(leases, m) THEN Close(leases, m, "released") ELSE leases
    BY <1>0, <2>2 DEF Holds, Close, IsActive, Row
  <2> QED BY <1>a, <2>1, <2>2
<1>4. ASSUME NEW p \in Procs, WriteRequest(p) \/ WriteFails(p) \/ Unlink(p) \/ PrepareBatch(p)
      PROVE  Holds(leases, leases')
  BY <1>4, <1>a DEF WriteRequest, WriteFails, Unlink, PrepareBatch
<1>5. ASSUME NEW p \in Procs, NEW i \in Items, ClaimMatch(p, i) PROVE FALSE BY <1>5 DEF ClaimMatch
<1>6. ASSUME NEW p \in Procs, BatchStep(p)
      PROVE  CommitBatch(p) \/ Holds(leases, leases')
  BY <1>1, <1>2, <1>3, <1>4, <1>5, <1>6 DEF BatchStep
<1>7. ASSUME NEW p \in Procs, NEW a \in Agents,
             \/ BatchCommand(p, a)
             \/ \E todo \in SUBSET Thread : MatchingCommand(p, a, todo)
             \/ \E rows \in SUBSET LeaseIds : InputCommand(p, a, rows)
      PROVE  Holds(leases, leases')
  BY <1>7, <1>a DEF BatchCommand, MatchingCommand, InputCommand
<1>8. ASSUME NEW p \in Procs, Crash(p) PROVE Holds(leases, leases') BY <1>8, <1>a DEF Crash
<1>9. ASSUME NEW i \in Items, NEW d \in Decisions, Classify(i, d) PROVE Holds(leases, leases')
  BY <1>9, <1>a DEF Classify, Commit
<1>10. CASE ReclaimLeases BY <1>0, <1>10, ExpireFades, FadesHolds DEF ReclaimLeases, Commit
<1>11. CASE Tick \/ Push \/ UNCHANGED vars BY <1>11, <1>a DEF Tick, Push, vars
<1> QED BY <1>6, <1>7, <1>8, <1>9, <1>10, <1>11 DEF Next

(* ... nor starts a chunk. *)
LEMMA NoChunkStarts ==
  ASSUME TypeInv, "matching" \notin Commands, \A p \in Procs : pc[p] # "chunk", [Next]_vars
  PROVE  \A p \in Procs : pc'[p] # "chunk"
<1>1. ASSUME NEW q \in Procs, NEW step, NEW j, Goto(q, step, j), step # "chunk"
      PROVE  \A p \in Procs : pc'[p] # "chunk"
  BY <1>1 DEF Goto, TypeInv
<1>2. ASSUME NEW q \in Procs, Done(q) \/ Fail(q) PROVE \A p \in Procs : pc'[p] # "chunk"
  BY <1>1, <1>2 DEF Done, Fail
<1>3. ASSUME NEW q \in Procs, BatchStep(q) PROVE \A p \in Procs : pc'[p] # "chunk"
  BY <1>1, <1>2, <1>3
     DEF BatchStep, CommitBatch, WriteRequest, WriteFails, Compensate, Unlink, ClaimMatch,
         PrepareBatch, SaveBatch, RollbackRow
<1>4. ASSUME NEW q \in Procs, NEW a \in Agents,
             \/ BatchCommand(q, a)
             \/ \E todo \in SUBSET Thread : MatchingCommand(q, a, todo)
             \/ \E rows \in SUBSET LeaseIds : InputCommand(q, a, rows)
      PROVE  \A p \in Procs : pc'[p] # "chunk"
  BY <1>1, <1>4 DEF BatchCommand, MatchingCommand, InputCommand
<1>5. ASSUME NEW q \in Procs, Crash(q) PROVE \A p \in Procs : pc'[p] # "chunk"
  BY <1>2, <1>5 DEF Crash
<1>6. CASE UNCHANGED pc BY <1>6
<1> QED BY <1>3, <1>4, <1>5, <1>6 DEF Next, Classify, ReclaimLeases, Tick, Push, vars

(* However many batch claims of one agent race, from whatever load, it      *)
(* holds no more fixer leases than MAX_PARALLEL_CLAIMS (commit_batch); only *)
(* agent resolve over matching threads claims without counting.             *)
THEOREM LimitHolds == "matching" \notin Commands => (Spec => []WithinLimit)
<1> SUFFICES ASSUME "matching" \notin Commands PROVE Spec => []WithinLimit OBVIOUS
<1>1. TypeInv /\ BatchInv /\ LimitInv /\ [Next]_vars => LimitInv'
  <2> SUFFICES ASSUME TypeInv, BatchInv, LimitInv, [Next]_vars PROVE LimitInv' OBVIOUS
  <2>1. Limited(leases) /\ \A p \in Procs : pc[p] # "chunk" BY DEF LimitInv
  <2>2. Limited(leases') BY <2>1, OthersGrantNothing, CommitBatchLimited, HoldsLimited
  <2> QED BY <2>1, <2>2, NoChunkStarts DEF LimitInv
<1>2. Init => LimitInv
  <2> SUFFICES ASSUME Init PROVE LimitInv OBVIOUS
  <2>1. \A a \in Agents : FixerLeases(leases, a) = {} BY DEF Init, FixerLeases, IsActive
  <2>2. Limited(leases) BY <2>1, FS_EmptySet, BatchAssumption DEF Limited
  <2>3. \A p \in Procs : pc[p] # "chunk" BY DEF Init
  <2> QED BY <2>2, <2>3 DEF LimitInv
<1>3. LimitInv => WithinLimit BY DEF LimitInv, Limited, WithinLimit
<1> QED BY <1>1, <1>2, <1>3, TypeInvariant, BatchInvariant, PTL DEF Spec
=============================================================================
