------------------------- MODULE ReviewSessionProofs -------------------------
(***************************************************************************)
(* Proofs about ReviewSession: what commands that load, compute and save   *)
(* one session keep of each other's results, what a passed gate asserts,   *)
(* and one reply per thread as long as the workspace is not archived, for  *)
(* every set of threads, findings and processes and every bound.           *)
(***************************************************************************)
EXTENDS ReviewSession, TLAPS

(* The local variables of a command; its item is one of the session's      *)
(* wherever the command has one.                                           *)
JobType ==
  [cmd : AllCommands, item : Items \cup {IdleJob.item}, answer : Answers, its : [Items -> Item],
   read : [Threads -> {"none", "open", "resolved"}], codes : SUBSET Codes, todo : SUBSET Threads,
   tries : Nat, new : BOOLEAN]

Spent == [runs : Nat, events : Nat, faults : Nat]
RowStates == {"none", "tried", "done"}

TypeInv ==
  /\ remote \in [Threads -> Row] /\ external \in SUBSET Waits
  /\ live \in BOOLEAN /\ items \in [Items -> Item]
  /\ rows \in [Threads \X {"reply", "resolve"} -> RowStates]
  /\ fresh \in SUBSET Procs
  /\ pc \in [Procs -> Steps] /\ job \in [Procs -> JobType]
  /\ plan \in Seq(AllCommands) /\ spent \in Spent

(* What holds of every session, committed or in a command's hands: an item *)
(* about to be published and one that was has an accepted answer, a local  *)
(* finding is never published, reply evidence is backed by a comment.      *)
SessionOK(I, R) ==
  \A i \in Items :
    /\ I[i].state = "absent" => I[i].accepted = "none"
    /\ I[i].state = "publish_ready" \/ I[i].resolved => I[i].accepted # "none"
    /\ i \in Findings => I[i].state \notin {"stale", "publish_ready"}
    /\ i \in Threads /\ I[i].reply => R[i].replied

(* Session J keeps what session I has. *)
Kept(I, J) ==
  \A i \in Items :
    /\ I[i].accepted # "none" => J[i].accepted # "none"
    /\ i \in Threads => /\ I[i].reply => J[i].reply
                        /\ I[i].valid => J[i].valid
                        /\ I[i].resolved => J[i].resolved

(* What a gate without a failure code found. *)
Proven(j) ==
  /\ \A t \in Threads : /\ j.read[t] # "open"
                        /\ j.read[t] = "resolved" => j.its[t].reply
  /\ \A i \in Items : ~IsBlocking(i, j.its) /\ ~Unproven(i, j.its)

(* What a command relies on while it runs. *)
ProcOK(step, j, R) ==
  /\ SessionOK(j.its, R)
  /\ step \in {"save", "passed"} /\ j.cmd = "gate" /\ j.codes = {} => Proven(j)
  /\ step = "passed" => j.cmd = "gate" /\ j.codes = {}
  /\ step \in {"classify", "issue", "claim", "accept"} => j.item \in Items
  /\ step \in {"reply", "resolve"} =>
       /\ j.item \in Threads /\ j.its[j.item].accepted # "none"
       /\ \A t \in j.todo : j.its[t].accepted # "none"
  /\ step = "resolve" => R[j.item].replied

(* A command whose load is the latest and that will save has taken nothing *)
(* away; the loaded revision is all that stands between it and a lost      *)
(* update.                                                                 *)
Saving == {"save", "reply", "resolve", "publish_save"}
LoadsOK == \A p \in Procs : p \in fresh /\ pc[p] \in Saving => Kept(items, job[p].its)

ReviewInv ==
  /\ SessionOK(items, remote)
  /\ \A p \in Procs : ProcOK(pc[p], job[p], remote)
  /\ LoadsOK
  /\ \A t \in Threads : rows[<<t, "reply">>] = "done" => remote[t].replied

(* GitHub forgets no comment of the viewer. *)
Grows(R, S) == \A t \in Threads : R[t].replied => S[t].replied

-----------------------------------------------------------------------------
(* Sessions *)

LEMMA NewType == NewItem \in Item
BY DEF NewItem, Item

LEMMA IdleType == IdleJob \in JobType
<1> DEFINE i == CHOOSE x \in Items : TRUE
<1>1. IdleJob.item = i BY DEF IdleJob
<1>2. IdleJob = [cmd |-> "gate", item |-> i, answer |-> "fix",
                 its |-> [x \in Items |-> NewItem], read |-> [t \in Threads |-> "none"],
                 codes |-> {}, todo |-> {}, tries |-> 0, new |-> FALSE]
  BY DEF IdleJob
<1> HIDE DEF i
<1> QED BY <1>1, <1>2, NewType DEF JobType, AllCommands, Answers

LEMMA NewOK == ASSUME NEW R PROVE SessionOK([i \in Items |-> NewItem], R)
BY DEF SessionOK, NewItem

LEMMA IdleOK == ASSUME NEW R PROVE ProcOK("idle", IdleJob, R)
<1>1. IdleJob.its = [i \in Items |-> NewItem] BY DEF IdleJob
<1> QED BY <1>1, NewOK DEF ProcOK

LEMMA GrowsOK ==
  ASSUME NEW I, NEW R, NEW S, SessionOK(I, R), Grows(R, S)
  PROVE  SessionOK(I, S)
BY DEF SessionOK, Grows

LEMMA GrowsProc ==
  ASSUME NEW step, NEW j, NEW R, NEW S, ProcOK(step, j, R), Grows(R, S)
  PROVE  ProcOK(step, j, S)
<1>1. SessionOK(j.its, S) BY GrowsOK DEF ProcOK
<1> QED BY <1>1 DEF ProcOK, Grows

(* One item of a session changes. *)
LEMMA ItemOK ==
  ASSUME NEW I \in [Items -> Item], NEW R, NEW i \in Items, NEW r \in Item, SessionOK(I, R),
         r.state = "absent" => r.accepted = "none",
         r.state = "publish_ready" \/ r.resolved => r.accepted # "none",
         i \in Findings => r.state \notin {"stale", "publish_ready"},
         i \in Threads /\ r.reply => R[i].replied
  PROVE  [I EXCEPT ![i] = r] \in [Items -> Item] /\ SessionOK([I EXCEPT ![i] = r], R)
BY DEF SessionOK

LEMMA ItemKept ==
  ASSUME NEW I \in [Items -> Item], NEW i \in Items, NEW r \in Item,
         I[i].accepted # "none" => r.accepted # "none",
         i \in Threads => /\ I[i].reply => r.reply
                          /\ I[i].valid => r.valid
                          /\ I[i].resolved => r.resolved
  PROVE  Kept(I, [I EXCEPT ![i] = r])
BY DEF Kept

LEMMA KeptSelf == ASSUME NEW I PROVE Kept(I, I)
BY DEF Kept

LEMMA KeptTrans ==
  ASSUME NEW I, NEW J, NEW K, Kept(I, J), Kept(J, K)
  PROVE  Kept(I, K)
BY DEF Kept

(* A refresh takes nothing away, and what it adds is on GitHub. *)
LEMMA MergedStateIs ==
  ASSUME NEW item \in Item, NEW row \in Row
  PROVE  /\ MergedState(item, row) \in {"closed", "publish_ready", "stale", "open"}
         /\ MergedState(item, row) = "publish_ready" => item.accepted # "none"
<1>1. CASE row.st = "resolved" BY <1>1 DEF MergedState
<1>2. CASE row.st # "resolved" /\ item.accepted # "none" BY <1>2 DEF MergedState
<1>3. CASE row.st # "resolved" /\ item.accepted = "none" /\ row.outdated BY <1>3 DEF MergedState
<1>4. CASE row.st # "resolved" /\ item.accepted = "none" /\ ~row.outdated BY <1>4 DEF MergedState
<1> QED BY <1>1, <1>2, <1>3, <1>4

LEMMA MergeOK ==
  ASSUME NEW I \in [Items -> Item], NEW R \in [Threads -> Row], SessionOK(I, R)
  PROVE  Merge(I, R) \in [Items -> Item] /\ SessionOK(Merge(I, R), R) /\ Kept(I, Merge(I, R))
<1> DEFINE M == Merge(I, R)
           At(i) == [I[i] EXCEPT !.state = MergedState(I[i], R[i]), !.reply = @ \/ R[i].replied]
<1>1. \A i \in Items : M[i] = IF i \in Threads /\ R[i].st # "none" THEN At(i) ELSE I[i]
  BY DEF Merge
<1>2. ASSUME NEW i \in Threads
      PROVE  /\ At(i) \in Item /\ At(i).accepted = I[i].accepted /\ At(i).valid = I[i].valid
             /\ At(i).resolved = I[i].resolved
             /\ At(i).state = MergedState(I[i], R[i])
             /\ At(i).reply <=> I[i].reply \/ R[i].replied
  <2>1. I[i] \in Item /\ R[i] \in Row BY DEF Items
  <2>2. MergedState(I[i], R[i]) \in {"closed", "publish_ready", "stale", "open"}
    BY <2>1, MergedStateIs
  <2>3. I[i].reply \/ R[i].replied \in BOOLEAN BY <2>1 DEF Row, Item
  <2> QED BY <2>1, <2>2, <2>3 DEF Item
<1> HIDE DEF At
<1>3. M = [i \in Items |-> M[i]] BY DEF Merge
<1>4. M \in [Items -> Item] BY <1>1, <1>2, <1>3
<1>5. SessionOK(M, R)
  <2> SUFFICES ASSUME NEW i \in Items
               PROVE  /\ M[i].state = "absent" => M[i].accepted = "none"
                      /\ M[i].state = "publish_ready" \/ M[i].resolved => M[i].accepted # "none"
                      /\ i \in Findings => M[i].state \notin {"stale", "publish_ready"}
                      /\ i \in Threads /\ M[i].reply => R[i].replied
    BY DEF SessionOK
  <2>1. CASE i \in Threads /\ R[i].st # "none"
    <3>1. i \notin Findings BY <2>1, ReviewAssumption
    <3>2. M[i] = At(i) BY <1>1, <2>1
    <3>3. /\ MergedState(I[i], R[i]) \in {"closed", "publish_ready", "stale", "open"}
          /\ MergedState(I[i], R[i]) = "publish_ready" => I[i].accepted # "none"
      BY <2>1, MergedStateIs
    <3> QED BY <1>2, <2>1, <3>1, <3>2, <3>3 DEF SessionOK
  <2>2. CASE ~(i \in Threads /\ R[i].st # "none") BY <1>1, <2>2 DEF SessionOK
  <2> QED BY <2>1, <2>2
<1>6. Kept(I, M) BY <1>1, <1>2 DEF Kept
<1> QED BY <1>4, <1>5, <1>6

-----------------------------------------------------------------------------
(* Steps *)

(* A step of one process. *)
LEMMA ProcStep ==
  ASSUME TypeInv, ReviewInv, NEW p \in Procs, NEW step \in Steps, NEW j \in JobType,
         Goto(p, step, j),
         items' \in [Items -> Item], remote' \in [Threads -> Row], Grows(remote, remote'),
         SessionOK(items', remote'), ProcOK(step, j, remote'),
         \/ items' = items /\ fresh' \subseteq fresh \cup {p}
         \/ fresh' = {},
         p \in fresh' /\ step \in Saving => Kept(items', j.its),
         \A t \in Threads : rows'[<<t, "reply">>] = "done" => remote'[t].replied,
         rows' \in [Threads \X {"reply", "resolve"} -> RowStates],
         external' = external, live' \in BOOLEAN, plan' \in Seq(AllCommands), spent' \in Spent
  PROVE  TypeInv' /\ ReviewInv'
<1>1. pc' \in [Procs -> Steps] /\ job' \in [Procs -> JobType] BY DEF Goto, TypeInv
<1>2. fresh' \in SUBSET Procs BY DEF TypeInv
<1>3. TypeInv' BY <1>1, <1>2 DEF TypeInv
<1>4. \A q \in Procs : /\ pc'[q] = IF q = p THEN step ELSE pc[q]
                       /\ job'[q] = IF q = p THEN j ELSE job[q]
  BY DEF Goto, TypeInv
<1>5. ASSUME NEW q \in Procs PROVE ProcOK(pc'[q], job'[q], remote')
  <2>1. CASE q = p BY <1>4, <2>1
  <2>2. CASE q # p
    <3>1. ProcOK(pc[q], job[q], remote) BY DEF ReviewInv
    <3>2. pc'[q] = pc[q] /\ job'[q] = job[q] BY <1>4, <2>2
    <3>3. ProcOK(pc[q], job[q], remote') BY <3>1, GrowsProc
    <3> QED BY <3>2, <3>3
  <2> QED BY <2>1, <2>2
<1>6. ASSUME NEW q \in Procs, q \in fresh', pc'[q] \in Saving PROVE Kept(items', job'[q].its)
  <2>1. CASE q = p BY <1>4, <1>6, <2>1
  <2>2. CASE q # p
    <3>1. q \in fresh /\ items' = items BY <1>6, <2>2
    <3>2. pc'[q] = pc[q] /\ job'[q] = job[q] BY <1>4, <2>2
    <3> QED BY <1>6, <3>1, <3>2 DEF ReviewInv, LoadsOK
  <2> QED BY <2>1, <2>2
<1>7. LoadsOK' BY <1>6 DEF LoadsOK
<1> QED BY <1>3, <1>5, <1>7 DEF ReviewInv

(* A step that leaves GitHub and the store alone. *)
LEMMA QuietStep ==
  ASSUME TypeInv, ReviewInv, NEW p \in Procs, NEW step \in Steps, NEW j \in JobType,
         Goto(p, step, j), ProcOK(step, j, remote), UNCHANGED <<outside, store>>,
         p \in fresh /\ step \in Saving => Kept(items, j.its),
         plan' \in Seq(AllCommands), spent' \in Spent
  PROVE  TypeInv' /\ ReviewInv'
<1>1. UNCHANGED <<remote, external, live, items, rows, fresh>> BY DEF outside, store
<1>2. Grows(remote, remote) BY DEF Grows
<1> QED BY <1>1, <1>2, ProcStep DEF TypeInv, ReviewInv

(* A step that commits a session. *)
LEMMA CommitStep ==
  ASSUME TypeInv, ReviewInv, NEW p \in Procs, NEW step \in Steps, NEW j \in JobType,
         Goto(p, step, j), ProcOK(step, j, remote), NEW I \in [Items -> Item], Commit(I),
         SessionOK(I, remote), UNCHANGED <<outside, rows>>,
         live' \in BOOLEAN, plan' \in Seq(AllCommands), spent' \in Spent
  PROVE  TypeInv' /\ ReviewInv'
<1>1. UNCHANGED <<remote, external, rows>> /\ items' = I /\ fresh' = {} BY DEF outside, Commit
<1>2. Grows(remote, remote) BY DEF Grows
<1> QED BY <1>1, <1>2, ProcStep DEF TypeInv, ReviewInv

(* The end of a command. *)
LEMMA QuietEnd ==
  ASSUME TypeInv, ReviewInv, NEW p \in Procs, Done(p), UNCHANGED <<outside, store>>,
         plan' \in Seq(AllCommands), spent' \in Spent
  PROVE  TypeInv' /\ ReviewInv'
<1>1. Goto(p, "idle", IdleJob) /\ "idle" \in Steps /\ "idle" \notin Saving
  BY DEF Done, Steps, Saving
<1> QED BY <1>1, IdleOK, IdleType, QuietStep

LEMMA CommitEnd ==
  ASSUME TypeInv, ReviewInv, NEW p \in Procs, Done(p), NEW I \in [Items -> Item], Commit(I),
         SessionOK(I, remote), UNCHANGED <<outside, rows>>,
         live' \in BOOLEAN, plan' \in Seq(AllCommands), spent' \in Spent
  PROVE  TypeInv' /\ ReviewInv'
<1>1. Goto(p, "idle", IdleJob) /\ "idle" \in Steps BY DEF Done, Steps
<1> QED BY <1>1, IdleOK, IdleType, CommitStep

(* What starting a command takes from the plan and the budget. *)
LEMMA StartedType ==
  ASSUME TypeInv, NEW p \in Procs, Started(p)
  PROVE  plan' \in Seq(AllCommands) /\ spent' \in Spent
<1>1. plan # <<>> => Tail(plan) \in Seq(AllCommands) BY DEF TypeInv
<1>2. <<>> \in Seq(AllCommands) OBVIOUS
<1>3. spent' = spent \/ spent' = [spent EXCEPT !.runs = @ + 1] BY DEF Started
<1>4. spent' \in Spent BY <1>3 DEF TypeInv, Spent
<1>5. plan' \in Seq(AllCommands) BY <1>1, <1>2 DEF Started, TypeInv
<1> QED BY <1>4, <1>5

LEMMA FaultType ==
  ASSUME TypeInv, spent' = [spent EXCEPT !.faults = @ + 1]
  PROVE  spent' \in Spent
BY DEF TypeInv, Spent

(* A command whose local variables are those of an idle one but for its     *)
(* name, its item and its answer.                                           *)
LEMMA StartJob ==
  ASSUME NEW cmd \in AllCommands, NEW i \in Items, NEW a \in Answers, NEW R
  PROVE  LET j == [IdleJob EXCEPT !.cmd = cmd, !.item = i, !.answer = a]
         IN  /\ j \in JobType /\ ProcOK("classify", j, R)
<1> DEFINE j == [IdleJob EXCEPT !.cmd = cmd, !.item = i, !.answer = a]
<1>1. j \in JobType BY IdleType DEF JobType
<1>2. j.its = IdleJob.its /\ j.item = i BY IdleType DEF JobType
<1>3. SessionOK(IdleJob.its, R) BY IdleOK DEF ProcOK
<1> HIDE DEF j
<1>4. ProcOK("classify", j, R) BY <1>2, <1>3 DEF ProcOK
<1> QED BY <1>1, <1>4 DEF j

-----------------------------------------------------------------------------
(* Commands that load, compute and save *)

(* A gate without failure codes found nothing open, blocking or unproven. *)
LEMMA NoCodes ==
  ASSUME NEW I, NEW read, NEW ext, GateCodes(I, read, ext) = {}
  PROVE  /\ \A t \in Threads : /\ read[t].st # "open"
                               /\ read[t].st = "resolved" => I[t].reply
         /\ \A i \in Items : ~IsBlocking(i, I) /\ ~Unproven(i, I)
<1>1. ASSUME NEW c \in Codes PROVE c \notin GateCodes(I, read, ext) OBVIOUS
<1>2. {"threads", "reply", "items", "local", "logic"} \subseteq Codes BY DEF Codes
<1>3. "threads" \notin GateCodes(I, read, ext) /\ "reply" \notin GateCodes(I, read, ext)
  BY <1>1, <1>2
<1>4. "items" \notin GateCodes(I, read, ext) /\ "local" \notin GateCodes(I, read, ext)
      /\ "logic" \notin GateCodes(I, read, ext)
  BY <1>1, <1>2
<1>5. \A t \in Threads : read[t].st # "open" BY <1>2, <1>3 DEF GateCodes
<1>6. \A t \in Threads : read[t].st = "resolved" => I[t].reply BY <1>2, <1>3 DEF GateCodes
<1>7. \A t \in Threads : ~IsBlocking(t, I) BY <1>2, <1>4 DEF GateCodes
<1>8. \A f \in Findings : ~IsBlocking(f, I) BY <1>2, <1>4 DEF GateCodes
<1>9. \A i \in Items : ~Unproven(i, I) BY <1>2, <1>4 DEF GateCodes
<1> QED BY <1>5, <1>6, <1>7, <1>8, <1>9 DEF Items

(* What a load-compute-save command computes is backed and takes nothing    *)
(* from the session it loaded.                                              *)
LEMMA ComputedOK ==
  ASSUME TypeInv, ReviewInv, NEW p, NEW cmd \in LoadSaves, NEW i,
         cmd \in {"address", "gate"} \/ i \in Items,
         Applies(cmd, i), i \in Threads => Truthful(cmd, i)
  PROVE  LET I == Computed(p, cmd, i)
         IN  I \in [Items -> Item] /\ SessionOK(I, remote) /\ Kept(items, I)
<1> DEFINE I == Computed(p, cmd, i)
<1> items \in [Items -> Item] /\ SessionOK(items, remote) BY DEF TypeInv, ReviewInv
<1>1. CASE cmd \in {"address", "gate"}
  <2>1. I = Merge(items, remote) BY <1>1 DEF Computed
  <2> HIDE DEF I
  <2> QED BY <2>1, MergeOK DEF TypeInv, I
<1>2. CASE cmd = "reply_evidence"
  <2> DEFINE r == [items[i] EXCEPT !.reply = TRUE]
  <2>1. i \in Threads /\ i \in Items /\ items[i].state # "absent" /\ remote[i].replied
    BY <1>2 DEF Applies, Truthful
  <2>2. r \in Item /\ r = [items[i] EXCEPT !.reply = TRUE] BY <2>1 DEF Item
  <2>3. /\ r.accepted = items[i].accepted /\ r.state = items[i].state /\ r.reply = TRUE
        /\ r.valid = items[i].valid /\ r.resolved = items[i].resolved
    BY <2>1 DEF Item
  <2>4. I = [items EXCEPT ![i] = r] BY <1>2 DEF Computed, RecordReplyEvidence
  <2> HIDE DEF r, I
  <2>5. [items EXCEPT ![i] = r] \in [Items -> Item] /\ SessionOK([items EXCEPT ![i] = r], remote)
    BY <2>1, <2>2, <2>3, ItemOK DEF SessionOK
  <2>6. Kept(items, [items EXCEPT ![i] = r]) BY <2>1, <2>2, <2>3, ItemKept
  <2> QED BY <2>4, <2>5, <2>6 DEF I
<1>3. CASE cmd = "validation"
  <2> DEFINE r == [items[i] EXCEPT !.valid = TRUE]
  <2>1. i \in Items BY <1>3
  <2>2. r \in Item BY <2>1 DEF Item
  <2>3. /\ r.accepted = items[i].accepted /\ r.state = items[i].state /\ r.valid = TRUE
        /\ r.reply = items[i].reply /\ r.resolved = items[i].resolved
    BY <2>1 DEF Item
  <2>4. I = [items EXCEPT ![i] = r] BY <1>3 DEF Computed, RecordValidationEvidence
  <2> HIDE DEF r, I
  <2>5. [items EXCEPT ![i] = r] \in [Items -> Item] /\ SessionOK([items EXCEPT ![i] = r], remote)
    BY <2>1, <2>2, <2>3, ItemOK DEF SessionOK
  <2>6. Kept(items, [items EXCEPT ![i] = r]) BY <2>1, <2>2, <2>3, ItemKept
  <2> QED BY <2>4, <2>5, <2>6 DEF I
<1>4. CASE cmd = "findings"
  <2> DEFINE r == [items[i] EXCEPT !.state = "open"]
  <2>1. i \in Items /\ i \in Findings BY <1>4 DEF Applies
  <2>2. r \in Item BY <2>1 DEF Item
  <2>3. /\ r.accepted = items[i].accepted /\ r.state = "open" /\ r.valid = items[i].valid
        /\ r.reply = items[i].reply /\ r.resolved = items[i].resolved
    BY <2>1 DEF Item
  <2>4. I = [items EXCEPT ![i] = r] BY <1>4 DEF Computed, IngestFinding
  <2> HIDE DEF r, I
  <2>5. [items EXCEPT ![i] = r] \in [Items -> Item] /\ SessionOK([items EXCEPT ![i] = r], remote)
    BY <2>1, <2>2, <2>3, ItemOK DEF SessionOK
  <2>6. Kept(items, [items EXCEPT ![i] = r]) BY <2>1, <2>2, <2>3, ItemKept
  <2> QED BY <2>4, <2>5, <2>6 DEF I
<1> QED BY <1>1, <1>2, <1>3, <1>4 DEF LoadSaves

(* A load and what is computed from it. *)
LEMMA LoadStep ==
  ASSUME TypeInv, ReviewInv, NEW p \in Procs, NEW cmd \in LoadSaves, NEW tries \in Nat,
         NEW i \in Items \cup {IdleJob.item}, cmd \in {"address", "gate"} \/ i \in Items,
         Applies(cmd, i), i \in Threads => Truthful(cmd, i),
         LoadCompute(p, cmd, i, tries), UNCHANGED <<outside, live, items, rows>>,
         plan' \in Seq(AllCommands), spent' \in Spent
  PROVE  TypeInv' /\ ReviewInv'
<1> DEFINE I == Computed(p, cmd, i)
           codes == IF cmd = "gate" THEN GateCodes(I, remote, external) ELSE {}
           read == IF cmd = "gate" THEN [t \in Threads |-> remote[t].st]
                   ELSE [t \in Threads |-> "none"]
           j == [IdleJob EXCEPT !.cmd = cmd, !.item = i, !.its = I, !.tries = tries,
                                !.new = ~live, !.codes = codes, !.read = read]
<1>1. Goto(p, "save", j) /\ fresh' = fresh \cup {p} BY DEF LoadCompute
<1>2. I \in [Items -> Item] /\ SessionOK(I, remote) /\ Kept(items, I) BY ComputedOK
<1>3. codes \in SUBSET Codes BY DEF GateCodes
<1>4. read \in [Threads -> {"none", "open", "resolved"}] BY DEF TypeInv, Row
<1>5. cmd \in AllCommands BY DEF LoadSaves, AllCommands
<1>6. cmd = "gate" /\ codes = {} => GateCodes(I, remote, external) = {} OBVIOUS
<1>7. cmd = "gate" => \A t \in Threads : read[t] = remote[t].st OBVIOUS
<1> HIDE DEF I, codes, read
<1>8. j \in JobType /\ j.its = I /\ j.cmd = cmd /\ j.codes = codes /\ j.read = read
  BY <1>2, <1>3, <1>4, <1>5, IdleType DEF JobType, TypeInv
<1> HIDE DEF j
<1>9. cmd = "gate" /\ codes = {} => Proven(j)
  <2> HAVE cmd = "gate" /\ codes = {}
  <2>1. /\ \A t \in Threads : /\ remote[t].st # "open"
                              /\ remote[t].st = "resolved" => I[t].reply
        /\ \A x \in Items : ~IsBlocking(x, I) /\ ~Unproven(x, I)
    BY <1>6, NoCodes
  <2> QED BY <1>7, <1>8, <2>1 DEF Proven
<1>10. ProcOK("save", j, remote) BY <1>2, <1>8, <1>9 DEF ProcOK
<1>11. UNCHANGED <<remote, external, live, items, rows>> BY DEF outside
<1>12. Grows(remote, remote) /\ "save" \in Steps BY DEF Grows, Steps
<1> QED BY <1>1, <1>2, <1>8, <1>10, <1>11, <1>12, ProcStep DEF TypeInv, ReviewInv

LEMMA LoadSaveOK ==
  ASSUME TypeInv, ReviewInv, NEW p \in Procs, NEW cmd \in LoadSaves, NEW i \in Items,
         StartLoadSave(p, cmd, i)
  PROVE  TypeInv' /\ ReviewInv'
<1>1. plan' \in Seq(AllCommands) /\ spent' \in Spent BY StartedType DEF StartLoadSave
<1> QED BY <1>1, LoadStep DEF StartLoadSave

(* What the gate tells the agent to run are commands. *)
LEMMA NextActionType == ASSUME NEW codes PROVE NextAction(codes) \in Seq(AllCommands)
<1> DEFINE r == Reason(codes)
<1>1. /\ <<>> \in Seq(AllCommands) /\ <<"address", "resolve", "publish">> \in Seq(AllCommands)
      /\ <<"closed">> \in Seq(AllCommands) /\ <<"local">> \in Seq(AllCommands)
      /\ <<"validation">> \in Seq(AllCommands)
  BY DEF AllCommands
<1>2. CASE codes = {} BY <1>1, <1>2 DEF NextAction
<1>3. CASE codes # {} /\ r \in {"threads", "items"} BY <1>1, <1>3 DEF NextAction
<1>4. CASE codes # {} /\ r = "reply" BY <1>1, <1>4 DEF NextAction
<1>5. CASE codes # {} /\ r = "local" BY <1>1, <1>5 DEF NextAction
<1>6. CASE codes # {} /\ r \in {"validation", "logic"} BY <1>1, <1>6 DEF NextAction
<1>7. CASE codes # {} /\ r \notin {"threads", "items", "reply", "local", "validation", "logic"}
  BY <1>1, <1>7 DEF NextAction
<1> QED BY <1>2, <1>3, <1>4, <1>5, <1>6, <1>7

(* The save of a command whose load is no longer the latest is refused, or, *)
(* for a gate, repeated; the first save into a new workspace takes any.     *)
LEMMA SaveOK == ASSUME TypeInv, ReviewInv, NEW p \in Procs, Save(p) PROVE TypeInv' /\ ReviewInv'
<1> DEFINE j == job[p]
<1>1. j \in JobType /\ pc[p] = "save" BY DEF TypeInv, Save
<1>2. j.its \in [Items -> Item] /\ ProcOK("save", j, remote) BY <1>1 DEF JobType, ReviewInv
<1>3. SessionOK(j.its, remote) BY <1>2 DEF ProcOK
<1>4. UNCHANGED <<outside, rows>> /\ spent' \in Spent BY DEF Save, TypeInv
<1>5. plan' \in Seq(AllCommands)
  <2>1. NextAction(j.codes) \in Seq(AllCommands) BY NextActionType
  <2> QED BY <2>1 DEF Save, TypeInv
<1>6. CASE MaySave(p)
  <2>1. Commit(j.its) /\ live' \in BOOLEAN BY <1>6 DEF Save
  <2>2. CASE j.cmd = "gate" /\ j.codes = {}
    <3>1. Goto(p, "passed", j) /\ "passed" \in Steps BY <1>6, <2>2 DEF Save, Steps
    <3>2. ProcOK("passed", j, remote) BY <1>2, <2>2 DEF ProcOK
    <3> QED BY <1>1, <1>2, <1>3, <1>4, <1>5, <2>1, <3>1, <3>2, CommitStep
  <2>3. CASE ~(j.cmd = "gate" /\ j.codes = {})
    <3>1. Done(p) BY <1>6, <2>3 DEF Save
    <3> QED BY <1>2, <1>3, <1>4, <1>5, <2>1, <3>1, CommitEnd
  <2> QED BY <2>2, <2>3
<1>7. CASE ~MaySave(p)
  <2>1. UNCHANGED <<items, live>> BY <1>7 DEF Save
  <2>2. CASE LoadCompute(p, "gate", j.item, j.tries + 1)
    <3>1. j.item \in Items \cup {IdleJob.item} /\ j.tries + 1 \in Nat BY <1>1 DEF JobType
    <3>2. "gate" \in LoadSaves /\ Applies("gate", j.item) /\ Truthful("gate", j.item)
      BY DEF LoadSaves, Applies, Truthful
    <3> QED BY <1>4, <1>5, <2>1, <2>2, <3>1, <3>2, LoadStep
  <2>3. CASE Done(p) /\ UNCHANGED fresh
    BY <1>4, <1>5, <2>1, <2>3, QuietEnd DEF store
  <2> QED BY <1>7, <2>2, <2>3 DEF Save
<1> QED BY <1>6, <1>7

-----------------------------------------------------------------------------
(* Commands that answer an item *)

(* What a transaction may make of an item. *)
Sound(i, r) ==
  /\ r \in Item
  /\ r.state = "absent" => r.accepted = "none"
  /\ r.state = "publish_ready" \/ r.resolved => r.accepted # "none"
  /\ i \in Findings => r.state \notin {"stale", "publish_ready"}
  /\ i \in Threads /\ r.reply => remote[i].replied

(* An item whose state, classification or holder changes. *)
LEMMA SoundOf ==
  ASSUME TypeInv, ReviewInv, NEW i \in Items, NEW r \in Item,
         r.accepted = items[i].accepted, r.resolved = items[i].resolved, r.reply = items[i].reply,
         \/ r.state \in {"open", "claimed"}
         \/ r.state = items[i].state
  PROVE  Sound(i, r)
BY DEF Sound, ReviewInv, SessionOK, TypeInv

LEMMA ChangeStep ==
  ASSUME TypeInv, ReviewInv, NEW p \in Procs, NEW step \in Steps, NEW j \in JobType,
         Goto(p, step, j), ProcOK(step, j, remote), NEW i \in Items, NEW r, Sound(i, r),
         Change(i, r), UNCHANGED <<outside, live, rows>>,
         plan' \in Seq(AllCommands), spent' \in Spent
  PROVE  TypeInv' /\ ReviewInv'
<1> DEFINE I == [items EXCEPT ![i] = r]
<1>1. I \in [Items -> Item] /\ SessionOK(I, remote) BY ItemOK DEF Sound, TypeInv, ReviewInv
<1>2. Commit(I) /\ live' \in BOOLEAN /\ UNCHANGED <<outside, rows>> BY DEF Change, TypeInv
<1> HIDE DEF I
<1> QED BY <1>1, <1>2, CommitStep

LEMMA ChangeEnd ==
  ASSUME TypeInv, ReviewInv, NEW p \in Procs, Done(p), NEW i \in Items, NEW r, Sound(i, r),
         Change(i, r), UNCHANGED <<outside, live, rows>>,
         plan' \in Seq(AllCommands), spent' \in Spent
  PROVE  TypeInv' /\ ReviewInv'
<1>1. Goto(p, "idle", IdleJob) /\ "idle" \in Steps BY DEF Done, Steps
<1> QED BY <1>1, IdleOK, IdleType, ChangeStep

LEMMA AnswerOK ==
  ASSUME TypeInv, ReviewInv, NEW p \in Procs, NEW i \in Items, NEW a \in Answers,
         StartAnswer(p, i, a)
  PROVE  TypeInv' /\ ReviewInv'
<1> DEFINE cmd == IF i \in Threads THEN "resolve" ELSE "local"
           j == [IdleJob EXCEPT !.cmd = cmd, !.item = i, !.answer = a]
<1>1. cmd \in AllCommands BY DEF AllCommands
<1>2. Goto(p, "classify", j) /\ UNCHANGED <<outside, store>> /\ Started(p) BY DEF StartAnswer
<1> HIDE DEF cmd
<1>3. j \in JobType /\ ProcOK("classify", j, remote) BY <1>1, StartJob
<1>4. "classify" \in Steps /\ "classify" \notin Saving BY DEF Steps, Saving
<1> HIDE DEF j
<1> QED BY <1>2, <1>3, <1>4, StartedType, QuietStep

LEMMA ReopenOK ==
  ASSUME TypeInv, ReviewInv, NEW p \in Procs, NEW t \in Threads, NEW a \in Answers,
         Reopen(p, t, a)
  PROVE  TypeInv' /\ ReviewInv'
<1> DEFINE j == [IdleJob EXCEPT !.cmd = "closed", !.item = t, !.answer = a]
           r == [items[t] EXCEPT !.state = "open"]
<1>1. "closed" \in AllCommands /\ t \in Items BY DEF AllCommands, Items
<1>2. /\ Goto(p, "classify", j) /\ Change(t, r)
      /\ UNCHANGED <<outside, live, rows>> /\ Started(p)
  BY DEF Reopen
<1>3. j \in JobType /\ ProcOK("classify", j, remote) BY <1>1, StartJob
<1>4. "classify" \in Steps BY DEF Steps
<1>5. items[t] \in Item BY <1>1 DEF TypeInv
<1>6. r \in Item /\ r.accepted = items[t].accepted /\ r.resolved = items[t].resolved
      /\ r.reply = items[t].reply /\ r.state = "open"
  BY <1>5 DEF Item
<1> HIDE DEF j, r
<1>7. Sound(t, r) BY <1>1, <1>6, SoundOf
<1> QED BY <1>1, <1>2, <1>3, <1>4, <1>7, StartedType, ChangeStep

LEMMA ClassifyOK ==
  ASSUME TypeInv, ReviewInv, NEW p \in Procs, Classify(p) PROVE TypeInv' /\ ReviewInv'
<1> DEFINE j == job[p]
           i == j.item
           r == [items[i] EXCEPT !.decision = Decision(j.answer)]
<1>1. j \in JobType /\ ProcOK("classify", j, remote) BY DEF TypeInv, ReviewInv, Classify
<1>2. i \in Items BY <1>1 DEF ProcOK
<1>3. /\ UNCHANGED <<outside, live, rows>> /\ plan' \in Seq(AllCommands) /\ spent' \in Spent
  BY DEF Classify, TypeInv
<1>4. CASE Change(i, r) /\ Goto(p, "issue", j)
  <2>1. Decision(j.answer) \in {"fix", "explain"} BY DEF Decision
  <2>2. items[i] \in Item BY <1>2 DEF TypeInv
  <2>3. /\ r \in Item /\ r.accepted = items[i].accepted /\ r.resolved = items[i].resolved
        /\ r.reply = items[i].reply /\ r.state = items[i].state
    BY <2>1, <2>2 DEF Item
  <2> HIDE DEF r
  <2>4. Sound(i, r) BY <1>2, <2>3, SoundOf
  <2>5. ProcOK("issue", j, remote) /\ "issue" \in Steps BY <1>1 DEF ProcOK, Steps
  <2> QED BY <1>1, <1>2, <1>3, <1>4, <2>4, <2>5, ChangeStep
<1>5. CASE Done(p) /\ UNCHANGED <<items, fresh>> BY <1>3, <1>5, QuietEnd DEF store
<1> QED BY <1>4, <1>5 DEF Classify

LEMMA IssueOK ==
  ASSUME TypeInv, ReviewInv, NEW p \in Procs, Issue(p) PROVE TypeInv' /\ ReviewInv'
<1>1. job[p] \in JobType /\ ProcOK("issue", job[p], remote) BY DEF TypeInv, ReviewInv, Issue
<1>2. /\ UNCHANGED <<outside, store>> /\ plan' \in Seq(AllCommands) /\ spent' \in Spent
  BY DEF Issue, TypeInv
<1>3. ProcOK("claim", job[p], remote) /\ "claim" \in Steps /\ "claim" \notin Saving
  BY <1>1 DEF ProcOK, Steps, Saving
<1>4. Done(p) \/ Goto(p, "claim", job[p]) BY DEF Issue
<1> QED BY <1>1, <1>2, <1>3, <1>4, QuietEnd, QuietStep

LEMMA ClaimOK ==
  ASSUME TypeInv, ReviewInv, NEW p \in Procs, Claim(p) PROVE TypeInv' /\ ReviewInv'
<1> DEFINE j == job[p]
           i == j.item
           r == [items[i] EXCEPT !.state = "claimed", !.holder = p]
<1>1. j \in JobType /\ ProcOK("claim", j, remote) BY DEF TypeInv, ReviewInv, Claim
<1>2. i \in Items BY <1>1 DEF ProcOK
<1>3. /\ UNCHANGED <<outside, live, rows>> /\ plan' \in Seq(AllCommands) /\ spent' \in Spent
  BY DEF Claim, TypeInv
<1>4. CASE Change(i, r) /\ Goto(p, "accept", j)
  <2>1. items[i] \in Item BY <1>2 DEF TypeInv
  <2>2. /\ r \in Item /\ r.accepted = items[i].accepted /\ r.resolved = items[i].resolved
        /\ r.reply = items[i].reply /\ r.state = "claimed"
    BY <2>1 DEF Item
  <2> HIDE DEF r
  <2>3. Sound(i, r) BY <1>2, <2>2, SoundOf
  <2>4. ProcOK("accept", j, remote) /\ "accept" \in Steps BY <1>1 DEF ProcOK, Steps
  <2> QED BY <1>1, <1>2, <1>3, <1>4, <2>3, <2>4, ChangeStep
<1>5. CASE Done(p) /\ UNCHANGED <<items, fresh>> BY <1>3, <1>5, QuietEnd DEF store
<1> QED BY <1>4, <1>5 DEF Claim

LEMMA AnsweredSound ==
  ASSUME TypeInv, ReviewInv, NEW i \in Items, NEW a \in Answers PROVE Sound(i, Answered(i, a))
<1> DEFINE r == [items[i] EXCEPT !.state = "publish_ready", !.accepted = a, !.holder = Nobody]
           s == IF a = "explain" THEN "answered" ELSE "closed"
           v == (a = "fix")
           f == [items[i] EXCEPT !.state = s, !.valid = v, !.holder = Nobody]
<1>1. items[i] \in Item BY DEF TypeInv
<1>2. SessionOK(items, remote) BY DEF ReviewInv
<1>3. CASE i \in Threads
  <2>1. i \notin Findings BY <1>3, ReviewAssumption
  <2>2. a \in {"none"} \cup Answers /\ a # "none" BY DEF Answers
  <2>3. /\ r \in Item /\ r.state = "publish_ready" /\ r.accepted = a
        /\ r.reply = items[i].reply
    BY <1>1, <2>2 DEF Item
  <2>4. Answered(i, a) = r BY <1>3 DEF Answered
  <2> HIDE DEF r
  <2> QED BY <1>2, <2>1, <2>2, <2>3, <2>4 DEF Sound, SessionOK
<1>4. CASE i \notin Threads
  <2>1. s \in {"answered", "closed"} /\ v \in BOOLEAN OBVIOUS
  <2>2. Answered(i, a) = f BY <1>4 DEF Answered
  <2> HIDE DEF s, v
  <2>3. /\ f \in Item /\ f.state = s /\ f.accepted = items[i].accepted
        /\ f.resolved = items[i].resolved
    BY <1>1, <2>1 DEF Item
  <2> HIDE DEF f
  <2> QED BY <1>2, <1>4, <2>1, <2>2, <2>3 DEF Sound, SessionOK
<1> QED BY <1>3, <1>4

LEMMA AcceptOK ==
  ASSUME TypeInv, ReviewInv, NEW p \in Procs, Accept(p) PROVE TypeInv' /\ ReviewInv'
<1> DEFINE j == job[p]
           i == j.item
<1>1. j \in JobType /\ ProcOK("accept", j, remote) BY DEF TypeInv, ReviewInv, Accept
<1>2. i \in Items BY <1>1 DEF ProcOK
<1>3. /\ UNCHANGED <<outside, live, rows>> /\ plan' \in Seq(AllCommands) /\ spent' \in Spent
  BY DEF Accept, TypeInv
<1>4. CASE Change(i, Answered(i, j.answer)) /\ (Goto(p, "publish", j) \/ Done(p))
  <2>1. Sound(i, Answered(i, j.answer)) BY <1>1, <1>2, AnsweredSound DEF JobType
  <2>2. ProcOK("publish", j, remote) /\ "publish" \in Steps BY <1>1 DEF ProcOK, Steps
  <2>3. CASE Done(p) BY <1>2, <1>3, <1>4, <2>1, <2>3, ChangeEnd
  <2>4. CASE Goto(p, "publish", j) BY <1>1, <1>2, <1>3, <1>4, <2>1, <2>2, <2>4, ChangeStep
  <2> QED BY <1>4, <2>3, <2>4
<1>5. CASE Done(p) /\ UNCHANGED <<items, fresh>> BY <1>3, <1>5, QuietEnd DEF store
<1> QED BY <1>4, <1>5 DEF Accept

LEMMA RejectedOK ==
  ASSUME TypeInv, ReviewInv, NEW p \in Procs, Rejected(p) PROVE TypeInv' /\ ReviewInv'
<1> DEFINE i == job[p].item
           r == [items[i] EXCEPT !.state = "open", !.holder = Nobody]
<1>1. i \in Items BY DEF Rejected, ReviewInv, ProcOK
<1>2. /\ Change(i, r) /\ Done(p) /\ UNCHANGED <<outside, live, rows>>
      /\ plan' \in Seq(AllCommands)
  BY DEF Rejected, TypeInv
<1>3. items[i] \in Item /\ spent' \in Spent BY <1>1, FaultType DEF TypeInv, Rejected
<1>4. /\ r \in Item /\ r.accepted = items[i].accepted /\ r.resolved = items[i].resolved
      /\ r.reply = items[i].reply /\ r.state = "open"
  BY <1>3 DEF Item
<1> HIDE DEF r
<1>5. Sound(i, r) BY <1>1, <1>4, SoundOf
<1> QED BY <1>1, <1>2, <1>3, <1>5, ChangeEnd

LEMMA ExpireOK ==
  ASSUME TypeInv, ReviewInv, NEW i \in Items, Expire(i) PROVE TypeInv' /\ ReviewInv'
<1> DEFINE r == [items[i] EXCEPT !.state = "open", !.holder = Nobody]
<1>1. Agent \in Procs BY ReviewAssumption
<1>2. /\ Change(i, r) /\ UNCHANGED <<outside, live, rows>>
      /\ plan' \in Seq(AllCommands) /\ spent' \in Spent
  BY DEF Expire, TypeInv
<1>3. items[i] \in Item BY DEF TypeInv
<1>4. /\ r \in Item /\ r.accepted = items[i].accepted /\ r.resolved = items[i].resolved
      /\ r.reply = items[i].reply /\ r.state = "open"
  BY <1>3 DEF Item
<1> HIDE DEF r
<1>5. Sound(i, r) BY <1>4, SoundOf
<1>6. /\ pc[Agent] \in Steps /\ job[Agent] \in JobType
      /\ ProcOK(pc[Agent], job[Agent], remote)
  BY <1>1 DEF TypeInv, ReviewInv
<1>7. Goto(Agent, pc[Agent], job[Agent]) BY <1>1 DEF Expire, Goto, TypeInv
<1> QED BY <1>1, <1>2, <1>5, <1>6, <1>7, ChangeStep

-----------------------------------------------------------------------------
(* Publishing *)

LEMMA StartPublishOK ==
  ASSUME TypeInv, ReviewInv, NEW p \in Procs, StartPublish(p) PROVE TypeInv' /\ ReviewInv'
<1> DEFINE j == [IdleJob EXCEPT !.cmd = "publish"]
<1>1. j \in JobType /\ j.its = IdleJob.its BY IdleType DEF JobType, AllCommands
<1>2. Goto(p, "publish", j) /\ UNCHANGED <<outside, store>> /\ Started(p) BY DEF StartPublish
<1> HIDE DEF j
<1>3. ProcOK("publish", j, remote) BY <1>1, IdleOK DEF ProcOK
<1>4. "publish" \in Steps /\ "publish" \notin Saving BY DEF Steps, Saving
<1> QED BY <1>1, <1>2, <1>3, <1>4, StartedType, QuietStep

(* A publish whose session is backed goes on to its next thread, or to its  *)
(* save.                                                                    *)
LEMMA NextThreadIs ==
  ASSUME NEW p \in Procs, NEW j \in JobType, NEW R, NextThread(p, j), SessionOK(j.its, R),
         \A t \in j.todo : j.its[t].accepted # "none"
  PROVE  \E step \in {"reply", "publish_save"}, k \in JobType :
           Goto(p, step, k) /\ ProcOK(step, k, R) /\ k.its = j.its
<1>1. CASE j.todo = {}
  <2>1. Goto(p, "publish_save", j) BY <1>1 DEF NextThread
  <2>2. ProcOK("publish_save", j, R) BY DEF ProcOK
  <2> QED BY <2>1, <2>2
<1>2. CASE j.todo # {}
  <2>1. PICK t \in j.todo : Goto(p, "reply", [j EXCEPT !.item = t]) BY <1>2 DEF NextThread
  <2> DEFINE k == [j EXCEPT !.item = t]
  <2>2. t \in Threads /\ t \in Items BY DEF JobType, Items
  <2>3. k \in JobType /\ k.its = j.its /\ k.todo = j.todo /\ k.item = t BY <2>2 DEF JobType
  <2>4. Goto(p, "reply", k) BY <2>1
  <2> HIDE DEF k
  <2>5. ProcOK("reply", k, R) BY <2>2, <2>3 DEF ProcOK
  <2> QED BY <2>3, <2>4, <2>5
<1> QED BY <1>1, <1>2

LEMMA SavingSteps == {"reply", "publish_save", "resolve"} \subseteq Steps
BY DEF Steps

LEMMA PublishOK ==
  ASSUME TypeInv, ReviewInv, NEW p \in Procs, Publish(p) PROVE TypeInv' /\ ReviewInv'
<1> DEFINE j == [job[p] EXCEPT !.its = items, !.todo = PublishReady]
<1>1. /\ UNCHANGED <<outside, live, items, rows>>
      /\ plan' \in Seq(AllCommands) /\ spent' \in Spent
  BY DEF Publish, TypeInv
<1>2. CASE Done(p) /\ UNCHANGED fresh BY <1>1, <1>2, QuietEnd DEF store
<1>3. CASE NextThread(p, j) /\ fresh' = fresh \cup {p}
  <2>1. job[p] \in JobType /\ items \in [Items -> Item] /\ SessionOK(items, remote)
    BY DEF TypeInv, ReviewInv
  <2>2. PublishReady \in SUBSET Threads BY DEF PublishReady
  <2>3. j \in JobType /\ j.its = items /\ j.todo = PublishReady BY <2>1, <2>2 DEF JobType
  <2> HIDE DEF j
  <2>4. \A t \in j.todo : j.its[t].accepted # "none"
    BY <2>1, <2>3 DEF PublishReady, SessionOK, Items
  <2>5. PICK step \in {"reply", "publish_save"}, k \in JobType :
               Goto(p, step, k) /\ ProcOK(step, k, remote) /\ k.its = items
    BY <1>3, <2>1, <2>3, <2>4, NextThreadIs
  <2>6. Kept(items, k.its) BY <2>5, KeptSelf
  <2>7. Grows(remote, remote) /\ UNCHANGED <<remote, external, live, items, rows>>
    BY <1>1 DEF Grows, outside
  <2>8. step \in Steps BY SavingSteps
  <2> QED BY <1>1, <1>3, <2>1, <2>5, <2>6, <2>7, <2>8, ProcStep DEF TypeInv, ReviewInv
<1> QED BY <1>2, <1>3 DEF Publish

(* A publish that found a later revision starts over or gives up. *)
LEMMA AgainOK ==
  ASSUME TypeInv, ReviewInv, NEW p \in Procs, PublishAgain(p), UNCHANGED <<outside, store>>,
         plan' \in Seq(AllCommands), spent' \in Spent
  PROVE  TypeInv' /\ ReviewInv'
<1> DEFINE j == [job[p] EXCEPT !.tries = @ + 1]
<1>1. job[p] \in JobType /\ ProcOK(pc[p], job[p], remote) BY DEF TypeInv, ReviewInv
<1>2. j \in JobType /\ j.its = job[p].its BY <1>1 DEF JobType
<1>3. Done(p) \/ Goto(p, "publish", j) BY DEF PublishAgain
<1> HIDE DEF j
<1>4. ProcOK("publish", j, remote) BY <1>1, <1>2 DEF ProcOK
<1>5. "publish" \in Steps /\ "publish" \notin Saving BY DEF Steps, Saving
<1> QED BY <1>2, <1>3, <1>4, <1>5, QuietEnd, QuietStep

(* The two halves of a thread's publication, in the command's hands. *)
LEMMA RepliedIs ==
  ASSUME NEW p \in Procs, NEW R, job[p] \in JobType, ProcOK("reply", job[p], R),
         R[job[p].item].replied, Replied(p)
  PROVE  \E k \in JobType : /\ Goto(p, "resolve", k) /\ ProcOK("resolve", k, R)
                            /\ Kept(job[p].its, k.its)
<1> DEFINE j == job[p]
           t == j.item
           r == [j.its[t] EXCEPT !.reply = TRUE]
           I == [j.its EXCEPT ![t] = r]
           k == [j EXCEPT !.its = I]
<1>1. t \in Threads /\ t \in Items /\ j.its \in [Items -> Item] BY DEF ProcOK, Items, JobType
<1>2. SessionOK(j.its, R) BY DEF ProcOK
<1>3. j.its[t] \in Item BY <1>1
<1>4. /\ r \in Item /\ r.accepted = j.its[t].accepted /\ r.resolved = j.its[t].resolved
      /\ r.reply = TRUE /\ r.state = j.its[t].state /\ r.valid = j.its[t].valid
  BY <1>3 DEF Item
<1>5. Goto(p, "resolve", k) BY DEF Replied
<1> HIDE DEF r
<1>6. I \in [Items -> Item] /\ SessionOK(I, R)
  BY <1>1, <1>2, <1>4, ItemOK DEF SessionOK
<1>7. Kept(j.its, I) BY <1>1, <1>4, ItemKept
<1>8. \A x \in Threads : I[x].accepted = j.its[x].accepted BY <1>1, <1>4
<1> HIDE DEF I
<1>9. k \in JobType /\ k.its = I /\ k.item = t /\ k.todo = j.todo BY <1>6 DEF JobType
<1> HIDE DEF k
<1>10. j.todo \in SUBSET Threads BY DEF JobType
<1>11. ProcOK("resolve", k, R) BY <1>1, <1>6, <1>8, <1>9, <1>10 DEF ProcOK
<1> QED BY <1>5, <1>7, <1>9, <1>11

LEMMA PublishedIs ==
  ASSUME NEW p \in Procs, NEW R, job[p] \in JobType, ProcOK("resolve", job[p], R), Published(p)
  PROVE  \E step \in {"reply", "publish_save"}, k \in JobType :
           Goto(p, step, k) /\ ProcOK(step, k, R) /\ Kept(job[p].its, k.its)
<1> DEFINE j == job[p]
           t == j.item
           r == [j.its[t] EXCEPT !.state = "closed", !.reply = TRUE, !.resolved = TRUE,
                                 !.holder = Nobody]
           I == [j.its EXCEPT ![t] = r]
           D == j.todo \ {t}
           k == [j EXCEPT !.its = I, !.todo = D]
<1>1. t \in Threads /\ t \in Items /\ j.its \in [Items -> Item] BY DEF ProcOK, Items, JobType
<1>2. SessionOK(j.its, R) /\ j.its[t].accepted # "none" /\ R[t].replied BY DEF ProcOK
<1>3. j.its[t] \in Item BY <1>1
<1>4. /\ r \in Item /\ r.accepted = j.its[t].accepted /\ r.resolved = TRUE
      /\ r.reply = TRUE /\ r.state = "closed" /\ r.valid = j.its[t].valid
  BY <1>3 DEF Item
<1>5. NextThread(p, k) BY DEF Published
<1> HIDE DEF r
<1>6. I \in [Items -> Item] /\ SessionOK(I, R) BY <1>1, <1>2, <1>4, ItemOK
<1>7. Kept(j.its, I) BY <1>1, <1>4, ItemKept
<1>8. \A x \in Threads : I[x].accepted = j.its[x].accepted BY <1>1, <1>4
<1>9. D \in SUBSET Threads /\ D \subseteq j.todo BY DEF JobType
<1> HIDE DEF I, D
<1>10. k \in JobType /\ k.its = I /\ k.todo = D BY <1>6, <1>9 DEF JobType
<1> HIDE DEF k
<1>11. \A x \in k.todo : k.its[x].accepted # "none" BY <1>8, <1>9, <1>10 DEF ProcOK
<1>12. PICK step \in {"reply", "publish_save"}, m \in JobType :
              Goto(p, step, m) /\ ProcOK(step, m, R) /\ m.its = k.its
  BY <1>5, <1>6, <1>10, <1>11, NextThreadIs
<1> QED BY <1>7, <1>10, <1>12

LEMMA ReplyOK ==
  ASSUME TypeInv, ReviewInv, NEW p \in Procs, Reply(p) PROVE TypeInv' /\ ReviewInv'
<1> DEFINE j == job[p]
           t == j.item
<1>1. j \in JobType /\ ProcOK("reply", j, remote) BY DEF TypeInv, ReviewInv, Reply
<1>2. t \in Threads /\ t \in Items /\ SessionOK(j.its, remote) BY <1>1 DEF ProcOK, Items
<1>3. /\ UNCHANGED <<external, live, items>> /\ plan' \in Seq(AllCommands) /\ spent' \in Spent
  BY DEF Reply, TypeInv
<1>4. p \in fresh => Kept(items, j.its) BY DEF Reply, ReviewInv, LoadsOK, Saving
<1>5. "resolve" \in Steps BY SavingSteps
<1>6. CASE Known(p, "reply") /\ Replied(p) /\ UNCHANGED <<remote, rows, fresh>>
  <2>1. remote[t].replied BY <1>2, <1>6 DEF Known, ReviewInv, SessionOK
  <2>2. PICK k \in JobType : /\ Goto(p, "resolve", k) /\ ProcOK("resolve", k, remote)
                             /\ Kept(j.its, k.its)
    BY <1>1, <1>6, <2>1, RepliedIs
  <2>3. p \in fresh => Kept(items, k.its) BY <1>4, <2>2, KeptTrans
  <2> QED BY <1>3, <1>5, <1>6, <2>2, <2>3, QuietStep DEF outside, store
<1>7. CASE /\ remote' = [remote EXCEPT ![t].posted = IF @ = 2 THEN 2 ELSE @ + 1, ![t].replied = TRUE]
           /\ Executed(p, "reply", "done") /\ Replied(p)
  <2> DEFINE n == IF remote[t].posted = 2 THEN 2 ELSE remote[t].posted + 1
  <2>a. remote[t].posted \in 0..2 BY <1>2 DEF TypeInv, Row
  <2>b. n \in 0..2 BY <2>a
  <2>c. remote' = [remote EXCEPT ![t].posted = n, ![t].replied = TRUE] BY <1>7
  <2> HIDE DEF n
  <2>1. n \in 0..2 /\ remote' = [remote EXCEPT ![t].posted = n, ![t].replied = TRUE]
    BY <2>b, <2>c
  <2>2. remote' \in [Threads -> Row] BY <1>2, <2>1 DEF TypeInv, Row
  <2>3. Grows(remote, remote') /\ remote'[t].replied BY <1>2, <2>1 DEF TypeInv, Row, Grows
  <2>4. ProcOK("reply", j, remote') BY <1>1, <2>3, GrowsProc
  <2>5. PICK k \in JobType : /\ Goto(p, "resolve", k) /\ ProcOK("resolve", k, remote')
                             /\ Kept(j.its, k.its)
    BY <1>1, <1>7, <2>3, <2>4, RepliedIs
  <2>6. rows' = [rows EXCEPT ![<<t, "reply">>] = "done"] /\ fresh' = fresh \cap {p}
    BY <1>7 DEF Executed
  <2>7. rows' \in [Threads \X {"reply", "resolve"} -> RowStates] BY <2>6 DEF TypeInv, RowStates
  <2>8. \A x \in Threads : rows'[<<x, "reply">>] = "done" => remote'[x].replied
    BY <2>3, <2>6 DEF TypeInv, ReviewInv, Grows
  <2>9. SessionOK(items', remote') BY <1>3, <2>3, GrowsOK DEF ReviewInv
  <2>10. p \in fresh' => Kept(items', k.its) BY <1>3, <1>4, <2>5, <2>6, KeptTrans
  <2>11. fresh' \subseteq fresh \cup {p} BY <2>6
  <2> QED BY <1>3, <1>5, <2>2, <2>3, <2>5, <2>7, <2>8, <2>9, <2>10, <2>11, ProcStep DEF TypeInv
<1>8. CASE (PublishAgain(p) \/ Done(p)) /\ UNCHANGED <<remote, rows, fresh>>
  BY <1>3, <1>8, AgainOK, QuietEnd DEF outside, store
<1> QED BY <1>6, <1>7, <1>8 DEF Reply

LEMMA ResolveOK ==
  ASSUME TypeInv, ReviewInv, NEW p \in Procs, Resolve(p) PROVE TypeInv' /\ ReviewInv'
<1> DEFINE j == job[p]
           t == j.item
<1>1. j \in JobType /\ ProcOK("resolve", j, remote) BY DEF TypeInv, ReviewInv, Resolve
<1>2. t \in Threads BY <1>1 DEF ProcOK
<1>3. /\ UNCHANGED <<external, live, items>> /\ plan' \in Seq(AllCommands) /\ spent' \in Spent
  BY DEF Resolve, TypeInv
<1>4. p \in fresh => Kept(items, j.its) BY DEF Resolve, ReviewInv, LoadsOK, Saving
<1>5. {"reply", "publish_save"} \subseteq Steps BY SavingSteps
<1>6. CASE Published(p) /\ UNCHANGED <<remote, rows, fresh>>
  <2>1. PICK step \in {"reply", "publish_save"}, k \in JobType :
               Goto(p, step, k) /\ ProcOK(step, k, remote) /\ Kept(j.its, k.its)
    BY <1>1, <1>6, PublishedIs
  <2>2. p \in fresh => Kept(items, k.its) BY <1>4, <2>1, KeptTrans
  <2> QED BY <1>3, <1>5, <1>6, <2>1, <2>2, QuietStep DEF outside, store
<1>7. CASE /\ remote' = [remote EXCEPT ![t].st = "resolved"]
           /\ Executed(p, "resolve", "done") /\ Published(p)
  <2>1. remote' \in [Threads -> Row] /\ Grows(remote, remote')
    BY <1>2, <1>7 DEF TypeInv, Row, Grows
  <2>2. ProcOK("resolve", j, remote') BY <1>1, <2>1, GrowsProc
  <2>3. PICK step \in {"reply", "publish_save"}, k \in JobType :
               Goto(p, step, k) /\ ProcOK(step, k, remote') /\ Kept(j.its, k.its)
    BY <1>1, <1>7, <2>2, PublishedIs
  <2>4. rows' = [rows EXCEPT ![<<t, "resolve">>] = "done"] /\ fresh' = fresh \cap {p}
    BY <1>7 DEF Executed
  <2>5. rows' \in [Threads \X {"reply", "resolve"} -> RowStates] BY <2>4 DEF TypeInv, RowStates
  <2>6. \A x \in Threads : rows'[<<x, "reply">>] = "done" => remote'[x].replied
    BY <2>1, <2>4 DEF TypeInv, ReviewInv, Grows
  <2>7. SessionOK(items', remote') BY <1>3, <2>1, GrowsOK DEF ReviewInv
  <2>8. p \in fresh' => Kept(items', k.its) BY <1>3, <1>4, <2>3, <2>4, KeptTrans
  <2>9. fresh' \subseteq fresh \cup {p} BY <2>4
  <2> QED BY <1>3, <1>5, <2>1, <2>3, <2>5, <2>6, <2>7, <2>8, <2>9, ProcStep DEF TypeInv
<1>8. CASE (PublishAgain(p) \/ Done(p)) /\ UNCHANGED <<remote, rows, fresh>>
  BY <1>3, <1>8, AgainOK, QuietEnd DEF outside, store
<1> QED BY <1>6, <1>7, <1>8 DEF Resolve

LEMMA EffectFailsOK ==
  ASSUME TypeInv, ReviewInv, NEW p \in Procs, EffectFails(p) PROVE TypeInv' /\ ReviewInv'
<1> DEFINE j == job[p]
<1>1. j \in JobType /\ ProcOK(pc[p], j, remote) /\ pc[p] \in {"reply", "resolve"}
  BY DEF TypeInv, ReviewInv, EffectFails
<1>2. j.its \in [Items -> Item] /\ SessionOK(j.its, remote) BY <1>1 DEF JobType, ProcOK
<1>3. /\ Commit(j.its) /\ Done(p) /\ UNCHANGED <<outside, live, plan>>
      /\ rows' = [rows EXCEPT ![<<j.item, pc[p]>>] = "tried"]
  BY DEF EffectFails
<1>4. spent' \in Spent BY FaultType DEF EffectFails
<1>5. rows' \in [Threads \X {"reply", "resolve"} -> RowStates]
      /\ \A t \in Threads : rows'[<<t, "reply">>] = "done" => rows[<<t, "reply">>] = "done"
  BY <1>3 DEF TypeInv, RowStates
<1>6. Goto(p, "idle", IdleJob) /\ items' = j.its /\ fresh' = {} BY <1>3 DEF Done, Commit
<1>7. UNCHANGED <<remote, external>> /\ Grows(remote, remote) BY <1>3 DEF outside, Grows
<1>8. "idle" \in Steps /\ ProcOK("idle", IdleJob, remote) BY IdleOK DEF Steps
<1>9. \A t \in Threads : rows'[<<t, "reply">>] = "done" => remote'[t].replied
  BY <1>5, <1>7 DEF ReviewInv
<1> QED BY <1>2, <1>3, <1>4, <1>5, <1>6, <1>7, <1>8, <1>9, IdleType, ProcStep DEF TypeInv

LEMMA PublishSaveOK ==
  ASSUME TypeInv, ReviewInv, NEW p \in Procs, PublishSave(p) PROVE TypeInv' /\ ReviewInv'
<1> DEFINE j == job[p]
<1>1. j \in JobType /\ ProcOK(pc[p], j, remote) BY DEF TypeInv, ReviewInv
<1>2. j.its \in [Items -> Item] /\ SessionOK(j.its, remote) BY <1>1 DEF JobType, ProcOK
<1>3. UNCHANGED <<outside, rows>> /\ plan' \in Seq(AllCommands) /\ spent' \in Spent
  BY DEF PublishSave, TypeInv
<1>4. CASE Commit(j.its) /\ live' = TRUE /\ Done(p)
  <2>1. live' \in BOOLEAN BY <1>4
  <2> QED BY <1>2, <1>3, <1>4, <2>1, CommitEnd
<1>5. CASE PublishAgain(p) /\ UNCHANGED <<items, live, fresh>>
  BY <1>3, <1>5, AgainOK DEF store
<1> QED BY <1>4, <1>5 DEF PublishSave

-----------------------------------------------------------------------------
(* The end of a review, and the environment *)

LEMMA FinishOK ==
  ASSUME TypeInv, ReviewInv, NEW p \in Procs, Finish(p) PROVE TypeInv' /\ ReviewInv'
<1> DEFINE N == [i \in Items |-> NewItem]
<1>1. Done(p) /\ UNCHANGED outside /\ plan' \in Seq(AllCommands) /\ spent' \in Spent
  BY DEF Finish, TypeInv
<1>2. CASE UNCHANGED store BY <1>1, <1>2, QuietEnd
<1>3. CASE live' = FALSE /\ Commit(N) /\ rows' = [c \in DOMAIN rows |-> "none"]
  <2>1. N \in [Items -> Item] /\ SessionOK(N, remote) BY NewType, NewOK
  <2>2. rows' \in [Threads \X {"reply", "resolve"} -> RowStates]
        /\ \A t \in Threads : rows'[<<t, "reply">>] # "done"
    BY <1>3 DEF TypeInv, RowStates
  <2> HIDE DEF N
  <2>3. Goto(p, "idle", IdleJob) /\ items' = N /\ fresh' = {} BY <1>1, <1>3 DEF Done, Commit
  <2>4. UNCHANGED <<remote, external>> /\ Grows(remote, remote) BY <1>1 DEF outside, Grows
  <2>5. "idle" \in Steps /\ ProcOK("idle", IdleJob, remote) BY IdleOK DEF Steps
  <2>6. live' \in BOOLEAN BY <1>3
  <2> QED BY <1>1, <2>1, <2>2, <2>3, <2>4, <2>5, <2>6, IdleType, ProcStep DEF TypeInv
<1> QED BY <1>2, <1>3 DEF Finish

LEMMA CrashOK ==
  ASSUME TypeInv, ReviewInv, NEW p \in Procs, Crash(p) PROVE TypeInv' /\ ReviewInv'
<1>1. Goto(p, "idle", IdleJob) /\ fresh' = fresh \ {p} /\ UNCHANGED <<outside, live, items, rows, plan>>
  BY DEF Crash, Done
<1>2. spent' \in Spent BY FaultType DEF Crash
<1>3. UNCHANGED <<remote, external>> /\ Grows(remote, remote) BY <1>1 DEF outside, Grows
<1>4. "idle" \in Steps /\ ProcOK("idle", IdleJob, remote) BY IdleOK DEF Steps
<1>5. fresh' \subseteq fresh \cup {p} /\ p \notin fresh' BY <1>1
<1> QED BY <1>1, <1>2, <1>3, <1>4, <1>5, IdleType, ProcStep DEF TypeInv, ReviewInv

(* A step that changes GitHub, the plan or the budget only. *)
LEMMA OutsideStep ==
  ASSUME TypeInv, ReviewInv, UNCHANGED <<store, pc, job>>, remote' \in [Threads -> Row],
         Grows(remote, remote'), external' \in SUBSET Waits, plan' \in Seq(AllCommands),
         spent' \in Spent
  PROVE  TypeInv' /\ ReviewInv'
<1>1. UNCHANGED <<live, items, rows, fresh, pc, job>> BY DEF store
<1>2. TypeInv' BY <1>1 DEF TypeInv
<1>3. SessionOK(items, remote') BY GrowsOK DEF ReviewInv
<1>4. \A p \in Procs : ProcOK(pc[p], job[p], remote') BY GrowsProc DEF ReviewInv
<1>5. LoadsOK' BY <1>1 DEF LoadsOK, ReviewInv
<1>6. \A t \in Threads : rows'[<<t, "reply">>] = "done" => remote'[t].replied
  BY <1>1 DEF ReviewInv, Grows
<1> QED BY <1>1, <1>2, <1>3, <1>4, <1>5, <1>6 DEF ReviewInv

LEMMA EnvironmentOK ==
  ASSUME TypeInv, ReviewInv, (\E t \in Threads : OnGitHub(t)) \/ Settle \/ Nothing
  PROVE  TypeInv' /\ ReviewInv'
<1>1. ASSUME NEW t \in Threads, OnGitHub(t) PROVE TypeInv' /\ ReviewInv'
  <2>a. \/ \E st \in {"open", "resolved"} : remote' = [remote EXCEPT ![t].st = st]
        \/ remote' = [remote EXCEPT ![t].replied = TRUE]
        \/ remote' = [remote EXCEPT ![t].outdated = TRUE]
    BY <1>1 DEF OnGitHub
  <2>b. remote' \in [Threads -> Row]
    <3>1. ASSUME NEW st \in {"open", "resolved"}, remote' = [remote EXCEPT ![t].st = st]
          PROVE  remote' \in [Threads -> Row]
      BY <3>1 DEF TypeInv, Row
    <3>2. CASE remote' = [remote EXCEPT ![t].replied = TRUE] BY <3>2 DEF TypeInv, Row
    <3>3. CASE remote' = [remote EXCEPT ![t].outdated = TRUE] BY <3>3 DEF TypeInv, Row
    <3> QED BY <2>a, <3>1, <3>2, <3>3
  <2>c. Grows(remote, remote') BY <2>a DEF TypeInv, Row, Grows
  <2>1. remote' \in [Threads -> Row] /\ Grows(remote, remote') BY <2>b, <2>c
  <2>2. spent' \in Spent BY <1>1 DEF OnGitHub, TypeInv, Spent
  <2>3. UNCHANGED <<external, store, pc, job, plan>> BY <1>1 DEF OnGitHub
  <2> QED BY <2>1, <2>2, <2>3, OutsideStep DEF TypeInv
<1>2. CASE Settle
  <2>1. external' \in SUBSET Waits /\ Grows(remote, remote) BY <1>2 DEF Settle, TypeInv, Grows
  <2>2. UNCHANGED <<remote, store, pc, job, plan, spent>> BY <1>2 DEF Settle
  <2> QED BY <2>1, <2>2, OutsideStep DEF TypeInv
<1>3. CASE Nothing
  <2>1. plan' \in Seq(AllCommands) BY <1>3 DEF Nothing, TypeInv
  <2>2. UNCHANGED <<remote, external, store, pc, job, spent>> /\ Grows(remote, remote)
    BY <1>3 DEF Nothing, outside, Grows
  <2> QED BY <2>1, <2>2, OutsideStep DEF TypeInv
<1> QED BY <1>1, <1>2, <1>3

LEMMA ReviewStep == ASSUME TypeInv, ReviewInv, [Next]_vars PROVE TypeInv' /\ ReviewInv'
<1>1. ASSUME NEW p \in Procs, Step(p) PROVE TypeInv' /\ ReviewInv'
  BY <1>1, SaveOK, ClassifyOK, IssueOK, ClaimOK, AcceptOK, PublishOK, ReplyOK, ResolveOK,
     PublishSaveOK, FinishOK DEF Step
<1>2. ASSUME NEW p \in Procs, Start(p) PROVE TypeInv' /\ ReviewInv'
  BY <1>2, LoadSaveOK, AnswerOK, ReopenOK, StartPublishOK DEF Start
<1>3. ASSUME NEW p \in Procs, Rejected(p) \/ EffectFails(p) \/ Crash(p) PROVE TypeInv' /\ ReviewInv'
  BY <1>3, RejectedOK, EffectFailsOK, CrashOK
<1>4. CASE UNCHANGED vars
  <2>1. Grows(remote, remote) /\ UNCHANGED <<remote, external, store, pc, job, plan, spent>>
    BY <1>4 DEF Grows, vars, store
  <2> QED BY <2>1, OutsideStep DEF TypeInv
<1> QED BY <1>1, <1>2, <1>3, <1>4, ExpireOK, EnvironmentOK DEF Next

LEMMA ReviewInit == ASSUME Init PROVE TypeInv /\ ReviewInv
<1>1. items = [i \in Items |-> NewItem] /\ fresh = {} BY DEF Init
<1>2. TypeInv
  <2>1. remote \in [Threads -> Row]
    <3> DEFINE First == [st : {"open", "resolved"}, outdated : {FALSE}, replied : {FALSE}, posted : {0}]
    <3>1. ASSUME NEW r \in First PROVE r \in Row
      <4>1. r.posted \in 0..2 OBVIOUS
      <4>2. /\ r.st \in {"none", "open", "resolved"} /\ r.outdated \in BOOLEAN
            /\ r.replied \in BOOLEAN
        BY Zenon
      <4>3. r = [st |-> r.st, outdated |-> r.outdated, replied |-> r.replied, posted |-> r.posted]
        OBVIOUS
      <4> QED BY <4>1, <4>2, <4>3, Zenon DEF Row
    <3>2. remote \in [Threads -> First] BY DEF Init
    <3> HIDE DEF First
    <3> QED BY <3>1, <3>2
  <2>2. items \in [Items -> Item] BY <1>1, NewType
  <2>3. rows \in [Threads \X {"reply", "resolve"} -> RowStates] BY DEF Init, RowStates
  <2>4. pc \in [Procs -> Steps] /\ job \in [Procs -> JobType] BY IdleType DEF Init, Steps
  <2>5. plan \in Seq(AllCommands) /\ spent \in Spent BY DEF Init, Spent
  <2>6. external \in SUBSET Waits /\ live \in BOOLEAN /\ fresh \in SUBSET Procs BY DEF Init
  <2> QED BY <2>1, <2>2, <2>3, <2>4, <2>5, <2>6 DEF TypeInv
<1>3. SessionOK(items, remote) BY <1>1, NewOK
<1>4. \A p \in Procs : ProcOK(pc[p], job[p], remote) BY IdleOK DEF Init
<1>5. LoadsOK BY <1>1 DEF LoadsOK
<1>6. \A t \in Threads : rows[<<t, "reply">>] # "done" BY DEF Init
<1> QED BY <1>2, <1>3, <1>4, <1>5, <1>6 DEF ReviewInv

LEMMA Invariant == Spec => [](TypeInv /\ ReviewInv)
<1>1. Init => TypeInv /\ ReviewInv BY ReviewInit
<1>2. TypeInv /\ ReviewInv /\ [Next]_vars => (TypeInv /\ ReviewInv)' BY ReviewStep
<1> QED BY <1>1, <1>2, PTL DEF Spec

-----------------------------------------------------------------------------
(* The theorems *)

(* Every variable stays in its domain, the commands' local ones included    *)
(* (commands/high_level.py, commands/final_gate.py).                        *)
THEOREM ReviewTypeCorrect == Spec => []TypeOK
<1>1. TypeInv => TypeOK BY DEF TypeInv, TypeOK, JobType, Spent, RowStates
<1> QED BY <1>1, Invariant, PTL

LEMMA ProvenPasses == ASSUME TypeInv, ReviewInv PROVE PassIsProven
<1> SUFFICES ASSUME NEW p \in Procs, pc[p] = "passed"
             PROVE  /\ \A t \in Threads : job[p].read[t] # "none" =>
                         job[p].read[t] = "resolved" /\ remote[t].replied
                    /\ \A t \in Threads : job[p].its[t].accepted = "unproven" => job[p].its[t].valid
                    /\ \A f \in Findings : job[p].its[f].state \in {"absent", "answered", "closed"}
  BY DEF PassIsProven
<1> DEFINE j == job[p]
<1>1. j \in JobType /\ ProcOK("passed", j, remote) BY DEF TypeInv, ReviewInv
<1>2. Proven(j) /\ SessionOK(j.its, remote) BY <1>1 DEF ProcOK
<1>3. j.read \in [Threads -> {"none", "open", "resolved"}] /\ j.its \in [Items -> Item]
  BY <1>1 DEF JobType
<1>4. ASSUME NEW t \in Threads, j.read[t] # "none" PROVE j.read[t] = "resolved" /\ remote[t].replied
  <2>1. j.read[t] = "resolved" /\ j.its[t].reply BY <1>2, <1>3, <1>4 DEF Proven
  <2> QED BY <1>2, <2>1 DEF SessionOK, Items
<1>5. ASSUME NEW t \in Threads, j.its[t].accepted = "unproven" PROVE j.its[t].valid
  <2>1. t \in Items /\ j.its[t] \in Item BY <1>3 DEF Items
  <2>2. ~IsBlocking(t, j.its) /\ ~Unproven(t, j.its) BY <1>2, <2>1 DEF Proven
  <2>3. j.its[t].state = "closed" BY <1>2, <1>5, <2>1, <2>2 DEF IsBlocking, SessionOK
  <2>4. RequiresValidation(t, j.its) BY <1>5, <2>3 DEF RequiresValidation
  <2> QED BY <1>5, <2>2, <2>4 DEF Unproven, HasValidation
<1>6. ASSUME NEW f \in Findings PROVE j.its[f].state \in {"absent", "answered", "closed"}
  <2>1. f \in Items /\ f \notin Threads /\ j.its[f] \in Item BY <1>3, ReviewAssumption DEF Items
  <2>2. ~IsBlocking(f, j.its) BY <1>2, <2>1 DEF Proven
  <2>3. j.its[f].state \notin {"open", "claimed"} BY <2>1, <2>2 DEF IsBlocking
  <2>4. j.its[f].state \notin {"stale", "publish_ready"} BY <1>2, <2>1 DEF SessionOK
  <2> QED BY <2>1, <2>3, <2>4 DEF Item
<1> QED BY <1>4, <1>5, <1>6

(* What a passed gate asserts is true of every thread it read, every fix    *)
(* and every finding, whatever other commands saved while it ran            *)
(* (evaluate_final_gate, save_session).                                     *)
THEOREM PassesProven == Spec => []PassIsProven
BY Invariant, ProvenPasses, PTL

(* A transaction keeps what the item has. *)
LEMMA ChangeKeeps ==
  ASSUME TypeInv, NEW i \in Items, NEW r \in Item, Change(i, r),
         items[i].accepted # "none" => r.accepted # "none",
         i \in Threads => /\ items[i].reply => r.reply
                          /\ items[i].valid => r.valid
                          /\ items[i].resolved => r.resolved
  PROVE  Kept(items, items')
<1>1. items' = [items EXCEPT ![i] = r] BY DEF Change, Commit
<1> QED BY <1>1, ItemKept DEF TypeInv

LEMMA KeptStep == ASSUME TypeInv, ReviewInv, [Next]_vars, live, live' PROVE Kept(items, items')
<1>1. ASSUME UNCHANGED items PROVE Kept(items, items') BY <1>1, KeptSelf
<1>2. ASSUME NEW p \in Procs, p \in fresh, pc[p] \in Saving, Commit(job[p].its)
      PROVE  Kept(items, items')
  BY <1>2 DEF ReviewInv, LoadsOK, Commit
<1>3. ASSUME NEW p \in Procs, Save(p) PROVE Kept(items, items')
  <2>1. CASE MaySave(p)
    <3>1. p \in fresh /\ Commit(job[p].its) BY <1>3, <2>1 DEF Save, MaySave
    <3>2. pc[p] \in Saving BY <1>3 DEF Save, Saving
    <3> QED BY <1>2, <3>1, <3>2
  <2>2. CASE ~MaySave(p) BY <1>1, <1>3, <2>2 DEF Save
  <2> QED BY <2>1, <2>2
<1>4. ASSUME NEW p \in Procs, PublishSave(p) PROVE Kept(items, items')
  <2>1. CASE MaySave(p)
    <3>1. p \in fresh /\ Commit(job[p].its) BY <1>4, <2>1 DEF PublishSave, MaySave
    <3>2. pc[p] \in Saving BY <1>4 DEF PublishSave, Saving
    <3> QED BY <1>2, <3>1, <3>2
  <2>2. CASE ~MaySave(p) BY <1>1, <1>4, <2>2 DEF PublishSave
  <2> QED BY <2>1, <2>2
<1>5. ASSUME NEW p \in Procs, EffectFails(p) PROVE Kept(items, items')
  BY <1>2, <1>5 DEF EffectFails, Saving
<1>6. ASSUME NEW p \in Procs, Finish(p) PROVE Kept(items, items')
  BY <1>1, <1>6 DEF Finish, store
<1>7. ASSUME NEW i \in Items, NEW state \in {"open", "claimed"}, NEW holder \in Procs \cup {Nobody},
             Change(i, [items[i] EXCEPT !.state = state, !.holder = holder])
      PROVE  Kept(items, items')
  <2> DEFINE r == [items[i] EXCEPT !.state = state, !.holder = holder]
  <2>1. items[i] \in Item BY DEF TypeInv
  <2>2. /\ r \in Item /\ r.accepted = items[i].accepted /\ r.reply = items[i].reply
        /\ r.valid = items[i].valid /\ r.resolved = items[i].resolved
    BY <2>1 DEF Item
  <2>3. Change(i, r) BY <1>7
  <2> HIDE DEF r
  <2> QED BY <2>2, <2>3, ChangeKeeps
<1>8. ASSUME NEW p \in Procs, Claim(p) PROVE Kept(items, items')
  <2>1. job[p].item \in Items BY <1>8 DEF Claim, ReviewInv, ProcOK
  <2> QED BY <1>1, <1>7, <1>8, <2>1 DEF Claim
<1>9. ASSUME NEW p \in Procs, Rejected(p) PROVE Kept(items, items')
  <2>1. job[p].item \in Items BY <1>9 DEF Rejected, ReviewInv, ProcOK
  <2> QED BY <1>7, <1>9, <2>1 DEF Rejected
<1>10. ASSUME NEW i \in Items, Expire(i) PROVE Kept(items, items') BY <1>7, <1>10 DEF Expire
<1>11. ASSUME NEW p \in Procs, Classify(p) PROVE Kept(items, items')
  <2> DEFINE i == job[p].item
             d == Decision(job[p].answer)
             r == [items[i] EXCEPT !.decision = d]
  <2>1. i \in Items BY <1>11 DEF Classify, ReviewInv, ProcOK
  <2>2. d \in {"fix", "explain"} /\ items[i] \in Item BY <2>1 DEF Decision, TypeInv
  <2>3. UNCHANGED items \/ Change(i, r) BY <1>11 DEF Classify
  <2> HIDE DEF d
  <2>4. /\ r \in Item /\ r.accepted = items[i].accepted /\ r.reply = items[i].reply
        /\ r.valid = items[i].valid /\ r.resolved = items[i].resolved
    BY <2>2 DEF Item
  <2> HIDE DEF r
  <2> QED BY <1>1, <2>1, <2>3, <2>4, ChangeKeeps
<1>12. ASSUME NEW p \in Procs, NEW t \in Threads, NEW a \in Answers, Reopen(p, t, a)
       PROVE  Kept(items, items')
  <2> DEFINE r == [items[t] EXCEPT !.state = "open"]
  <2>1. t \in Items /\ items[t] \in Item /\ Change(t, r) BY <1>12 DEF Reopen, Items, TypeInv
  <2>2. /\ r \in Item /\ r.accepted = items[t].accepted /\ r.reply = items[t].reply
        /\ r.valid = items[t].valid /\ r.resolved = items[t].resolved
    BY <2>1 DEF Item
  <2> HIDE DEF r
  <2> QED BY <2>1, <2>2, ChangeKeeps
<1>13. ASSUME NEW p \in Procs, Accept(p) PROVE Kept(items, items')
  <2> DEFINE i == job[p].item
             a == job[p].answer
             r == Answered(i, a)
  <2>1. i \in Items BY <1>13 DEF Accept, ReviewInv, ProcOK
  <2>2. job[p] \in JobType /\ items[i] \in Item BY <2>1 DEF TypeInv
  <2>3. a \in Answers /\ a # "none" BY <2>2 DEF JobType, Answers
  <2>4. UNCHANGED items \/ Change(i, r) BY <1>13 DEF Accept
  <2>5. r \in Item BY <2>1, <2>3, AnsweredSound DEF Sound
  <2>6. CASE i \in Threads
    <3>1. r = [items[i] EXCEPT !.state = "publish_ready", !.accepted = a, !.holder = Nobody]
      BY <2>6 DEF Answered
    <3>2. /\ r.accepted = a /\ r.reply = items[i].reply
          /\ r.valid = items[i].valid /\ r.resolved = items[i].resolved
      BY <2>2, <3>1 DEF Item
    <3> HIDE DEF r, a
    <3> QED BY <1>1, <2>1, <2>3, <2>4, <2>5, <3>2, ChangeKeeps
  <2>7. CASE i \notin Threads
    <3>1. r.accepted = items[i].accepted BY <2>2, <2>7 DEF Answered, Item
    <3> HIDE DEF r, a
    <3> QED BY <1>1, <2>1, <2>4, <2>5, <2>7, <3>1, ChangeKeeps
  <2> QED BY <2>6, <2>7
<1>14. ASSUME NEW p \in Procs, Step(p) PROVE Kept(items, items')
  <2>1. ASSUME Issue(p) \/ Publish(p) \/ Reply(p) \/ Resolve(p) PROVE Kept(items, items')
    BY <1>1, <2>1 DEF Issue, Publish, Reply, Resolve, store
  <2> QED BY <1>3, <1>4, <1>6, <1>8, <1>11, <1>13, <1>14, <2>1 DEF Step
<1>15. ASSUME NEW p \in Procs, Start(p) PROVE Kept(items, items')
  <2>1. ASSUME NEW cmd \in LoadSaves, NEW i \in Items, StartLoadSave(p, cmd, i)
        PROVE  Kept(items, items')
    BY <1>1, <2>1 DEF StartLoadSave
  <2>2. ASSUME NEW i \in Items, NEW a \in Answers, StartAnswer(p, i, a) PROVE Kept(items, items')
    BY <1>1, <2>2 DEF StartAnswer, store
  <2>3. ASSUME StartPublish(p) PROVE Kept(items, items') BY <1>1, <2>3 DEF StartPublish, store
  <2> QED BY <1>12, <1>15, <2>1, <2>2, <2>3 DEF Start
<1>16. ASSUME NEW p \in Procs, Crash(p) PROVE Kept(items, items') BY <1>1, <1>16 DEF Crash
<1>17. CASE (\E t \in Threads : OnGitHub(t)) \/ Settle \/ Nothing \/ UNCHANGED vars
  BY <1>1, <1>17 DEF OnGitHub, Settle, Nothing, vars, store
<1> QED BY <1>5, <1>9, <1>10, <1>14, <1>15, <1>16, <1>17 DEF Next

(* Evidence that a commit records is real, and while the workspace lives    *)
(* no commit takes away what an item has: its accepted answer, its          *)
(* evidence, its publication.  The commit of a session whose revision is no *)
(* longer the latest is refused (save_session, StaleRevisionError).    *)
THEOREM EvidenceKeeps == Spec => EvidenceStays
<1>1. TypeInv /\ ReviewInv /\ [Next]_vars => EvidenceIsReal' /\ EvidenceKept
  <2> SUFFICES ASSUME TypeInv, ReviewInv, [Next]_vars PROVE EvidenceIsReal' /\ EvidenceKept
    OBVIOUS
  <2>1. SessionOK(items', remote') BY ReviewStep DEF ReviewInv
  <2>2. EvidenceIsReal' BY <2>1 DEF EvidenceIsReal, SessionOK, Items
  <2>3. EvidenceKept BY KeptStep DEF EvidenceKept, Kept
  <2> QED BY <2>2, <2>3
<1>2. TypeInv /\ ReviewInv /\ [Next]_vars => [EvidenceIsReal' /\ EvidenceKept]_vars BY <1>1
<1> QED BY <1>2, Invariant, PTL DEF Spec, EvidenceStays

-----------------------------------------------------------------------------
(* One reply *)

(* A reply the runtime posted is on record as done. *)
PostedOnce ==
  \A t \in Threads : \/ remote[t].posted = 0
                     \/ remote[t].posted = 1 /\ rows[<<t, "reply">>] = "done"

LEMMA PostedStep ==
  ASSUME ~AutoClean, TypeInv, ReviewInv, PostedOnce, [Next]_vars
  PROVE  PostedOnce'
<1>1. ASSUME UNCHANGED rows, \A t \in Threads : remote'[t].posted = remote[t].posted
      PROVE  PostedOnce'
  BY <1>1 DEF PostedOnce
<1>2. ASSUME NEW p \in Procs, Reply(p) PROVE PostedOnce'
  <2> DEFINE t == job[p].item
             n == IF remote[t].posted = 2 THEN 2 ELSE remote[t].posted + 1
  <2>1. t \in Threads BY <1>2 DEF Reply, ReviewInv, ProcOK
  <2>2. CASE UNCHANGED <<remote, rows>> BY <1>1, <2>2
  <2>3. CASE /\ ~Known(p, "reply")
             /\ remote' = [remote EXCEPT ![t].posted = n, ![t].replied = TRUE]
             /\ rows' = [rows EXCEPT ![<<t, "reply">>] = "done"]
    <3>1. rows[<<t, "reply">>] # "done" BY <2>3 DEF Known
    <3>2. remote[t].posted = 0 BY <2>1, <3>1 DEF PostedOnce
    <3>3. n = 1 BY <3>2
    <3> HIDE DEF n
    <3>4. remote'[t].posted = 1 /\ rows'[<<t, "reply">>] = "done"
      BY <2>1, <2>3, <3>3 DEF TypeInv, Row
    <3>5. \A x \in Threads \ {t} : /\ remote'[x] = remote[x]
                                   /\ rows'[<<x, "reply">>] = rows[<<x, "reply">>]
      BY <2>3 DEF TypeInv
    <3> QED BY <3>4, <3>5 DEF PostedOnce
  <2> QED BY <1>2, <2>2, <2>3 DEF Reply, Executed
<1>3. ASSUME NEW p \in Procs, Resolve(p) PROVE PostedOnce'
  <2> DEFINE t == job[p].item
  <2>1. t \in Threads BY <1>3 DEF Resolve, ReviewInv, ProcOK
  <2>2. CASE UNCHANGED <<remote, rows>> BY <1>1, <2>2
  <2>3. CASE /\ remote' = [remote EXCEPT ![t].st = "resolved"]
             /\ rows' = [rows EXCEPT ![<<t, "resolve">>] = "done"]
    <3>1. \A x \in Threads : /\ remote'[x].posted = remote[x].posted
                             /\ rows'[<<x, "reply">>] = rows[<<x, "reply">>]
      BY <2>1, <2>3 DEF TypeInv, Row
    <3> QED BY <3>1 DEF PostedOnce
  <2> QED BY <1>3, <2>2, <2>3 DEF Resolve, Executed
<1>4. ASSUME NEW p \in Procs, EffectFails(p) PROVE PostedOnce'
  <2> DEFINE t == job[p].item
  <2>1. UNCHANGED remote /\ rows' = [rows EXCEPT ![<<t, pc[p]>>] = "tried"]
    BY <1>4 DEF EffectFails, outside
  <2>2. t \in Threads BY <1>4 DEF EffectFails, ReviewInv, ProcOK
  <2>3. pc[p] = "reply" => rows[<<t, "reply">>] # "done" BY <1>4 DEF EffectFails, Known
  <2>4. \A x \in Threads : rows[<<x, "reply">>] = "done" => rows'[<<x, "reply">>] = "done"
    BY <2>1, <2>3 DEF TypeInv
  <2> QED BY <2>1, <2>4 DEF PostedOnce
<1>5. ASSUME NEW p \in Procs, Finish(p) PROVE PostedOnce'
  BY <1>1, <1>5 DEF Finish, store, outside
<1>6. ASSUME NEW t \in Threads, OnGitHub(t) PROVE PostedOnce'
  <2>a. \/ \E st \in {"open", "resolved"} : remote' = [remote EXCEPT ![t].st = st]
        \/ remote' = [remote EXCEPT ![t].replied = TRUE]
        \/ remote' = [remote EXCEPT ![t].outdated = TRUE]
    BY <1>6 DEF OnGitHub
  <2>b. remote[t] \in Row BY DEF TypeInv
  <2>1. ASSUME NEW x \in Threads PROVE remote'[x].posted = remote[x].posted
    <3>1. CASE x # t BY <2>a, <3>1 DEF TypeInv
    <3>2. CASE x = t
      <4>1. ASSUME NEW st, remote' = [remote EXCEPT ![t].st = st]
            PROVE  remote'[x].posted = remote[x].posted
        BY <2>b, <3>2, <4>1 DEF TypeInv, Row
      <4>2. CASE remote' = [remote EXCEPT ![t].replied = TRUE]
        BY <2>b, <3>2, <4>2 DEF TypeInv, Row
      <4>3. CASE remote' = [remote EXCEPT ![t].outdated = TRUE]
        BY <2>b, <3>2, <4>3 DEF TypeInv, Row
      <4> QED BY <2>a, <4>1, <4>2, <4>3
    <3> QED BY <3>1, <3>2
  <2> QED BY <1>1, <1>6, <2>1 DEF OnGitHub, store
<1>7. ASSUME NEW p \in Procs,
             \/ Save(p) \/ Classify(p) \/ Issue(p) \/ Claim(p) \/ Accept(p) \/ Publish(p)
             \/ PublishSave(p) \/ Rejected(p) \/ Crash(p)
      PROVE  PostedOnce'
  BY <1>1, <1>7 DEF Save, Classify, Issue, Claim, Accept, Publish, PublishSave, Rejected, Crash,
                    outside, store
<1>8. ASSUME NEW p \in Procs, Start(p) PROVE PostedOnce'
  BY <1>1, <1>8 DEF Start, StartLoadSave, StartAnswer, Reopen, StartPublish, outside, store
<1>9. ASSUME NEW i \in Items, Expire(i) PROVE PostedOnce' BY <1>1, <1>9 DEF Expire, outside
<1>10. CASE Settle \/ Nothing \/ UNCHANGED vars
  BY <1>1, <1>10 DEF Settle, Nothing, outside, store, vars
<1> QED BY <1>2, <1>3, <1>4, <1>5, <1>6, <1>7, <1>8, <1>9, <1>10 DEF Next, Step

(* As long as no gate archives the workspace the runtime replies to a       *)
(* thread once, whatever is refreshed, retried or saved by others in        *)
(* between: a reply that is done is never forgotten (execute_side_effect).  *)
THEOREM RepliesOnce == ASSUME ~AutoClean PROVE Spec => []OneReply
<1>1. Init => PostedOnce
  <2>1. ASSUME Init PROVE \A t \in Threads : remote[t].posted = 0 BY <2>1 DEF Init
  <2> QED BY <2>1 DEF PostedOnce
<1>2. PostedOnce => OneReply
  <2> SUFFICES ASSUME PostedOnce, NEW t \in Threads PROVE remote[t].posted <= 1
    BY DEF OneReply
  <2>1. remote[t].posted \in {0, 1} BY DEF PostedOnce
  <2> QED BY <2>1
<1>3. TypeInv /\ ReviewInv /\ PostedOnce /\ [Next]_vars => PostedOnce' BY PostedStep
<1> QED BY <1>1, <1>2, <1>3, Invariant, PTL DEF Spec
=============================================================================
