------------------------- MODULE OrchestratorProofs -------------------------
(***************************************************************************)
(* Proofs about Orchestrator: type correctness, the limit on the leases of *)
(* a coordinator and the life of a worker's token, for every set of items, *)
(* every number of workers and every bound on faults.                      *)
(***************************************************************************)
EXTENDS Orchestrator, FiniteSetTheorems, TLAPS

PcSteps == {"idle", "sync", "claim", "project", "gate", "save", "refused", "parse", "submit"}
Cmds == {"none", "start", "status", "step", "stop", "submit"}

(* The commands' local variables; the two of NoJob that no item or token   *)
(* stands for are 0.                                                       *)
JobType == [cmd : Cmds, item : Items \cup {0}, token : Nat, corrupt : BOOLEAN, s : Session]

TypeInv ==
  /\ item \in [Items -> {"open", "handled"}] /\ triaged \in SUBSET Items
  /\ issued \in Nat /\ lease \in [Items -> 0..issued]
  /\ file \in Session /\ packets \in SUBSET (Items \X (1..issued))
  /\ pc \in [Procs -> PcSteps] /\ job \in [Procs -> JobType]
  /\ faults \in 0..MaxFaults

(* Between its sync and its claim a coordinator has room for one lease     *)
(* more, whatever others do: only its own claim grants one.                *)
Room ==
  /\ Cardinality(Leased) <= MaxConcurrency
  /\ pc[Coordinator] = "claim" => Cardinality(Leased) < MaxConcurrency

(* Where a process is says which command it runs; the item and token of a  *)
(* claim or a submission are real ones, among the first n. *)
JobOK(step, j, n) ==
  /\ step \in {"refused", "parse", "submit"} => j.cmd = "submit"
  /\ step \in {"project", "refused", "parse", "submit"} => j.item \in Items
  /\ j.cmd = "submit" => j.item \in Items
  /\ step = "project" \/ j.cmd = "submit" => j.token \in 1..n

(* A coordinator never submits, a worker never does anything else. *)
Places ==
  /\ \A p \in Procs : JobOK(pc[p], job[p], issued)
  /\ job[Coordinator].cmd # "submit"
  /\ \A w \in Workers : pc[w] # "idle" => job[w].cmd = "submit"
  /\ \A w \in Workers : pc[w] = "refused" => lease[job[w].item] # job[w].token

-----------------------------------------------------------------------------
(* Sessions *)

LEMMA EmptyType == ASSUME NEW missing \in BOOLEAN PROVE EmptySession(missing) \in Session
BY DEF EmptySession, Session

LEMMA NoJobType == NoJob \in JobType
BY EmptyType DEF NoJob, JobType, Cmds

(* Reconciling takes the store's leases for the dispatches. *)
LEMMA ReconciledType ==
  ASSUME TypeInv, NEW s \in Session
  PROVE  Reconciled(s) \in Session /\ Reconciled(s).dispatch = lease
<1>1. lease \in [Items -> Nat] BY DEF TypeInv
<1> QED BY <1>1 DEF Reconciled, Session

(* Where a step leaves the process. *)
LEMMA GotoType ==
  ASSUME TypeInv, NEW p \in Procs, NEW step \in PcSteps, NEW j \in JobType, Goto(p, step, j)
  PROVE  pc' \in [Procs -> PcSteps] /\ job' \in [Procs -> JobType]
BY DEF Goto, TypeInv

LEMMA EndType ==
  ASSUME TypeInv, NEW p \in Procs, End(p)
  PROVE  pc' \in [Procs -> PcSteps] /\ job' \in [Procs -> JobType]
BY GotoType, NoJobType DEF End, PcSteps

LEMMA FaultType == ASSUME TypeInv, Fault PROVE faults' \in 0..MaxFaults
BY OrchestratorAssumption DEF TypeInv, Fault

LEMMA LoadType ==
  ASSUME TypeInv, NEW p \in Procs, NEW cmd \in Cmds, NEW i \in Items \cup {0}, NEW token \in Nat,
         NEW corrupt \in BOOLEAN, Load(p, cmd, i, token, corrupt)
  PROVE  pc' \in [Procs -> PcSteps] /\ job' \in [Procs -> JobType]
<1> DEFINE s == IF file.missing THEN EmptySession(FALSE) ELSE file
           j == [cmd |-> cmd, item |-> i, token |-> token, corrupt |-> corrupt, s |-> s]
<1>1. s \in Session BY EmptyType DEF TypeInv
<1>2. Goto(p, "sync", j) BY DEF Load
<1> HIDE DEF s
<1>3. j \in JobType BY <1>1 DEF JobType
<1> QED BY <1>2, <1>3, GotoType DEF PcSteps

-----------------------------------------------------------------------------
(* Type correctness, one step at a time. *)

LEMMA ClaimType == ASSUME TypeInv, NEW p \in Procs, Claim(p) PROVE TypeInv'
<1> DEFINE j == job[p]
           first == CHOOSE i \in Eligible : \A k \in Eligible : i <= k
<1>1. j \in JobType BY DEF TypeInv
<1>2. CASE Eligible = {}
  <2> DEFINE k == [j EXCEPT !.s = Reconciled(@)]
  <2>1. k \in JobType BY <1>1, ReconciledType DEF JobType
  <2>2. Goto(p, "save", k) /\ UNCHANGED runtime BY <1>2 DEF Claim
  <2> HIDE DEF k
  <2>3. pc' \in [Procs -> PcSteps] /\ job' \in [Procs -> JobType]
    BY <2>1, <2>2, GotoType DEF PcSteps
  <2> QED BY <2>2, <2>3 DEF TypeInv, Claim, runtime
<1>3. CASE Goto(p, "save", j) /\ UNCHANGED runtime
  <2>1. pc' \in [Procs -> PcSteps] /\ job' \in [Procs -> JobType]
    BY <1>1, <1>3, GotoType DEF PcSteps
  <2> QED BY <1>3, <2>1 DEF TypeInv, Claim, runtime
<1>4. CASE Eligible # {} /\ first \in triaged /\ issued' = issued + 1
           /\ lease' = [lease EXCEPT ![first] = issued + 1]
           /\ Goto(p, "project", [j EXCEPT !.item = first, !.token = issued + 1])
           /\ UNCHANGED <<item, triaged>>
  <2> DEFINE k == [j EXCEPT !.item = first, !.token = issued + 1]
  <2>1. first \in Items BY <1>4 DEF TypeInv
  <2> HIDE DEF first
  <2>a. issued + 1 \in Nat BY DEF TypeInv
  <2>2. k \in JobType BY <1>1, <2>1, <2>a DEF JobType
  <2> HIDE DEF k
  <2>3. pc' \in [Procs -> PcSteps] /\ job' \in [Procs -> JobType]
    BY <1>4, <2>2, GotoType DEF PcSteps, k
  <2>4. issued' \in Nat /\ lease' \in [Items -> 0..issued'] BY <1>4 DEF TypeInv
  <2>5. packets' \in SUBSET (Items \X (1..issued')) BY <1>4 DEF TypeInv, Claim
  <2> QED BY <1>4, <2>3, <2>4, <2>5 DEF TypeInv, Claim
<1> QED BY <1>2, <1>3, <1>4 DEF Claim

LEMMA SyncType == ASSUME TypeInv, NEW p \in Procs, Sync(p) PROVE TypeInv'
<1> DEFINE j == job[p]
           s == Reconciled(j.s)
           k == [j EXCEPT !.s = s]
           m == [j EXCEPT !.s = [s EXCEPT !.completed = FALSE]]
<1>1. j \in JobType BY DEF TypeInv
<1>2. s \in Session BY <1>1, ReconciledType DEF JobType
<1>3. \/ End(p) \/ Goto(p, "save", k) \/ Goto(p, "gate", k)
      \/ Goto(p, "save", m) \/ Goto(p, "claim", m)
  BY DEF Sync
<1> HIDE DEF s
<1>4. k \in JobType /\ m \in JobType BY <1>1, <1>2 DEF JobType, Session
<1> HIDE DEF k, m
<1>5. pc' \in [Procs -> PcSteps] /\ job' \in [Procs -> JobType]
  BY <1>3, <1>4, GotoType, EndType DEF PcSteps
<1> QED BY <1>5 DEF TypeInv, Sync, runtime

LEMMA SubmitType == ASSUME TypeInv, NEW w \in Workers, Submit(w), JobOK(pc[w], job[w], issued) PROVE TypeInv'
<1> DEFINE j == job[w]
           k == [j EXCEPT !.s.dispatch[j.item] = 0, !.s.retries[j.item] = 0,
                          !.s.human = @ \ {j.item}]
<1>1. j \in JobType /\ w \in Procs BY DEF TypeInv, Procs
<1>2. j.item \in Items BY DEF JobOK, Submit
<1>3. k \in JobType BY <1>1, <1>2 DEF JobType, Session
<1>4. Goto(w, "save", j) \/ Goto(w, "save", k) BY DEF Submit
<1> HIDE DEF k
<1>5. pc' \in [Procs -> PcSteps] /\ job' \in [Procs -> JobType]
  BY <1>1, <1>3, <1>4, GotoType DEF PcSteps
<1>6. item' \in [Items -> {"open", "handled"}] /\ lease' \in [Items -> 0..issued]
  BY <1>2 DEF TypeInv, Submit
<1>7. packets' \in SUBSET (Items \X (1..issued)) BY DEF TypeInv, Submit
<1> QED BY <1>5, <1>6, <1>7 DEF TypeInv, Submit

LEMMA ValidateType == ASSUME TypeInv, NEW w \in Workers, Validate(w) PROVE TypeInv'
<1> DEFINE j == job[w]
           s == Reconciled(j.s)
           k == [j EXCEPT !.s = s]
<1>1. j \in JobType /\ w \in Procs BY DEF TypeInv, Procs
<1>2. s \in Session BY <1>1, ReconciledType DEF JobType
<1>3. file' = s /\ (Goto(w, "parse", k) \/ Goto(w, "refused", j)) BY DEF Validate
<1> HIDE DEF s
<1>4. k \in JobType BY <1>1, <1>2 DEF JobType
<1> HIDE DEF k
<1>5. pc' \in [Procs -> PcSteps] /\ job' \in [Procs -> JobType]
  BY <1>1, <1>3, <1>4, GotoType DEF PcSteps
<1>6. packets' \in SUBSET (Items \X (1..issued)) BY DEF TypeInv, Validate
<1> QED BY <1>2, <1>3, <1>5, <1>6 DEF TypeInv, Validate, runtime

LEMMA ParseType == ASSUME TypeInv, NEW w \in Workers, Parse(w), JobOK(pc[w], job[w], issued) PROVE TypeInv'
<1> DEFINE j == job[w]
           n == j.s.retries[j.item] + 1
           H == IF n >= Threshold THEN j.s.human \cup {j.item} ELSE j.s.human
           k == [j EXCEPT !.s.retries[j.item] = n, !.s.human = H]
<1>1. j \in JobType /\ w \in Procs BY DEF TypeInv, Procs
<1>2. j.item \in Items BY DEF JobOK, Parse
<1>3. n \in Nat /\ H \in SUBSET Items BY <1>1, <1>2 DEF JobType, Session
<1>4. Goto(w, "submit", j) \/ Goto(w, "save", k) BY DEF Parse
<1> HIDE DEF n, H
<1>5. k \in JobType BY <1>1, <1>2, <1>3 DEF JobType, Session
<1> HIDE DEF k
<1>6. pc' \in [Procs -> PcSteps] /\ job' \in [Procs -> JobType]
  BY <1>1, <1>4, <1>5, GotoType DEF PcSteps
<1> QED BY <1>6 DEF TypeInv, Parse, runtime

LEMMA ProjectType ==
  ASSUME TypeInv, NEW p \in Procs, Project(p) \/ ProjectFails(p), JobOK(pc[p], job[p], issued)
  PROVE  TypeInv'
<1> DEFINE j == job[p]
<1>1. j \in JobType BY DEF TypeInv
<1>2. j.item \in Items /\ j.token \in 1..issued BY DEF JobOK, Project, ProjectFails
<1>3. pc' \in [Procs -> PcSteps] /\ job' \in [Procs -> JobType]
  BY EndType DEF Project, ProjectFails
<1>4. CASE Project(p)
  <2>1. file' = [j.s EXCEPT !.dispatch[j.item] = j.token] BY <1>4 DEF Project
  <2>2. file' \in Session BY <1>1, <1>2, <2>1 DEF JobType, Session
  <2>3. packets' \in SUBSET (Items \X (1..issued)) BY <1>2, <1>4 DEF TypeInv, Project
  <2> QED BY <1>3, <1>4, <2>2, <2>3 DEF TypeInv, Project, runtime
<1>5. CASE ProjectFails(p)
  <2>a. \E n \in {0, lease[j.item]} : lease' = [lease EXCEPT ![j.item] = n]
    BY <1>5 DEF ProjectFails
  <2>1. lease' \in [Items -> 0..issued] BY <1>2, <2>a DEF TypeInv
  <2> QED BY <1>3, <1>5, <2>1, FaultType DEF TypeInv, ProjectFails
<1> QED BY <1>4, <1>5

LEMMA OthersType ==
  ASSUME TypeInv, NEW p \in Procs,
         Gate(p) \/ Save(p) \/ Refused(p) \/ Crash(p)
  PROVE  TypeInv'
<1>1. job[p] \in JobType BY DEF TypeInv
<1>2. CASE Gate(p)
  <2> DEFINE k == [job[p] EXCEPT !.s.completed = TRUE]
  <2>1. k \in JobType BY <1>1 DEF JobType, Session
  <2>2. Goto(p, "save", k) \/ End(p) BY <1>2 DEF Gate
  <2> HIDE DEF k
  <2>3. pc' \in [Procs -> PcSteps] /\ job' \in [Procs -> JobType]
    BY <2>1, <2>2, GotoType, EndType DEF PcSteps
  <2> QED BY <1>2, <2>3 DEF TypeInv, Gate, runtime
<1>3. CASE Save(p)
  <2>1. pc' \in [Procs -> PcSteps] /\ job' \in [Procs -> JobType] BY <1>3, EndType DEF Save
  <2> QED BY <1>1, <1>3, <2>1 DEF TypeInv, Save, runtime, JobType
<1>4. CASE Refused(p)
  <2>1. pc' \in [Procs -> PcSteps] /\ job' \in [Procs -> JobType] BY <1>4, EndType DEF Refused
  <2> QED BY <1>4, <2>1 DEF TypeInv, Refused, runtime
<1>5. CASE Crash(p)
  <2>1. pc' \in [Procs -> PcSteps] /\ job' \in [Procs -> JobType] BY <1>5, EndType DEF Crash
  <2> QED BY <1>5, <2>1, FaultType DEF TypeInv, Crash, runtime
<1> QED BY <1>2, <1>3, <1>4, <1>5

LEMMA StartType ==
  ASSUME TypeInv,
         \/ \E cmd \in {"start", "status", "step", "stop"} : StartCommand(cmd)
         \/ \E w \in Workers, packet \in packets, corrupt \in BOOLEAN :
              StartSubmit(w, packet[1], packet[2], corrupt)
  PROVE  TypeInv'
<1>1. CASE \E cmd \in {"start", "status", "step", "stop"} : StartCommand(cmd)
  <2>1. PICK cmd \in {"start", "status", "step", "stop"} : StartCommand(cmd) BY <1>1
  <2>2. Load(Coordinator, cmd, 0, 0, FALSE) /\ Coordinator \in Procs /\ cmd \in Cmds
    BY <2>1 DEF StartCommand, Procs, Cmds
  <2>3. pc' \in [Procs -> PcSteps] /\ job' \in [Procs -> JobType] BY <2>2, LoadType
  <2> QED BY <2>1, <2>3 DEF TypeInv, StartCommand, runtime
<1>2. CASE \E w \in Workers, packet \in packets, corrupt \in BOOLEAN :
             StartSubmit(w, packet[1], packet[2], corrupt)
  <2>1. PICK w \in Workers, packet \in packets, corrupt \in BOOLEAN :
          StartSubmit(w, packet[1], packet[2], corrupt)
    BY <1>2
  <2>2. packet[1] \in Items /\ packet[2] \in Nat BY DEF TypeInv
  <2>3. Load(w, "submit", packet[1], packet[2], corrupt) /\ w \in Procs /\ "submit" \in Cmds
    BY <2>1 DEF StartSubmit, Procs, Cmds
  <2>4. pc' \in [Procs -> PcSteps] /\ job' \in [Procs -> JobType] BY <2>2, <2>3, LoadType
  <2>5. faults' \in 0..MaxFaults BY <2>1, FaultType DEF StartSubmit, TypeInv
  <2> QED BY <2>1, <2>4, <2>5 DEF TypeInv, StartSubmit, runtime
<1> QED BY <1>1, <1>2

LEMMA EnvironmentType ==
  ASSUME TypeInv, (\E i \in Items : Classify(i) \/ Expire(i) \/ Reopened(i)) \/ LoseFile
  PROVE  TypeInv'
<1>1. ASSUME NEW i \in Items, Classify(i) PROVE TypeInv' BY <1>1 DEF TypeInv, Classify
<1>2. ASSUME NEW i \in Items, Expire(i) PROVE TypeInv'
  <2>1. faults' \in 0..MaxFaults BY <1>2, FaultType DEF Expire, TypeInv
  <2>2. lease' \in [Items -> 0..issued] BY <1>2 DEF Expire, TypeInv
  <2> QED BY <1>2, <2>1, <2>2 DEF TypeInv, Expire
<1>3. ASSUME NEW i \in Items, Reopened(i) PROVE TypeInv'
  BY <1>3, FaultType DEF TypeInv, Reopened
<1>4. CASE LoseFile BY <1>4, FaultType, EmptyType DEF TypeInv, LoseFile, runtime
<1> QED BY <1>1, <1>2, <1>3, <1>4

LEMMA TypeStep == ASSUME TypeInv, Places, [Next]_vars PROVE TypeInv'
<1>1. \A p \in Procs : JobOK(pc[p], job[p], issued) BY DEF Places
<1>2. Coordinator \in Procs /\ Workers \subseteq Procs BY DEF Procs
<1>3. ASSUME Coordinate \/ ProjectFails(Coordinator) PROVE TypeInv'
  BY <1>1, <1>2, <1>3, SyncType, ClaimType, ProjectType, OthersType DEF Coordinate
<1>4. ASSUME NEW w \in Workers, Work(w) PROVE TypeInv'
  BY <1>1, <1>2, <1>4, ValidateType, ParseType, SubmitType, OthersType DEF Work
<1>5. CASE UNCHANGED vars BY <1>5 DEF TypeInv, vars
<1>6. ASSUME NEW p \in Procs, Crash(p) PROVE TypeInv' BY <1>6, OthersType
<1> QED BY <1>3, <1>4, <1>5, <1>6, StartType, EnvironmentType DEF Next

-----------------------------------------------------------------------------
(* Where the processes are *)

(* A step of one process that changes leases only by ending them or by     *)
(* granting a token no one has.                                            *)
LEMMA PlaceStep ==
  ASSUME TypeInv, Places, NEW p \in Procs, NEW step, NEW j, Goto(p, step, j),
         issued' \in Nat, issued <= issued', JobOK(step, j, issued'),
         p = Coordinator => j.cmd # "submit",
         p \in Workers /\ step # "idle" => j.cmd = "submit",
         p \in Workers /\ step = "refused" => lease'[j.item] # j.token,
         \A i \in Items : lease'[i] \in {lease[i], 0, issued + 1}
  PROVE  Places'
<1>1. \A q \in Procs : pc'[q] = IF q = p THEN step ELSE pc[q] BY DEF Goto, TypeInv
<1>2. \A q \in Procs : job'[q] = IF q = p THEN j ELSE job[q] BY DEF Goto, TypeInv
<1>3. Coordinator \in Procs /\ Workers \subseteq Procs BY DEF Procs
<1>4. ASSUME NEW q \in Procs PROVE JobOK(pc'[q], job'[q], issued')
  <2>1. CASE q = p BY <1>1, <1>2, <2>1
  <2>2. CASE q # p
    <3>1. JobOK(pc[q], job[q], issued) BY DEF Places
    <3>2. 1..issued \subseteq 1..issued' BY DEF TypeInv
    <3>3. JobOK(pc[q], job[q], issued') BY <3>1, <3>2 DEF JobOK
    <3> QED BY <1>1, <1>2, <2>2, <3>3
  <2> QED BY <2>1, <2>2
<1>5. job'[Coordinator].cmd # "submit" BY <1>2, <1>3 DEF Places
<1>6. ASSUME NEW w \in Workers, pc'[w] # "idle" PROVE job'[w].cmd = "submit"
  BY <1>1, <1>2, <1>3, <1>6 DEF Places
<1>7. ASSUME NEW w \in Workers, pc'[w] = "refused" PROVE lease'[job'[w].item] # job'[w].token
  <2>1. CASE w = p BY <1>1, <1>2, <1>3, <1>7, <2>1
  <2>2. CASE w # p
    <3>1. pc[w] = "refused" /\ job'[w] = job[w] BY <1>1, <1>2, <1>3, <1>7, <2>2
    <3>2. lease[job[w].item] # job[w].token BY <3>1 DEF Places
    <3>3. JobOK("refused", job[w], issued) BY <1>3, <3>1 DEF Places
    <3>4. job[w].item \in Items /\ job[w].token \in 1..issued
      <4>1. job[w].cmd = "submit" BY <3>3 DEF JobOK
      <4> QED BY <3>3, <4>1 DEF JobOK
    <3>5. lease'[job[w].item] \in {lease[job[w].item], 0, issued + 1} BY <3>4
    <3> QED BY <3>1, <3>2, <3>4, <3>5 DEF TypeInv
  <2> QED BY <2>1, <2>2
<1> QED BY <1>4, <1>5, <1>6, <1>7 DEF Places

(* The end of a command. *)
LEMMA PlaceEnd ==
  ASSUME TypeInv, Places, NEW p \in Procs, End(p), UNCHANGED issued,
         \A i \in Items : lease'[i] \in {lease[i], 0, issued + 1}
  PROVE  Places'
<1>1. JobOK("idle", NoJob, issued') BY DEF JobOK, NoJob
<1>2. Goto(p, "idle", NoJob) /\ NoJob.cmd # "submit" BY DEF End, NoJob
<1>3. issued' \in Nat /\ issued <= issued' BY DEF TypeInv
<1> QED BY <1>1, <1>2, <1>3, PlaceStep

LEMMA PlacesStep == ASSUME TypeInv, Places, [Next]_vars PROVE Places'
<1>1. Coordinator \in Procs /\ Coordinator \notin Workers /\ Workers \subseteq Procs
  BY OrchestratorAssumption DEF Procs
<1>2. issued \in Nat /\ issued <= issued BY DEF TypeInv
<1> DEFINE Ends == \A i \in Items : lease'[i] \in {lease[i], 0, issued + 1}
<1>3. UNCHANGED lease => Ends OBVIOUS
<1>4. JobOK(pc[Coordinator], job[Coordinator], issued) /\ job[Coordinator].cmd # "submit"
  BY <1>1 DEF Places
<1>5. job \in [Procs -> JobType] BY DEF TypeInv
<1>6. ASSUME NEW cmd \in {"start", "status", "step", "stop"}, StartCommand(cmd) PROVE Places'
  <2>1. PICK j : Goto(Coordinator, "sync", j) /\ j.cmd = cmd BY <1>6 DEF StartCommand, Load
  <2>2. JobOK("sync", j, issued) BY <2>1 DEF JobOK
  <2>3. UNCHANGED <<lease, issued>> BY <1>6 DEF StartCommand, runtime
  <2> QED BY <1>1, <1>2, <2>1, <2>2, <2>3, PlaceStep
<1>7. CASE Sync(Coordinator)
  <2>1. UNCHANGED <<lease, issued>> BY <1>7 DEF Sync, runtime
  <2>2. ASSUME NEW s PROVE [job[Coordinator] EXCEPT !.s = s].cmd # "submit" BY <1>1, <1>4, <1>5 DEF JobType
  <2>3. End(Coordinator) \/ \E step \in {"save", "claim", "gate"} : \E s :
                               Goto(Coordinator, step, [job[Coordinator] EXCEPT !.s = s])
    BY <1>7, Zenon DEF Sync
  <2>4. ASSUME NEW step \in {"save", "claim", "gate"}, NEW s,
               Goto(Coordinator, step, [job[Coordinator] EXCEPT !.s = s])
        PROVE  Places'
    <3>1. JobOK(step, [job[Coordinator] EXCEPT !.s = s], issued) BY <2>2 DEF JobOK
    <3> QED BY <1>1, <1>2, <2>1, <2>2, <2>4, <3>1, PlaceStep
  <2> QED BY <1>1, <2>1, <2>3, <2>4, PlaceEnd
<1>8. CASE Claim(Coordinator)
  <2> DEFINE first == CHOOSE i \in Eligible : \A k \in Eligible : i <= k
             c == job[Coordinator]
  <2>1. ASSUME NEW s PROVE [c EXCEPT !.s = s].cmd # "submit" BY <1>1, <1>4, <1>5 DEF JobType
  <2>2. ASSUME NEW j, j.cmd # "submit", UNCHANGED <<lease, issued>>, Goto(Coordinator, "save", j)
        PROVE  Places'
    <3>1. JobOK("save", j, issued) BY <2>2 DEF JobOK
    <3> QED BY <1>1, <1>2, <2>2, <3>1, PlaceStep
  <2>3. CASE Goto(Coordinator, "save", [c EXCEPT !.s = Reconciled(@)]) /\ UNCHANGED runtime
    BY <2>1, <2>2, <2>3 DEF runtime
  <2>4. CASE Goto(Coordinator, "save", c) /\ UNCHANGED runtime BY <1>4, <2>2, <2>4 DEF runtime
  <2>5. CASE first \in triaged /\ issued' = issued + 1 /\ lease' = [lease EXCEPT ![first] = issued + 1]
             /\ Goto(Coordinator, "project", [c EXCEPT !.item = first, !.token = issued + 1])
    <3> DEFINE k == [c EXCEPT !.item = first, !.token = issued + 1]
    <3>1. first \in Items BY <2>5 DEF TypeInv
    <3> HIDE DEF first
    <3>2. k.cmd = c.cmd /\ k.item = first /\ k.token = issued + 1 BY <1>1, <1>5 DEF JobType
    <3>3. JobOK("project", k, issued + 1) BY <1>2, <1>4, <3>1, <3>2 DEF JobOK
    <3>4. Ends BY <2>5 DEF TypeInv, first
    <3>5. Goto(Coordinator, "project", k) BY <2>5 DEF first
    <3>6. issued' \in Nat /\ issued <= issued' /\ issued' = issued + 1 BY <1>2, <2>5
    <3> HIDE DEF k
    <3> QED BY <1>1, <1>4, <3>2, <3>3, <3>4, <3>5, <3>6, PlaceStep
  <2> QED BY <1>8, <2>3, <2>4, <2>5 DEF Claim
<1>9. CASE Project(Coordinator)
  BY <1>1, <1>3, <1>9, PlaceEnd DEF Project, runtime
<1>10. CASE ProjectFails(Coordinator)
  <2>1. Ends BY <1>10 DEF ProjectFails, TypeInv
  <2> QED BY <1>1, <1>10, <2>1, PlaceEnd DEF ProjectFails
<1>11. CASE Gate(Coordinator)
  <2> DEFINE k == [job[Coordinator] EXCEPT !.s.completed = TRUE]
  <2>1. k.cmd # "submit" BY <1>1, <1>4, <1>5 DEF JobType
  <2>2. UNCHANGED <<lease, issued>> BY <1>11 DEF Gate, runtime
  <2>3. Goto(Coordinator, "save", k) \/ End(Coordinator) BY <1>11 DEF Gate
  <2> HIDE DEF k
  <2>4. JobOK("save", k, issued) BY <2>1 DEF JobOK
  <2> QED BY <1>1, <1>2, <2>1, <2>2, <2>3, <2>4, PlaceStep, PlaceEnd
<1>12. ASSUME NEW p \in Procs, Save(p) \/ Refused(p) \/ Crash(p) PROVE Places'
  BY <1>3, <1>12, PlaceEnd DEF Save, Refused, Crash, runtime
<1>13. ASSUME NEW w \in Workers, NEW packet \in packets, NEW corrupt \in BOOLEAN,
              StartSubmit(w, packet[1], packet[2], corrupt)
       PROVE  Places'
  <2>1. PICK j : Goto(w, "sync", j) /\ j.cmd = "submit" /\ j.item = packet[1] /\ j.token = packet[2]
    BY <1>13 DEF StartSubmit, Load
  <2>2. packet[1] \in Items /\ packet[2] \in 1..issued BY DEF TypeInv
  <2>3. JobOK("sync", j, issued) BY <2>1, <2>2 DEF JobOK
  <2>4. UNCHANGED <<lease, issued>> BY <1>13 DEF StartSubmit, runtime
  <2> QED BY <1>1, <1>2, <2>1, <2>3, <2>4, PlaceStep
<1>14. ASSUME NEW w \in Workers, Validate(w) \/ Parse(w) \/ Submit(w) PROVE Places'
  <2> DEFINE c == job[w]
  <2>1. c \in JobType /\ w \in Procs /\ w # Coordinator BY <1>1, <1>5
  <2>2. c.cmd = "submit" BY <1>14 DEF Places, Validate, Parse, Submit
  <2>3. JobOK(pc[w], c, issued) BY <2>1 DEF Places
  <2>4. c.item \in Items /\ c.token \in 1..issued BY <2>2, <2>3 DEF JobOK
  <2>5. issued' = issued BY <1>14 DEF Validate, Parse, Submit, runtime
  <2>6. Ends BY <1>14 DEF Validate, Parse, Submit, runtime, TypeInv
  <2>7. ASSUME NEW step, NEW s, Goto(w, step, [c EXCEPT !.s = s]), step # "refused" PROVE Places'
    <3> DEFINE k == [c EXCEPT !.s = s]
    <3>1. k.cmd = "submit" /\ k.item = c.item /\ k.token = c.token BY <2>1, <2>2 DEF JobType
    <3>2. Goto(w, step, k) BY <2>7
    <3> HIDE DEF k
    <3>3. JobOK(step, k, issued) BY <2>4, <3>1 DEF JobOK
    <3> QED BY <1>2, <2>1, <2>5, <2>6, <2>7, <3>1, <3>2, <3>3, PlaceStep
  <2>8. ASSUME NEW step, Goto(w, step, c), step # "refused" PROVE Places'
    <3>1. JobOK(step, c, issued) BY <2>2, <2>4, <2>8 DEF JobOK
    <3> QED BY <1>2, <2>1, <2>2, <2>5, <2>6, <2>8, <3>1, PlaceStep
  <2>9. CASE Validate(w)
    <3>1. CASE Goto(w, "parse", [c EXCEPT !.s = Reconciled(c.s)]) BY <2>7, <3>1
    <3>2. CASE Goto(w, "refused", c) /\ Reconciled(c.s).dispatch[c.item] # c.token
      <4>1. lease[c.item] # c.token BY <2>1, <3>2, ReconciledType DEF JobType
      <4>2. lease' = lease BY <2>9 DEF Validate, runtime
      <4>3. JobOK("refused", c, issued) BY <2>2, <2>4 DEF JobOK
      <4> QED BY <1>2, <2>1, <2>2, <2>5, <2>6, <3>2, <4>1, <4>2, <4>3, PlaceStep
    <3> QED BY <2>9, <3>1, <3>2 DEF Validate
  <2>10. CASE Parse(w)
    <3>1. Goto(w, "submit", c) \/ \E s : Goto(w, "save", [c EXCEPT !.s = s])
      BY <2>1, <2>10 DEF Parse, JobType, Session
    <3> QED BY <2>7, <2>8, <3>1
  <2>11. CASE Submit(w)
    <3>1. Goto(w, "save", c) \/ \E s : Goto(w, "save", [c EXCEPT !.s = s])
      BY <2>1, <2>11 DEF Submit, JobType, Session
    <3> QED BY <2>7, <2>8, <3>1
  <2> QED BY <1>14, <2>9, <2>10, <2>11
<1>15. ASSUME NEW i \in Items, Expire(i) PROVE Places'
  <2>1. Ends /\ UNCHANGED <<pc, job, issued>> BY <1>15 DEF Expire, TypeInv
  <2>2. Goto(Coordinator, pc[Coordinator], job[Coordinator]) BY <1>1, <2>1 DEF Goto, TypeInv
  <2> QED BY <1>1, <1>2, <1>4, <2>1, <2>2, PlaceStep
<1>16. CASE (\E i \in Items : Classify(i) \/ Reopened(i)) \/ LoseFile \/ UNCHANGED vars
  <2>1. UNCHANGED <<pc, job, lease, issued>>
    BY <1>16 DEF Classify, Reopened, LoseFile, vars, runtime
  <2> QED BY <2>1 DEF Places
<1> QED BY <1>1, <1>6, <1>7, <1>8, <1>9, <1>10, <1>11, <1>12, <1>13, <1>14, <1>15, <1>16
        DEF Next, Coordinate, Work

-----------------------------------------------------------------------------
(* The limit *)

(* Leases that end make room. *)
LEMMA FewerLeases ==
  ASSUME TypeInv, \A i \in Items : lease'[i] \in {lease[i], 0}
  PROVE  /\ Cardinality(Leased') <= Cardinality(Leased)
         /\ Cardinality(Leased) \in Nat /\ Cardinality(Leased') \in Nat
<1>1. IsFiniteSet(Leased) BY OrchestratorAssumption, FS_Subset DEF Leased
<1>2. Leased' \subseteq Leased BY DEF Leased
<1> QED BY <1>1, <1>2, FS_Subset, FS_CardinalityType

LEMMA RoomStep == ASSUME TypeInv, Places, Room, [Next]_vars PROVE Room'
<1>1. Coordinator \in Procs /\ Coordinator \notin Workers /\ Workers \subseteq Procs
  BY OrchestratorAssumption DEF Procs
<1>2. MaxConcurrency \in Nat BY OrchestratorAssumption
<1> DEFINE Ends == \A i \in Items : lease'[i] \in {lease[i], 0}
           Stays == pc'[Coordinator] = "claim" => pc[Coordinator] = "claim"
<1>3. ASSUME Ends, Stays PROVE Room' BY <1>2, <1>3, FewerLeases DEF Room
<1>4. ASSUME NEW p \in Procs, NEW step, NEW j, Goto(p, step, j), step # "claim" \/ p # Coordinator
      PROVE  Stays
  BY <1>1, <1>4 DEF Goto, TypeInv
<1>5. ASSUME NEW p \in Procs, End(p) PROVE Stays BY <1>4, <1>5 DEF End
<1>6. UNCHANGED lease => Ends OBVIOUS
<1>7. CASE Sync(Coordinator)
  <2>1. UNCHANGED lease BY <1>7 DEF Sync, runtime
  <2>2. CASE HasRoom(Coordinator)
    <3>1. job[Coordinator].s \in Session BY <1>1 DEF TypeInv, JobType
    <3>2. Dispatched(Reconciled(job[Coordinator].s)) = Leased
      BY <3>1, ReconciledType DEF Dispatched, Leased
    <3>3. Cardinality(Leased) < MaxConcurrency BY <2>2, <3>2 DEF HasRoom
    <3>4. Leased' = Leased BY <2>1 DEF Leased
    <3> QED BY <3>3, <3>4 DEF Room
  <2>3. CASE ~HasRoom(Coordinator)
    <3>1. Stays
      <4>1. End(Coordinator) \/ \E step \in {"save", "gate"} : \E j : Goto(Coordinator, step, j)
        BY <1>7, <2>3, Zenon DEF Sync
      <4> QED BY <1>1, <1>4, <1>5, <4>1
    <3> QED BY <1>3, <2>1, <3>1
  <2> QED BY <2>2, <2>3
<1>8. CASE Claim(Coordinator)
  <2>1. CASE UNCHANGED lease
    <3>1. Stays BY <1>8 DEF Claim
    <3> QED BY <1>3, <2>1, <3>1
  <2>2. CASE \E i \in Items : /\ lease' = [lease EXCEPT ![i] = issued + 1]
                             /\ \E j : Goto(Coordinator, "project", j)
    <3>1. PICK i \in Items : /\ lease' = [lease EXCEPT ![i] = issued + 1]
                             /\ \E j : Goto(Coordinator, "project", j)
      BY <2>2
    <3>2. Leased' \subseteq Leased \cup {i} BY <3>1 DEF Leased, TypeInv
    <3>3. IsFiniteSet(Leased) BY OrchestratorAssumption, FS_Subset DEF Leased
    <3>4. /\ IsFiniteSet(Leased \cup {i})
          /\ Cardinality(Leased \cup {i}) <= Cardinality(Leased) + 1
      BY <3>3, FS_AddElement, FS_CardinalityType
    <3>5. Cardinality(Leased') <= Cardinality(Leased \cup {i}) BY <3>2, <3>4, FS_Subset
    <3>6. Cardinality(Leased) < MaxConcurrency BY <1>8 DEF Claim, Room
    <3>7. IsFiniteSet(Leased') BY <3>2, <3>4, FS_Subset
    <3>8. Cardinality(Leased') \in Nat /\ Cardinality(Leased) \in Nat
          /\ Cardinality(Leased \cup {i}) \in Nat
      BY <3>3, <3>4, <3>7, FS_CardinalityType
    <3>9. Cardinality(Leased') <= MaxConcurrency BY <1>2, <3>4, <3>5, <3>6, <3>8
    <3>10. pc'[Coordinator] = "project" BY <1>1, <3>1 DEF Goto, TypeInv
    <3> QED BY <3>9, <3>10 DEF Room
  <2>3. ASSUME ~UNCHANGED lease
        PROVE  \E i \in Items : /\ lease' = [lease EXCEPT ![i] = issued + 1]
                                /\ \E j : Goto(Coordinator, "project", j)
    <3>1. triaged \in SUBSET Items BY DEF TypeInv
    <3> QED BY <1>8, <2>3, <3>1, Zenon DEF Claim, runtime
  <2> QED BY <2>1, <2>2, <2>3
<1>9. ASSUME Project(Coordinator) \/ Gate(Coordinator) PROVE Room'
  <2>1. UNCHANGED lease BY <1>9 DEF Project, Gate, runtime
  <2>2. End(Coordinator) \/ \E j : Goto(Coordinator, "save", j) BY <1>9, Zenon DEF Project, Gate
  <2>3. Stays BY <1>1, <1>4, <1>5, <2>2
  <2> QED BY <1>3, <2>1, <2>3
<1>10. CASE ProjectFails(Coordinator)
  <2>1. Ends BY <1>10 DEF ProjectFails, TypeInv
  <2> QED BY <1>1, <1>3, <1>5, <1>10, <2>1 DEF ProjectFails
<1>11. ASSUME NEW p \in Procs, Save(p) \/ Refused(p) \/ Crash(p) PROVE Room'
  <2>1. UNCHANGED lease /\ End(p) BY <1>11 DEF Save, Refused, Crash, runtime
  <2> QED BY <1>3, <1>5, <2>1
<1>12. ASSUME NEW p \in Procs, NEW cmd, NEW i, NEW token, NEW corrupt, UNCHANGED lease,
              Load(p, cmd, i, token, corrupt)
       PROVE  Room'
  <2>1. Stays BY <1>4, <1>12 DEF Load
  <2> QED BY <1>3, <1>12, <2>1
<1>13. ASSUME NEW cmd \in {"start", "status", "step", "stop"}, StartCommand(cmd) PROVE Room'
  BY <1>1, <1>12, <1>13 DEF StartCommand, runtime
<1>14. ASSUME NEW w \in Workers, NEW packet \in packets, NEW corrupt \in BOOLEAN,
              StartSubmit(w, packet[1], packet[2], corrupt)
       PROVE  Room'
  BY <1>1, <1>12, <1>14 DEF StartSubmit, runtime
<1>15. ASSUME NEW w \in Workers, Validate(w) \/ Parse(w) \/ Submit(w) PROVE Room'
  <2>1. \E step, j : Goto(w, step, j) BY <1>15, Zenon DEF Validate, Parse, Submit
  <2>2. Stays BY <1>1, <1>4, <2>1
  <2>3. Ends BY <1>15 DEF Validate, Parse, Submit, runtime, TypeInv
  <2> QED BY <1>3, <2>2, <2>3
<1>16. ASSUME NEW i \in Items, Expire(i) PROVE Room' BY <1>3, <1>16 DEF Expire, TypeInv
<1>17. CASE (\E i \in Items : Classify(i) \/ Reopened(i)) \/ LoseFile \/ UNCHANGED vars
  BY <1>3, <1>17 DEF Classify, Reopened, LoseFile, vars, runtime
<1> QED BY <1>1, <1>7, <1>8, <1>9, <1>10, <1>11, <1>13, <1>14, <1>15, <1>16, <1>17
        DEF Next, Coordinate, Work

-----------------------------------------------------------------------------
(* The theorems *)

LEMMA InitInv == Init => TypeInv /\ Places /\ Room
<1> SUFFICES ASSUME Init PROVE TypeInv /\ Places /\ Room OBVIOUS
<1>1. TypeInv
  <2>1. file \in Session BY EmptyType DEF Init
  <2>2. pc \in [Procs -> PcSteps] /\ job \in [Procs -> JobType] BY NoJobType DEF Init, PcSteps
  <2>3. faults \in 0..MaxFaults BY OrchestratorAssumption DEF Init
  <2>4. item \in [Items -> {"open", "handled"}] /\ triaged \in SUBSET Items BY DEF Init
  <2>5. issued \in Nat /\ lease \in [Items -> 0..issued] BY DEF Init
  <2>6. packets \in SUBSET (Items \X (1..issued)) BY DEF Init
  <2> QED BY <2>1, <2>2, <2>3, <2>4, <2>5, <2>6 DEF TypeInv
<1>2. Places BY DEF Init, Places, JobOK, NoJob, Procs
<1>3. Room
  <2>1. Leased = {} BY DEF Init, Leased
  <2>2. Cardinality(Leased) = 0 BY <2>1, FS_EmptySet
  <2> QED BY <2>2, OrchestratorAssumption DEF Init, Room, Procs
<1> QED BY <1>1, <1>2, <1>3

LEMMA Invariant == Spec => [](TypeInv /\ Places /\ Room)
<1>1. TypeInv /\ Places /\ Room /\ [Next]_vars => (TypeInv /\ Places /\ Room)'
  BY TypeStep, PlacesStep, RoomStep
<1> QED BY <1>1, InitInv, PTL DEF Spec

(* Every variable of the orchestrator stays in its domain                   *)
(* (orchestrator/session.py, orchestrator/harness.py).                      *)
THEOREM OrchestratorTypeCorrect == Spec => []TypeOK
<1>1. TypeInv => TypeOK BY DEF TypeInv, TypeOK, JobType, PcSteps
<1> QED BY <1>1, Invariant, PTL

(* A coordinator never holds more leases than max_concurrency, whatever     *)
(* submits write back, crashes leave behind or files get lost: the limit is *)
(* checked on dispatches just reconciled with the leases                    *)
(* (_prepare_session_for_step, reconcile_dispatches).                       *)
THEOREM ConcurrencyLimited == Spec => []WithinConcurrency
<1>1. Room => WithinConcurrency BY DEF Room, WithinConcurrency
<1> QED BY <1>1, Invariant, PTL

(* validate_dispatch refuses a worker's token only when the lease it stands *)
(* for has ended, whatever became of orchestration.json since the packet    *)
(* was handed out.                                                          *)
THEOREM TokensWork == Spec => []TokenWorks
<1>1. Places => TokenWorks BY DEF Places, TokenWorks
<1> QED BY <1>1, Invariant, PTL
=============================================================================
