----------------------------- MODULE Orchestrator -----------------------------
(***************************************************************************)
(* agent orchestrate (orchestrator/): a coordinator claims items for       *)
(* workers and hands each a packet with the lease's token; workers submit  *)
(* with it.  The leases are the runtime store's.  orchestration.json is a  *)
(* plain file that every command loads, reconciles with the leases and     *)
(* writes back whole, without a revision: the last writer wins, and it may *)
(* be lost.  How the store grants and ends a lease is AgentProtocol's; a   *)
(* grant, a submission and an expiry are one step here.                    *)
(***************************************************************************)
EXTENDS Naturals, FiniteSets

CONSTANTS
  Items,           \* review items, numbers: claims take the first open one
  Coordinator,     \* the process that runs start, step, status and stop
  Workers,         \* processes that run submit
  MaxConcurrency,  \* config: max_concurrency
  Threshold,       \* config: circuit_breaker_threshold
  MaxFaults        \* bound: crashes, lost files, expiries, corrupt responses, reopened items

ASSUME OrchestratorAssumption ==
  /\ Items \subseteq Nat /\ IsFiniteSet(Items)
  /\ Coordinator \notin Workers
  /\ MaxConcurrency \in Nat \ {0} /\ Threshold \in Nat \ {0} /\ MaxFaults \in Nat

VARIABLES
  item,     \* the session's items: open, handled
  triaged,  \* items that have been classified
  lease,    \* token of the item's active orchestrator lease, 0 if none
  issued,   \* tokens issued so far
  file,     \* orchestration.json
  packets,  \* packets handed to workers, not yet settled: <<item, token>>
  pc, job,  \* where each command is, and its loaded session
  faults    \* faults so far

vars == <<item, triaged, lease, issued, file, packets, pc, job, faults>>
runtime == <<item, triaged, lease, issued>>
Procs == Workers \cup {Coordinator}

(* dispatch: token of the item's receipt, 0 if none; retries: corrupt      *)
(* responses; human: waiting_for_human.                                    *)
Session == [missing : BOOLEAN, dispatch : [Items -> Nat], retries : [Items -> Nat],
            human : SUBSET Items, completed : BOOLEAN]
EmptySession(missing) ==
  [missing |-> missing, dispatch |-> [i \in Items |-> 0], retries |-> [i \in Items |-> 0],
   human |-> {}, completed |-> FALSE]
NoJob == [cmd |-> "none", item |-> 0, token |-> 0, corrupt |-> FALSE, s |-> EmptySession(TRUE)]

Goto(p, step, j) == pc' = [pc EXCEPT ![p] = step] /\ job' = [job EXCEPT ![p] = j]
End(p) == Goto(p, "idle", NoJob)
Fault == faults < MaxFaults /\ faults' = faults + 1

Leased == {i \in Items : lease[i] # 0}
Dispatched(s) == {i \in Items : s.dispatch[i] # 0}

(* Mutant: an item whose dispatch the file still lists is not queued. *)
EligibleUnlisted == {i \in Items : item[i] = "open" /\ i \notin Leased /\ file.dispatch[i] = 0}

(* _eligible_runtime_items *)
Eligible == {i \in Items : item[i] = "open" /\ i \notin Leased}

-----------------------------------------------------------------------------
(* Mutant: a receipt stays as long as its item has any lease. *)
ReconciledByItem(s) ==
  [s EXCEPT !.dispatch = [i \in Items |-> IF s.dispatch[i] # 0 /\ lease[i] # 0 THEN s.dispatch[i]
                                          ELSE lease[i]]]

(* reconcile_dispatches: receipts of ended leases go, missing ones are     *)
(* rebuilt with the lease's token.                                         *)
Reconciled(s) ==
  [s EXCEPT !.dispatch = lease,
            !.human = {i \in @ : s.dispatch[i] # 0 /\ s.dispatch[i] = lease[i]}]

(* Load of orchestration.json; start creates a session when there is none. *)
Load(p, cmd, i, token, corrupt) ==
  /\ pc[p] = "idle"
  /\ ~file.missing \/ cmd = "start"
  /\ Goto(p, "sync", [cmd |-> cmd, item |-> i, token |-> token, corrupt |-> corrupt,
                      s |-> IF file.missing THEN EmptySession(FALSE) ELSE file])

StartCommand(cmd) ==
  /\ cmd \in {"start", "status", "step", "stop"}
  /\ Load(Coordinator, cmd, 0, 0, FALSE)
  /\ UNCHANGED <<runtime, file, packets, faults>>

(* Mutant: the limit is compared with what was dispatched before the sync. *)
HasRoomUnsynced(p) == Cardinality(Dispatched(job[p].s)) < MaxConcurrency

(* _prepare_session_for_step: the limit counts the dispatches after the    *)
(* sync.                                                                   *)
HasRoom(p) == Cardinality(Dispatched(Reconciled(job[p].s))) < MaxConcurrency

(* _sync_queue_from_runtime, then what each command decides on.  A status, *)
(* resume or start writes the session back; a locked, full or idle step    *)
(* and a locked start write nothing.                                       *)
Sync(p) ==
  LET j == job[p]
      s == Reconciled(j.s)
      idle == Eligible = {} /\ Dispatched(s) = {}
  IN  /\ pc[p] = "sync"
      /\ \/ /\ j.cmd = "status"
            /\ Goto(p, "save", [j EXCEPT !.s = s])
         \/ /\ j.cmd = "start"
            /\ IF j.s.completed /\ Eligible = {} THEN End(p)
               ELSE Goto(p, "save", [j EXCEPT !.s = [s EXCEPT !.completed = FALSE]])
         \/ /\ j.cmd = "step"
            /\ IF idle \/ ~HasRoom(p) \/ Eligible = {} THEN End(p)
               ELSE Goto(p, "claim", [j EXCEPT !.s = [s EXCEPT !.completed = FALSE]])
         \/ /\ j.cmd = "stop"
            /\ IF Dispatched(s) # {} THEN End(p) ELSE Goto(p, "gate", [j EXCEPT !.s = s])
      /\ UNCHANGED <<runtime, file, packets, faults>>

(* issue_action_request: the first open item without a lease; one that is  *)
(* not classified stops the step, as does one nobody can take any more.    *)
Claim(p) ==
  LET first == CHOOSE i \in Eligible : \A k \in Eligible : i <= k
  IN  /\ pc[p] = "claim"
      /\ \/ /\ Eligible = {}                                        \* NO_ELIGIBLE_ITEM
            /\ Goto(p, "save", [job[p] EXCEPT !.s = Reconciled(@)])
            /\ UNCHANGED runtime
         \/ /\ Eligible # {} /\ first \notin triaged                \* MISSING_CLASSIFICATION
            /\ Goto(p, "save", job[p])
            /\ UNCHANGED runtime
         \/ /\ Eligible # {} /\ first \in triaged
            /\ issued' = issued + 1
            /\ lease' = [lease EXCEPT ![first] = issued + 1]
            /\ Goto(p, "project", [job[p] EXCEPT !.item = first, !.token = issued + 1])
            /\ UNCHANGED <<item, triaged>>
      /\ UNCHANGED <<file, packets, faults>>

(* project_dispatch, save, and the packet printed for a worker. *)
Project(p) ==
  LET j == job[p]
  IN  /\ pc[p] = "project"
      /\ file' = [j.s EXCEPT !.dispatch[j.item] = j.token]
      /\ packets' = packets \cup {<<j.item, j.token>>}
      /\ End(p)
      /\ UNCHANGED <<runtime, faults>>

(* DISPATCH_PROJECTION_FAILED: the claim is released. *)
ProjectFails(p) ==
  LET j == job[p]
  IN  /\ pc[p] = "project" /\ Fault
      /\ lease' = [lease EXCEPT ![j.item] = IF @ = j.token THEN 0 ELSE @]
      /\ End(p)
      /\ UNCHANGED <<item, triaged, issued, file, packets>>

(* _run_authoritative_gate: the session alone, without GitHub. *)
Gate(p) ==
  /\ pc[p] = "gate"
  /\ IF \A i \in Items : item[i] = "handled"
     THEN Goto(p, "save", [job[p] EXCEPT !.s.completed = TRUE]) ELSE End(p)
  /\ UNCHANGED <<runtime, file, packets, faults>>

(* save_orchestration_session *)
Save(p) ==
  /\ pc[p] = "save"
  /\ file' = job[p].s
  /\ End(p)
  /\ UNCHANGED <<runtime, packets, faults>>

-----------------------------------------------------------------------------
(* agent orchestrate submit *)

StartSubmit(w, i, token, corrupt) ==
  /\ <<i, token>> \in packets
  /\ \A v \in Workers : pc[v] # "idle" => job[v].item # i
  /\ IF corrupt THEN Fault ELSE UNCHANGED faults
  /\ Load(w, "submit", i, token, corrupt)
  /\ UNCHANGED <<runtime, file, packets>>

(* Reconcile, save, validate_dispatch; a worker whose lease is gone gives  *)
(* its packet up.                                                          *)
Validate(w) ==
  LET j == job[w]
      s == Reconciled(j.s)
  IN  /\ pc[w] = "sync" /\ j.cmd = "submit"
      /\ file' = s
      /\ IF s.dispatch[j.item] = j.token
         THEN Goto(w, "parse", [j EXCEPT !.s = s]) /\ UNCHANGED packets
         ELSE Goto(w, "refused", j) /\ packets' = packets \ {<<j.item, j.token>>}
      /\ UNCHANGED <<runtime, faults>>

Refused(w) ==
  /\ pc[w] = "refused" /\ End(w)
  /\ UNCHANGED <<runtime, file, packets, faults>>

(* parse_and_validate_response: a corrupt response is counted, and at the  *)
(* threshold the item waits for a human.                                   *)
Parse(w) ==
  LET j == job[w]
      n == j.s.retries[j.item] + 1
  IN  /\ pc[w] = "parse"
      /\ IF j.corrupt
         THEN Goto(w, "save", [j EXCEPT !.s.retries[j.item] = n,
                                        !.s.human = IF n >= Threshold THEN @ \cup {j.item} ELSE @])
         ELSE Goto(w, "submit", j)
      /\ UNCHANGED <<runtime, file, packets, faults>>

(* submit_action_response, then remove_dispatch; the rest is saved when    *)
(* the store refuses it.                                                   *)
Submit(w) ==
  LET j == job[w]
  IN  /\ pc[w] = "submit"
      /\ \/ /\ lease[j.item] = j.token
            /\ lease' = [lease EXCEPT ![j.item] = 0]
            /\ item' = [item EXCEPT ![j.item] = "handled"]
            /\ packets' = packets \ {<<j.item, j.token>>}
            /\ Goto(w, "save", [j EXCEPT !.s.dispatch[j.item] = 0, !.s.retries[j.item] = 0,
                                         !.s.human = @ \ {j.item}])
         \/ /\ lease[j.item] # j.token
            /\ Goto(w, "save", j)
            /\ UNCHANGED <<item, lease, packets>>
      /\ UNCHANGED <<triaged, issued, file, faults>>

-----------------------------------------------------------------------------
(* The runtime and the environment *)

Classify(i) ==
  /\ i \notin triaged
  /\ triaged' = triaged \cup {i}
  /\ UNCHANGED <<item, lease, issued, file, packets, pc, job, faults>>

(* The lease of a packet nobody holds runs out in time; any other one when *)
(* its worker is too slow.                                                 *)
Orphaned(i) ==
  /\ <<i, lease[i]>> \notin packets
  /\ ~(pc[Coordinator] = "project" /\ job[Coordinator].item = i)
Expire(i) ==
  /\ i \in Leased
  /\ IF Orphaned(i) THEN UNCHANGED faults ELSE Fault
  /\ lease' = [lease EXCEPT ![i] = 0]
  /\ UNCHANGED <<item, triaged, issued, file, packets, pc, job>>

(* A refresh finds the item open again; it keeps its classification. *)
Reopened(i) ==
  /\ item[i] = "handled" /\ Fault
  /\ item' = [item EXCEPT ![i] = "open"]
  /\ UNCHANGED <<triaged, lease, issued, file, packets, pc, job>>

Crash(p) ==
  /\ pc[p] # "idle" /\ Fault /\ End(p)
  /\ UNCHANGED <<runtime, file, packets>>

LoseFile ==
  /\ ~file.missing /\ Fault
  /\ file' = EmptySession(TRUE)
  /\ UNCHANGED <<runtime, packets, pc, job>>

Init ==
  /\ item = [i \in Items |-> "open"]
  /\ triaged = {}
  /\ lease = [i \in Items |-> 0]
  /\ issued = 0
  /\ file = EmptySession(TRUE)
  /\ packets = {}
  /\ pc = [p \in Procs |-> "idle"]
  /\ job = [p \in Procs |-> NoJob]
  /\ faults = 0

Coordinate ==
  \/ Sync(Coordinator) \/ Claim(Coordinator) \/ Project(Coordinator)
  \/ Gate(Coordinator) \/ Save(Coordinator)
Work(w) == Validate(w) \/ Refused(w) \/ Parse(w) \/ Submit(w) \/ Save(w)

Next ==
  \/ \E cmd \in {"start", "status", "step", "stop"} : StartCommand(cmd)
  \/ Coordinate \/ ProjectFails(Coordinator)
  \/ \E w \in Workers : \/ Work(w)
                        \/ \E packet \in packets, corrupt \in BOOLEAN :
                             StartSubmit(w, packet[1], packet[2], corrupt)
  \/ \E i \in Items : Classify(i) \/ Expire(i) \/ Reopened(i)
  \/ \E p \in Procs : Crash(p)
  \/ LoseFile

Spec == Init /\ [][Next]_vars

(* Commands run on, the coordinator starts when there is no session and    *)
(* keeps stepping, items get classified, workers submit what they hold,    *)
(* and a lease nobody works on runs out.                                   *)
Fairness ==
  /\ WF_vars(Coordinate)
  /\ SF_vars(StartCommand("start") /\ file.missing) /\ SF_vars(StartCommand("step"))
  /\ \A w \in Workers : WF_vars(Work(w))
  /\ \A i \in Items : WF_vars(Classify(i)) /\ WF_vars(Orphaned(i) /\ Expire(i))
  /\ \A i \in Items : SF_vars(\E w \in Workers, packet \in packets :
                                packet[1] = i /\ StartSubmit(w, i, packet[2], FALSE))
FairSpec == Spec /\ Fairness

-----------------------------------------------------------------------------
(* Properties *)

(* Every variable stays in its domain. *)
TypeOK ==
  /\ item \in [Items -> {"open", "handled"}] /\ triaged \subseteq Items
  /\ lease \in [Items -> 0..issued] /\ issued \in Nat
  /\ file \in Session /\ packets \subseteq Items \X (1..issued)
  /\ pc \in [Procs -> {"idle", "sync", "claim", "project", "gate", "save", "refused", "parse", "submit"}]
  /\ \A p \in Procs : job[p].s \in Session
  /\ faults \in 0..MaxFaults

(* One coordinator never holds more leases than max_concurrency, though    *)
(* its file forgets dispatches: a submit writes back what it loaded before *)
(* the step, the step dies after its claim, the file is lost.              *)
WithinConcurrency == Cardinality(Leased) <= MaxConcurrency

(* A worker's token works as long as its lease does, whatever became of    *)
(* orchestration.json since the packet was handed out: a submission that   *)
(* validate_dispatch refuses is one whose lease has ended.                 *)
TokenWorks == \A w \in Workers : pc[w] = "refused" => lease[job[w].item] # job[w].token

(* Every item is handled in the end, whichever faults come in between.     *)
AllHandled == <>[](\A i \in Items : item[i] = "handled")
=============================================================================
