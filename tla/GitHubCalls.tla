----------------------------- MODULE GitHubCalls -----------------------------
(***************************************************************************)
(* One gh invocation of GitHubClient and the machine-wide throttle it goes *)
(* through (github/throttle.py): one lane for mutations, slots for reads,  *)
(* and a backoff window that any rate-limit signal opens for every         *)
(* session.  Locks belong to a process and go with it; a caller that       *)
(* cannot have one goes on without (fail open).                            *)
(***************************************************************************)
EXTENDS Naturals, FiniteSets, Sequences

CONSTANTS
  Callers,      \* processes
  Slots,        \* READ_SLOTS
  Wait,         \* MUTATION_WAIT_SECONDS, SLOT_WAIT_SECONDS and BACKOFF_LOCK_WAIT_SECONDS
  Spacing,      \* MUTATION_SPACING_SECONDS
  Window,       \* BACKOFF_SECONDS
  Attempts,     \* READ_ATTEMPTS
  MaxTime       \* bound on the clock

Nobody == "nobody"   \* who holds a free lock

CallsAssumption ==
  /\ IsFiniteSet(Callers) /\ Nobody \notin Callers
  /\ Slots \in Nat \ {0} /\ Wait \in Nat /\ Spacing \in Nat
  /\ Window \in Nat /\ Attempts \in Nat \ {0} /\ MaxTime \in Nat

VARIABLES
  now,      \* the clock
  until,    \* backoff-until.json
  marked,   \* last-mutation.json
  holder,   \* lock name -> the caller that holds it
  call,     \* what each caller is doing
  ended     \* history: when a mutation that held the lane last finished

vars == <<now, until, marked, holder, call, ended>>
files == <<until, marked>>

SlotNames == 1..Slots
Lane == 0
BackoffLock == Slots + 1
Locks == 0..(Slots + 1)

Idle == [step |-> "idle", mutation |-> FALSE, attempt |-> 0, lock |-> {}, deadline |-> 0,
         started |-> 0, outcome |-> "none", window |-> 0]

Larger(a, b) == IF a >= b THEN a ELSE b
BackoffOpen == until > now
Held(c) == {l \in Locks : holder[l] = c}
Wanted(c) == IF call[c].mutation THEN {Lane} ELSE SlotNames
Goto(c, step) == call' = [call EXCEPT ![c].step = step, ![c].deadline = 0]
Unlocked(c) == [l \in Locks |-> IF holder[l] = c THEN Nobody ELSE holder[l]]
Fail(c) == call' = [call EXCEPT ![c] = Idle]

-----------------------------------------------------------------------------
(* What came of a call, from the markers in what gh printed: the first     *)
(* category that applies (_stderr_category).  A GraphQL answer that says   *)
(* RATE_LIMITED comes with exit code 0.                                    *)
Categories == <<"auth", "permission_mismatch", "sandbox", "environment", "network",
                "rate_limit", "not_found", "api">>
Category(markers) ==
  LET found == {i \in DOMAIN Categories : Categories[i] \in markers}
  IN  IF found = {} THEN "unknown"
      ELSE Categories[CHOOSE i \in found : \A j \in found : i <= j]

(* _raise_classified_error: what no category explains may be transient.    *)
Outcome(ok, markers) ==
  CASE ok -> IF "graphql_limited" \in markers THEN "limited" ELSE "ok"
    [] ~ok /\ Category(markers) \in {"permission_mismatch", "api", "unknown"} ->
         IF "server" \in markers THEN "transient" ELSE "failed"
    [] OTHER -> Category(markers)

(* is_rate_limit_result; _is_retryable_failure *)
IsSignal(outcome) == outcome \in {"rate_limit", "limited"}
Retryable(outcome) == outcome \in {"transient", "network"}

(* What gh prints in these runs. *)
Prints ==
  {<<TRUE, {}>>, <<TRUE, {"graphql_limited"}>>, <<FALSE, {"rate_limit", "api"}>>,
   <<FALSE, {"network", "rate_limit"}>>, <<FALSE, {"api", "server"}>>, <<FALSE, {"auth", "network"}>>}

-----------------------------------------------------------------------------
(* gh_call_gate *)

(* _read_json: a read may be tried again, a mutation is not. *)
Begin(c, mutation) ==
  /\ call[c].step = "idle"
  /\ call' = [call EXCEPT ![c] = [Idle EXCEPT !.step = "check", !.mutation = mutation, !.attempt = 1]]
  /\ UNCHANGED <<now, files, holder, ended>>

(* _raise_if_backoff_open, before queueing. *)
Check(c) ==
  /\ call[c].step = "check"
  /\ IF BackoffOpen THEN Fail(c)
     ELSE call' = [call EXCEPT ![c].step = "queue", ![c].deadline = now + Wait]
  /\ UNCHANGED <<now, files, holder, ended>>

(* _acquire_named, _acquire_slot: a lock, or none once the wait is over or *)
(* the lock file cannot be opened.                                         *)
Acquire(c) ==
  /\ call[c].step = "queue"
  /\ \E l \in Wanted(c) : holder[l] = Nobody /\ holder' = [holder EXCEPT ![l] = c]
  /\ Goto(c, "recheck")
  /\ UNCHANGED <<now, files, ended>>
GoWithout(c) ==
  /\ call[c].step = "queue"
  /\ now >= call[c].deadline /\ \A l \in Wanted(c) : holder[l] # Nobody
  /\ Goto(c, "recheck")
  /\ UNCHANGED <<now, files, holder, ended>>
LockFileFails(c) ==
  /\ call[c].step = "queue"
  /\ Goto(c, "recheck")
  /\ UNCHANGED <<now, files, holder, ended>>

(* The window may have opened in the queue. *)
Recheck(c) ==
  /\ call[c].step = "recheck"
  /\ IF BackoffOpen THEN Fail(c) /\ holder' = Unlocked(c)
     ELSE Goto(c, IF call[c].mutation THEN "space" ELSE "go") /\ UNCHANGED holder
  /\ UNCHANGED <<now, files, ended>>

(* _space_mutation *)
Spaced(c) == marked = 0 \/ now >= marked + Spacing
Space(c) ==
  /\ call[c].step = "space" /\ Spaced(c)
  /\ Goto(c, "go")
  /\ UNCHANGED <<now, files, holder, ended>>

(* run_cmd *)
Go(c) ==
  /\ call[c].step = "go"
  /\ call' = [call EXCEPT ![c].step = "running", ![c].started = now]
  /\ UNCHANGED <<now, files, holder, ended>>

(* Mutant: only a mutation that went through is marked. *)
MarksSuccess(c, outcome) == call[c].mutation /\ outcome \in {"ok", "limited"}

(* _mark_mutation stands in a finally: a mutation that failed or timed out *)
(* may have reached GitHub.                                                *)
Marks(c, outcome) == call[c].mutation

(* The call ends: the gate marks it and lets go of its lock, and only then *)
(* is the outcome looked at (_default_runner).                             *)
Return(c, outcome) ==
  /\ call[c].step = "running"
  /\ IF Marks(c, outcome) THEN marked' = now ELSE UNCHANGED marked
  /\ ended' = IF holder[Lane] = c THEN now ELSE ended
  /\ holder' = Unlocked(c)
  /\ call' = [call EXCEPT ![c].outcome = outcome, ![c].started = 0,
                          ![c].deadline = IF IsSignal(outcome) THEN now + Wait ELSE 0,
                          ![c].step = IF IsSignal(outcome) THEN "signal" ELSE "returned"]
  /\ UNCHANGED <<now, until>>

-----------------------------------------------------------------------------
(* record_rate_limit: read, extend and write under the backoff lock; the   *)
(* signal is dropped when the lock cannot be had.                          *)

(* Mutant: without the lock the window is written all the same. *)
MayRecordAnyhow(c) == TRUE

MayRecord(c) == holder[BackoffLock] = Nobody

ExtendedWindow == Larger(now + Window, until)

ReadWindow(c) ==
  /\ call[c].step = "signal" /\ MayRecord(c)
  /\ holder' = [holder EXCEPT ![BackoffLock] = c]
  /\ call' = [call EXCEPT ![c].step = "record", ![c].deadline = 0, ![c].window = ExtendedWindow]
  /\ UNCHANGED <<now, files, ended>>
WriteWindow(c) ==
  /\ call[c].step = "record"
  /\ until' = call[c].window
  /\ holder' = Unlocked(c)
  /\ call' = [call EXCEPT ![c].step = "returned", ![c].window = 0]
  /\ UNCHANGED <<now, marked, ended>>
DropSignal(c) ==
  /\ call[c].step = "signal" /\ holder[BackoffLock] # Nobody /\ now >= call[c].deadline
  /\ Goto(c, "returned")
  /\ UNCHANGED <<now, files, holder, ended>>

(* A read that failed in a way that may pass is tried again. *)
MayRetry(c) == Retryable(call[c].outcome) /\ ~call[c].mutation /\ call[c].attempt < Attempts
Retry(c) ==
  /\ call[c].step = "returned" /\ MayRetry(c)
  /\ call' = [call EXCEPT ![c] = [Idle EXCEPT !.step = "check", !.attempt = call[c].attempt + 1]]
  /\ UNCHANGED <<now, files, holder, ended>>
Done(c) ==
  /\ call[c].step = "returned" /\ ~MayRetry(c)
  /\ Fail(c)
  /\ UNCHANGED <<now, files, holder, ended>>

(* The operating system releases the locks of a dead process. *)
Crash(c) ==
  /\ call[c].step # "idle"
  /\ Fail(c) /\ holder' = Unlocked(c)
  /\ UNCHANGED <<now, files, ended>>

Tick ==
  /\ now < MaxTime
  /\ now' = now + 1
  /\ UNCHANGED <<files, holder, call, ended>>

Init ==
  /\ now = 1 /\ until = 0 /\ marked = 0 /\ ended = 0
  /\ holder = [l \in Locks |-> Nobody]
  /\ call = [c \in Callers |-> Idle]

Next ==
  \/ \E c \in Callers :
       \/ \E mutation \in BOOLEAN : Begin(c, mutation)
       \/ Check(c) \/ Acquire(c) \/ GoWithout(c) \/ LockFileFails(c) \/ Recheck(c)
       \/ Space(c) \/ Go(c)
       \/ \E print \in Prints : Return(c, Outcome(print[1], print[2]))
       \/ ReadWindow(c) \/ WriteWindow(c) \/ DropSignal(c) \/ Retry(c) \/ Done(c) \/ Crash(c)
  \/ Tick

Spec == Init /\ [][Next]_vars

-----------------------------------------------------------------------------
(* Properties *)

(* Mutations that share the lane keep their distance, whatever became of   *)
(* the one before: one that failed, or one that went without the lane and  *)
(* wrote the mark in between, does not let the next one through early.     *)
MutationsSpaced ==
  \A c \in Callers :
    call[c].step = "running" /\ holder[Lane] = c /\ ended > 0 => call[c].started >= ended + Spacing

(* The backoff window is never shortened: two sessions that are limited at *)
(* the same time do not overwrite a later end with an earlier one.         *)
LaterWindow == until' >= until
BackoffHolds == [][LaterWindow]_vars
=============================================================================
