------------------------------ MODULE Telemetry ------------------------------
(***************************************************************************)
(* Usage telemetry (core/telemetry.py, core/telemetry_runtime.py): every   *)
(* command appends what it ran to telemetry.jsonl, host agents' event      *)
(* files are imported into external-telemetry.jsonl behind a ledger of     *)
(* fingerprints, and a report counts both.  No lock guards these files:    *)
(* imports and commands overlap, die in between and find files unwritable. *)
(***************************************************************************)
EXTENDS Naturals, FiniteSets, Sequences, SequencesExt

CONSTANTS
  Procs,      \* commands importing events
  Sources,    \* the --source of an import
  Events,     \* host events; one element per fingerprint
  SourceOf,   \* [Events -> Sources]
  SessionOf,  \* [Events -> source_session_id]
  Kind,       \* [Events -> {"good", "malformed", "unsafe"}]
  RunOf,      \* [Events -> Runs \cup {NoRun}]: the runtime execution an event
              \* reports (equal correlation id, operation and status)
  Runs,       \* execution ids of the commands of this runtime
  NoRun,
  Torn,       \* a line that is no longer an event
  MaxImports  \* bound on imports

TelemetryAssumption == IsFiniteSet(Events) /\ Events \cap Runs = {}

VARIABLES
  store,      \* lines of external-telemetry.jsonl
  ledger,     \* event_fingerprints of the fingerprint file
  job,        \* what each import has loaded and decided
  imports,    \* imports started so far
  file,       \* lines of telemetry.jsonl
  tracker,    \* the SessionTelemetry bound by one command process
  recorded,   \* executions that process recorded since it bound the tracker
  writable    \* whether telemetry.jsonl can be written

importing == <<store, ledger, job, imports>>
recording == <<file, tracker, recorded, writable>>
vars == <<importing, recording>>

Idle == [pc |-> "idle", source |-> CHOOSE s \in Sources : TRUE, batch |-> {}, known |-> {},
         accepted |-> {}, reason |-> "none"]

-----------------------------------------------------------------------------
(* load_external_events_with_diagnostics *)
Lines == ToSet(store)
Corrupted == Torn \in Lines
Stored == Lines \ {Torn}

Good(batch) == {e \in batch : Kind[e] = "good"}

(* _process_imported_events: duplicates count as observed sessions; an     *)
(* unsafe event, or a second session, rejects the whole import.            *)
Accepted(j) ==
  IF \/ \E e \in j.batch : Kind[e] = "unsafe"
     \/ Cardinality({SessionOf[e] : e \in Good(j.batch)}) > 1
  THEN {} ELSE Good(j.batch) \ j.known

(* _resolve_import_status *)
Reason(j) ==
  LET good == Good(j.batch)
  IN  CASE Cardinality({SessionOf[e] : e \in good}) > 1 -> "AMBIGUOUS_TELEMETRY_SESSION"
        [] \E e \in j.batch : Kind[e] = "unsafe" -> "UNSAFE_TELEMETRY_CONTENT"
        [] OTHER -> IF Accepted(j) # {}
                    THEN IF good = j.batch THEN "TELEMETRY_IMPORTED" ELSE "TELEMETRY_PARTIAL"
                    ELSE IF good # {} /\ good = j.batch THEN "DUPLICATE_TELEMETRY_IMPORT"
                    ELSE "MALFORMED_TELEMETRY"

(* _load_import_state: a corrupt store ends the import; the events that    *)
(* are stored are known even when the ledger lost them.                    *)
Load(p) ==
  /\ job[p].pc = "idle" /\ imports < MaxImports
  /\ imports' = imports + 1
  /\ \E s \in Sources : \E batch \in SUBSET {e \in Events : SourceOf[e] = s} :
       /\ batch # {}
       /\ LET j == [Idle EXCEPT !.source = s, !.batch = batch, !.known = ledger \cup Stored]
          IN  job' = [job EXCEPT ![p] =
                IF Corrupted THEN [j EXCEPT !.pc = "summary", !.reason = "CORRUPTED_TELEMETRY_STORE"]
                ELSE [j EXCEPT !.pc = IF Accepted(j) = {} THEN "summary" ELSE "ledger",
                               !.accepted = Accepted(j), !.reason = Reason(j)]]
  /\ UNCHANGED <<store, ledger>>

(* _write_fingerprint_set replaces the whole ledger by this import's view. *)
WriteLedger(p) ==
  /\ job[p].pc = "ledger"
  /\ ledger' = job[p].known \cup job[p].accepted
  /\ job' = [job EXCEPT ![p].pc = "append"]
  /\ UNCHANGED <<store, imports>>

(* _append_external_events *)
AppendEvents(p) ==
  /\ job[p].pc = "append"
  /\ store' = store \o SetToSeq(job[p].accepted)
  /\ job' = [job EXCEPT ![p].pc = "summary"]
  /\ UNCHANGED <<ledger, imports>>

(* A long append reaches the file in part and the process dies. *)
Tear(p) ==
  /\ job[p].pc = "append"
  /\ \E part \in SUBSET job[p].accepted : store' = store \o SetToSeq(part) \o <<Torn>>
  /\ job' = [job EXCEPT ![p] = Idle]
  /\ UNCHANGED <<ledger, imports>>

(* _append_import_summary: the import is over, with its reason code. *)
Summarise(p) ==
  /\ job[p].pc = "summary"
  /\ job' = [job EXCEPT ![p] = Idle]
  /\ UNCHANGED <<store, ledger, imports>>

Crash(p) ==
  /\ job[p].pc # "idle"
  /\ job' = [job EXCEPT ![p] = Idle]
  /\ UNCHANGED <<store, ledger, imports>>

-----------------------------------------------------------------------------
(* SessionTelemetry: the history in the file is read when it is first      *)
(* asked for (pending until then); metrics holds what is in memory.        *)
NewTracker == [pending |-> TRUE, metrics |-> << >>]

(* Mutant: what is recorded is always kept in memory as well. *)
KeptAlways(persisted) == TRUE

(* _record_locked: a persisted line arrives with the history later. *)
Kept(persisted) == ~tracker.pending \/ ~persisted

(* _persist_metric under the tracker's lock *)
Record(r) ==
  /\ r \notin recorded \cup ToSet(file)
  /\ recorded' = recorded \cup {r}
  /\ file' = IF writable THEN Append(file, r) ELSE file
  /\ tracker' = IF Kept(writable) THEN [tracker EXCEPT !.metrics = Append(@, r)] ELSE tracker
  /\ UNCHANGED writable

(* Another process of the same session records what it ran. *)
RecordElsewhere(r) ==
  /\ r \notin recorded \cup ToSet(file) /\ writable
  /\ file' = Append(file, r)
  /\ UNCHANGED <<tracker, recorded, writable>>

(* metrics, _load_persisted_metrics *)
ReadHistory ==
  /\ tracker.pending
  /\ tracker' = [pending |-> FALSE, metrics |-> tracker.metrics \o file]
  /\ UNCHANGED <<file, recorded, writable>>

(* configure_context: a new binding forgets what was only in memory. *)
Bind == tracker' = NewTracker /\ recorded' = {} /\ UNCHANGED <<file, writable>>

Writable == writable' = ~writable /\ UNCHANGED <<file, tracker, recorded>>

-----------------------------------------------------------------------------
(* Mutant: the stored events are taken as they are. *)
DistinctNot(s) == s

(* The elements of s at the places S, in their order. *)
Picked(s, S) ==
  [k \in 1..Cardinality(S) |-> s[CHOOSE n \in S : Cardinality({m \in S : m <= n}) = k]]

(* _dedupe_events: the first event of each fingerprint. *)
Distinct(s) == Picked(s, {n \in DOMAIN s : \A m \in 1..(n - 1) : s[m] # s[n]})

(* _dedupe_correlated_events: runtime events come first, so an event that  *)
(* reports a recorded execution always meets it.                           *)
Uncorrelated(s) == Picked(s, {n \in DOMAIN s : s[n] \in Events => RunOf[s[n]] \notin ToSet(s)})

(* build_efficiency_report: a store with an unreadable line counts for     *)
(* nothing.                                                                *)
Report ==
  LET external == IF Corrupted THEN << >> ELSE store
  IN  Uncorrelated(Distinct(Distinct(file) \o Distinct(external)))

Init ==
  /\ store = << >> /\ ledger = {}
  /\ job = [p \in Procs |-> Idle] /\ imports = 0
  /\ file = << >> /\ tracker = NewTracker /\ recorded = {} /\ writable = TRUE

Import(p) ==
  Load(p) \/ WriteLedger(p) \/ AppendEvents(p) \/ Tear(p) \/ Summarise(p) \/ Crash(p)

Next ==
  \/ (\E p \in Procs : Import(p)) /\ UNCHANGED recording
  \/ ((\E r \in Runs : Record(r) \/ RecordElsewhere(r)) \/ ReadHistory \/ Bind \/ Writable)
     /\ UNCHANGED importing

Spec == Init /\ [][Next]_vars

-----------------------------------------------------------------------------
(* Whatever overlaps, an event is counted once: two imports of one file at *)
(* a time both store its events, hosts report executions the runtime       *)
(* recorded itself, and the report counts each event, and each recorded    *)
(* execution, exactly once (_dedupe_events, _dedupe_correlated_events).    *)
ReportedOnce ==
  /\ \A x \in Events \cup Runs :
       Cardinality({n \in 1..Len(Report) : Report[n] = x}) <= 1
  /\ \A r \in ToSet(file) :
       Cardinality({n \in 1..Len(Report) : Report[n] = r \/ (Report[n] \in Events /\ RunOf[Report[n]] = r)}) = 1

(* "It is never lost or doubled" (_record_locked): what a process recorded *)
(* since it bound its tracker is in its metrics once, loaded late or not,  *)
(* written or not.                                                         *)
MetricsOnce ==
  LET metrics == tracker.metrics \o (IF tracker.pending THEN file ELSE << >>)
  IN  \A r \in recorded : Cardinality({n \in 1..Len(metrics) : metrics[n] = r}) = 1
=============================================================================
