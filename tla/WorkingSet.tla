------------------------------ MODULE WorkingSet ------------------------------
(***************************************************************************)
(* The rows one command reads and writes (core/runtime_store.py            *)
(* transact_working_set, core/session.py): agent commands load and commit  *)
(* only the items and leases they declare, other commands the whole        *)
(* session, and both must decide and write the same.  A claim and a        *)
(* submission ask GitHub between their load and their commit, so a copy    *)
(* may be stale when it is written; metadata is merged, everything else is *)
(* decided again under the write lock or guarded by the loaded revision.   *)
(***************************************************************************)
EXTENDS Naturals, FiniteSets, Functions

CONSTANTS
  Procs,       \* concurrent commands
  Items,       \* item ids
  LeaseIds,    \* uuids available to new leases
  Keys,        \* keys of the session metadata (cached PR context, stack, ...)
  Conflicts,   \* sets of two items whose conflict keys overlap
  NoId,        \* no lease, no item
  MaxRevision  \* bound on commits

RowsAssumption == IsFiniteSet(LeaseIds) /\ NoId \notin LeaseIds

VARIABLES
  items,     \* the rows of the table items, as stored: a partial map
  leases,    \* the rows of the table leases: a partial map
  metadata,  \* [Keys -> 0..1], part of the root payload of sessions
  events,    \* how many rows lease_events has
  revision,  \* sessions.revision
  late,      \* leases whose expires_at has passed
  job        \* what each command loaded and is about to commit

rows == <<items, leases, metadata, events, revision>>
vars == <<items, leases, metadata, events, revision, late, job>>

Item == [state : {"open", "claimed", "handled"}, owner : LeaseIds \cup {NoId},
         classified : BOOLEAN]
LeaseRow == [status : {"active", "expired", "released", "accepted"}, item : Items,
             role : {"fixer", "triage"}]
Metadata == [Keys -> 0..1]

(* What WorkingSetRequest declares; whole stands for a full load. *)
Request == [items : SUBSET Items, leases : SUBSET LeaseIds, all : BOOLEAN, whole : BOOLEAN]
Whole == [items |-> {}, leases |-> {}, all |-> FALSE, whole |-> TRUE]

(* A row, and a partial map put over another. *)
One(key, row) == [k \in {key} |-> row]
Over(f, g) == [k \in DOMAIN f \cup DOMAIN g |-> IF k \in DOMAIN f THEN f[k] ELSE g[k]]
NoRows == [k \in {} |-> NoId]

NoMetadata == [k \in Keys |-> 0]
NoView == [items |-> NoRows, leases |-> NoRows, metadata |-> NoMetadata, events |-> 0]

(* base, view: what a command loaded; metadata: its copy; lease_item: the  *)
(* item of its lease; request: the rows it loaded; out: how the last one   *)
(* ended.                                                                  *)
Idle == [cmd |-> "none", item |-> NoId, lease |-> NoId, lease_item |-> NoId, role |-> "none",
         request |-> Whole, base |-> NoMetadata, metadata |-> NoMetadata, view |-> NoView,
         revision |-> 0, out |-> "none"]

-----------------------------------------------------------------------------
(* A view is what a load hands to a mutation. *)
ActiveIn(L) == {l \in DOMAIN L : L[l].status = "active"}
On(L, i) == {l \in ActiveIn(L) : L[l].item = i}

(* _derive_item_claim_projection *)
Derived(I, L) ==
  [i \in DOMAIN I |->
     IF On(L, i) = {}
     THEN [I[i] EXCEPT !.state = IF @ = "claimed" THEN "open" ELSE @, !.owner = NoId]
     ELSE [I[i] EXCEPT !.state = "claimed", !.owner = CHOOSE l \in On(L, i) : TRUE]]

FullView == [items |-> Derived(items, leases), leases |-> leases,
             metadata |-> metadata, events |-> events]

(* Mutant: only the rows of the command's own item are loaded. *)
SelectedOwn(r) ==
  LET named == {l \in DOMAIN leases : l \in r.leases \/ l \in UNION {On(leases, i) : i \in r.items}}
  IN  [items |-> r.items \cap DOMAIN items, leases |-> named]

(* _load_working_set: the named leases and items, the active leases of the *)
(* named items or of the whole session, the items of every lease chosen by *)
(* id or by include_active_leases, and in turn their active leases.        *)
Selected(r) ==
  LET first   == {l \in DOMAIN leases :
                    \/ l \in r.leases
                    \/ l \in ActiveIn(leases) /\ (r.all \/ leases[l].item \in r.items)}
      touched == {leases[l].item : l \in {m \in first : m \in r.leases \/ r.all}}
      second  == UNION {On(leases, i) : i \in touched}
  IN  IF r.whole THEN [items |-> DOMAIN items, leases |-> DOMAIN leases]
      ELSE [items |-> (r.items \cup touched) \cap DOMAIN items, leases |-> first \cup second]

(* load_working_set and _load_snapshot: a partial load starts with no      *)
(* lease events, for those it returns are appended.                        *)
View(r) ==
  LET s == Selected(r)
      L == Restrict(leases, s.leases)
  IN  [items |-> Derived(Restrict(items, s.items), L), leases |-> L,
       metadata |-> metadata, events |-> IF r.whole THEN events ELSE 0]

-----------------------------------------------------------------------------
(* expire_leases and _return_expired_items_to_open, on whatever is loaded. *)
Due(v) == ActiveIn(v.leases) \cap late
Expired(v) ==
  [items |-> [i \in DOMAIN v.items |->
                IF \E l \in Due(v) : v.leases[l].item = i
                THEN [v.items[i] EXCEPT !.state = "open", !.owner = NoId] ELSE v.items[i]],
   leases |-> [l \in DOMAIN v.leases |->
                 IF l \in Due(v) THEN [v.leases[l] EXCEPT !.status = "expired"] ELSE v.leases[l]],
   metadata |-> v.metadata,
   events |-> v.events + Cardinality(Due(v))]

(* Mutant: the command's own copy of the metadata is written whole. *)
MergedCopy(m, j) == j.metadata

(* metadata_delta and apply_metadata_delta: only the keys this command     *)
(* changed relative to the copy it loaded.                                 *)
Merged(m, j) == [k \in Keys |-> IF j.metadata[k] # j.base[k] THEN j.metadata[k] ELSE m[k]]

(* A mutation applied to a view gives the set of its possible results:     *)
(* none when the command is refused and rolled back.                       *)

(* classify: records the decision, releases the item's triage lease.       *)
Triage(v, i) == {l \in On(v.leases, i) : v.leases[l].role = "triage"}
Classify(v, i) ==
  IF i \notin DOMAIN v.items THEN {}
  ELSE {[items |-> [v.items EXCEPT ![i] = IF Triage(v, i) = {} THEN [@ EXCEPT !.classified = TRUE]
                                          ELSE [state |-> "open", owner |-> NoId, classified |-> TRUE]],
         leases |-> [l \in DOMAIN v.leases |->
                       IF l \in Triage(v, i) THEN [v.leases[l] EXCEPT !.status = "released"] ELSE v.leases[l]],
         metadata |-> v.metadata,
         events |-> v.events + Cardinality(Triage(v, i))]}

(* commit_claim with claim_lease; l is the fresh uuid.                     *)
Claim(v, i, l, role, j) ==
  LET w == Expired(v)
  IN  IF \/ i \notin DOMAIN w.items
         \/ On(w.leases, i) # {}
         \/ \E m \in ActiveIn(w.leases) : {i, w.leases[m].item} \in Conflicts
      THEN {}
      ELSE {[items |-> [w.items EXCEPT ![i] = [@ EXCEPT !.state = "claimed", !.owner = l]],
             leases |-> Over(One(l, [status |-> "active", item |-> i, role |-> role]), w.leases),
             metadata |-> Merged(w.metadata, j),
             events |-> w.events + 1]}

(* A lease ends and its item gets a state, in a copy of the rows.          *)
Ended(v, l, status, state, data) ==
  [items |-> [v.items EXCEPT ![v.leases[l].item] = [@ EXCEPT !.state = state, !.owner = NoId]],
   leases |-> [v.leases EXCEPT ![l] = [@ EXCEPT !.status = status]],
   metadata |-> data,
   events |-> v.events + 1]

(* accept: the lease must still be active and not expired. The metadata of *)
(* the loaded copy is written as it is.                                    *)
Accept(v, l, j) ==
  IF l \notin ActiveIn(v.leases) \/ l \in late THEN {}
  ELSE {Ended(v, l, "accepted", "handled", j.metadata)}

(* replace_loaded_scope after a refusal that found the lease expired: the  *)
(* copy, with that lease expired in it, is put in place of what is loaded. *)
Persist(l, j) ==
  IF l \notin Due(j.view) THEN {}
  ELSE {Ended(j.view, l, "expired", "open", j.metadata)}

(* A refresh finds a new thread. *)
Observe(v, i) ==
  IF i \in DOMAIN v.items THEN {v}
  ELSE {[v EXCEPT !.items = Over(One(i, [state |-> "open", owner |-> NoId, classified |-> FALSE]), @)]}

Results(j, v, l) ==
  CASE j.cmd = "classify" -> Classify(v, j.item)
    [] j.cmd = "claim"    -> Claim(v, j.item, l, j.role, j)
    [] j.cmd = "accept"   -> Accept(v, j.lease, j)
    [] j.cmd = "persist"  -> Persist(j.lease, j)
    [] j.cmd = "observe"  -> Observe(v, j.item)
    [] j.cmd = "reject"   -> {v}

-----------------------------------------------------------------------------
(* leases_one_active_per_item, checked at every INSERT. *)
OneActive(L) == \A l, m \in ActiveIn(L) : L[l].item = L[m].item => l = m

(* Mutant: rows are replaced one at a time, new ones first. *)
LeaseRowsInPlace(sel, L) ==
  LET added == DOMAIN L \ sel
  IN  IF \E l \in added \cap ActiveIn(L) : On(leases, L[l].item) # {} THEN {}
      ELSE {Over(L, Restrict(leases, DOMAIN leases \ sel))}

(* The lease rows after _write_working_set or _write_leases: changed and   *)
(* removed rows are deleted before any is inserted.                        *)
LeaseRows(sel, L) ==
  LET changed == {l \in DOMAIN L : l \notin sel \/ L[l] # leases[l]}
      kept    == Restrict(leases, DOMAIN leases \ ((sel \ DOMAIN L) \cup changed))
      after   == Over(Restrict(L, changed), kept)
  IN  IF OneActive(after) THEN {after} ELSE {}

(* _write_items and the item part of _write_working_set *)
ItemRows(sel, I) == Over(I, Restrict(items, DOMAIN items \ sel))

(* _write_session rewrites all lease events, _write_working_set appends.   *)
EventRows(r, w) == IF r.whole THEN w.events ELSE events + w.events

(* _reject_unselected_existing_rows *)
Overwrites(sel, w) ==
  \/ (DOMAIN w.items \ sel.items) \cap DOMAIN items # {}
  \/ (DOMAIN w.leases \ sel.leases) \cap DOMAIN leases # {}

(* expected_revision *)
Current(j) == j.cmd \notin {"accept", "persist"} \/ j.revision = revision

(* Which rows each command declares. A submission refused before its       *)
(* commit writes back the scope it loaded (_persist_loaded_scope), the     *)
(* whole session when the response had to be rebound.                      *)
RequestOf(j) ==
  CASE j.cmd = "classify" -> [items |-> {j.item}, leases |-> {}, all |-> FALSE, whole |-> FALSE]
    [] j.cmd = "claim"    -> [items |-> {j.item}, leases |-> {}, all |-> TRUE, whole |-> FALSE]
    [] j.cmd = "accept"   -> [items |-> {j.lease_item}, leases |-> {j.lease}, all |-> FALSE, whole |-> FALSE]
    [] j.cmd = "persist"  -> j.request
    [] j.cmd = "observe"  -> Whole
    [] j.cmd = "reject"   -> [items |-> {}, leases |-> {}, all |-> FALSE, whole |-> FALSE]

Finish(p, out) == job' = [job EXCEPT ![p] = [Idle EXCEPT !.out = out]]

(* The rows written for the result w of a mutation, and their transaction. *)
Write(p, r, w) ==
  LET sel == Selected(r)
      tables == LeaseRows(sel.leases, w.leases)
  IN  IF (~r.whole /\ Overwrites(sel, w)) \/ tables = {}
      THEN Finish(p, "invalid") /\ UNCHANGED rows
      ELSE /\ leases' \in tables
           /\ items' = ItemRows(sel.items, Derived(w.items, w.leases))
           /\ metadata' = w.metadata
           /\ events' = EventRows(r, w)
           /\ revision' = revision + 1
           /\ Finish(p, "committed")

Fresh(j) == IF j.cmd = "claim" THEN LeaseIds \ DOMAIN leases ELSE {NoId}

(* transact_working_set and _transact: load, mutate, write under one lock. *)
Commit(p) == LET j == job[p] IN
  /\ j.cmd # "none"
  /\ revision < MaxRevision
  /\ UNCHANGED late
  /\ IF ~Current(j) THEN Finish(p, "stale") /\ UNCHANGED rows
     ELSE LET r == RequestOf(j)
          IN  \E l \in Fresh(j) :
                IF Results(j, View(r), l) = {} THEN Finish(p, "refused") /\ UNCHANGED rows
                ELSE \E w \in Results(j, View(r), l) : Write(p, r, w)

-----------------------------------------------------------------------------
(* Commands without a load of their own: record_classification, the intake *)
(* of a new thread, _persist_request_rejection.                            *)
Begin(p) ==
  /\ job[p].cmd = "none"
  /\ \E i \in Items, c \in {"classify", "observe", "reject"} :
       job' = [job EXCEPT ![p] = [Idle EXCEPT !.cmd = c, !.item = i]]
  /\ UNCHANGED <<rows, late>>

(* issue_action_request: the item is open in the copy that is loaded.      *)
LoadClaim(p) ==
  /\ job[p].cmd = "none"
  /\ \E i \in Items, role \in {"fixer", "triage"} :
       LET v == Expired(View([items |-> {i}, leases |-> {}, all |-> TRUE, whole |-> FALSE]))
       IN  /\ i \in DOMAIN v.items /\ v.items[i].state = "open"
           /\ job' = [job EXCEPT ![p] = [Idle EXCEPT !.cmd = "claim", !.item = i, !.role = role,
                                                      !.base = metadata, !.metadata = metadata]]
  /\ UNCHANGED <<rows, late>>

(* submit_action_response: the lease is loaded by its id, or, rebound, the *)
(* whole session is.                                                       *)
LoadSubmission(p) ==
  /\ job[p].cmd = "none"
  /\ \E l \in DOMAIN leases, whole \in BOOLEAN :
       LET r == IF whole THEN Whole ELSE [items |-> {}, leases |-> {l}, all |-> FALSE, whole |-> FALSE]
       IN  job' = [job EXCEPT ![p] =
                     [Idle EXCEPT !.cmd = IF l \in late THEN "persist" ELSE "accept",
                                  !.lease = l, !.lease_item = leases[l].item, !.request = r, !.view = View(r),
                                  !.base = metadata, !.metadata = metadata, !.revision = revision]]
  /\ UNCHANGED <<rows, late>>

(* The answer of GitHub changes the copy's metadata                        *)
(* (refresh_stack_context_for_request, verify_request_revision_binding).   *)
Refresh(p) ==
  /\ job[p].cmd \in {"claim", "accept"}
  /\ \E k \in Keys :
       /\ job[p].metadata[k] = job[p].base[k]
       /\ job' = [job EXCEPT ![p].metadata[k] = 1 - @]
  /\ UNCHANGED <<rows, late>>

(* The clock passes the expiry of a lease. *)
Pass ==
  /\ \E l \in ActiveIn(leases) \ late : late' = late \cup {l}
  /\ UNCHANGED <<rows, job>>

Init ==
  /\ items \in {[i \in S |-> [state |-> "open", owner |-> NoId, classified |-> FALSE]] :
                  S \in SUBSET Items \ {{}}}
  /\ leases = NoRows /\ metadata = [k \in Keys |-> 0] /\ events = 0 /\ revision = 1
  /\ late = {} /\ job = [p \in Procs |-> Idle]

Next == Pass \/ \E p \in Procs :
  Begin(p) \/ LoadClaim(p) \/ LoadSubmission(p) \/ Refresh(p) \/ Commit(p)

Spec == Init /\ [][Next]_vars

-----------------------------------------------------------------------------
(* No command of the program is stopped as PERSISTENCE_INVALID: whichever  *)
(* rows it declared, its mutation stays within them and never asks the     *)
(* store for two active leases of one item (_reject_unselected_existing_   *)
(* rows, the order of deletes and inserts in _write_working_set).          *)
NeverInvalid == \A p \in Procs : job[p].out # "invalid"

(* "Commit an explicit subset without materializing the full session       *)
(* graph" (transact_working_set): a command that saw and wrote only its    *)
(* rows is refused exactly when it would be on the whole session, and      *)
(* leaves the session as its mutation of the whole one would; no row, and  *)
(* no lease event, of anybody else is lost.                                *)
Deciding(p, j) == j.cmd # "none" /\ job'[p].out \in {"committed", "refused"}
WholeResults(j) ==
  IF j.cmd = "persist" /\ ~j.request.whole
  THEN {[items |-> Over(w.items, FullView.items), leases |-> Over(w.leases, leases),
         metadata |-> w.metadata, events |-> events + w.events] : w \in Persist(j.lease, j)}
  ELSE UNION {Results(j, FullView, l) : l \in Fresh(j)}
WholeStep ==
  \A p \in Procs : Deciding(p, job[p]) =>
    IF job'[p].out = "refused" THEN WholeResults(job[p]) = {}
    ELSE \E w \in WholeResults(job[p]) :
           FullView' = [w EXCEPT !.items = Derived(w.items, w.leases)]
CommitIsWhole == [][WholeStep]_vars

(* A key of the metadata changes only by a commit of a command that        *)
(* changed it: what another command stored between a load and a commit is  *)
(* not put back (metadata_delta: "keys another writer committed in between *)
(* survive"; expected_revision for submissions).                           *)
OwnKeysStep ==
  \A k \in Keys : metadata'[k] # metadata[k] =>
    \E p \in Procs : /\ job[p].cmd \in {"claim", "accept", "persist"} /\ job'[p].cmd = "none"
                     /\ job[p].metadata[k] # job[p].base[k]
MetadataSurvives == [][OwnKeysStep]_vars
=============================================================================
