---------------------------- MODULE WorkspaceStore ----------------------------
(***************************************************************************)
(* The workspace of one pull request: the SQLite store                     *)
(* (core/runtime_store.py), the files rendered from it, and the legacy     *)
(* files it was imported from, as the commands of core/session.py use      *)
(* them.  Commands are processes that share nothing but this directory.    *)
(* One step is one autocommit statement, one transaction, or one file      *)
(* written under the write lock; a process may die between any two, and    *)
(* inside an append.                                                       *)
(*                                                                         *)
(* Every commit is a revision.  What a session holds is modelled by the    *)
(* set of the revisions whose effects it contains.                         *)
(***************************************************************************)
EXTENDS Naturals, Sequences, FiniteSets

CONSTANTS
  Procs,      \* operating-system processes
  Nobody,     \* no lock holder
  Origins,    \* workspaces to start from: "empty", "legacy", "partial", "v1", "v2", "v3"
  Commands,   \* of load, create, save, txn
  MaxWrites,  \* bound: writing commands started, an import or upgrade counted as one
  MaxFaults,  \* bound: crashes and failing file writes
  MaxEdits    \* bound: files changed by something else

ASSUME NobodyAssumption == Nobody \notin Procs
ASSUME OriginsAssumption == Origins \subseteq {"empty", "legacy", "partial", "v1", "v2", "v3"}
ASSUME CommandsAssumption == Commands \subseteq {"load", "create", "save", "txn"}
ASSUME BoundsAssumption == MaxWrites \in Nat \ {0} /\ MaxFaults \in Nat /\ MaxEdits \in Nat

VARIABLES
  db,      \* committed tables: schema version, revision, contents, evidence rows, migrations
  lock,    \* holder of the database's write lock while it writes files
  files,   \* session.json and evidence.jsonl
  rows,    \* artifact_materializations
  bundle,  \* legacy-v1-recovery
  pc,      \* where each process is
  job,     \* its local variables
  spent    \* what the bounds count

vars == <<db, lock, files, rows, bundle, pc, job, spent>>

SchemaVersion == 3
Kinds == {"session", "evidence"}
Edited == <<0>>  \* an evidence.jsonl that is not rows of the table

(* version 0: no committed store_metadata row.  dup: two active leases of   *)
(* one item, which stores before version 2 could hold.                      *)
Db == [version : 0..SchemaVersion, revision : Nat, content : SUBSET Nat, evidence : Nat,
       imported : Nat, history : Seq(Nat), dup : BOOLEAN]

NewDb == [version |-> 0, revision |-> 0, content |-> {}, evidence |-> 0, imported |-> 0,
          history |-> <<>>, dup |-> FALSE]

(* The rendered session.json holds revision n, the legacy one the n-th      *)
(* state an older build left there.                                         *)
SessionFile == [kind : {"absent", "legacy", "rendered", "edited"}, n : Nat]

(* matches: size and mtime of the file are those recorded with the row.     *)
Row == [revision : Nat, status : {"none", "current", "dirty", "failed"}, seq : Nat, matches : BOOLEAN]
NoRow == [revision |-> 0, status |-> "none", seq |-> 0, matches |-> FALSE]

Bundle == [state : {"none", "partial", "complete", "tampered"}, of : Nat]

Steps == {"idle", "probe", "upgrade", "exists", "import", "read_legacy", "set_aside", "publish",
          "import_commit", "revision", "rows", "lock", "render_session", "render_evidence",
          "record", "load_session", "load_items", "save_probe", "save_exists", "bootstrap", "commit"}

(* cmd and its result; the phase a rendering belongs to; revision and       *)
(* contents of the loaded session; what an earlier statement returned.      *)
Job == [cmd : {"none", "load", "create", "save", "txn"},
        out : {"none", "ok", "SESSION_NOT_FOUND", "STALE_REVISION", "PERSISTENCE_BUSY",
               "PERSISTENCE_INVALID", "UNVERSIONED_SESSION_WRITE", "OSError"},
        phase : {"recover", "save", "txn"}, revision : Nat, content : SUBSET Nat, seen : Nat,
        full : BOOLEAN, committed : BOOLEAN]

IdleJob == [cmd |-> "none", out |-> "none", phase |-> "recover", revision |-> 0, content |-> {},
            seen |-> 0, full |-> FALSE, committed |-> FALSE]

-----------------------------------------------------------------------------
(* Control *)

Goto(p, step) == pc' = [pc EXCEPT ![p] = step]
Set(p, j) == job' = [job EXCEPT ![p] = j]
Keep(p) == job' = job

(* The command ends; a result a caller acts on stays visible until the next *)
(* command starts.                                                          *)
End(p, out) ==
  /\ Goto(p, "idle")
  /\ Set(p, IF job[p].cmd = "load" /\ out \in {"ok", "SESSION_NOT_FOUND", "OSError"} THEN IdleJob
            ELSE [IdleJob EXCEPT !.cmd = job[p].cmd, !.out = out, !.committed = job[p].committed])

Free == lock = Nobody

(* Only an initialiser (BEGIN EXCLUSIVE) keeps readers out; a renderer      *)
(* holds a lock other statements read beside.                               *)
Importing == {"read_legacy", "set_aside", "publish", "import_commit"}
Readable == \A q \in Procs : pc[q] \notin Importing

Writing == {"upgrade", "import", "lock", "bootstrap", "commit"}
Reading == {"probe", "revision", "rows", "load_session", "load_items", "save_probe"}

(* PersistenceBusyError: the store stayed locked past busy_timeout.  Only   *)
(* the recovery of a load gives up its rendering instead (wait=False).      *)
Busy(p) ==
  /\ \/ pc[p] \in Writing /\ ~Free
     \/ pc[p] \in Reading /\ ~Readable
  /\ IF pc[p] = "lock" /\ job[p].phase = "recover"
     THEN Goto(p, "load_session") /\ Keep(p)
     ELSE End(p, "PERSISTENCE_BUSY")
  /\ UNCHANGED <<db, lock, files, rows, bundle, spent>>

Writers == {"create", "save", "txn"}

Start(p, c) ==
  /\ pc[p] = "idle"
  /\ c \in Writers => spent.writes < MaxWrites
  /\ spent' = [spent EXCEPT !.writes = IF c \in Writers THEN @ + 1 ELSE @]
  /\ Goto(p, "probe")
  /\ Set(p, [IdleJob EXCEPT !.cmd = c])
  /\ UNCHANGED <<db, lock, files, rows, bundle>>

-----------------------------------------------------------------------------
(* Opening the store *)

(* The first connection of a command reads the schema version; is_initialized *)
(* asks for a committed metadata row, not for the file.  A transaction on an  *)
(* initialised store needs no load.                                           *)
Probe(p) ==
  /\ pc[p] = "probe" /\ Readable
  /\ \/ db.version = 0 /\ Goto(p, "exists") /\ Keep(p)
     \/ db.version \in 1..(SchemaVersion - 1)
        /\ Goto(p, "upgrade") /\ Set(p, [job[p] EXCEPT !.seen = db.version])
     \/ db.version = SchemaVersion /\ job[p].cmd = "txn" /\ Goto(p, "commit") /\ Keep(p)
     \/ db.version = SchemaVersion /\ job[p].cmd # "txn" /\ Goto(p, "revision") /\ Keep(p)
  /\ UNCHANGED <<db, lock, files, rows, bundle, spent>>

(* Mutant: a status the readers of the table do not know. *)
DirtyStale == [k \in Kinds |-> IF rows[k].status = "current" THEN [rows[k] EXCEPT !.status = "stale"]
                                                             ELSE rows[k]]

(* _advance_revision: every commit makes the rendered files outdated. *)
Dirty == [k \in Kinds |-> IF rows[k].status = "current" THEN [rows[k] EXCEPT !.status = "dirty"]
                                                        ELSE rows[k]]

(* What the migrations do to them. *)
AllDirty == [k \in Kinds |-> IF rows[k].status = "none" THEN rows[k]
                                                        ELSE [rows[k] EXCEPT !.status = "dirty"]]

MigrationsFrom(version) == [i \in 1..(SchemaVersion - version) |-> version + i - 1]

(* Mutant: the version read before the lock decides. *)
UpgradeUnchecked(p) ==
  /\ pc[p] = "upgrade" /\ Free
  /\ db' = [db EXCEPT !.version = SchemaVersion, !.history = @ \o MigrationsFrom(job[p].seen)]
  /\ rows' = AllDirty
  /\ Goto(p, "probe") /\ Keep(p)
  /\ UNCHANGED <<lock, files, bundle, spent>>

(* _upgrade_schema: under the exclusive lock the version is read again and  *)
(* every remaining migration runs in one transaction; the first refuses a   *)
(* store with two active leases on an item.                                 *)
Upgrade(p) ==
  /\ pc[p] = "upgrade" /\ Free
  /\ IF db.version = 1 /\ db.dup
     THEN End(p, "PERSISTENCE_INVALID") /\ UNCHANGED <<db, rows>>
     ELSE /\ db' = [db EXCEPT !.version = SchemaVersion, !.history = @ \o MigrationsFrom(db.version)]
          /\ rows' = IF db.version < SchemaVersion THEN AllDirty ELSE rows
          /\ Goto(p, "probe") /\ Keep(p)
  /\ UNCHANGED <<lock, files, bundle, spent>>

(* load_session of an uninitialised store: a session.json means an import;  *)
(* without one, only _load_or_create_session goes on, with a new session.   *)
Exists(p) ==
  /\ pc[p] = "exists"
  /\ \/ files.session.kind # "absent" /\ Goto(p, "import") /\ Keep(p)
     \/ files.session.kind = "absent" /\ job[p].cmd = "create" /\ Goto(p, "save_probe") /\ Keep(p)
     \/ files.session.kind = "absent" /\ job[p].cmd # "create" /\ End(p, "SESSION_NOT_FOUND")
  /\ UNCHANGED <<db, lock, files, rows, bundle, spent>>

(* _initialize with legacy files: one initialiser at a time, and only the   *)
(* first finds nothing.  The load it ends with is repeated by load_session. *)
Import(p) ==
  /\ pc[p] = "import" /\ Free
  /\ \/ db.version = 0 /\ lock' = p /\ Goto(p, "read_legacy") /\ Keep(p)
     \/ db.version # 0 /\ Goto(p, "revision") /\ Keep(p) /\ UNCHANGED lock
  /\ UNCHANGED <<db, files, rows, bundle, spent>>

(* _read_legacy_session, _read_legacy_evidence *)
ReadLegacy(p) ==
  /\ pc[p] = "read_legacy"
  /\ Goto(p, "set_aside") /\ Set(p, [job[p] EXCEPT !.seen = files.session.n])
  /\ UNCHANGED <<db, lock, files, rows, bundle, spent>>

(* Mutant: any complete bundle is taken for the one of this import. *)
SetAsideAnyComplete(p) ==
  /\ pc[p] = "set_aside"
  /\ \/ bundle.state \in {"none", "partial"}
        /\ bundle' = [state |-> "none", of |-> 0] /\ Goto(p, "publish") /\ Keep(p) /\ UNCHANGED lock
     \/ bundle.state = "complete" /\ Goto(p, "import_commit") /\ Keep(p) /\ UNCHANGED <<bundle, lock>>
     \/ bundle.state = "tampered"
        /\ End(p, "PERSISTENCE_INVALID") /\ lock' = Nobody /\ UNCHANGED bundle
  /\ UNCHANGED <<db, files, rows, spent>>

(* _create_recovery_bundle: a complete bundle of the same inputs is kept;   *)
(* one of other inputs, or without a manifest, is renamed aside; one that   *)
(* fails its own manifest stops the import.                                 *)
SetAside(p) ==
  /\ pc[p] = "set_aside"
  /\ \/ /\ \/ bundle.state \in {"none", "partial"}
           \/ bundle.state = "complete" /\ bundle.of # files.session.n
        /\ bundle' = [state |-> "none", of |-> 0] /\ Goto(p, "publish") /\ Keep(p) /\ UNCHANGED lock
     \/ /\ bundle.state = "complete" /\ bundle.of = files.session.n
        /\ Goto(p, "import_commit") /\ Keep(p) /\ UNCHANGED <<bundle, lock>>
     \/ /\ bundle.state = "tampered"
        /\ End(p, "PERSISTENCE_INVALID") /\ lock' = Nobody /\ UNCHANGED bundle
  /\ UNCHANGED <<db, files, rows, spent>>

(* ... and a new one, built in a staging directory, is renamed into place. *)
PublishBundle(p) ==
  /\ pc[p] = "publish"
  /\ bundle' = [state |-> "complete", of |-> files.session.n]
  /\ Goto(p, "import_commit") /\ Keep(p)
  /\ UNCHANGED <<db, lock, files, rows, spent>>

(* The rest of _initialize: schema, metadata, session, evidence and the     *)
(* migration row in one commit, with the signature of a verified bundle.    *)
ImportCommit(p) ==
  /\ pc[p] = "import_commit"
  /\ lock' = Nobody
  /\ IF bundle.state = "tampered"
     THEN End(p, "PERSISTENCE_INVALID") /\ UNCHANGED db
     ELSE /\ db' = [NewDb EXCEPT !.version = SchemaVersion, !.revision = 1, !.content = {1},
                                 !.imported = job[p].seen]
          /\ Goto(p, "revision") /\ Keep(p)
  /\ UNCHANGED <<files, rows, bundle, spent>>

-----------------------------------------------------------------------------
(* Loading *)

(* recover_artifacts: the latest revision ... *)
ReadRevision(p) ==
  /\ pc[p] = "revision" /\ Readable
  /\ Goto(p, "rows") /\ Set(p, [job[p] EXCEPT !.seen = db.revision, !.phase = "recover"])
  /\ UNCHANGED <<db, lock, files, rows, bundle, spent>>

(* ... and, in a statement of its own, the bookkeeping rows, compared with  *)
(* the files' size and mtime.                                               *)
Stale(k, revision) == rows[k].status # "current" \/ rows[k].revision < revision
Drifted(k, revision) == ~Stale(k, revision) /\ ~rows[k].matches

(* Mutant: bookkeeping is believed without looking at the files. *)
ReadRowsUnseen(p) ==
  /\ pc[p] = "rows" /\ Readable
  /\ IF \E k \in Kinds : Stale(k, job[p].seen)
     THEN Goto(p, "lock") ELSE Goto(p, "load_session")
  /\ Keep(p)
  /\ UNCHANGED <<db, lock, files, rows, bundle, spent>>

ReadRows(p) ==
  /\ pc[p] = "rows" /\ Readable
  /\ \/ /\ \E k \in Kinds : rows[k].revision > job[p].seen
        /\ End(p, "PERSISTENCE_INVALID")
     \/ /\ \A k \in Kinds : rows[k].revision <= job[p].seen
        /\ \E k \in Kinds : Stale(k, job[p].seen) \/ Drifted(k, job[p].seen)
        /\ Goto(p, "lock")
        /\ Set(p, [job[p] EXCEPT !.full = \E k \in Kinds : Drifted(k, job[p].seen)])
     \/ /\ \A k \in Kinds : rows[k].revision <= job[p].seen
        /\ \A k \in Kinds : ~Stale(k, job[p].seen) /\ ~Drifted(k, job[p].seen)
        /\ Goto(p, "load_session") /\ Keep(p)
  /\ UNCHANGED <<db, lock, files, rows, bundle, spent>>

(* load: the bundle is checked against its recorded signature, the session  *)
(* row with its revision is read ...                                        *)
LoadSession(p) ==
  /\ pc[p] = "load_session" /\ Readable
  /\ IF bundle.state = "tampered"
     THEN End(p, "PERSISTENCE_INVALID")
     ELSE Goto(p, "load_items") /\ Set(p, [job[p] EXCEPT !.revision = db.revision])
  /\ UNCHANGED <<db, lock, files, rows, bundle, spent>>

(* ... and then, in statements of their own, items and leases. *)
LoadItems(p) ==
  /\ pc[p] = "load_items" /\ Readable
  /\ IF job[p].cmd = "load" THEN End(p, "ok")
     ELSE /\ Goto(p, IF job[p].cmd = "txn" THEN "commit" ELSE "save_probe")
          /\ Set(p, [job[p] EXCEPT !.content = db.content, !.full = FALSE])
  /\ UNCHANGED <<db, lock, files, rows, bundle, spent>>

-----------------------------------------------------------------------------
(* Saving *)

(* Mutant: the loaded session takes the latest revision for its own. *)
SaveProbeRestamped(p) ==
  /\ pc[p] = "save_probe" /\ Readable
  /\ \/ db.version = 0 /\ Goto(p, "save_exists") /\ Keep(p)
     \/ db.version # 0 /\ Goto(p, "commit") /\ Set(p, [job[p] EXCEPT !.revision = db.revision])
  /\ UNCHANGED <<db, lock, files, rows, bundle, spent>>

(* save_session: the store asks again whether it is initialised. A session  *)
(* that was not loaded from it may not be saved into it.                    *)
SaveProbe(p) ==
  /\ pc[p] = "save_probe" /\ Readable
  /\ \/ db.version = 0 /\ Goto(p, "save_exists") /\ Keep(p)
     \/ db.version # 0 /\ job[p].revision = 0 /\ End(p, "UNVERSIONED_SESSION_WRITE")
     \/ db.version # 0 /\ job[p].revision # 0 /\ Goto(p, "commit") /\ Keep(p)
  /\ UNCHANGED <<db, lock, files, rows, bundle, spent>>

(* A session.json beside an uninitialised store is taken for a legacy one. *)
SaveExists(p) ==
  /\ pc[p] = "save_exists"
  /\ \/ files.session.kind # "absent" /\ End(p, "PERSISTENCE_INVALID")
     \/ files.session.kind = "absent" /\ Goto(p, "bootstrap") /\ Keep(p)
  /\ UNCHANGED <<db, lock, files, rows, bundle, spent>>

Committed(p, phase) ==
  /\ Goto(p, "lock")
  /\ Set(p, [job[p] EXCEPT !.committed = TRUE, !.phase = phase])

(* Mutant: losing the race counts as having created the store. *)
BootstrapAny(p) ==
  /\ pc[p] = "bootstrap" /\ Free
  /\ IF db.version # 0
     THEN UNCHANGED db /\ Goto(p, "lock") /\ Set(p, [job[p] EXCEPT !.phase = "save"])
     ELSE /\ db' = [NewDb EXCEPT !.version = SchemaVersion, !.revision = 1, !.content = {1}]
          /\ Committed(p, "save")
  /\ UNCHANGED <<lock, files, rows, bundle, spent>>

(* bootstrap with require_new: the payload becomes revision 1 or the command *)
(* fails.                                                                    *)
Bootstrap(p) ==
  /\ pc[p] = "bootstrap" /\ Free
  /\ IF db.version # 0
     THEN UNCHANGED db /\ End(p, "STALE_REVISION")
     ELSE /\ db' = [NewDb EXCEPT !.version = SchemaVersion, !.revision = 1, !.content = {1}]
          /\ Committed(p, "save")
  /\ UNCHANGED <<lock, files, rows, bundle, spent>>

(* replace: the loaded session, as a whole, at the revision it was loaded at. *)
Replace(p) ==
  /\ pc[p] = "commit" /\ Free /\ job[p].cmd # "txn"
  /\ IF job[p].revision # db.revision
     THEN End(p, "STALE_REVISION") /\ UNCHANGED <<db, rows>>
     ELSE /\ db' = [db EXCEPT !.revision = @ + 1, !.content = job[p].content \cup {db.revision + 1}]
          /\ rows' = Dirty
          /\ Committed(p, "save")
  /\ UNCHANGED <<lock, files, bundle, spent>>

(* transact: reads and writes under one lock, and appends evidence. *)
Transact(p) ==
  /\ pc[p] = "commit" /\ Free /\ job[p].cmd = "txn"
  /\ db' = [db EXCEPT !.revision = @ + 1, !.content = @ \cup {db.revision + 1}, !.evidence = @ + 1]
  /\ rows' = Dirty
  /\ Committed(p, "txn")
  /\ UNCHANGED <<lock, files, bundle, spent>>

-----------------------------------------------------------------------------
(* Rendering: _materialize, under the write lock *)

Renders(p) == IF job[p].phase = "txn" THEN {"evidence"} ELSE Kinds

TakeLock(p) ==
  /\ pc[p] = "lock" /\ Free
  /\ lock' = p
  /\ Goto(p, IF "session" \in Renders(p) THEN "render_session" ELSE "render_evidence") /\ Keep(p)
  /\ UNCHANGED <<db, files, rows, bundle, spent>>

(* session.json is replaced by a rename. *)
RenderSession(p) ==
  /\ pc[p] = "render_session"
  /\ files' = [files EXCEPT !.session = [kind |-> "rendered", n |-> db.revision]]
  /\ rows' = [rows EXCEPT !["session"].matches = FALSE]
  /\ Goto(p, "render_evidence") /\ Keep(p)
  /\ UNCHANGED <<db, lock, bundle, spent>>

(* Mutant: a recorded sequence is enough to append after it. *)
AppendableUnseen(p) ==
  ~job[p].full /\ rows["evidence"].status \in {"current", "dirty"} /\ rows["evidence"].seq <= db.evidence

(* _appendable_sequence: appending resumes after the last row written when  *)
(* the file still is the one recorded; otherwise it is written anew.        *)
Appendable(p) ==
  /\ ~job[p].full
  /\ rows["evidence"].status \in {"current", "dirty"}
  /\ rows["evidence"].seq <= db.evidence
  /\ rows["evidence"].matches

Appended(upto) ==
  files.evidence \o [i \in 1..(upto - rows["evidence"].seq) |-> rows["evidence"].seq + i]

RenderedEvidence(p) ==
  IF Appendable(p) THEN Appended(db.evidence) ELSE [i \in 1..db.evidence |-> i]

(* _materialize_evidence *)
RenderEvidence(p) ==
  /\ pc[p] = "render_evidence"
  /\ files' = [files EXCEPT !.evidence = RenderedEvidence(p)]
  /\ rows' = [rows EXCEPT !["evidence"].matches = FALSE]
  /\ Goto(p, "record") /\ Keep(p)
  /\ UNCHANGED <<db, lock, bundle, spent>>

(* The bookkeeping rows are committed and the lock is released. *)
Record(p) ==
  /\ pc[p] = "record"
  /\ rows' = [k \in Kinds |->
       IF k \in Renders(p)
       THEN [revision |-> db.revision, status |-> "current", matches |-> TRUE,
             seq |-> IF k = "evidence" THEN db.evidence ELSE 0]
       ELSE rows[k]]
  /\ lock' = Nobody
  /\ IF job[p].phase = "recover"
     THEN Goto(p, "load_session") /\ Keep(p)
     ELSE End(p, "ok")
  /\ UNCHANGED <<db, files, bundle, spent>>

Rendering == {"render_session", "render_evidence", "record"}

(* What an interrupted write leaves of evidence.jsonl: some of the appended *)
(* rows, while a rewrite goes to a temporary file.                          *)
Interrupted(p) ==
  {files.evidence} \cup
  (IF pc[p] = "render_evidence" /\ Appendable(p)
   THEN {Appended(n) : n \in rows["evidence"].seq..db.evidence} ELSE {})

(* A file cannot be written: the rows are marked failed and the command     *)
(* fails, whatever it committed.                                            *)
RenderFails(p) ==
  /\ pc[p] \in Rendering /\ spent.faults < MaxFaults
  /\ spent' = [spent EXCEPT !.faults = @ + 1]
  /\ \E left \in Interrupted(p) : files' = [files EXCEPT !.evidence = left]
  /\ rows' = [k \in Kinds |->
       IF k \in Renders(p)
       THEN [revision |-> db.revision, status |-> "failed", matches |-> FALSE, seq |-> 0]
       ELSE rows[k]]
  /\ lock' = Nobody
  /\ End(p, "OSError")
  /\ UNCHANGED <<db, bundle>>

-----------------------------------------------------------------------------
(* Environment *)

(* A process dies: its transaction is rolled back, its files stay. *)
Crash(p) ==
  /\ pc[p] # "idle" /\ spent.faults < MaxFaults
  /\ spent' = [spent EXCEPT !.faults = @ + 1]
  /\ \E left \in Interrupted(p) :
       /\ files' = [files EXCEPT !.evidence = left]
       /\ rows' = IF left = files.evidence THEN rows
                  ELSE [rows EXCEPT !["evidence"].matches = FALSE]
  /\ lock' = IF lock = p THEN Nobody ELSE lock
  /\ Goto(p, "idle") /\ Set(p, IdleJob)
  /\ UNCHANGED <<db, bundle>>

(* Somebody edits a rendered file (not while it is being rendered: an edit  *)
(* between the write and its stat is recorded as the rendering).            *)
Edit(k) ==
  /\ spent.edits < MaxEdits /\ Free /\ db.version = SchemaVersion
  /\ spent' = [spent EXCEPT !.edits = @ + 1]
  /\ files' = IF k = "session" THEN [files EXCEPT !.session = [kind |-> "edited", n |-> 0]]
                               ELSE [files EXCEPT !.evidence = Edited]
  /\ rows' = [rows EXCEPT ![k].matches = FALSE]
  /\ UNCHANGED <<db, lock, bundle, pc, job>>

(* An older build saves the legacy session once more before the import. *)
LegacyWrite ==
  /\ spent.edits < MaxEdits /\ Free /\ db.version = 0 /\ files.session.kind = "legacy"
  /\ spent' = [spent EXCEPT !.edits = @ + 1]
  /\ files' = [files EXCEPT !.session.n = @ + 1]
  /\ UNCHANGED <<db, lock, rows, bundle, pc, job>>

(* Somebody changes a file of the recovery bundle. *)
Tamper ==
  /\ spent.edits < MaxEdits /\ Free /\ bundle.state = "complete"
  /\ spent' = [spent EXCEPT !.edits = @ + 1]
  /\ bundle' = [bundle EXCEPT !.state = "tampered"]
  /\ UNCHANGED <<db, lock, files, rows, pc, job>>

-----------------------------------------------------------------------------
(* Specification *)

(* What a workspace looks like when the first command meets it: nothing,    *)
(* legacy files (with or without the bundle of a build that died copying),  *)
(* or a store of any schema version.                                        *)
DbOf(origin) ==
  CASE origin \in {"empty", "legacy", "partial"} -> {NewDb}
    [] origin = "v1" -> {[NewDb EXCEPT !.version = 1, !.revision = 1, !.content = {1}, !.dup = d] : d \in BOOLEAN}
    [] origin = "v2" -> {[NewDb EXCEPT !.version = 2, !.revision = 1, !.content = {1}]}
    [] OTHER         -> {[NewDb EXCEPT !.version = 3, !.revision = 1, !.content = {1}]}

Init ==
  \E origin \in Origins :
    /\ db \in DbOf(origin)
    /\ lock = Nobody
    /\ files = [session |-> CASE origin \in {"legacy", "partial"} -> [kind |-> "legacy", n |-> 1]
                              [] origin = "empty" -> [kind |-> "absent", n |-> 0]
                              [] OTHER -> [kind |-> "rendered", n |-> 1],
                evidence |-> <<>>]
    /\ rows = [k \in Kinds |-> NoRow]
    /\ bundle = [state |-> IF origin = "partial" THEN "partial" ELSE "none", of |-> 0]
    /\ pc = [p \in Procs |-> "idle"]
    /\ job = [p \in Procs |-> IdleJob]
    /\ spent = [writes |-> IF origin \in {"empty", "v3"} THEN 0 ELSE 1, faults |-> 0, edits |-> 0]

Step(p) ==
  \/ Probe(p) \/ Upgrade(p) \/ Exists(p)
  \/ Import(p) \/ ReadLegacy(p) \/ SetAside(p) \/ PublishBundle(p) \/ ImportCommit(p)
  \/ ReadRevision(p) \/ ReadRows(p) \/ LoadSession(p) \/ LoadItems(p)
  \/ SaveProbe(p) \/ SaveExists(p) \/ Bootstrap(p) \/ Replace(p) \/ Transact(p)
  \/ TakeLock(p) \/ RenderSession(p) \/ RenderEvidence(p) \/ Record(p)
  \/ Busy(p)

Next ==
  \/ \E p \in Procs : Step(p) \/ RenderFails(p) \/ Crash(p) \/ \E c \in Commands : Start(p, c)
  \/ \E k \in Kinds : Edit(k)
  \/ LegacyWrite
  \/ Tamper

Spec == Init /\ [][Next]_vars

(* Processes keep being scheduled, and somebody keeps running commands that *)
(* load the session, as every workflow does.                                *)
FairSpec ==
  /\ Spec
  /\ \A p \in Procs : WF_vars(Step(p)) /\ WF_vars(Start(p, "load"))

-----------------------------------------------------------------------------
(* Properties *)

(* Types of the tables, the files and the processes. *)
TypeOK ==
  /\ db \in Db
  /\ lock \in Procs \cup {Nobody}
  /\ files \in [session : SessionFile, evidence : Seq(Nat)]
  /\ rows \in [Kinds -> Row]
  /\ bundle \in Bundle
  /\ pc \in [Procs -> Steps]
  /\ job \in [Procs -> Job]
  /\ spent \in [writes : 0..MaxWrites, faults : 0..MaxFaults, edits : 0..MaxEdits]

(* No commit loses another (replace, transact, bootstrap, torn loads): the  *)
(* committed session holds the effects of every revision, although a save   *)
(* writes back a session that was read in several statements, and           *)
(* initialisers race.                                                       *)
NothingLost == db.content = 1..db.revision

(* Bookkeeping that a command trusts is true (_upsert_materialization,      *)
(* _appendable_sequence): a current row whose file is unchanged stands for  *)
(* the latest revision and a file that shows it, and a sequence to append   *)
(* after stands for a file of exactly the rows up to it, through failing    *)
(* writes, interrupted appends and edits.                                   *)
BookkeepingIsTrue ==
  /\ (rows["session"].status = "current" /\ rows["session"].matches) =>
        files.session = [kind |-> "rendered", n |-> db.revision]
  /\ (rows["evidence"].status \in {"current", "dirty"} /\ rows["evidence"].matches) =>
        files.evidence = [i \in 1..rows["evidence"].seq |-> i]

(* What was imported can be looked up again (_create_recovery_bundle): a    *)
(* committed import has a bundle of the very state it imported, before the  *)
(* first rendering overwrites session.json.                                 *)
ImportHasBundle ==
  db.imported # 0 => bundle.of = db.imported /\ bundle.state \in {"complete", "tampered"}

(* Each schema step is applied once, in order, whoever opens an old store   *)
(* first (_upgrade_schema).                                                 *)
UpgradedOnce ==
  db.history \in {<<>>, <<2>>, <<1, 2>>}

(* What the store says of itself is true. *)
RecordsAreTrue == BookkeepingIsTrue /\ ImportHasBundle /\ UpgradedOnce

(* A command that reports success has committed what it was asked to write  *)
(* (save_session: a created session is never silently dropped).             *)
SuccessIsCommitted ==
  \A p \in Procs : job[p].out = "ok" /\ job[p].cmd \in Writers => job[p].committed

(* The rendered files catch up with the store (recover_artifacts): once     *)
(* writes, faults and edits end, loads leave both files showing the latest  *)
(* revision for good.                                                       *)
FilesCatchUp ==
  <>[](db.version = SchemaVersion =>
         /\ files.session = [kind |-> "rendered", n |-> db.revision]
         /\ files.evidence = [i \in 1..db.evidence |-> i])

(* skill/references/status-action-map.md: the failed command committed      *)
(* nothing.                                                                 *)
FailureCommittedNothing ==
  \A p \in Procs :
    job[p].out \in {"STALE_REVISION", "PERSISTENCE_BUSY", "PERSISTENCE_INVALID"} => ~job[p].committed

(* skill/references/status-action-map.md: PERSISTENCE_INVALID is a failed   *)
(* integrity check.                                                         *)
InvalidIsCorrupt ==
  \A p \in Procs :
    job[p].out = "PERSISTENCE_INVALID" =>
      bundle.state = "tampered" \/ db.dup \/ db.version = 0
=============================================================================
