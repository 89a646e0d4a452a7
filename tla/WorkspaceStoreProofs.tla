------------------------- MODULE WorkspaceStoreProofs -------------------------
(***************************************************************************)
(* Safety of the workspace store, for any number of processes and any      *)
(* workspace to start from: no commit loses another, what the store says   *)
(* of its files, its import and its schema is true, and a command that     *)
(* reports success has committed.                                          *)
(***************************************************************************)
EXTENDS WorkspaceStore, SequenceTheorems, TLAPS

-----------------------------------------------------------------------------
(* Types. *)

(* Local variables of an idle process are typed. *)
LEMMA IdleJobType == IdleJob \in Job
BY DEF IdleJob, Job

(* Moving a process on keeps its step typed, and its variables. *)
LEMMA MoveType ==
  ASSUME TypeOK, NEW p \in Procs, NEW step \in Steps, Goto(p, step)
  PROVE  /\ pc' \in [Procs -> Steps]
         /\ Keep(p) => job' \in [Procs -> Job]
         /\ \A j \in Job : Set(p, j) => job' \in [Procs -> Job]
BY DEF TypeOK, Goto, Keep, Set

Outcomes == {"none", "ok", "SESSION_NOT_FOUND", "STALE_REVISION", "PERSISTENCE_BUSY",
             "PERSISTENCE_INVALID", "UNVERSIONED_SESSION_WRITE", "OSError"}

(* What a command leaves behind when it ends. *)
Ended(p, out) == [IdleJob EXCEPT !.cmd = job[p].cmd, !.out = out, !.committed = job[p].committed]

(* It is typed. *)
LEMMA EndedType ==
  ASSUME TypeOK, NEW p \in Procs, NEW out \in Outcomes
  PROVE  Ended(p, out) \in Job
<1>1. job[p] \in Job BY DEF TypeOK
<1> QED BY <1>1, IdleJobType DEF Ended, Job, Outcomes

(* An ended command left that, or nothing. *)
LEMMA EndIs ==
  ASSUME NEW p \in Procs, NEW out, End(p, out)
  PROVE  /\ Goto(p, "idle")
         /\ \/ Set(p, IdleJob)
            \/ Set(p, Ended(p, out)) /\ ~(job[p].cmd = "load" /\ out = "ok")
BY DEF End, Ended

(* Ending a command keeps the types. *)
LEMMA EndType ==
  ASSUME TypeOK, NEW p \in Procs, NEW out \in Outcomes, End(p, out)
  PROVE  pc' \in [Procs -> Steps] /\ job' \in [Procs -> Job]
<1>1. "idle" \in Steps BY DEF Steps
<1> QED BY <1>1, EndIs, EndedType, IdleJobType, MoveType

(* The database an initialiser starts from is typed. *)
LEMMA NewDbType == NewDb \in Db
BY DEF NewDb, Db, SchemaVersion

(* So is a database some of whose columns are assigned. *)
LEMMA DbUpdates ==
  ASSUME NEW d \in Db
  PROVE  /\ \A v \in 0..SchemaVersion, h \in Seq(Nat) :
              [d EXCEPT !.version = v, !.history = h] \in Db
         /\ \A r \in Nat, c \in SUBSET Nat : [d EXCEPT !.revision = r, !.content = c] \in Db
         /\ \A r \in Nat, c \in SUBSET Nat, n \in Nat :
              [d EXCEPT !.revision = r, !.content = c, !.evidence = n] \in Db
         /\ \A v \in 0..SchemaVersion, r \in Nat, c \in SUBSET Nat :
              [d EXCEPT !.version = v, !.revision = r, !.content = c] \in Db
         /\ \A v \in 0..SchemaVersion, r \in Nat, c \in SUBSET Nat, n \in Nat :
              [d EXCEPT !.version = v, !.revision = r, !.content = c, !.imported = n] \in Db
         /\ \A v \in 0..SchemaVersion, r \in Nat, c \in SUBSET Nat, x \in BOOLEAN :
              [d EXCEPT !.version = v, !.revision = r, !.content = c, !.dup = x] \in Db
BY DEF Db

(* The migrations an upgrade records are typed. *)
LEMMA MigrationsType ==
  ASSUME NEW v \in 0..SchemaVersion
  PROVE  MigrationsFrom(v) \in Seq(Nat)
<1>1. SchemaVersion - v \in Nat BY DEF SchemaVersion
<1>2. \A i \in 1..(SchemaVersion - v) : v + i - 1 \in Nat BY DEF SchemaVersion
<1> QED BY <1>1, <1>2 DEF MigrationsFrom

(* Bookkeeping rows stay rows when they are marked outdated. *)
LEMMA DirtyType ==
  ASSUME TypeOK
  PROVE  Dirty \in [Kinds -> Row] /\ AllDirty \in [Kinds -> Row]
<1>1. \A k \in Kinds : rows[k] \in Row BY DEF TypeOK
<1>2. ASSUME NEW r \in Row PROVE [r EXCEPT !.status = "dirty"] \in Row BY DEF Row
<1> QED BY <1>1, <1>2 DEF Dirty, AllDirty

(* And when their file has changed. *)
LEMMA UnmatchedType ==
  ASSUME TypeOK
  PROVE  /\ [rows EXCEPT !["session"].matches = FALSE] \in [Kinds -> Row]
         /\ [rows EXCEPT !["evidence"].matches = FALSE] \in [Kinds -> Row]
         /\ \A k \in Kinds : [rows EXCEPT ![k].matches = FALSE] \in [Kinds -> Row]
<1>1. ASSUME NEW r \in Row PROVE [r EXCEPT !.matches = FALSE] \in Row BY DEF Row
<1> QED BY <1>1 DEF TypeOK, Kinds

(* What the bounds count stays within them. *)
LEMMA SpentType ==
  ASSUME TypeOK
  PROVE  /\ spent.writes < MaxWrites =>
              [spent EXCEPT !.writes = @ + 1] \in
                [writes : 0..MaxWrites, faults : 0..MaxFaults, edits : 0..MaxEdits]
         /\ spent.faults < MaxFaults =>
              [spent EXCEPT !.faults = @ + 1] \in
                [writes : 0..MaxWrites, faults : 0..MaxFaults, edits : 0..MaxEdits]
         /\ spent.edits < MaxEdits =>
              [spent EXCEPT !.edits = @ + 1] \in
                [writes : 0..MaxWrites, faults : 0..MaxFaults, edits : 0..MaxEdits]
         /\ [spent EXCEPT !.writes = @] = spent
BY BoundsAssumption DEF TypeOK

(* Rows appended to the evidence file keep it a sequence of rows. *)
LEMMA AppendedType ==
  ASSUME TypeOK, NEW n \in Nat, rows["evidence"].seq <= n
  PROVE  Appended(n) \in Seq(Nat)
<1>1. rows["evidence"].seq \in Nat BY DEF TypeOK, Row, Kinds
<1>2. n - rows["evidence"].seq \in Nat BY <1>1
<1>3. [i \in 1..(n - rows["evidence"].seq) |-> rows["evidence"].seq + i] \in Seq(Nat)
  <2> DEFINE s == rows["evidence"].seq
             m == n - s
  <2>1. m \in Nat /\ \A i \in 1..m : s + i \in Nat BY <1>1, <1>2
  <2> HIDE DEF s, m
  <2>2. [i \in 1..m |-> s + i] \in Seq(Nat) BY <2>1
  <2> QED BY <2>2 DEF s, m
<1>4. files.evidence \in Seq(Nat) BY DEF TypeOK
<1> QED BY <1>3, <1>4 DEF Appended

(* So does what a rendering makes of it, or leaves of it. *)
LEMMA EvidenceType ==
  ASSUME TypeOK, NEW p \in Procs
  PROVE  /\ RenderedEvidence(p) \in Seq(Nat)
         /\ Interrupted(p) \subseteq Seq(Nat)
<1>1. db.evidence \in Nat /\ files.evidence \in Seq(Nat) BY DEF TypeOK, Db
<1>2. rows["evidence"].seq \in Nat BY DEF TypeOK, Row, Kinds
<1>3. Appendable(p) => Appended(db.evidence) \in Seq(Nat)
  BY <1>1, AppendedType DEF Appendable
<1>4. [i \in 1..db.evidence |-> i] \in Seq(Nat) BY <1>1
<1>5. \A n \in rows["evidence"].seq..db.evidence : Appended(n) \in Seq(Nat)
  BY <1>1, <1>2, AppendedType
<1> QED BY <1>1, <1>3, <1>4, <1>5 DEF RenderedEvidence, Interrupted

(* Steps of a command keep the types. *)
LEMMA StepType ==
  ASSUME TypeOK, NEW p \in Procs, Step(p)
  PROVE  TypeOK'
<1> DEFINE Moved == pc' \in [Procs -> Steps] /\ job' \in [Procs -> Job]
           Rest == UNCHANGED <<db, lock, files, rows, bundle, spent>>
<1> job[p] \in Job /\ db \in Db BY DEF TypeOK
<1>a. ASSUME Rest, Moved PROVE TypeOK' BY <1>a DEF TypeOK
<1>b. ASSUME NEW step \in Steps, Goto(p, step), Keep(p) PROVE Moved BY <1>b, MoveType
<1>c. ASSUME NEW step \in Steps, Goto(p, step), NEW n \in Nat,
             \/ Set(p, [job[p] EXCEPT !.seen = n])
             \/ Set(p, [job[p] EXCEPT !.seen = n, !.phase = "recover"])
             \/ Set(p, [job[p] EXCEPT !.revision = n])
      PROVE  Moved
  <2>1. /\ [job[p] EXCEPT !.seen = n] \in Job
        /\ [job[p] EXCEPT !.seen = n, !.phase = "recover"] \in Job
        /\ [job[p] EXCEPT !.revision = n] \in Job
    BY DEF Job
  <2> QED BY <1>c, <2>1, MoveType
<1>d. ASSUME NEW phase \in {"save", "txn"}, Committed(p, phase) PROVE Moved
  <2>1. [job[p] EXCEPT !.committed = TRUE, !.phase = phase] \in Job BY DEF Job
  <2> QED BY <1>d, <2>1, MoveType DEF Committed, Steps
<1>e. db.version \in 0..SchemaVersion /\ db.revision \in Nat /\ db.evidence \in Nat BY DEF Db
<1>1. CASE Probe(p)
  <2>1. Rest BY <1>1 DEF Probe
  <2>2. db.version \in Nat BY <1>e
  <2>3. Moved BY <1>1, <1>b, <1>c, <2>2 DEF Probe, Steps
  <2> QED BY <1>a, <2>1, <2>3
<1>2. CASE Upgrade(p)
  <2>1. Moved BY <1>2, <1>b, EndType DEF Upgrade, Steps, Outcomes
  <2>2. ASSUME db' = [db EXCEPT !.version = SchemaVersion,
                                !.history = @ \o MigrationsFrom(db.version)]
        PROVE  db' \in Db
    <3>1. db.history \in Seq(Nat) BY DEF Db
    <3>2. db.history \o MigrationsFrom(db.version) \in Seq(Nat)
      BY <1>e, <3>1, MigrationsType, ConcatProperties
    <3>3. SchemaVersion \in 0..SchemaVersion BY DEF SchemaVersion
    <3> QED BY <2>2, <3>2, <3>3, DbUpdates
  <2>3. db' \in Db BY <1>2, <2>2 DEF Upgrade
  <2>4. rows' \in [Kinds -> Row] BY <1>2, DirtyType DEF Upgrade, TypeOK
  <2> QED BY <1>2, <2>1, <2>3, <2>4 DEF Upgrade, TypeOK
<1>3. CASE Exists(p)
  <2>1. Rest BY <1>3 DEF Exists
  <2>2. Moved BY <1>3, <1>b, EndType DEF Exists, Steps, Outcomes
  <2> QED BY <1>a, <2>1, <2>2
<1>4. CASE Import(p)
  <2>1. Moved BY <1>4, <1>b DEF Import, Steps
  <2> QED BY <1>4, <2>1 DEF Import, TypeOK
<1>5. CASE ReadLegacy(p)
  <2>1. Rest BY <1>5 DEF ReadLegacy
  <2>2. files.session.n \in Nat BY DEF TypeOK, SessionFile
  <2>3. Moved BY <1>5, <1>c, <2>2 DEF ReadLegacy, Steps
  <2> QED BY <1>a, <2>1, <2>3
<1>6. CASE SetAside(p)
  <2>1. Moved BY <1>6, <1>b, EndType DEF SetAside, Steps, Outcomes
  <2>2. bundle' \in Bundle /\ lock' \in Procs \cup {Nobody}
    BY <1>6 DEF SetAside, Bundle, TypeOK
  <2> QED BY <1>6, <2>1, <2>2 DEF SetAside, TypeOK
<1>7. CASE PublishBundle(p)
  <2>1. Moved BY <1>7, <1>b DEF PublishBundle, Steps
  <2>2. files.session.n \in Nat BY DEF TypeOK, SessionFile
  <2>3. bundle' \in Bundle BY <1>7, <2>2 DEF PublishBundle, Bundle
  <2> QED BY <1>7, <2>1, <2>3 DEF PublishBundle, TypeOK
<1>8. CASE ImportCommit(p)
  <2>1. Moved BY <1>8, <1>b, EndType DEF ImportCommit, Steps, Outcomes
  <2>2. db' \in Db
    <3>1. /\ job[p].seen \in Nat /\ 1 \in Nat /\ {1} \in SUBSET Nat
          /\ SchemaVersion \in 0..SchemaVersion
      BY DEF Job, SchemaVersion
    <3>2. [NewDb EXCEPT !.version = SchemaVersion, !.revision = 1, !.content = {1},
                        !.imported = job[p].seen] \in Db
      BY <3>1, NewDbType, DbUpdates
    <3> QED BY <1>8, <3>2 DEF ImportCommit
  <2> QED BY <1>8, <2>1, <2>2 DEF ImportCommit, TypeOK
<1>9. CASE ReadRevision(p)
  <2>1. Rest BY <1>9 DEF ReadRevision
  <2>2. Moved BY <1>9, <1>c, <1>e DEF ReadRevision, Steps
  <2> QED BY <1>a, <2>1, <2>2
<1>10. CASE ReadRows(p)
  <2>1. Rest BY <1>10 DEF ReadRows
  <2>2. ASSUME NEW b \in BOOLEAN PROVE [job[p] EXCEPT !.full = b] \in Job BY DEF Job
  <2>3. (\E k \in Kinds : Drifted(k, job[p].seen)) \in BOOLEAN OBVIOUS
  <2>4. [job[p] EXCEPT !.full = \E k \in Kinds : Drifted(k, job[p].seen)] \in Job
    BY <2>2, <2>3, Zenon
  <2> DEFINE j == [job[p] EXCEPT !.full = \E k \in Kinds : Drifted(k, job[p].seen)]
  <2>5. \/ Goto(p, "lock") /\ Set(p, j)
        \/ Goto(p, "load_session") /\ Keep(p)
        \/ End(p, "PERSISTENCE_INVALID")
    BY <1>10 DEF ReadRows
  <2>6. j \in Job BY <2>4
  <2> HIDE DEF j
  <2>7. Moved BY <1>b, <2>5, <2>6, MoveType, EndType DEF Steps, Outcomes
  <2> QED BY <1>a, <2>1, <2>7
<1>11. CASE LoadSession(p)
  <2>1. Rest BY <1>11 DEF LoadSession
  <2>2. Moved BY <1>11, <1>c, <1>e, EndType DEF LoadSession, Steps, Outcomes
  <2> QED BY <1>a, <2>1, <2>2
<1>12. CASE LoadItems(p)
  <2>1. Rest BY <1>12 DEF LoadItems
  <2> DEFINE j == [job[p] EXCEPT !.content = db.content, !.full = FALSE]
  <2>2. j \in Job BY DEF Job, Db
  <2>3. \/ End(p, "ok")
        \/ Goto(p, IF job[p].cmd = "txn" THEN "commit" ELSE "save_probe") /\ Set(p, j)
    BY <1>12 DEF LoadItems
  <2> HIDE DEF j
  <2>4. (IF job[p].cmd = "txn" THEN "commit" ELSE "save_probe") \in Steps BY DEF Steps
  <2>5. Moved BY <2>2, <2>3, <2>4, MoveType, EndType DEF Outcomes
  <2> QED BY <1>a, <2>1, <2>5
<1>13. CASE SaveProbe(p)
  <2>1. Rest BY <1>13 DEF SaveProbe
  <2>2. Moved BY <1>13, <1>b, EndType DEF SaveProbe, Steps, Outcomes
  <2> QED BY <1>a, <2>1, <2>2
<1>14. CASE SaveExists(p)
  <2>1. Rest BY <1>14 DEF SaveExists
  <2>2. Moved BY <1>14, <1>b, EndType DEF SaveExists, Steps, Outcomes
  <2> QED BY <1>a, <2>1, <2>2
<1>15. CASE Bootstrap(p)
  <2>1. Moved BY <1>15, <1>d, EndType DEF Bootstrap, Outcomes
  <2>2. db' \in Db
    <3>1. SchemaVersion \in 0..SchemaVersion /\ 1 \in Nat /\ {1} \in SUBSET Nat
      BY DEF SchemaVersion
    <3>2. [NewDb EXCEPT !.version = SchemaVersion, !.revision = 1, !.content = {1}] \in Db
      BY <3>1, NewDbType, DbUpdates
    <3> QED BY <1>15, <3>2 DEF Bootstrap
  <2> QED BY <1>15, <2>1, <2>2 DEF Bootstrap, TypeOK
<1>16. CASE Replace(p)
  <2>1. Moved BY <1>16, <1>d, EndType DEF Replace, Outcomes
  <2>2. db' \in Db
    <3>1. db.revision + 1 \in Nat /\ job[p].content \cup {db.revision + 1} \in SUBSET Nat
      BY <1>e DEF Job
    <3> DEFINE r == db.revision + 1
               c == job[p].content \cup {db.revision + 1}
    <3>2. db' = db \/ db' = [db EXCEPT !.revision = r, !.content = c]
      BY <1>16 DEF Replace
    <3> HIDE DEF r, c
    <3>3. r \in Nat /\ c \in SUBSET Nat BY <3>1 DEF r, c
    <3>4. [db EXCEPT !.revision = r, !.content = c] \in Db BY <3>3, DbUpdates
    <3> QED BY <3>2, <3>4
  <2>3. rows' \in [Kinds -> Row] BY <1>16, DirtyType DEF Replace, TypeOK
  <2> QED BY <1>16, <2>1, <2>2, <2>3 DEF Replace, TypeOK
<1>17. CASE Transact(p)
  <2>1. Moved BY <1>17, <1>d DEF Transact
  <2>2. db' \in Db
    <3>1. /\ db.revision + 1 \in Nat /\ db.content \cup {db.revision + 1} \in SUBSET Nat
          /\ db.evidence + 1 \in Nat
      BY <1>e DEF Db
    <3> DEFINE r == db.revision + 1
               c == db.content \cup {db.revision + 1}
               n == db.evidence + 1
    <3>2. db' = [db EXCEPT !.revision = r, !.content = c, !.evidence = n]
      BY <1>17 DEF Transact
    <3> HIDE DEF r, c, n
    <3>3. r \in Nat /\ c \in SUBSET Nat /\ n \in Nat BY <3>1 DEF r, c, n
    <3> QED BY <3>2, <3>3, DbUpdates
  <2>3. rows' \in [Kinds -> Row] BY <1>17, DirtyType DEF Transact
  <2> QED BY <1>17, <2>1, <2>2, <2>3 DEF Transact, TypeOK
<1>18. CASE TakeLock(p)
  <2>1. (IF "session" \in Renders(p) THEN "render_session" ELSE "render_evidence") \in Steps
    BY DEF Steps
  <2>2. Moved BY <1>18, <1>b, <2>1 DEF TakeLock
  <2> QED BY <1>18, <2>2 DEF TakeLock, TypeOK
<1>19. CASE RenderSession(p)
  <2>1. Moved BY <1>19, <1>b DEF RenderSession, Steps
  <2>2. files' \in [session : SessionFile, evidence : Seq(Nat)]
    BY <1>19, <1>e DEF RenderSession, TypeOK, SessionFile
  <2>3. rows' \in [Kinds -> Row] BY <1>19, UnmatchedType DEF RenderSession, TypeOK
  <2> QED BY <1>19, <2>1, <2>2, <2>3 DEF RenderSession, TypeOK
<1>20. CASE RenderEvidence(p)
  <2>1. Moved BY <1>20, <1>b DEF RenderEvidence, Steps
  <2>2. files' \in [session : SessionFile, evidence : Seq(Nat)]
    BY <1>20, EvidenceType DEF RenderEvidence, TypeOK
  <2>3. rows' \in [Kinds -> Row] BY <1>20, UnmatchedType DEF RenderEvidence, TypeOK
  <2> QED BY <1>20, <2>1, <2>2, <2>3 DEF RenderEvidence, TypeOK
<1>21. CASE Record(p)
  <2>1. Moved BY <1>21, <1>b, EndType DEF Record, Steps, Outcomes
  <2>2. rows' \in [Kinds -> Row] BY <1>21, <1>e DEF Record, TypeOK, Row
  <2> QED BY <1>21, <2>1, <2>2 DEF Record, TypeOK
<1>22. CASE Busy(p)
  <2>1. Rest BY <1>22 DEF Busy
  <2>2. Moved BY <1>22, <1>b, EndType DEF Busy, Steps, Outcomes
  <2> QED BY <1>a, <2>1, <2>2
<1> QED BY <1>1, <1>2, <1>3, <1>4, <1>5, <1>6, <1>7, <1>8, <1>9, <1>10, <1>11, <1>12, <1>13,
           <1>14, <1>15, <1>16, <1>17, <1>18, <1>19, <1>20, <1>21, <1>22 DEF Step

(* Every step keeps the types. *)
LEMMA TypeStep ==
  ASSUME TypeOK, [Next]_vars
  PROVE  TypeOK'
<1>1. ASSUME NEW p \in Procs, Step(p) PROVE TypeOK' BY <1>1, StepType
<1>2. ASSUME NEW p \in Procs, RenderFails(p) PROVE TypeOK'
  <2>1. pc' \in [Procs -> Steps] /\ job' \in [Procs -> Job]
    BY <1>2, EndType DEF RenderFails, Outcomes
  <2>2. files' \in [session : SessionFile, evidence : Seq(Nat)]
    BY <1>2, EvidenceType DEF RenderFails, TypeOK
  <2>3. rows' \in [Kinds -> Row] BY <1>2 DEF RenderFails, TypeOK, Row, Db
  <2>4. spent' \in [writes : 0..MaxWrites, faults : 0..MaxFaults, edits : 0..MaxEdits]
    BY <1>2, SpentType DEF RenderFails
  <2> QED BY <1>2, <2>1, <2>2, <2>3, <2>4 DEF RenderFails, TypeOK
<1>3. ASSUME NEW p \in Procs, Crash(p) PROVE TypeOK'
  <2>1. pc' \in [Procs -> Steps] /\ job' \in [Procs -> Job]
    BY <1>3, MoveType, IdleJobType DEF Crash, Steps
  <2>2. files' \in [session : SessionFile, evidence : Seq(Nat)]
    BY <1>3, EvidenceType DEF Crash, TypeOK
  <2>3. rows' \in [Kinds -> Row] BY <1>3, UnmatchedType DEF Crash, TypeOK
  <2>4. spent' \in [writes : 0..MaxWrites, faults : 0..MaxFaults, edits : 0..MaxEdits]
    BY <1>3, SpentType DEF Crash
  <2> QED BY <1>3, <2>1, <2>2, <2>3, <2>4 DEF Crash, TypeOK
<1>4. ASSUME NEW p \in Procs, NEW c \in Commands, Start(p, c) PROVE TypeOK'
  <2>1. [IdleJob EXCEPT !.cmd = c] \in Job
    BY CommandsAssumption, IdleJobType DEF Job
  <2>2. pc' \in [Procs -> Steps] /\ job' \in [Procs -> Job]
    BY <1>4, <2>1, MoveType DEF Start, Steps
  <2>3. spent' \in [writes : 0..MaxWrites, faults : 0..MaxFaults, edits : 0..MaxEdits]
    BY <1>4, SpentType DEF Start, TypeOK
  <2> QED BY <1>4, <2>2, <2>3 DEF Start, TypeOK
<1>5. ASSUME NEW k \in Kinds, Edit(k) PROVE TypeOK'
  <2>1. Edited \in Seq(Nat) BY DEF Edited
  <2>2. files' \in [session : SessionFile, evidence : Seq(Nat)]
    BY <1>5, <2>1 DEF Edit, TypeOK, SessionFile
  <2>3. rows' \in [Kinds -> Row] BY <1>5, UnmatchedType DEF Edit, TypeOK
  <2>4. spent' \in [writes : 0..MaxWrites, faults : 0..MaxFaults, edits : 0..MaxEdits]
    BY <1>5, SpentType DEF Edit
  <2> QED BY <1>5, <2>2, <2>3, <2>4 DEF Edit, TypeOK
<1>6. CASE LegacyWrite
  <2>1. files' \in [session : SessionFile, evidence : Seq(Nat)]
    BY <1>6 DEF LegacyWrite, TypeOK, SessionFile
  <2>2. spent' \in [writes : 0..MaxWrites, faults : 0..MaxFaults, edits : 0..MaxEdits]
    BY <1>6, SpentType DEF LegacyWrite
  <2> QED BY <1>6, <2>1, <2>2 DEF LegacyWrite, TypeOK
<1>7. CASE Tamper
  <2>1. bundle' \in Bundle BY <1>7 DEF Tamper, TypeOK, Bundle
  <2>2. spent' \in [writes : 0..MaxWrites, faults : 0..MaxFaults, edits : 0..MaxEdits]
    BY <1>7, SpentType DEF Tamper
  <2> QED BY <1>7, <2>1, <2>2 DEF Tamper, TypeOK
<1>8. CASE UNCHANGED vars BY <1>8 DEF vars, TypeOK
<1> QED BY <1>1, <1>2, <1>3, <1>4, <1>5, <1>6, <1>7, <1>8 DEF Next

(* Every workspace a command may meet is typed. *)
LEMMA InitType == Init => TypeOK
<1> SUFFICES ASSUME Init PROVE TypeOK OBVIOUS
<1>1. PICK origin \in Origins :
        /\ db \in DbOf(origin)
        /\ files = [session |-> CASE origin \in {"legacy", "partial"} -> [kind |-> "legacy", n |-> 1]
                                  [] origin = "empty" -> [kind |-> "absent", n |-> 0]
                                  [] OTHER -> [kind |-> "rendered", n |-> 1],
                    evidence |-> <<>>]
        /\ bundle = [state |-> IF origin = "partial" THEN "partial" ELSE "none", of |-> 0]
        /\ spent = [writes |-> IF origin \in {"empty", "v3"} THEN 0 ELSE 1, faults |-> 0, edits |-> 0]
  BY DEF Init
<1>2. db \in Db
  <2>1. ASSUME NEW v \in 0..SchemaVersion
        PROVE  [NewDb EXCEPT !.version = v, !.revision = 1, !.content = {1}] \in Db
    <3>1. 1 \in Nat /\ {1} \in SUBSET Nat OBVIOUS
    <3> QED BY <3>1, NewDbType, DbUpdates
  <2>2. ASSUME NEW d \in BOOLEAN
        PROVE  [NewDb EXCEPT !.version = 1, !.revision = 1, !.content = {1}, !.dup = d] \in Db
    <3>1. 1 \in 0..SchemaVersion /\ 1 \in Nat /\ {1} \in SUBSET Nat BY DEF SchemaVersion
    <3> QED BY <3>1, NewDbType, DbUpdates
  <2>3. 1 \in 0..SchemaVersion /\ 2 \in 0..SchemaVersion /\ 3 \in 0..SchemaVersion
    BY DEF SchemaVersion
  <2> QED BY <1>1, <2>1, <2>2, <2>3, NewDbType, OriginsAssumption DEF DbOf
<1>3. files.session \in SessionFile BY <1>1, OriginsAssumption DEF SessionFile
<1>4. files = [session |-> files.session, evidence |-> <<>>] BY <1>1
<1>5. files \in [session : SessionFile, evidence : Seq(Nat)]
  <2>1. <<>> \in Seq(Nat) OBVIOUS
  <2>2. ASSUME NEW s \in SessionFile, NEW e \in Seq(Nat)
        PROVE  [session |-> s, evidence |-> e] \in [session : SessionFile, evidence : Seq(Nat)]
    OBVIOUS
  <2> QED BY <1>3, <1>4, <2>1, <2>2
<1>6. bundle \in Bundle BY <1>1 DEF Bundle
<1>7. spent \in [writes : 0..MaxWrites, faults : 0..MaxFaults, edits : 0..MaxEdits]
  BY <1>1, BoundsAssumption
<1>8. rows \in [Kinds -> Row] BY DEF Init, NoRow, Row
<1>9. lock \in Procs \cup {Nobody} /\ pc \in [Procs -> Steps] /\ job \in [Procs -> Job]
  BY IdleJobType DEF Init, Steps
<1> QED BY <1>2, <1>5, <1>6, <1>7, <1>8, <1>9 DEF TypeOK

(* The tables, the files and the processes stay in their domains, whatever *)
(* the commands, crashes and edits.                                        *)
THEOREM StoreTypeCorrect == Spec => []TypeOK
<1>1. TypeOK /\ [Next]_vars => TypeOK' BY TypeStep
<1> QED BY <1>1, InitType, PTL DEF Spec

-----------------------------------------------------------------------------
(* The invariant: what is committed, and what a process at a step relies   *)
(* on.                                                                     *)

(* Steps at which a store is known to be there. *)
Opened == {"upgrade", "revision", "rows", "lock", "render_session", "render_evidence", "record",
           "load_session", "load_items", "commit"}
Holding == Importing \cup Rendering

Rows(n) == [i \in 1..n |-> i]

(* A process p at a step, given the database, the lock, the files and the  *)
(* bundle: a renderer or initialiser holds the lock; a loaded session that *)
(* could still be saved holds every revision up to its own, and is whole   *)
(* unless a save has outdated it; what was imported, or rendered, is on    *)
(* disk.                                                                   *)
ProcOK(p, step, j, d, l, f, b) ==
  /\ step \in Opened => d.version # 0
  /\ step \in Importing => d.version = 0
  /\ step \in Holding => l = p
  /\ j.revision <= d.revision
  /\ step # "load_items" /\ j.revision = d.revision => j.content = 1..d.revision
  /\ j.phase # "recover" => j.committed
  /\ j.out = "ok" /\ j.cmd \in Writers => j.committed
  /\ step \in {"set_aside", "publish"} => j.seen = f.session.n
  /\ step = "import_commit" => b.of = j.seen /\ b.state \in {"complete", "tampered"}
  /\ step \in {"render_evidence", "record"} /\ j.phase # "txn"
       => f.session = [kind |-> "rendered", n |-> d.revision]
  /\ step = "record" => f.evidence = Rows(d.evidence)

ProcsOK == \A p \in Procs : ProcOK(p, pc[p], job[p], db, lock, files, bundle)

(* The database, with its bundle. *)
DbOK(d, b) ==
  /\ d.content = 1..d.revision
  /\ d.version = 0 => d.revision = 0 /\ d.imported = 0
  /\ d.version # SchemaVersion => d.history = <<>>
  /\ d.history \in {<<>>, << 2 >>, <<1, 2>>}
  /\ d.imported # 0 => b.of = d.imported /\ b.state \in {"complete", "tampered"}

(* The bookkeeping of the rendered files. *)
RowsOK(d, f, r) ==
  /\ \A k \in Kinds : r[k].matches => r[k].status \in {"current", "dirty"} /\ d.version # 0
  /\ r["session"].status = "current" /\ r["session"].matches
       => f.session = [kind |-> "rendered", n |-> d.revision]
  /\ r["evidence"].matches => f.evidence = Rows(r["evidence"].seq)

StoreInv == ProcsOK /\ DbOK(db, bundle) /\ RowsOK(db, files, rows)

-----------------------------------------------------------------------------
(* Steps of one process. *)

Alone(p) == \A q \in Procs \ {p} : pc'[q] = pc[q] /\ job'[q] = job[q]

(* A process that goes on leaves the others where they are. *)
LEMMA MoveAlone ==
  ASSUME TypeOK, NEW p \in Procs, NEW step, Goto(p, step)
  PROVE  /\ Keep(p) => Alone(p) /\ pc'[p] = step /\ job'[p] = job[p]
         /\ \A j : Set(p, j) => Alone(p) /\ pc'[p] = step /\ job'[p] = j
BY DEF TypeOK, Goto, Keep, Set, Alone

(* What the others rely on survives a process that writes under the lock.  *)
LEMMA Frame ==
  ASSUME TypeOK, StoreInv, NEW p \in Procs, Alone(p),
         \/ lock \in {p, Nobody}
         \/ UNCHANGED <<db, lock, files, bundle>>,
         db.version # 0 => db'.version # 0, db.revision <= db'.revision, db'.revision \in Nat,
         ProcOK(p, pc'[p], job'[p], db', lock', files', bundle'),
         DbOK(db', bundle'), RowsOK(db', files', rows')
  PROVE  StoreInv'
<1> SUFFICES ASSUME NEW q \in Procs, q # p
             PROVE  ProcOK(q, pc'[q], job'[q], db', lock', files', bundle')
  BY DEF StoreInv, ProcsOK
<1>1. pc'[q] = pc[q] /\ job'[q] = job[q] BY DEF Alone
<1>2. ProcOK(q, pc[q], job[q], db, lock, files, bundle) BY DEF StoreInv, ProcsOK
<1>3. CASE UNCHANGED <<db, lock, files, bundle>> BY <1>1, <1>2, <1>3
<1>4. CASE lock \in {p, Nobody}
  <2>1. pc[q] \notin Holding BY <1>2, <1>4, NobodyAssumption DEF ProcOK
  <2>2. /\ pc[q] \notin Importing
        /\ pc[q] \notin {"set_aside", "publish", "import_commit", "render_evidence", "record"}
    BY <2>1 DEF Holding, Importing, Rendering
  <2>3. job[q].revision \in Nat /\ db.revision \in Nat BY DEF TypeOK, Job, Db
  <2> QED BY <1>1, <1>2, <2>1, <2>2, <2>3 DEF ProcOK
<1> QED BY <1>3, <1>4

(* So do the tables when a process only looks.                             *)
LEMMA Look ==
  ASSUME TypeOK, StoreInv, NEW p \in Procs, Alone(p),
         UNCHANGED <<db, lock, files, rows, bundle>>,
         ProcOK(p, pc'[p], job'[p], db, lock, files, bundle)
  PROVE  StoreInv'
<1>1. db.revision \in Nat BY DEF TypeOK, Db
<1> QED BY <1>1, Frame DEF StoreInv

(* A command that ends relies on nothing. *)
LEMMA EndOK ==
  ASSUME TypeOK, StoreInv, NEW p \in Procs, NEW out, End(p, out),
         out = "ok" => job[p].cmd = "load" \/ job[p].phase # "recover"
  PROVE  /\ Alone(p)
         /\ \A d, l, f, b :
              d.revision \in Nat => ProcOK(p, pc'[p], job'[p], d, l, f, b)
<1>1. job[p].phase # "recover" => job[p].committed BY DEF StoreInv, ProcsOK, ProcOK
<1>2. Goto(p, "idle") /\ "idle" \notin Opened \cup Importing \cup Holding
  BY EndIs DEF Opened, Importing, Holding, Rendering
<1>3. ASSUME NEW j, Set(p, j), j.revision = 0, j.content = {}, j.phase = "recover",
             j.out = "ok" /\ j.cmd \in Writers => j.committed
      PROVE  /\ Alone(p)
             /\ \A d, l, f, b :
                  d.revision \in Nat => ProcOK(p, pc'[p], job'[p], d, l, f, b)
  <2>1. Alone(p) /\ pc'[p] = "idle" /\ job'[p] = j BY <1>2, <1>3, MoveAlone
  <2>2. ASSUME NEW d, NEW l, NEW f, NEW b, d.revision \in Nat
        PROVE  ProcOK(p, "idle", j, d, l, f, b)
    BY <1>2, <1>3, <2>2 DEF ProcOK
  <2> QED BY <2>1, <2>2
<1>4. CASE Set(p, IdleJob) BY <1>3, <1>4 DEF IdleJob
<1>5. CASE Set(p, Ended(p, out)) /\ ~(job[p].cmd = "load" /\ out = "ok")
  <2>1. /\ Ended(p, out).revision = 0 /\ Ended(p, out).content = {}
        /\ Ended(p, out).phase = "recover" /\ Ended(p, out).out = out
        /\ Ended(p, out).cmd = job[p].cmd /\ Ended(p, out).committed = job[p].committed
    BY DEF Ended, IdleJob
  <2> QED BY <1>1, <1>3, <1>5, <2>1
<1> QED BY <1>4, <1>5, EndIs

(* A command that ends without writing. *)
LEMMA EndLook ==
  ASSUME TypeOK, StoreInv, NEW p \in Procs, NEW out, End(p, out),
         out = "ok" => job[p].cmd = "load",
         UNCHANGED <<db, lock, files, rows, bundle>>
  PROVE  StoreInv'
<1>1. db.revision \in Nat BY DEF TypeOK, Db
<1> QED BY <1>1, EndOK, Look

(* A process that only looks, and goes on outside the lock. *)
LEMMA GoOn ==
  ASSUME TypeOK, StoreInv, NEW p \in Procs, NEW step, NEW j, Goto(p, step),
         Set(p, j) \/ (Keep(p) /\ j = job[p]),
         UNCHANGED <<db, lock, files, rows, bundle>>,
         step \notin Holding, step \in Opened => db.version # 0,
         j.revision <= db.revision,
         step # "load_items" /\ j.revision = db.revision => j.content = 1..db.revision,
         j.phase # "recover" => j.committed,
         j.out = "ok" /\ j.cmd \in Writers => j.committed
  PROVE  StoreInv'
<1>1. Alone(p) /\ pc'[p] = step /\ job'[p] = j BY MoveAlone
<1>2. ProcOK(p, step, j, db, lock, files, bundle)
  BY DEF ProcOK, Holding, Importing, Rendering
<1> QED BY <1>1, <1>2, Look

(* Looking at the store before, while and after loading it. *)
LEMMA ReadingStep ==
  ASSUME TypeOK, StoreInv, NEW p \in Procs,
         \/ Probe(p) \/ Exists(p) \/ ReadRevision(p) \/ ReadRows(p) \/ LoadSession(p)
         \/ LoadItems(p) \/ SaveProbe(p) \/ SaveExists(p) \/ Busy(p)
  PROVE  StoreInv'
<1> job[p] \in Job /\ db \in Db BY DEF TypeOK
<1>a. UNCHANGED <<db, lock, files, rows, bundle>>
  BY DEF Probe, Exists, ReadRevision, ReadRows, LoadSession, LoadItems, SaveProbe, SaveExists, Busy
<1>b. ProcOK(p, pc[p], job[p], db, lock, files, bundle) BY DEF StoreInv, ProcsOK
<1>c. ASSUME NEW out, End(p, out), out = "ok" => job[p].cmd = "load" PROVE StoreInv'
  BY <1>a, <1>c, EndLook
<1>d. ASSUME NEW step \in {"upgrade", "exists", "import", "revision", "rows", "lock",
                           "load_session", "save_probe", "save_exists", "bootstrap", "commit"},
             NEW j, Goto(p, step), Set(p, j) \/ (Keep(p) /\ j = job[p]),
             pc[p] # "load_items",
             step \in Opened => db.version # 0,
             /\ j.revision = job[p].revision /\ j.content = job[p].content
             /\ j.phase \in {job[p].phase, "recover"} /\ j.committed = job[p].committed
             /\ j.out = job[p].out /\ j.cmd = job[p].cmd
      PROVE  StoreInv'
  <2>1. step \notin Holding BY DEF Holding, Importing, Rendering
  <2> QED BY <1>a, <1>b, <1>d, <2>1, GoOn DEF ProcOK
<1>e. ASSUME NEW step \in {"upgrade", "exists", "import", "revision", "rows", "lock",
                           "load_session", "save_probe", "save_exists", "bootstrap", "commit"},
             Goto(p, step), Keep(p), pc[p] # "load_items", step \in Opened => db.version # 0
      PROVE  StoreInv'
  BY <1>d, <1>e
<1>1. CASE Probe(p)
  <2>1. pc[p] = "probe" BY <1>1 DEF Probe
  <2>2. CASE Goto(p, "exists") /\ Keep(p)
    <3>1. "exists" \notin Opened BY DEF Opened
    <3> QED BY <1>e, <2>1, <2>2, <3>1
  <2>3. CASE db.version \in 1..(SchemaVersion - 1) /\ Goto(p, "upgrade")
             /\ Set(p, [job[p] EXCEPT !.seen = db.version])
    <3> DEFINE j == [job[p] EXCEPT !.seen = db.version]
    <3>1. /\ j.revision = job[p].revision /\ j.content = job[p].content
          /\ j.phase = job[p].phase /\ j.committed = job[p].committed
          /\ j.out = job[p].out /\ j.cmd = job[p].cmd
      BY DEF Job
    <3>2. db.version # 0 BY <2>3 DEF SchemaVersion
    <3> HIDE DEF j
    <3> QED BY <1>d, <2>1, <2>3, <3>1, <3>2 DEF j
  <2>4. CASE db.version = SchemaVersion /\ Keep(p) /\ (Goto(p, "commit") \/ Goto(p, "revision"))
    BY <1>e, <2>1, <2>4 DEF SchemaVersion
  <2> QED BY <1>1, <2>2, <2>3, <2>4 DEF Probe
<1>2. CASE Exists(p)
  <2>1. pc[p] = "exists" /\ "import" \notin Opened /\ "save_probe" \notin Opened
    BY <1>2 DEF Exists, Opened
  <2> QED BY <1>2, <1>c, <1>e, <2>1 DEF Exists
<1>3. CASE ReadRevision(p)
  <2> DEFINE j == [job[p] EXCEPT !.seen = db.revision, !.phase = "recover"]
  <2>1. /\ j.revision = job[p].revision /\ j.content = job[p].content
        /\ j.phase = "recover" /\ j.committed = job[p].committed
        /\ j.out = job[p].out /\ j.cmd = job[p].cmd
    BY DEF Job
  <2>2. pc[p] = "revision" /\ db.version # 0 BY <1>3, <1>b DEF ReadRevision, ProcOK, Opened
  <2>3. Goto(p, "rows") /\ Set(p, j) BY <1>3 DEF ReadRevision
  <2> HIDE DEF j
  <2> QED BY <1>d, <2>1, <2>2, <2>3
<1>4. CASE ReadRows(p)
  <2> DEFINE j == [job[p] EXCEPT !.full = \E k \in Kinds : Drifted(k, job[p].seen)]
  <2>1. /\ j.revision = job[p].revision /\ j.content = job[p].content
        /\ j.phase = job[p].phase /\ j.committed = job[p].committed
        /\ j.out = job[p].out /\ j.cmd = job[p].cmd
    <3>1. ASSUME NEW b
          PROVE  /\ [job[p] EXCEPT !.full = b].revision = job[p].revision
                 /\ [job[p] EXCEPT !.full = b].content = job[p].content
                 /\ [job[p] EXCEPT !.full = b].phase = job[p].phase
                 /\ [job[p] EXCEPT !.full = b].committed = job[p].committed
                 /\ [job[p] EXCEPT !.full = b].out = job[p].out
                 /\ [job[p] EXCEPT !.full = b].cmd = job[p].cmd
      BY DEF Job
    <3> QED BY <3>1, Zenon
  <2>2. pc[p] = "rows" /\ db.version # 0 BY <1>4, <1>b DEF ReadRows, ProcOK, Opened
  <2>3. \/ Goto(p, "lock") /\ Set(p, j)
        \/ Goto(p, "load_session") /\ Keep(p)
        \/ End(p, "PERSISTENCE_INVALID")
    BY <1>4 DEF ReadRows
  <2> HIDE DEF j
  <2>4. CASE Goto(p, "lock") /\ Set(p, j) BY <1>d, <2>1, <2>2, <2>4
  <2>5. CASE Goto(p, "load_session") /\ Keep(p) BY <1>e, <2>2, <2>5
  <2> QED BY <1>c, <2>3, <2>4, <2>5
<1>5. CASE LoadSession(p)
  <2>1. pc[p] = "load_session" /\ db.version # 0 BY <1>5, <1>b DEF LoadSession, ProcOK, Opened
  <2>2. CASE Goto(p, "load_items") /\ Set(p, [job[p] EXCEPT !.revision = db.revision])
    <3> DEFINE j == [job[p] EXCEPT !.revision = db.revision]
    <3>1. /\ j.revision = db.revision /\ j.phase = job[p].phase /\ j.committed = job[p].committed
          /\ j.out = job[p].out /\ j.cmd = job[p].cmd
      BY DEF Job
    <3>2. Goto(p, "load_items") /\ Set(p, j) BY <2>2
    <3>3. "load_items" \notin Holding BY DEF Holding, Importing, Rendering
    <3>4. j.revision <= db.revision BY <3>1 DEF Db
    <3> HIDE DEF j
    <3> QED BY <1>a, <1>b, <2>1, <3>1, <3>2, <3>3, <3>4, GoOn DEF ProcOK
  <2> QED BY <1>5, <1>c, <2>2 DEF LoadSession
<1>6. CASE LoadItems(p)
  <2>1. pc[p] = "load_items" /\ db.version # 0 BY <1>6, <1>b DEF LoadItems, ProcOK, Opened
  <2> DEFINE j == [job[p] EXCEPT !.content = db.content, !.full = FALSE]
             step == IF job[p].cmd = "txn" THEN "commit" ELSE "save_probe"
  <2>2. CASE Goto(p, step) /\ Set(p, j)
    <3>1. /\ j.revision = job[p].revision /\ j.content = db.content
          /\ j.phase = job[p].phase /\ j.committed = job[p].committed
          /\ j.out = job[p].out /\ j.cmd = job[p].cmd
      BY DEF Job
    <3>2. db.content = 1..db.revision BY DEF StoreInv, DbOK
    <3>3. step \notin Holding /\ step # "load_items" BY DEF Holding, Importing, Rendering
    <3> HIDE DEF j, step
    <3> QED BY <1>a, <1>b, <2>1, <2>2, <3>1, <3>2, <3>3, GoOn DEF ProcOK
  <2> QED BY <1>6, <1>c, <2>2 DEF LoadItems
<1>7. CASE SaveProbe(p)
  <2>1. pc[p] = "save_probe" /\ "save_exists" \notin Opened BY <1>7 DEF SaveProbe, Opened
  <2> QED BY <1>7, <1>c, <1>e, <2>1 DEF SaveProbe
<1>8. CASE SaveExists(p)
  <2>1. pc[p] = "save_exists" /\ "bootstrap" \notin Opened BY <1>8 DEF SaveExists, Opened
  <2> QED BY <1>8, <1>c, <1>e, <2>1 DEF SaveExists
<1>9. CASE Busy(p)
  <2>1. pc[p] = "lock" => db.version # 0 BY <1>b DEF ProcOK, Opened
  <2> QED BY <1>9, <1>c, <1>e, <2>1 DEF Busy
<1> QED BY <1>1, <1>2, <1>3, <1>4, <1>5, <1>6, <1>7, <1>8, <1>9

(* A process that goes on after a write under the lock. *)
LEMMA Write ==
  ASSUME TypeOK, StoreInv, NEW p \in Procs, NEW step, NEW j, Goto(p, step),
         Set(p, j) \/ (Keep(p) /\ j = job[p]), lock \in {p, Nobody},
         db.version # 0 => db'.version # 0, db.revision <= db'.revision, db'.revision \in Nat,
         ProcOK(p, step, j, db', lock', files', bundle'),
         DbOK(db', bundle'), RowsOK(db', files', rows')
  PROVE  StoreInv'
<1>1. Alone(p) /\ pc'[p] = step /\ job'[p] = j BY MoveAlone
<1> QED BY <1>1, Frame

(* Every remaining migration is recorded once. *)
LEMMA HistoryGrows ==
  ASSUME NEW v \in 1..SchemaVersion, NEW h \in {<<>>, << 2 >>, <<1, 2>>},
         v # SchemaVersion => h = <<>>
  PROVE  h \o MigrationsFrom(v) \in {<<>>, << 2 >>, <<1, 2>>}
<1>1. CASE v = 3
  <2>1. MigrationsFrom(v) = <<>> BY <1>1 DEF MigrationsFrom, SchemaVersion
  <2> QED BY <2>1
<1>2. CASE v = 2
  <2>1. MigrationsFrom(v) = [i \in 1..1 |-> i + 1] BY <1>2 DEF MigrationsFrom, SchemaVersion
  <2>2. [i \in 1..1 |-> i + 1] = << 2 >> OBVIOUS
  <2>3. h = <<>> /\ <<>> \o MigrationsFrom(v) = MigrationsFrom(v)
    BY <1>2, MigrationsType, ConcatEmptySeq DEF SchemaVersion
  <2> QED BY <2>1, <2>2, <2>3
<1>3. CASE v = 1
  <2>1. MigrationsFrom(v) = [i \in 1..2 |-> i] BY <1>3 DEF MigrationsFrom, SchemaVersion
  <2>2. [i \in 1..2 |-> i] = <<1, 2>> OBVIOUS
  <2>3. h = <<>> /\ <<>> \o MigrationsFrom(v) = MigrationsFrom(v)
    BY <1>3, MigrationsType, ConcatEmptySeq DEF SchemaVersion
  <2> QED BY <2>1, <2>2, <2>3
<1> QED BY <1>1, <1>2, <1>3 DEF SchemaVersion

(* Counting on from s gives the rows up to e. *)
LEMMA RowsGoOn ==
  ASSUME NEW s \in Nat, NEW e \in Nat, s <= e
  PROVE  Rows(s) \o [i \in 1..(e - s) |-> s + i] = Rows(e)
<1> DEFINE a == Rows(s)
           b == [i \in 1..(e - s) |-> s + i]
<1>1. e - s \in Nat OBVIOUS
<1>2. a \in Seq(Nat) /\ Len(a) = s /\ \A i \in 1..s : a[i] = i BY DEF Rows
<1>3. b \in Seq(Nat) /\ Len(b) = e - s /\ \A i \in 1..(e - s) : b[i] = s + i BY <1>1
<1>4. Rows(e) \in Seq(Nat) /\ Len(Rows(e)) = e /\ \A i \in 1..e : Rows(e)[i] = i BY DEF Rows
<1> HIDE DEF a, b
<1>5. /\ a \o b \in Seq(Nat) /\ Len(a \o b) = Len(a) + Len(b)
      /\ \A i \in 1..(Len(a) + Len(b)) :
           (a \o b)[i] = IF i <= Len(a) THEN a[i] ELSE b[i - Len(a)]
  BY <1>2, <1>3, ConcatProperties
<1>6. Len(a) + Len(b) = e BY <1>2, <1>3
<1>7. ASSUME NEW i \in 1..e PROVE (a \o b)[i] = i
  <2>1. (a \o b)[i] = IF i <= s THEN a[i] ELSE b[i - s] BY <1>2, <1>5, <1>6
  <2>2. CASE i <= s
    <3>1. i \in 1..s BY <2>2
    <3> QED BY <1>2, <2>1, <2>2, <3>1
  <2>3. CASE ~(i <= s)
    <3>1. i - s \in 1..(e - s) /\ s + (i - s) = i BY <2>3
    <3>2. b[i - s] = s + (i - s) BY <1>3, <3>1
    <3> QED BY <2>1, <2>3, <3>1, <3>2
  <2> QED BY <2>2, <2>3
<1>8. a \o b = Rows(e)
  <2> DEFINE c == a \o b
  <2>1. c \in Seq(Nat) /\ Len(c) = e /\ \A i \in 1..e : c[i] = i BY <1>5, <1>6, <1>7
  <2> HIDE DEF c
  <2>2. c = Rows(e) BY <1>4, <2>1, SeqEqual
  <2> QED BY <2>2 DEF c
<1> QED BY <1>8 DEF a, b

(* Appending after the recorded sequence, or writing the file anew, gives  *)
(* all rows of the table.                                                  *)
LEMMA RenderedIs ==
  ASSUME TypeOK, StoreInv, NEW p \in Procs
  PROVE  RenderedEvidence(p) = Rows(db.evidence)
<1>1. CASE ~Appendable(p) BY <1>1 DEF RenderedEvidence, Rows
<1>2. CASE Appendable(p)
  <2>1. /\ rows["evidence"].seq \in Nat /\ db.evidence \in Nat
        /\ rows["evidence"].seq <= db.evidence
    BY <1>2 DEF Appendable, TypeOK, Row, Kinds, Db
  <2>2. files.evidence = Rows(rows["evidence"].seq) BY <1>2 DEF Appendable, StoreInv, RowsOK
  <2> QED BY <1>2, <2>1, <2>2, RowsGoOn DEF RenderedEvidence, Appended
<1> QED BY <1>1, <1>2

(* Upgrading and importing. *)
LEMMA OpeningStep ==
  ASSUME TypeOK, StoreInv, NEW p \in Procs,
         \/ Upgrade(p) \/ Import(p) \/ ReadLegacy(p) \/ SetAside(p) \/ PublishBundle(p)
         \/ ImportCommit(p)
  PROVE  StoreInv'
<1> job[p] \in Job /\ db \in Db BY DEF TypeOK
<1> DbOK(db, bundle) /\ RowsOK(db, files, rows) BY DEF StoreInv
<1>a. ProcOK(p, pc[p], job[p], db, lock, files, bundle) BY DEF StoreInv, ProcsOK
<1>b. db.revision \in Nat /\ job[p].revision \in Nat /\ db.version \in 0..SchemaVersion
  BY DEF Job, Db
<1>c. pc[p] \in Importing => lock = p /\ db.version = 0 BY <1>a DEF ProcOK, Holding
<1>1. CASE Upgrade(p)
  <2>1. pc[p] = "upgrade" /\ lock = Nobody /\ db.version # 0
    BY <1>1, <1>a DEF Upgrade, Free, ProcOK, Opened
  <2>2. CASE End(p, "PERSISTENCE_INVALID") /\ UNCHANGED <<db, rows>>
    BY <1>1, <2>2, EndLook DEF Upgrade
  <2>3. CASE /\ db' = [db EXCEPT !.version = SchemaVersion,
                                 !.history = @ \o MigrationsFrom(db.version)]
             /\ rows' = IF db.version < SchemaVersion THEN AllDirty ELSE rows
             /\ Goto(p, "probe") /\ Keep(p)
    <3>1. /\ db'.version = SchemaVersion /\ db'.revision = db.revision
          /\ db'.content = db.content /\ db'.imported = db.imported
          /\ db'.history = db.history \o MigrationsFrom(db.version)
      BY <2>3 DEF Db
    <3>2. db.version \in 1..SchemaVersion BY <1>b, <2>1 DEF SchemaVersion
    <3>3. db'.history \in {<<>>, << 2 >>, <<1, 2>>} BY <3>1, <3>2, HistoryGrows DEF DbOK
    <3>4. UNCHANGED <<lock, files, bundle>> /\ SchemaVersion # 0
      BY <1>1 DEF Upgrade, SchemaVersion
    <3>5. DbOK(db', bundle') BY <3>1, <3>3, <3>4 DEF DbOK
    <3>6. RowsOK(db', files', rows')
      <4>1. \A k \in Kinds : rows[k].matches => AllDirty[k] = [rows[k] EXCEPT !.status = "dirty"]
        BY DEF AllDirty, RowsOK
      <4>2. \A k \in Kinds : AllDirty[k].matches = rows[k].matches /\ AllDirty[k].seq = rows[k].seq
        BY DEF AllDirty, TypeOK, Row
      <4>3. \A k \in Kinds : rows[k].matches => AllDirty[k].status = "dirty"
        BY <4>1 DEF TypeOK, Row
      <4>4. "session" \in Kinds /\ "evidence" \in Kinds BY DEF Kinds
      <4>5. CASE rows' = rows BY <3>1, <3>4, <4>5 DEF RowsOK
      <4>6. CASE rows' = AllDirty BY <3>1, <3>4, <4>2, <4>3, <4>4, <4>6 DEF RowsOK
      <4> QED BY <2>3, <4>5, <4>6
    <3>7. ProcOK(p, "probe", job[p], db', lock', files', bundle')
      BY <1>a, <2>1, <3>1, <3>4 DEF ProcOK, Opened, Holding, Importing, Rendering
    <3> QED BY <1>b, <2>1, <2>3, <3>1, <3>4, <3>5, <3>6, <3>7, Write
  <2> QED BY <1>1, <2>2, <2>3 DEF Upgrade
<1>2. CASE Import(p)
  <2>1. pc[p] = "import" /\ lock = Nobody /\ UNCHANGED <<db, files, rows, bundle>>
    BY <1>2 DEF Import, Free
  <2>2. CASE db.version = 0 /\ lock' = p /\ Goto(p, "read_legacy") /\ Keep(p)
    <3>1. ProcOK(p, "read_legacy", job[p], db', lock', files', bundle')
      BY <1>a, <2>1, <2>2 DEF ProcOK, Opened
    <3> QED BY <1>b, <2>1, <2>2, <3>1, Write
  <2>3. CASE db.version # 0 /\ Goto(p, "revision") /\ Keep(p) /\ UNCHANGED lock
    <3>1. "revision" \notin Holding BY DEF Holding, Importing, Rendering
    <3> QED BY <1>a, <2>1, <2>3, <3>1, GoOn DEF ProcOK
  <2> QED BY <1>2, <2>2, <2>3 DEF Import
<1>3. CASE ReadLegacy(p)
  <2> DEFINE j == [job[p] EXCEPT !.seen = files.session.n]
  <2>1. /\ j.revision = job[p].revision /\ j.content = job[p].content /\ j.phase = job[p].phase
        /\ j.committed = job[p].committed /\ j.out = job[p].out /\ j.cmd = job[p].cmd
        /\ j.seen = files.session.n
    BY DEF Job
  <2>2. /\ pc[p] = "read_legacy" /\ Goto(p, "set_aside") /\ Set(p, j)
        /\ UNCHANGED <<db, lock, files, rows, bundle>>
    BY <1>3 DEF ReadLegacy
  <2> HIDE DEF j
  <2>3. lock = p /\ db.version = 0 BY <1>c, <2>2 DEF Importing
  <2>4. ProcOK(p, "set_aside", j, db', lock', files', bundle')
    BY <1>a, <2>1, <2>2, <2>3 DEF ProcOK, Opened
  <2> QED BY <1>b, <2>2, <2>3, <2>4, Write
<1>4. CASE SetAside(p)
  <2>1. pc[p] = "set_aside" /\ lock = p /\ db.version = 0 /\ UNCHANGED <<db, files, rows>>
    BY <1>4, <1>c DEF SetAside, Importing
  <2>2. job[p].seen = files.session.n BY <1>a, <2>1 DEF ProcOK
  <2>3. CASE Goto(p, "publish") /\ Keep(p) /\ UNCHANGED lock
    <3>1. ProcOK(p, "publish", job[p], db', lock', files', bundle')
      BY <1>a, <2>1, <2>2, <2>3 DEF ProcOK, Opened
    <3>2. DbOK(db', bundle') BY <2>1 DEF DbOK
    <3> QED BY <1>b, <2>1, <2>3, <3>1, <3>2, Write
  <2>4. CASE /\ bundle.state = "complete" /\ bundle.of = files.session.n
             /\ Goto(p, "import_commit") /\ Keep(p) /\ UNCHANGED <<bundle, lock>>
    <3>1. ProcOK(p, "import_commit", job[p], db', lock', files', bundle')
      BY <1>a, <2>1, <2>2, <2>4 DEF ProcOK, Opened
    <3> QED BY <1>b, <2>1, <2>4, <3>1, Write
  <2>5. CASE End(p, "PERSISTENCE_INVALID") /\ lock' = Nobody /\ UNCHANGED bundle
    BY <1>b, <2>1, <2>5, EndOK, Frame
  <2> QED BY <1>4, <2>3, <2>4, <2>5 DEF SetAside
<1>5. CASE PublishBundle(p)
  <2>1. /\ pc[p] = "publish" /\ lock = p /\ db.version = 0 /\ UNCHANGED <<db, lock, files, rows>>
        /\ bundle' = [state |-> "complete", of |-> files.session.n]
        /\ Goto(p, "import_commit") /\ Keep(p)
    BY <1>5, <1>c DEF PublishBundle, Importing
  <2>2. ProcOK(p, "import_commit", job[p], db', lock', files', bundle')
    BY <1>a, <2>1 DEF ProcOK, Opened
  <2>3. DbOK(db', bundle') BY <2>1 DEF DbOK
  <2> QED BY <1>b, <2>1, <2>2, <2>3, Write
<1>6. CASE ImportCommit(p)
  <2>1. /\ pc[p] = "import_commit" /\ lock = p /\ db.version = 0 /\ lock' = Nobody
        /\ UNCHANGED <<files, rows, bundle>>
    BY <1>6, <1>c DEF ImportCommit, Importing
  <2>2. CASE End(p, "PERSISTENCE_INVALID") /\ UNCHANGED db
    BY <1>b, <2>1, <2>2, EndOK, Frame
  <2>3. CASE /\ db' = [NewDb EXCEPT !.version = SchemaVersion, !.revision = 1, !.content = {1},
                                    !.imported = job[p].seen]
             /\ Goto(p, "revision") /\ Keep(p)
    <3>1. /\ db'.version = SchemaVersion /\ db'.revision = 1 /\ db'.content = {1}
          /\ db'.imported = job[p].seen /\ db'.history = <<>>
      BY <2>3 DEF NewDb
    <3>2. db.revision = 0 BY <2>1 DEF DbOK
    <3>3. bundle.of = job[p].seen /\ bundle.state \in {"complete", "tampered"}
      BY <1>a, <2>1 DEF ProcOK
    <3>4. DbOK(db', bundle')
      <4>1. {1} = 1..1 /\ SchemaVersion # 0 BY DEF SchemaVersion
      <4> QED BY <2>1, <3>1, <3>3, <4>1 DEF DbOK
    <3>5. RowsOK(db', files', rows')
      <4>1. \A k \in Kinds : ~rows[k].matches BY <2>1 DEF RowsOK
      <4> QED BY <2>1, <4>1 DEF RowsOK, Kinds
    <3>6. ProcOK(p, "revision", job[p], db', lock', files', bundle')
      BY <1>a, <1>b, <2>1, <3>1, <3>2
         DEF ProcOK, Opened, Holding, Importing, Rendering, SchemaVersion
    <3> QED BY <2>1, <2>3, <3>1, <3>2, <3>4, <3>5, <3>6, Write
  <2> QED BY <1>6, <2>2, <2>3 DEF ImportCommit
<1> QED BY <1>1, <1>2, <1>3, <1>4, <1>5, <1>6

(* Committing a session or a transaction. *)
LEMMA CommitStep ==
  ASSUME TypeOK, StoreInv, NEW p \in Procs, Bootstrap(p) \/ Replace(p) \/ Transact(p)
  PROVE  StoreInv'
<1> job[p] \in Job /\ db \in Db BY DEF TypeOK
<1> DbOK(db, bundle) /\ RowsOK(db, files, rows) BY DEF StoreInv
<1>a. ProcOK(p, pc[p], job[p], db, lock, files, bundle) BY DEF StoreInv, ProcsOK
<1>b. db.revision \in Nat /\ job[p].revision \in Nat /\ db.version \in 0..SchemaVersion
  BY DEF Job, Db
<1>c. lock = Nobody /\ UNCHANGED <<lock, files, bundle>>
  BY DEF Bootstrap, Replace, Transact, Free
<1>d. ASSUME NEW phase \in {"save", "txn"}, Committed(p, phase), db'.version # 0,
             db.revision < db'.revision, db'.revision \in Nat,
             DbOK(db', bundle'), RowsOK(db', files', rows')
      PROVE  StoreInv'
  <2> DEFINE j == [job[p] EXCEPT !.committed = TRUE, !.phase = phase]
  <2>1. /\ j.revision = job[p].revision /\ j.content = job[p].content /\ j.committed = TRUE
        /\ j.seen = job[p].seen /\ j.phase = phase
    BY DEF Job
  <2>2. Goto(p, "lock") /\ Set(p, j) BY <1>d DEF Committed
  <2> HIDE DEF j
  <2>3. ProcOK(p, "lock", j, db', lock', files', bundle')
    BY <1>a, <1>b, <1>d, <2>1 DEF ProcOK, Holding, Importing, Rendering
  <2> QED BY <1>b, <1>c, <1>d, <2>2, <2>3, Write
<1>e. ASSUME rows' = Dirty, db'.version = db.version, db'.evidence \in Nat
      PROVE  RowsOK(db', files', rows')
  <2>1. "session" \in Kinds /\ "evidence" \in Kinds BY DEF Kinds
  <2>2. \A k \in Kinds : /\ Dirty[k].matches = rows[k].matches /\ Dirty[k].seq = rows[k].seq
                         /\ Dirty[k].status = IF rows[k].status = "current" THEN "dirty"
                                              ELSE rows[k].status
    BY DEF Dirty, TypeOK, Row
  <2> QED BY <1>c, <1>e, <2>1, <2>2 DEF RowsOK
<1>1. CASE Bootstrap(p)
  <2>1. CASE db.version # 0 BY <1>1, <2>1, EndLook DEF Bootstrap
  <2>2. CASE db.version = 0
    <3>1. /\ db' = [NewDb EXCEPT !.version = SchemaVersion, !.revision = 1, !.content = {1}]
          /\ Committed(p, "save") /\ UNCHANGED rows
      BY <1>1, <2>2 DEF Bootstrap
    <3>2. /\ db'.version = SchemaVersion /\ db'.revision = 1 /\ db'.content = {1}
          /\ db'.imported = 0 /\ db'.history = <<>>
      BY <3>1 DEF NewDb
    <3>3. {1} = 1..1 /\ SchemaVersion # 0 BY DEF SchemaVersion
    <3>4. DbOK(db', bundle') BY <3>2, <3>3 DEF DbOK
    <3>5. \A k \in Kinds : ~rows[k].matches BY <2>2 DEF RowsOK
    <3>6. RowsOK(db', files', rows') BY <3>1, <3>5 DEF RowsOK, Kinds
    <3>7. db.revision = 0 BY <2>2 DEF DbOK
    <3> QED BY <1>d, <3>1, <3>2, <3>3, <3>4, <3>6, <3>7
  <2> QED BY <2>1, <2>2
<1>2. CASE Replace(p)
  <2>1. CASE job[p].revision # db.revision BY <1>2, <2>1, EndLook DEF Replace
  <2>2. CASE job[p].revision = db.revision
    <3>1. /\ db' = [db EXCEPT !.revision = @ + 1,
                              !.content = job[p].content \cup {db.revision + 1}]
          /\ rows' = Dirty /\ Committed(p, "save") /\ pc[p] = "commit"
      BY <1>2, <2>2 DEF Replace
    <3>2. db.version # 0 /\ job[p].content = 1..db.revision
      BY <1>a, <2>2, <3>1 DEF ProcOK, Opened
    <3>3. /\ db'.version = db.version /\ db'.revision = db.revision + 1
          /\ db'.content = 1..db.revision \cup {db.revision + 1}
          /\ db'.imported = db.imported /\ db'.history = db.history
          /\ db'.evidence = db.evidence /\ db.evidence \in Nat
      BY <3>1, <3>2 DEF Db
    <3>4. 1..db.revision \cup {db.revision + 1} = 1..(db.revision + 1) BY <1>b
    <3>5. DbOK(db', bundle') BY <1>c, <3>2, <3>3, <3>4 DEF DbOK
    <3> QED BY <1>b, <1>d, <1>e, <3>1, <3>2, <3>3, <3>5
  <2> QED BY <2>1, <2>2
<1>3. CASE Transact(p)
  <2>1. /\ db' = [db EXCEPT !.revision = @ + 1, !.content = @ \cup {db.revision + 1},
                            !.evidence = @ + 1]
        /\ rows' = Dirty /\ Committed(p, "txn") /\ pc[p] = "commit"
    BY <1>3 DEF Transact
  <2>2. db.version # 0 BY <1>a, <2>1 DEF ProcOK, Opened
  <2>3. /\ db'.version = db.version /\ db'.revision = db.revision + 1
        /\ db'.content = 1..db.revision \cup {db.revision + 1}
        /\ db'.imported = db.imported /\ db'.history = db.history
        /\ db'.evidence = db.evidence + 1 /\ db.evidence \in Nat
    BY <2>1 DEF Db, DbOK
  <2>4. 1..db.revision \cup {db.revision + 1} = 1..(db.revision + 1) BY <1>b
  <2>5. DbOK(db', bundle') BY <1>c, <2>2, <2>3, <2>4 DEF DbOK
  <2> QED BY <1>b, <1>d, <1>e, <2>1, <2>2, <2>3, <2>5
<1> QED BY <1>1, <1>2, <1>3

(* Rendering the files. *)
LEMMA RenderStep ==
  ASSUME TypeOK, StoreInv, NEW p \in Procs,
         \/ TakeLock(p) \/ RenderSession(p) \/ RenderEvidence(p) \/ Record(p) \/ RenderFails(p)
  PROVE  StoreInv'
<1> job[p] \in Job /\ db \in Db BY DEF TypeOK
<1> DbOK(db, bundle) /\ RowsOK(db, files, rows) BY DEF StoreInv
<1> "session" \in Kinds /\ "evidence" \in Kinds BY DEF Kinds
<1>a. ProcOK(p, pc[p], job[p], db, lock, files, bundle) BY DEF StoreInv, ProcsOK
<1>b. db.revision \in Nat /\ UNCHANGED <<db, bundle>>
  BY DEF Db, TakeLock, RenderSession, RenderEvidence, Record, RenderFails
<1>c. pc[p] \in Rendering => lock = p /\ db.version # 0
  BY <1>a DEF ProcOK, Holding, Rendering, Opened
<1>d. "evidence" \in Renders(p) /\ ("session" \in Renders(p) <=> job[p].phase # "txn")
  BY DEF Renders, Kinds
<1>e. DbOK(db', bundle') /\ db'.revision = db.revision /\ db'.version = db.version BY <1>b
<1>1. CASE TakeLock(p)
  <2> DEFINE step == IF "session" \in Renders(p) THEN "render_session" ELSE "render_evidence"
  <2>1. /\ pc[p] = "lock" /\ lock = Nobody /\ lock' = p /\ Goto(p, step) /\ Keep(p)
        /\ UNCHANGED <<files, rows>>
    BY <1>1 DEF TakeLock, Free
  <2>2. /\ step \notin Importing
        /\ step \notin {"load_items", "set_aside", "publish", "import_commit", "record"}
        /\ step = "render_evidence" => job[p].phase = "txn"
    BY <1>d DEF Importing
  <2> HIDE DEF step
  <2>3. ProcOK(p, step, job[p], db', lock', files', bundle')
    BY <1>a, <1>b, <2>1, <2>2 DEF ProcOK, Opened
  <2> QED BY <1>b, <2>1, <2>3, Write
<1>2. CASE RenderSession(p)
  <2>1. /\ pc[p] = "render_session" /\ Goto(p, "render_evidence") /\ Keep(p) /\ UNCHANGED lock
        /\ files' = [files EXCEPT !.session = [kind |-> "rendered", n |-> db.revision]]
        /\ rows' = [rows EXCEPT !["session"].matches = FALSE]
    BY <1>2 DEF RenderSession
  <2>2. lock = p /\ db.version # 0 BY <1>c, <2>1 DEF Rendering
  <2>3. /\ files'.session = [kind |-> "rendered", n |-> db.revision]
        /\ files'.evidence = files.evidence
    BY <2>1 DEF TypeOK
  <2>4. rows'["session"].matches = FALSE /\ rows'["evidence"] = rows["evidence"]
    BY <2>1 DEF TypeOK, Row
  <2>5. RowsOK(db', files', rows') BY <1>b, <2>3, <2>4 DEF RowsOK, Kinds
  <2>6. ProcOK(p, "render_evidence", job[p], db', lock', files', bundle')
    BY <1>a, <1>b, <2>1, <2>2, <2>3 DEF ProcOK, Importing
  <2>7. Goto(p, "render_evidence") /\ Keep(p) BY <2>1
  <2> QED BY <1>b, <1>e, <2>2, <2>5, <2>6, <2>7, Write
<1>3. CASE RenderEvidence(p)
  <2>1. /\ pc[p] = "render_evidence" /\ Goto(p, "record") /\ Keep(p) /\ UNCHANGED lock
        /\ files' = [files EXCEPT !.evidence = RenderedEvidence(p)]
        /\ rows' = [rows EXCEPT !["evidence"].matches = FALSE]
    BY <1>3 DEF RenderEvidence
  <2>2. lock = p /\ db.version # 0 BY <1>c, <2>1 DEF Rendering
  <2>3. files'.session = files.session /\ files'.evidence = Rows(db.evidence)
    BY <2>1, RenderedIs DEF TypeOK
  <2>4. rows'["evidence"].matches = FALSE /\ rows'["session"] = rows["session"]
    BY <2>1 DEF TypeOK, Row
  <2>5. RowsOK(db', files', rows') BY <1>b, <2>3, <2>4 DEF RowsOK, Kinds
  <2>6. ProcOK(p, "record", job[p], db', lock', files', bundle')
    BY <1>a, <1>b, <2>1, <2>2, <2>3 DEF ProcOK, Importing
  <2>7. Goto(p, "record") /\ Keep(p) BY <2>1
  <2> QED BY <1>b, <1>e, <2>2, <2>5, <2>6, <2>7, Write
<1>4. CASE Record(p)
  <2>1. pc[p] = "record" /\ lock' = Nobody /\ UNCHANGED files BY <1>4 DEF Record
  <2>2. lock = p /\ db.version # 0 BY <1>c, <2>1 DEF Rendering
  <2>3. /\ job[p].phase # "txn" => files.session = [kind |-> "rendered", n |-> db.revision]
        /\ files.evidence = Rows(db.evidence)
    BY <1>a, <2>1 DEF ProcOK
  <2>4. ASSUME NEW k \in Kinds
        PROVE  rows'[k] = IF k \in Renders(p)
                          THEN [revision |-> db.revision, status |-> "current", matches |-> TRUE,
                                seq |-> IF k = "evidence" THEN db.evidence ELSE 0]
                          ELSE rows[k]
    BY <1>4 DEF Record
  <2>5. RowsOK(db', files', rows')
    <3>1. /\ rows'["evidence"].seq = db.evidence /\ rows'["evidence"].status = "current"
      <4>1. rows'["evidence"] = [revision |-> db.revision, status |-> "current",
                                 matches |-> TRUE, seq |-> db.evidence]
        BY <1>d, <2>4, Zenon
      <4> QED BY <4>1
    <3>2. job[p].phase = "txn" => rows'["session"] = rows["session"] BY <1>d, <2>4
    <3>3. job[p].phase # "txn" => rows'["session"].status = "current"
      <4>1. job[p].phase # "txn" => rows'["session"] = [revision |-> db.revision,
                status |-> "current", matches |-> TRUE,
                seq |-> IF "session" = "evidence" THEN db.evidence ELSE 0]
        BY <1>d, <2>4, Zenon
      <4> QED BY <4>1
    <3>4. Kinds = {"session", "evidence"} BY DEF Kinds
    <3> QED BY <1>b, <2>1, <2>2, <2>3, <3>1, <3>2, <3>3, <3>4 DEF RowsOK
  <2>6. CASE Goto(p, "load_session") /\ Keep(p)
    <3>1. ProcOK(p, "load_session", job[p], db', lock', files', bundle')
      BY <1>a, <1>b, <2>1, <2>2 DEF ProcOK, Holding, Importing, Rendering
    <3> QED BY <1>b, <2>1, <2>2, <2>5, <2>6, <3>1, Write
  <2>7. CASE job[p].phase # "recover" /\ End(p, "ok")
    BY <1>b, <2>1, <2>2, <2>5, <2>7, EndOK, Frame
  <2> QED BY <1>4, <2>6, <2>7 DEF Record
<1>5. CASE RenderFails(p)
  <2>1. pc[p] \in Rendering /\ lock' = Nobody /\ End(p, "OSError") BY <1>5 DEF RenderFails
  <2>2. files'.session = files.session BY <1>5 DEF RenderFails, TypeOK
  <2>3. ASSUME NEW k \in Kinds
        PROVE  rows'[k] = IF k \in Renders(p)
                          THEN [revision |-> db.revision, status |-> "failed", matches |-> FALSE,
                                seq |-> 0]
                          ELSE rows[k]
    BY <1>5 DEF RenderFails
  <2>4. RowsOK(db', files', rows') BY <1>b, <1>d, <2>2, <2>3 DEF RowsOK
  <2> QED BY <1>b, <1>c, <2>1, <2>4, EndOK, Frame
<1> QED BY <1>1, <1>2, <1>3, <1>4, <1>5

(* A command starts; a process dies, and leaves at most part of an append   *)
(* behind.                                                                  *)
LEMMA ProcessStep ==
  ASSUME TypeOK, StoreInv, NEW p \in Procs,
         Crash(p) \/ \E c \in Commands : Start(p, c)
  PROVE  StoreInv'
<1> job[p] \in Job /\ db \in Db BY DEF TypeOK
<1> DbOK(db, bundle) /\ RowsOK(db, files, rows) BY DEF StoreInv
<1>a. ProcOK(p, pc[p], job[p], db, lock, files, bundle) BY DEF StoreInv, ProcsOK
<1>b. db.revision \in Nat BY DEF Db
<1>c. "idle" \notin Opened \cup Holding /\ "probe" \notin Opened \cup Holding
  BY DEF Opened, Holding, Importing, Rendering
<1>1. CASE \E c \in Commands : Start(p, c)
  <2>1. PICK c \in Commands : Start(p, c) BY <1>1
  <2> DEFINE j == [IdleJob EXCEPT !.cmd = c]
  <2>2. j.revision = 0 /\ j.content = {} /\ j.phase = "recover" /\ j.out = "none"
    BY DEF IdleJob
  <2>3. Goto(p, "probe") /\ Set(p, j) /\ UNCHANGED <<db, lock, files, rows, bundle>>
    BY <2>1 DEF Start
  <2> HIDE DEF j
  <2>4. 0 <= db.revision /\ (db.revision = 0 => {} = 1..db.revision) BY <1>b
  <2> QED BY <1>c, <2>2, <2>3, <2>4, GoOn
<1>2. CASE Crash(p)
  <2>1. /\ Goto(p, "idle") /\ Set(p, IdleJob) /\ UNCHANGED <<db, bundle>>
        /\ lock' = (IF lock = p THEN Nobody ELSE lock)
    BY <1>2 DEF Crash
  <2>2. PICK left \in Interrupted(p) :
             /\ files' = [files EXCEPT !.evidence = left]
             /\ rows' = IF left = files.evidence THEN rows
                        ELSE [rows EXCEPT !["evidence"].matches = FALSE]
    BY <1>2 DEF Crash
  <2>3. files'.session = files.session /\ files'.evidence = left BY <2>2 DEF TypeOK
  <2>4. IdleJob.revision = 0 /\ IdleJob.content = {} /\ IdleJob.phase = "recover"
        /\ IdleJob.out = "none"
    BY DEF IdleJob
  <2>5. 0 <= db.revision /\ (db.revision = 0 => {} = 1..db.revision) BY <1>b
  <2>6. ProcOK(p, "idle", IdleJob, db', lock', files', bundle')
    BY <1>c, <2>1, <2>4, <2>5 DEF ProcOK, Holding, Importing, Rendering
  <2>7. CASE left = files.evidence
    <3>1. files' = files /\ rows' = rows BY <2>2, <2>7 DEF TypeOK
    <3>2. CASE lock = p
      BY <1>b, <2>1, <2>6, <3>1, <3>2, Write
    <3>3. CASE lock # p
      <4>1. lock' = lock BY <2>1, <3>3
      <4>2. Alone(p) /\ pc'[p] = "idle" /\ job'[p] = IdleJob BY <2>1, MoveAlone
      <4> QED BY <2>1, <2>6, <3>1, <4>1, <4>2, Look
    <3> QED BY <3>2, <3>3
  <2>8. CASE left # files.evidence
    <3>1. lock = p
      <4>1. pc[p] = "render_evidence" BY <2>2, <2>8 DEF Interrupted
      <4> QED BY <1>a, <4>1 DEF ProcOK, Holding, Rendering
    <3>2. "evidence" \in Kinds /\ Kinds = {"session", "evidence"} BY DEF Kinds
    <3>3. rows'["evidence"].matches = FALSE /\ rows'["session"] = rows["session"]
      BY <2>2, <2>8, <3>2 DEF TypeOK, Row
    <3>4. RowsOK(db', files', rows') BY <2>1, <2>3, <3>2, <3>3 DEF RowsOK
    <3>5. db'.revision = db.revision /\ db'.version = db.version /\ DbOK(db', bundle') BY <2>1
    <3>6. Goto(p, "idle") /\ Set(p, IdleJob) BY <2>1
    <3> QED BY <1>b, <2>6, <3>1, <3>4, <3>5, <3>6, Write
  <2> QED BY <2>7, <2>8
<1> QED BY <1>1, <1>2

(* What somebody else does to the files, while no process writes them.      *)
LEMMA OutsideStep ==
  ASSUME TypeOK, StoreInv, (\E k \in Kinds : Edit(k)) \/ LegacyWrite \/ Tamper
  PROVE  StoreInv'
<1> DbOK(db, bundle) /\ RowsOK(db, files, rows) BY DEF StoreInv
<1> Kinds = {"session", "evidence"} BY DEF Kinds
<1>1. lock = Nobody /\ UNCHANGED <<db, lock, pc, job>>
  BY DEF Edit, LegacyWrite, Tamper, Free
<1>2. ProcsOK'
  <2> SUFFICES ASSUME NEW p \in Procs
               PROVE  ProcOK(p, pc[p], job[p], db, lock, files', bundle')
    BY <1>1 DEF ProcsOK
  <2>1. ProcOK(p, pc[p], job[p], db, lock, files, bundle) BY DEF StoreInv, ProcsOK
  <2>2. pc[p] \notin Holding BY <1>1, <2>1, NobodyAssumption DEF ProcOK
  <2>3. pc[p] \notin {"set_aside", "publish", "import_commit", "render_evidence", "record"}
    BY <2>2 DEF Holding, Importing, Rendering
  <2> QED BY <2>1, <2>3 DEF ProcOK
<1>3. CASE \E k \in Kinds : Edit(k)
  <2>1. PICK k \in Kinds : Edit(k) BY <1>3
  <2>2. UNCHANGED bundle BY <2>1 DEF Edit
  <2>3. rows'[k].matches = FALSE /\ (\A i \in Kinds \ {k} : rows'[i] = rows[i])
    BY <2>1 DEF Edit, TypeOK, Row
  <2>4. k = "session" => files'.evidence = files.evidence BY <2>1 DEF Edit, TypeOK
  <2>5. k = "evidence" => files'.session = files.session BY <2>1 DEF Edit, TypeOK
  <2>6. RowsOK(db', files', rows') BY <1>1, <2>3, <2>4, <2>5 DEF RowsOK
  <2> QED BY <1>1, <1>2, <2>2, <2>6 DEF StoreInv
<1>4. CASE LegacyWrite
  <2>1. db.version = 0 /\ UNCHANGED <<rows, bundle>> BY <1>4 DEF LegacyWrite
  <2>2. RowsOK(db', files', rows') BY <1>1, <2>1 DEF RowsOK
  <2> QED BY <1>1, <1>2, <2>1, <2>2 DEF StoreInv
<1>5. CASE Tamper
  <2>1. UNCHANGED <<files, rows>> /\ bundle'.of = bundle.of /\ bundle'.state = "tampered"
    BY <1>5 DEF Tamper, TypeOK, Bundle
  <2>2. DbOK(db', bundle') BY <1>1, <2>1 DEF DbOK
  <2> QED BY <1>1, <1>2, <2>1, <2>2 DEF StoreInv
<1> QED BY <1>3, <1>4, <1>5

(* Every step keeps the invariant.                                          *)
LEMMA StoreStep ==
  ASSUME TypeOK, StoreInv, [Next]_vars
  PROVE  StoreInv'
<1>1. CASE UNCHANGED vars BY <1>1 DEF vars, StoreInv, ProcsOK
<1>2. ASSUME NEW p \in Procs, Step(p) PROVE StoreInv'
  BY <1>2, ReadingStep, OpeningStep, CommitStep, RenderStep DEF Step
<1>3. ASSUME NEW p \in Procs, RenderFails(p) PROVE StoreInv' BY <1>3, RenderStep
<1>4. ASSUME NEW p \in Procs, Crash(p) \/ \E c \in Commands : Start(p, c) PROVE StoreInv'
  BY <1>4, ProcessStep
<1> QED BY <1>1, <1>2, <1>3, <1>4, OutsideStep DEF Next

(* It holds of every workspace a first command can meet. *)
LEMMA InitStore == Init => StoreInv
<1> SUFFICES ASSUME Init PROVE StoreInv OBVIOUS
<1>1. /\ lock = Nobody /\ rows = [k \in Kinds |-> NoRow] /\ pc = [p \in Procs |-> "idle"]
      /\ job = [p \in Procs |-> IdleJob]
  BY DEF Init
<1>2. PICK origin \in Origins : db \in DbOf(origin) BY DEF Init
<1>3. /\ \/ db.version = 0 /\ db.revision = 0 /\ db.content = {}
         \/ db.version \in 1..3 /\ db.revision = 1 /\ db.content = {1}
      /\ db.imported = 0 /\ db.history = <<>>
  <2>1. CASE origin \in {"empty", "legacy", "partial"}
    <3>1. db = NewDb BY <1>2, <2>1 DEF DbOf
    <3> QED BY <3>1 DEF NewDb
  <2>2. CASE origin = "v1"
    <3>1. PICK d \in BOOLEAN :
               db = [NewDb EXCEPT !.version = 1, !.revision = 1, !.content = {1}, !.dup = d]
      BY <1>2, <2>2 DEF DbOf
    <3>2. \A b : LET n == [NewDb EXCEPT !.version = 1, !.revision = 1, !.content = {1}, !.dup = b]
                 IN  /\ n.version = 1 /\ n.revision = 1 /\ n.content = {1} /\ n.imported = 0
                     /\ n.history = <<>>
      BY DEF NewDb
    <3> QED BY <3>1, <3>2
  <2>3. CASE origin = "v2"
    <3>1. db = [NewDb EXCEPT !.version = 2, !.revision = 1, !.content = {1}]
      BY <1>2, <2>3 DEF DbOf
    <3> QED BY <3>1 DEF NewDb
  <2>4. CASE origin = "v3"
    <3>1. db = [NewDb EXCEPT !.version = 3, !.revision = 1, !.content = {1}]
      BY <1>2, <2>4 DEF DbOf
    <3> QED BY <3>1 DEF NewDb
  <2> QED BY <2>1, <2>2, <2>3, <2>4, OriginsAssumption
<1>4. {} = 1..0 /\ {1} = 1..1 OBVIOUS
<1>5. DbOK(db, bundle)
  <2>1. db.content = 1..db.revision /\ (db.version = 0 => db.revision = 0)
    <3>1. CASE db.version = 0 /\ db.revision = 0 /\ db.content = {} BY <1>4, <3>1
    <3>2. CASE db.version \in 1..3 /\ db.revision = 1 /\ db.content = {1}
      <4>1. db.version # 0 BY <3>2
      <4> QED BY <1>4, <3>2, <4>1
    <3> QED BY <1>3, <3>1, <3>2
  <2> QED BY <1>3, <2>1 DEF DbOK
<1>6. RowsOK(db, files, rows) BY <1>1 DEF RowsOK, NoRow, Kinds
<1>7. ProcsOK
  <2> SUFFICES ASSUME NEW p \in Procs
               PROVE  ProcOK(p, "idle", IdleJob, db, lock, files, bundle)
    BY <1>1 DEF ProcsOK
  <2>1. IdleJob.revision = 0 /\ IdleJob.content = {} /\ IdleJob.phase = "recover"
        /\ IdleJob.out = "none"
    BY DEF IdleJob
  <2>2. "idle" \notin Opened \cup Holding \cup Importing
    BY DEF Opened, Holding, Importing, Rendering
  <2> QED BY <1>3, <1>4, <2>1, <2>2 DEF ProcOK
<1> QED BY <1>5, <1>6, <1>7 DEF StoreInv

(* So it holds in every reachable state. *)
LEMMA StoreInvariant == Spec => []StoreInv
<1>1. TypeOK /\ StoreInv /\ [Next]_vars => StoreInv' BY StoreStep
<1> QED BY <1>1, InitStore, StoreTypeCorrect, PTL DEF Spec

-----------------------------------------------------------------------------
(* No commit loses another: the committed session holds the effects of     *)
(* every revision, whoever raced to import, create, replace or transact,   *)
(* and wherever commands died (replace, transact, bootstrap, torn loads).  *)
THEOREM NothingIsLost == Spec => []NothingLost
<1>1. StoreInv => NothingLost BY DEF StoreInv, DbOK, NothingLost
<1> QED BY <1>1, StoreInvariant, PTL

(* What the store says of itself is true: a row a command trusts stands     *)
(* for what the file shows, a committed import has a bundle of the state    *)
(* it imported, each schema step was recorded once and in order             *)
(* (_upsert_materialization, _create_recovery_bundle, _upgrade_schema).     *)
THEOREM RecordsTrue == Spec => []RecordsAreTrue
<1>1. StoreInv => BookkeepingIsTrue BY DEF StoreInv, RowsOK, BookkeepingIsTrue, Rows
<1>2. StoreInv => ImportHasBundle BY DEF StoreInv, DbOK, ImportHasBundle
<1>3. StoreInv => UpgradedOnce BY DEF StoreInv, DbOK, UpgradedOnce
<1>4. StoreInv => RecordsAreTrue BY <1>1, <1>2, <1>3 DEF RecordsAreTrue
<1> QED BY <1>4, StoreInvariant, PTL

(* A command that reports success has committed what it was asked to write *)
(* (save_session, _update_store: rendering comes after the commit, and no   *)
(* path reaches it without one).                                            *)
THEOREM SuccessCommitted == Spec => []SuccessIsCommitted
<1>1. StoreInv => SuccessIsCommitted
  BY DEF StoreInv, ProcsOK, ProcOK, SuccessIsCommitted
<1> QED BY <1>1, StoreInvariant, PTL
=============================================================================
