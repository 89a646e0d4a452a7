----------------------------- MODULE FinalGateRun -----------------------------
(***************************************************************************)
(* What the final-gate command does around the verdict                     *)
(* (commands/final_gate.py): it writes its artifacts into the workspace,   *)
(* and when the gate passed it copies the workspace into the archive under *)
(* the store's write reservation and removes it.  Other commands commit to *)
(* the same store meanwhile, from connections they opened before.  SQLite  *)
(* refuses to write through a connection whose file was unlinked.          *)
(***************************************************************************)
EXTENDS Naturals, FiniteSets

CONSTANTS
  Gates,      \* final-gate commands, each run once
  Writers,    \* other commands, each run once
  MaxFaults   \* bound: crashes, removals that fail

GateRunAssumption ==
  /\ IsFiniteSet(Gates) /\ IsFiniteSet(Writers) /\ Gates \cap Writers = {} /\ MaxFaults \in Nat
  /\ "nobody" \notin Gates \cup Writers

VARIABLES
  dir,       \* the workspace directory exists
  inode,     \* which runtime.sqlite3 it holds: 0 for none, else how many there were before
  inodes,    \* files created so far
  store,     \* commits in that file
  reserved,  \* who holds the write reservation of that file
  summary,   \* whose audit-summary.md the workspace holds and where it points
  archive,   \* archive directories, in the order of their suffixes
  reported,  \* commits reported to their commands as done
  job,       \* what each command is doing
  faults

vars == <<dir, inode, inodes, store, reserved, summary, archive, reported, job, faults>>
disk == <<dir, inode, inodes, store>>
Actors == Gates \cup Writers
Names == 1..Cardinality(Gates)
Nobody == "nobody"
InWorkspace == 0
NoSummary == [of |-> Nobody, at |-> InWorkspace]
NoArchive == [exists |-> FALSE, db |-> {}, summary |-> NoSummary]

New == [step |-> "new", inode |-> 0, target |-> 0]
Goto(p, step) == job' = [job EXCEPT ![p].step = step]
End(p) == job' = [job EXCEPT ![p] = [New EXCEPT !.step = "done"]]
Fault == faults < MaxFaults /\ faults' = faults + 1
Release(p) == reserved' = IF reserved = p THEN Nobody ELSE reserved

-----------------------------------------------------------------------------
(* A command of the runtime: _connect creates the directory and the file,  *)
(* BEGIN IMMEDIATE takes the reservation, the commit is reported.          *)
Connect(p, next) ==
  /\ dir' = TRUE
  /\ IF inode = 0 THEN inode' = inodes + 1 /\ inodes' = inodes + 1 /\ store' = {}
     ELSE UNCHANGED <<inode, inodes, store>>
  /\ job' = [job EXCEPT ![p].step = next, ![p].inode = inode']
  /\ UNCHANGED <<reserved, summary, archive, reported, faults>>
Open(p) == job[p].step = "new" /\ Connect(p, "begin")
Begin(p) ==
  /\ job[p].step = "begin"
  /\ \/ job[p].inode = inode /\ reserved = Nobody /\ reserved' = p /\ Goto(p, "commit")
     \/ job[p].inode = inode /\ reserved # Nobody /\ End(p) /\ UNCHANGED reserved   \* PERSISTENCE_BUSY
     \/ job[p].inode # inode /\ End(p) /\ UNCHANGED reserved       \* readonly: the file has moved
  /\ UNCHANGED <<disk, summary, archive, reported, faults>>

(* A gate's own commit is Gatekeeper.run's save. *)
Commit(p) ==
  /\ job[p].step = "commit"
  /\ IF job[p].inode = inode
     THEN store' = store \cup {p} /\ reported' = reported \cup {p}
     ELSE UNCHANGED <<store, reported>>
  /\ Release(p)
  /\ IF p \in Gates /\ job[p].inode = inode THEN Goto(p, "artifacts") ELSE End(p)
  /\ UNCHANGED <<dir, inode, inodes, summary, archive, faults>>

-----------------------------------------------------------------------------
(* handle_final_gate *)

(* _handle_stack_final_gate: a stack whose context cannot be read, or one  *)
(* that fails before this member is evaluated, commits nothing here;       *)
(* otherwise Gatekeeper.run commits as it does for a single pull request.  *)
StackFails(g) ==
  /\ job[g].step = "new"
  /\ Goto(g, "failed") \/ End(g)
  /\ UNCHANGED <<disk, reserved, summary, archive, reported, faults>>

(* Either writer recreates a workspace that is gone. *)
Write(g) ==
  /\ dir' = TRUE
  /\ summary' = [of |-> g, at |-> InWorkspace]
  /\ UNCHANGED <<inode, inodes, store, reserved, archive, reported, faults>>

(* write_native_final_gate_artifacts; the archive follows a gate that      *)
(* passed when auto-clean is on.                                           *)
WriteArtifacts(g) ==
  job[g].step = "artifacts" /\ Write(g) /\ (Goto(g, "archive") \/ End(g))

(* write_stack_final_gate_artifacts; a stack that passed goes on the same  *)
(* way.                                                                    *)
WriteStackArtifacts(g) == job[g].step = "failed" /\ Write(g) /\ End(g)

(* archive_and_clean_workspace: no directory, nothing to do; no store, no  *)
(* reservation.                                                            *)
Archive(g) ==
  /\ job[g].step = "archive"
  /\ IF ~dir THEN End(g)
     ELSE job' = [job EXCEPT ![g].step = IF inode = 0 THEN "name" ELSE "reserve", ![g].inode = inode]
  /\ UNCHANGED <<disk, reserved, summary, archive, reported, faults>>

(* Mutant: the store is copied without waiting for its writers. *)
MayReserveAlways(g) == TRUE

(* BEGIN IMMEDIATE; an unlinked file has no other writer. *)
MayReserve(g) == job[g].inode # inode \/ reserved = Nobody

Reserve(g) ==
  /\ job[g].step = "reserve"
  /\ \/ /\ MayReserve(g)
        /\ reserved' = IF job[g].inode = inode /\ reserved = Nobody THEN g ELSE reserved
        /\ Goto(g, "name")
     \/ /\ ~MayReserve(g) /\ End(g) /\ UNCHANGED reserved              \* auto-clean skipped
  /\ UNCHANGED <<disk, summary, archive, reported, faults>>

(* _archive_files: a name that is free, then copytree, which fails if it   *)
(* has been taken since or the workspace is gone.                          *)
Name(g) ==
  /\ job[g].step = "name"
  /\ job' = [job EXCEPT ![g].step = "copy",
               ![g].target = CHOOSE n \in Names : ~archive[n].exists /\ \A m \in 1..(n - 1) : archive[m].exists]
  /\ UNCHANGED <<disk, reserved, summary, archive, reported, faults>>
Copy(g) ==
  LET n == job[g].target
  IN  /\ job[g].step = "copy"
      /\ IF archive[n].exists \/ ~dir
         THEN End(g) /\ Release(g) /\ UNCHANGED archive
         ELSE /\ archive' = [archive EXCEPT ![n] = [exists |-> TRUE, db |-> {}, summary |-> summary]]
              /\ Goto(g, IF job[g].inode = 0 THEN "remove" ELSE "backup")
              /\ UNCHANGED reserved
      /\ UNCHANGED <<disk, summary, reported, faults>>

(* source.backup: what the file at the path holds now. *)
Backup(g) ==
  /\ job[g].step = "backup"
  /\ archive' = [archive EXCEPT ![job[g].target].db = store]
  /\ Goto(g, "remove")
  /\ UNCHANGED <<disk, reserved, summary, reported, faults>>

(* rmtree, which ignores what it cannot remove. *)
Remove(g) ==
  /\ job[g].step = "remove"
  /\ \/ /\ dir' = FALSE /\ inode' = 0 /\ store' = {} /\ reserved' = Nobody
        /\ summary' = NoSummary
        /\ UNCHANGED <<inodes, faults>>
     \/ /\ Fault /\ Release(g)
        /\ summary' \in {summary, NoSummary}
        /\ UNCHANGED disk
  /\ Goto(g, "rewrite")
  /\ UNCHANGED <<archive, reported>>

(* rewrite_archived_*: the archived artifacts point to the archive. *)
Rewrite(g) ==
  /\ job[g].step = "rewrite"
  /\ archive' = [archive EXCEPT ![job[g].target].summary.at = job[g].target]
  /\ End(g)
  /\ UNCHANGED <<disk, reserved, summary, reported, faults>>

(* A dead process holds no reservation. *)
Crash(p) ==
  /\ job[p].step \notin {"new", "done"} /\ Fault
  /\ End(p) /\ Release(p)
  /\ UNCHANGED <<disk, summary, archive, reported>>

Init ==
  /\ dir = FALSE /\ inode = 0 /\ inodes = 0 /\ store = {} /\ reserved = Nobody
  /\ summary = NoSummary
  /\ archive = [n \in Names |-> NoArchive]
  /\ reported = {}
  /\ job = [p \in Actors |-> New]
  /\ faults = 0

Next ==
  \/ \E p \in Actors : Open(p) \/ Begin(p) \/ Commit(p) \/ Crash(p)
  \/ \E g \in Gates :
       \/ StackFails(g) \/ WriteStackArtifacts(g) \/ WriteArtifacts(g) \/ Archive(g) \/ Reserve(g) \/ Name(g) \/ Copy(g)
       \/ Backup(g) \/ Remove(g) \/ Rewrite(g)

Spec == Init /\ [][Next]_vars

-----------------------------------------------------------------------------
(* Properties *)

(* A commit that was reported as done is in the workspace's store or in    *)
(* the store of an archive, whatever the gate was copying or removing when *)
(* it was made, whichever step of the gate failed.                         *)
ArchiveKeepsAll == reported \subseteq store \cup UNION {archive[n].db : n \in Names}
=============================================================================
