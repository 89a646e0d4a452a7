---------------------------- MODULE BottleRelease ----------------------------
(***************************************************************************)
(* The Homebrew publication of a release (scripts/release/homebrew_release *)
(* and homebrew_support, run by .github/workflows/homebrew.yml): a snapshot*)
(* of the dependencies, one bottle per platform, the immutable assets of   *)
(* the GitHub release, the installation tests and the formula in the tap.  *)
(* Neither brew's dependency resolution nor a bottle is reproducible, runs *)
(* die at any step, and a dead run is resumed with the artifacts of its    *)
(* finished jobs or replaced by a new one, for this version or another.    *)
(* A file's bytes are what was resolved or built into it.                  *)
(***************************************************************************)
EXTENDS Naturals, Sequences, FiniteSets

CONSTANTS
  Versions,     \* released versions, numbers
  Rebuilds,     \* bottle rebuilds, numbers
  Targets,      \* TARGETS
  Attempts,     \* attempts of update_tap
  MaxRuns,      \* bound on workflow runs
  MaxFaults     \* bound on dying jobs, lost answers and pushes of previews

ReleaseAssumption ==
  /\ Versions \subseteq Nat \ {0} /\ Rebuilds \subseteq Nat /\ IsFiniteSet(Targets) /\ Targets # {}
  /\ Attempts \in Nat \ {0} /\ MaxRuns \in Nat /\ MaxFaults \in Nat

VARIABLES
  assets,   \* GitHub: files of the releases
  tap,      \* the tap repository: its commit, the stable and the preview formula
  runs,     \* workflow runs, in the order of their dispatch
  active,   \* the run that holds the concurrency group, 0 for none
  fresh,    \* resolutions and builds so far
  faults

vars == <<assets, tap, runs, active, fresh, faults>>

Missing == 0
Names(v) == {a.name : a \in {x \in assets : x.version = v}}
Bytes(v, name) == (CHOOSE a \in assets : a.version = v /\ a.name = name).bytes
Asset(v, name, bytes) == [version |-> v, name |-> name, bytes |-> bytes]

(* source_names, build_record_name and the other asset names *)
Formula == <<"formula">>
Metadata == <<"metadata">>
Bundle(t, r) == <<"bundle", t, r>>
Bottle(t, r) == <<"bottle", t, r>>
Record(t, r) == <<"record", t, r>>
Final(r) == <<"final", r>>
Publication(r) == <<"publication", r>>

(* A run, with the artifacts its finished jobs left. *)
NewRun(v, r) ==
  [version |-> v, rebuild |-> r, step |-> "prepare", snapshot |-> Missing,
   builds |-> [t \in Targets |-> Missing], verified |-> {}, uploaded |-> 0, seen |-> 0, pushes |-> 0]
run == runs[active]
Set(next) == runs' = [runs EXCEPT ![active] = next]
Step(s) == Set([run EXCEPT !.step = s, !.uploaded = 0])

(* A job that raises ends the run; it is resumed at that job. *)
Dies == /\ runs' = [runs EXCEPT ![active].uploaded = 0, ![active].pushes = 0]
        /\ active' = 0
Goes == UNCHANGED active

-----------------------------------------------------------------------------
(* The jobs up to the bottles *)

(* prepare: the preserved formula, or a new resolution of the dependencies. *)
Prepare ==
  /\ active # 0 /\ run.step = "prepare"
  /\ LET names == Names(run.version)
     IN  IF Formula \in names
         THEN Set([run EXCEPT !.step = "preserve", !.snapshot = Bytes(run.version, Formula)])
              /\ Goes /\ UNCHANGED fresh
         ELSE IF Metadata \in names THEN Dies /\ UNCHANGED fresh
         ELSE /\ Set([run EXCEPT !.step = "preserve", !.snapshot = fresh + 1])
              /\ fresh' = fresh + 1 /\ Goes
  /\ UNCHANGED <<assets, tap, faults>>

(* Mutant: a file that exists is not compared. *)
AcceptsAnyhow(v, name, bytes) == TRUE

(* ReleaseAssets.verify: the published file has these bytes. *)
Accepts(v, name, bytes) == Bytes(v, name) = bytes

(* ReleaseAssets.upload: a missing file is uploaded, one that exists is    *)
(* compared.                                                               *)
Upload(v, name, bytes) ==
  IF name \notin Names(v)
  THEN /\ assets' = assets \cup {Asset(v, name, bytes)}
       /\ Set([run EXCEPT !.uploaded = @ + 1]) /\ Goes
  ELSE /\ UNCHANGED assets
       /\ IF Accepts(v, name, bytes) THEN Set([run EXCEPT !.uploaded = @ + 1]) /\ Goes ELSE Dies

(* preserve_snapshot: the formula, then its metadata. *)
PreserveSnapshot ==
  /\ active # 0 /\ run.step = "preserve"
  /\ IF run.uploaded = 2 THEN Step("build") /\ Goes /\ UNCHANGED assets
     ELSE Upload(run.version, IF run.uploaded = 0 THEN Formula ELSE Metadata, run.snapshot)
  /\ UNCHANGED <<tap, fresh, faults>>

Sealed(snapshot, bottle) == [snapshot |-> snapshot, bottle |-> bottle]

(* build, restore_bundle: a target that was published once is restored and *)
(* never built again; the four jobs run side by side.                      *)
Build(t) ==
  /\ active # 0 /\ run.step = "build" /\ run.builds[t] = Missing
  /\ LET names == Names(run.version)
         sealed == Bytes(run.version, Bundle(t, run.rebuild))
     IN  IF Bundle(t, run.rebuild) \in names
         THEN /\ IF sealed.snapshot = run.snapshot
                 THEN Set([run EXCEPT !.builds[t] = sealed.bottle]) /\ Goes ELSE Dies
              /\ UNCHANGED fresh
         ELSE IF Record(t, run.rebuild) \in names THEN Dies /\ UNCHANGED fresh
         ELSE Set([run EXCEPT !.builds[t] = fresh + 1]) /\ fresh' = fresh + 1 /\ Goes
  /\ UNCHANGED <<assets, tap, faults>>

(* merge: the bottles of all targets, and the formula that names them. *)
Merge ==
  /\ active # 0 /\ run.step = "build" /\ \A t \in Targets : run.builds[t] # Missing
  /\ Step("publish") /\ Goes
  /\ UNCHANGED <<assets, tap, fresh, faults>>

(* Mutant: the entry of one build record is used for every platform. *)
MergedOneEntry(r) ==
  [version |-> r.version, rebuild |-> r.rebuild, snapshot |-> r.snapshot,
   bottles |-> [t \in Targets |-> r.builds[CHOOSE u \in Targets : TRUE]]]

(* bottle_entry: the formula names each target's bottle by its checksum. *)
Merged(r) == [version |-> r.version, rebuild |-> r.rebuild, snapshot |-> r.snapshot, bottles |-> r.builds]

-----------------------------------------------------------------------------
(* Publishing the bottles *)

Order ==
  CHOOSE s \in [1..Cardinality(Targets) -> Targets] : \A t \in Targets : \E i \in DOMAIN s : s[i] = t
FilesOf(r, t) ==
  LET sealed == Sealed(r.snapshot, r.builds[t])
  IN  [bundle |-> [name |-> Bundle(t, r.rebuild), bytes |-> sealed],
       bottle |-> [name |-> Bottle(t, r.rebuild), bytes |-> r.builds[t]],
       record |-> [name |-> Record(t, r.rebuild), bytes |-> sealed]]

(* Mutant: the bundle that makes a retry possible comes last. *)
FilesBundleLast(f) == <<f.bottle, f.record, f.bundle>>

(* publish_bottles, a target: the recovery bundle before its contents. *)
Files(f) == <<f.bundle, f.bottle, f.record>>

Published(r) ==
  LET bottles == 3 * Cardinality(Targets)
  IN  [i \in 1..(bottles + 2) |->
         CASE i <= bottles -> Files(FilesOf(r, Order[((i - 1) \div 3) + 1]))[((i - 1) % 3) + 1]
           [] i = bottles + 1 -> [name |-> Final(r.rebuild), bytes |-> Merged(r)]
           [] i = bottles + 2 -> [name |-> Publication(r.rebuild), bytes |-> Merged(r)]]

PublishBottles ==
  /\ active # 0 /\ run.step = "publish"
  /\ LET files == Published(run)
     IN  IF run.uploaded = Len(files) THEN Step("verify") /\ Goes /\ UNCHANGED assets
         ELSE Upload(run.version, files[run.uploaded + 1].name, files[run.uploaded + 1].bytes)
  /\ UNCHANGED <<tap, fresh, faults>>

(* verify: the formula is installed from the published bottles; brew checks*)
(* what it downloads.                                                      *)
Verify(t) ==
  /\ active # 0 /\ run.step = "verify" /\ t \notin run.verified
  /\ IF Bytes(run.version, Bottle(t, run.rebuild)) = run.builds[t]
     THEN Set([run EXCEPT !.verified = @ \cup {t}]) /\ Goes ELSE Dies
  /\ UNCHANGED <<assets, tap, fresh, faults>>

-----------------------------------------------------------------------------
(* The tap *)

(* publish_tap: every target passed (require_all_targets), and the assets  *)
(* are compared once more.                                                 *)
PublishTap ==
  /\ active # 0 /\ run.step = "verify" /\ run.verified = Targets
  /\ LET files == Published(run)
     IN  IF \A i \in DOMAIN files : Accepts(run.version, files[i].name, files[i].bytes)
         THEN Step("fetch") /\ Goes ELSE Dies
  /\ UNCHANGED <<assets, tap, fresh, faults>>

(* _write_and_push refuses to replace a newer version or rebuild. *)
Newer(f, g) == f.version > g.version \/ (f.version = g.version /\ f.rebuild > g.rebuild)

(* update_tap: a detached worktree of the fetched tip; equal content ends. *)
Fetch ==
  /\ active # 0 /\ run.step = "fetch"
  /\ IF tap.stable = Merged(run) THEN Step("done") /\ active' = 0
     ELSE IF Newer(tap.stable, Merged(run)) THEN Dies
     ELSE Set([run EXCEPT !.step = "push", !.seen = tap]) /\ Goes
  /\ UNCHANGED <<assets, tap, fresh, faults>>

(* Mutant: a push that does not insist on the fetched tip. *)
FastForwardAny(seen) == TRUE

(* git push: refused when the tip has moved on since the fetch. *)
FastForward(seen) == seen.commit = tap.commit

(* The commit holds the fetched tree with one formula replaced.  A push    *)
(* whose answer says it failed is followed by another fetch, a few times.  *)
Push ==
  /\ active # 0 /\ run.step = "push"
  /\ \E answered \in BOOLEAN :
       /\ answered \/ faults < MaxFaults
       /\ LET done == FastForward(run.seen) /\ answered
          IN  /\ tap' = IF FastForward(run.seen)
                        THEN [run.seen EXCEPT !.commit = tap.commit + 1, !.stable = Merged(run)] ELSE tap
              /\ faults' = IF answered THEN faults ELSE faults + 1
              /\ IF done THEN Set([run EXCEPT !.step = "done", !.seen = 0]) /\ active' = 0
                 ELSE IF run.pushes + 1 < Attempts
                      THEN Set([run EXCEPT !.step = "fetch", !.seen = 0, !.pushes = @ + 1]) /\ Goes
                 ELSE runs' = [runs EXCEPT ![active].step = "verify", ![active].seen = 0, ![active].pushes = 0]
                      /\ active' = 0
  /\ UNCHANGED <<assets, fresh>>

(* homebrew_preview pushes the preview formula of a pull request the same  *)
(* way.                                                                    *)
PreviewPush ==
  /\ faults < MaxFaults /\ faults' = faults + 1
  /\ tap' = [tap EXCEPT !.commit = @ + 1, !.preview = @ + 1]
  /\ UNCHANGED <<assets, runs, active, fresh>>

-----------------------------------------------------------------------------
(* Runs *)

(* One run at a time holds the concurrency group. *)
Dispatch ==
  /\ active = 0 /\ Len(runs) < MaxRuns
  /\ \E v \in Versions, r \in Rebuilds : runs' = Append(runs, NewRun(v, r))
  /\ active' = Len(runs) + 1
  /\ UNCHANGED <<assets, tap, fresh, faults>>
RerunFailedJobs ==
  /\ active = 0
  /\ \E n \in DOMAIN runs :
       /\ runs[n].step # "done" /\ active' = n
       /\ runs' = [runs EXCEPT ![n].seen = 0, ![n].step = IF @ \in {"fetch", "push"} THEN "verify" ELSE @]
  /\ UNCHANGED <<assets, tap, fresh, faults>>
Crash ==
  /\ active # 0 /\ faults < MaxFaults /\ faults' = faults + 1 /\ Dies
  /\ UNCHANGED <<assets, tap, fresh>>

NoFormula == [version |-> 0, rebuild |-> 0, snapshot |-> 0, bottles |-> [t \in Targets |-> 0]]
Init ==
  /\ assets = {} /\ runs = <<>> /\ active = 0 /\ fresh = 0 /\ faults = 0
  /\ tap = [commit |-> 0, stable |-> NoFormula, preview |-> 0]

Next ==
  \/ Prepare \/ PreserveSnapshot \/ Merge \/ PublishBottles \/ PublishTap \/ Fetch \/ Push
  \/ \E t \in Targets : Build(t) \/ Verify(t)
  \/ PreviewPush \/ Dispatch \/ RerunFailedJobs \/ Crash

Spec == Init /\ [][Next]_vars

-----------------------------------------------------------------------------
(* Properties *)

(* The formula in the tap names the bottles that are published: for every  *)
(* platform the asset behind its URL has the bytes of its checksum, from   *)
(* whichever run, resumed or replaced, it was built.                       *)
TapServesBottles ==
  tap.stable # NoFormula =>
    \A t \in Targets :
      /\ Bottle(t, tap.stable.rebuild) \in Names(tap.stable.version)
      /\ Bytes(tap.stable.version, Bottle(t, tap.stable.rebuild)) = tap.stable.bottles[t]

(* Wherever a run died, a new run for the version gets past it: what was   *)
(* published is consistent with the preserved snapshot and can be restored,*)
(* so no file of the new run meets other bytes under its name.             *)
RetryCanFinish ==
  \A v \in Versions, r \in Rebuilds, t \in Targets :
    /\ Metadata \in Names(v) => Formula \in Names(v) /\ Bytes(v, Metadata) = Bytes(v, Formula)
    /\ Bundle(t, r) \in Names(v) => Formula \in Names(v) /\ Bytes(v, Bundle(t, r)).snapshot = Bytes(v, Formula)
    /\ Record(t, r) \in Names(v) => Bundle(t, r) \in Names(v) /\ Bytes(v, Record(t, r)) = Bytes(v, Bundle(t, r))
    /\ Bottle(t, r) \in Names(v) => Bundle(t, r) \in Names(v) /\ Bytes(v, Bottle(t, r)) = Bytes(v, Bundle(t, r)).bottle

(* The tap only moves forward: no run replaces a newer version or rebuild, *)
(* and none undoes a preview that was pushed while it was at work.         *)
TapForward == ~Newer(tap.stable, tap'.stable) /\ tap'.preview >= tap.preview
TapMovesForward == [][TapForward]_vars
=============================================================================
