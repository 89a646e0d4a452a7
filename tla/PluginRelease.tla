---------------------------- MODULE PluginRelease ----------------------------
(***************************************************************************)
(* The other publications of a release (.github/workflows/release.yml):    *)
(* the tag, the files on PyPI (scripts/release/pypi_reconcile.py) and the  *)
(* plugin bundle, as assets of the release and as the tip of the           *)
(* marketplace branch (plugin_release.py), with the recovery workflow that *)
(* publishes the assets of an older version again.  Jobs die, answers get  *)
(* lost, PyPI shows a file some time after its upload, main moves on.      *)
(***************************************************************************)
EXTENDS Naturals, Sequences, FiniteSets

CONSTANTS
  MaxVersion,   \* bound on versions
  Attempts,     \* attempts of publish_git
  MaxRuns,      \* bound on workflow runs
  MaxFaults     \* bound on dying jobs, lost answers and commits to main

PluginAssumption ==
  MaxVersion \in Nat /\ Attempts \in Nat \ {0} /\ MaxRuns \in Nat /\ MaxFaults \in Nat

VARIABLES
  main,     \* tip of main
  tags,     \* commit of each released version, in their order
  pypi,     \* files on PyPI, with the run that built them
  shown,    \* those its JSON API shows already
  assets,   \* plugin assets of the releases, with the run that built them
  branch,   \* tip of the marketplace branch
  runs,     \* workflow runs, in the order of their dispatch
  faults

vars == <<main, tags, pypi, shown, assets, branch, runs, faults>>

Archives == {"wheel", "sdist"}
File(v, name, n) == [version |-> v, name |-> name, built |-> n]

(* asset_names *)
AssetNames == <<"archive", "checksum", "receipt">>

NewRun(kind, v) ==
  [kind |-> kind, state |-> "active", step |-> IF kind = "release" THEN "verify" ELSE "wait",
   version |-> v, built |-> 0, main |-> main, missing |-> {}, uploaded |-> 0, parent |-> 0, tries |-> 0]

(* release-main and plugin-marketplace-publication: concurrency groups. *)
Grouped == {"assets", "git", "push", "remote"}
Active(n) == runs[n].state = "active"
GroupFree == ~\E n \in DOMAIN runs : Active(n) /\ runs[n].step \in Grouped
Set(n, run) == runs' = [runs EXCEPT ![n] = run]
Step(n, s) == Set(n, [runs[n] EXCEPT !.step = s])
Fails(n) == Set(n, [runs[n] EXCEPT !.state = "failed"])
At(n, s) == Active(n) /\ runs[n].step = s
Fault == faults < MaxFaults /\ faults' = faults + 1

(* check-main.sh: the candidate still is the tip of main. *)
CheckMain(n) == runs[n].main = main

-----------------------------------------------------------------------------
(* verify and publish *)

(* The plan is the version after the last release, if main has moved since;*)
(* the bytes built here are handed to every later job (handoff).           *)
VerifyJob(n) ==
  /\ At(n, "verify")
  /\ IF /\ CheckMain(n) /\ Len(tags) < MaxVersion
        /\ \A v \in DOMAIN tags : tags[v] # main
     THEN Set(n, [runs[n] EXCEPT !.step = "publish", !.version = Len(tags) + 1, !.built = n])
     ELSE Set(n, [runs[n] EXCEPT !.state = "done"])
  /\ UNCHANGED <<main, tags, pypi, shown, assets, branch, faults>>

(* engine.mjs publish: the release of the plan, unless it is stale; a job  *)
(* that dies after it finds its plan stale when it is run again.           *)
PublishJob(n) ==
  /\ At(n, "publish")
  /\ IF CheckMain(n) /\ Len(tags) + 1 = runs[n].version
     THEN /\ tags' = Append(tags, main)
          /\ \/ Step(n, "stage") /\ UNCHANGED faults
             \/ Fails(n) /\ Fault
     ELSE Fails(n) /\ UNCHANGED <<tags, faults>>
  /\ UNCHANGED <<main, pypi, shown, assets, branch>>

-----------------------------------------------------------------------------
(* PyPI *)

(* published_files, reconcile: nothing is staged over other bytes. *)
Remote(v) == {f \in shown : f.version = v}
Conflict(n) == \E f \in Remote(runs[n].version) : f.built # runs[n].built
MissingFiles(n) == Archives \ {f.name : f \in Remote(runs[n].version)}

Stage(n) ==
  /\ At(n, "stage")
  /\ IF Conflict(n) \/ ~CheckMain(n) THEN Fails(n)
     ELSE Set(n, [runs[n] EXCEPT !.step = "upload", !.missing = MissingFiles(n)])
  /\ UNCHANGED <<main, tags, pypi, shown, assets, branch, faults>>

(* The publishing action sends the staged files; PyPI refuses a file it has.*)
UploadFile(n) ==
  /\ At(n, "upload")
  /\ IF runs[n].missing = {} THEN Step(n, "confirm") /\ UNCHANGED pypi
     ELSE \E name \in runs[n].missing :
            IF \E f \in pypi : f.version = runs[n].version /\ f.name = name
            THEN Fails(n) /\ UNCHANGED pypi
            ELSE /\ pypi' = pypi \cup {File(runs[n].version, name, runs[n].built)}
                 /\ Set(n, [runs[n] EXCEPT !.missing = @ \ {name}])
  /\ UNCHANGED <<main, tags, shown, assets, branch, faults>>

(* A job that fails is run again from its first step. *)
Confirm(n) ==
  /\ At(n, "confirm")
  /\ IF Conflict(n) \/ MissingFiles(n) # {} THEN Set(n, [runs[n] EXCEPT !.state = "failed", !.step = "stage"])
     ELSE Step(n, "wait")
  /\ UNCHANGED <<main, tags, pypi, shown, assets, branch, faults>>

-----------------------------------------------------------------------------
(* The plugin *)

Assets(v) == {a \in assets : a.version = v}

(* Mutant: the branch is pushed before the assets are uploaded. *)
PhasesGitFirst == <<"git", "assets">>

(* publish: the assets first, then the branch. *)
Phases == <<"assets", "git">>

After(phase) == IF Phases[1] = phase THEN Phases[2] ELSE "end"
To(run, s) == IF s = "end" THEN [run EXCEPT !.state = "done"] ELSE [run EXCEPT !.step = s]

(* The group is taken; recover needs the release and all three assets, and *)
(* never builds (require_release, PluginAssets.names).                     *)
Begin(n) ==
  /\ At(n, "wait") /\ GroupFree
  /\ LET v == runs[n].version
     IN  IF runs[n].kind = "release"
         THEN IF CheckMain(n) THEN Step(n, Phases[1]) ELSE Fails(n)
         ELSE IF v \in DOMAIN tags /\ {a.name : a \in Assets(v)} = {AssetNames[i] : i \in 1..3}
              THEN Set(n, [runs[n] EXCEPT !.step = Phases[1], !.built = (CHOOSE a \in Assets(v) : TRUE).built])
              ELSE Fails(n)
  /\ UNCHANGED <<main, tags, pypi, shown, assets, branch, faults>>

(* upload_verified: a missing asset is uploaded; when the answer is lost   *)
(* the names are read again; an asset that exists must have these bytes.   *)
UploadAsset(n) ==
  /\ At(n, "assets")
  /\ LET v == runs[n].version
         name == AssetNames[runs[n].uploaded + 1]
         present == {a \in Assets(v) : a.name = name}
     IN  IF runs[n].uploaded = 3
         THEN Set(n, To([runs[n] EXCEPT !.uploaded = 0], After("assets"))) /\ UNCHANGED <<assets, faults>>
         ELSE IF present # {}
         THEN /\ IF present = {File(v, name, runs[n].built)}
                 THEN Set(n, [runs[n] EXCEPT !.uploaded = @ + 1]) ELSE Fails(n)
              /\ UNCHANGED <<assets, faults>>
         ELSE \/ /\ assets' = assets \cup {File(v, name, runs[n].built)}
                 /\ Set(n, [runs[n] EXCEPT !.uploaded = @ + 1]) /\ UNCHANGED faults
              \/ Fails(n) /\ Fault /\ UNCHANGED assets
  /\ UNCHANGED <<main, tags, pypi, shown, branch>>

(* Mutant: only the same version is told apart. *)
PolicyAlways(v, built) ==
  CASE branch.version # v -> "publish"
    [] branch.built = built -> "unchanged"
    [] OTHER -> "diverges"

(* publication_policy *)
Policy(v, built) ==
  CASE branch.version < v -> "publish"
    [] branch.version > v -> "superseded"
    [] branch.built = built -> "unchanged"
    [] OTHER -> "diverges"

(* publish_git: what the fetched tip asks for. *)
GitFetch(n) ==
  /\ At(n, "git")
  /\ LET decision == Policy(runs[n].version, runs[n].built)
     IN  CASE decision = "publish" -> Set(n, [runs[n] EXCEPT !.step = "push", !.parent = branch.commit])
           [] decision = "superseded" -> Set(n, To(runs[n], After("git")))
           [] decision = "unchanged" -> Set(n, [runs[n] EXCEPT !.step = "remote", !.parent = branch.commit])
           [] decision = "diverges" -> Fails(n)
  /\ UNCHANGED <<main, tags, pypi, shown, assets, branch, faults>>

(* A push that was refused or not answered is decided by another fetch. *)
GitPush(n) ==
  /\ At(n, "push")
  /\ LET lands == runs[n].parent = branch.commit
         again == IF runs[n].tries + 1 < Attempts
                  THEN [runs[n] EXCEPT !.step = "git", !.tries = @ + 1]
                  ELSE [runs[n] EXCEPT !.step = "git", !.tries = 0, !.state = "failed"]
     IN  /\ branch' = IF lands THEN [commit |-> branch.commit + 1, version |-> runs[n].version, built |-> runs[n].built]
                      ELSE branch
         /\ \/ lands /\ Set(n, [runs[n] EXCEPT !.step = "remote", !.parent = branch.commit + 1]) /\ UNCHANGED faults
            \/ ~lands /\ Set(n, again) /\ UNCHANGED faults
            \/ lands /\ Set(n, again) /\ Fault
  /\ UNCHANGED <<main, tags, pypi, shown, assets>>

(* verify_remote: the tip is the pushed commit with the bundle's tree. *)
VerifyRemote(n) ==
  /\ At(n, "remote")
  /\ IF branch.commit = runs[n].parent /\ branch.built = runs[n].built
     THEN Set(n, To(runs[n], After("git"))) ELSE Fails(n)
  /\ UNCHANGED <<main, tags, pypi, shown, assets, branch, faults>>

-----------------------------------------------------------------------------
(* Runs and their surroundings *)

Dispatch ==
  /\ Len(runs) < MaxRuns
  /\ \/ ~(\E n \in DOMAIN runs : runs[n].kind = "release" /\ Active(n)) /\ runs' = Append(runs, NewRun("release", 0))
     \/ \E v \in 1..MaxVersion : runs' = Append(runs, NewRun("recover", v))
  /\ UNCHANGED <<main, tags, pypi, shown, assets, branch, faults>>

(* Failed jobs are run again from their first step. *)
JobOf(step) ==
  CASE step \in {"stage", "upload", "confirm"} -> "stage"
    [] step \in {"wait"} \cup Grouped -> "wait"
    [] OTHER -> step
RerunFailedJobs(n) ==
  /\ runs[n].state = "failed"
  /\ runs[n].kind = "release" => ~\E k \in DOMAIN runs : runs[k].kind = "release" /\ Active(k)
  /\ Set(n, [runs[n] EXCEPT !.state = "active", !.step = JobOf(@), !.uploaded = 0, !.tries = 0, !.missing = {}])
  /\ UNCHANGED <<main, tags, pypi, shown, assets, branch, faults>>
Crash(n) ==
  /\ Active(n) /\ Fails(n) /\ Fault
  /\ UNCHANGED <<main, tags, pypi, shown, assets, branch>>
MainMoves ==
  /\ Fault /\ main' = main + 1
  /\ UNCHANGED <<tags, pypi, shown, assets, branch, runs>>
Show ==
  /\ shown # pypi /\ shown' = pypi
  /\ UNCHANGED <<main, tags, pypi, assets, branch, runs, faults>>

Init ==
  /\ main = 1 /\ tags = <<>> /\ pypi = {} /\ shown = {} /\ assets = {}
  /\ branch = [commit |-> 0, version |-> 0, built |-> 0]
  /\ runs = <<>> /\ faults = 0

Next ==
  \/ Dispatch \/ MainMoves \/ Show
  \/ \E n \in DOMAIN runs :
       \/ VerifyJob(n) \/ PublishJob(n) \/ Stage(n) \/ UploadFile(n) \/ Confirm(n)
       \/ Begin(n) \/ UploadAsset(n) \/ GitFetch(n) \/ GitPush(n) \/ VerifyRemote(n)
       \/ RerunFailedJobs(n) \/ Crash(n)

Spec == Init /\ [][Next]_vars

-----------------------------------------------------------------------------
(* Properties *)

(* Neither a recovery of an older version nor a resumed run takes the      *)
(* marketplace back, and no version's bundle is replaced by another's.     *)
MarketplaceForward ==
  branch'.version >= branch.version /\ (branch'.version = branch.version => branch'.built = branch.built)
MarketplaceMovesForward == [][MarketplaceForward]_vars

(* The advertised version can be installed and recovered: its runtime is   *)
(* complete on PyPI and its three assets are the bundle on the branch.     *)
AdvertisedIsRecoverable ==
  branch.version # 0 =>
    /\ {f \in pypi : f.version = branch.version} = {File(branch.version, name, branch.built) : name \in Archives}
    /\ Assets(branch.version) = {File(branch.version, AssetNames[i], branch.built) : i \in 1..3}
=============================================================================
