-------------------------------- MODULE Release --------------------------------
(***************************************************************************)
(* The release of one version of the libraries (scripts, workflows).  The  *)
(* workflow "Stage release" builds all packages from the head of main and  *)
(* stages them on npm; the maintainer approves each of them there; the     *)
(* workflow "Finalize release" verifies what was published against the     *)
(* artifact of the staging run, and creates the tag and the GitHub release.*)
(*                                                                         *)
(* The concurrency group "npm-release" runs one workflow at a time, but    *)
(* the maintainer, npm and whoever may push a tag act between any two of   *)
(* its requests.  A job that fails can be run again.                       *)
(***************************************************************************)
EXTENDS Naturals, Sequences

CONSTANTS
  Runs,         \* runs of "Stage release"
  Packages,     \* the packages, a sequence in the order of dependencies
  Commits,      \* commits of main with this version
  Builds,       \* outcomes of a build: another one has other bytes
  none,         \* no commit or tag
  MaxJobs,      \* job attempts with which a run can still be finalized
  AllJobs,      \* jobs of an attempt of "Stage release"
  FailedJobs,   \* jobs that "Re-run failed jobs" adds
  BeyondMax,    \* TRUE: also a run of more than MaxJobs is repeated
  MaxFailures,  \* bound on requests that fail, or whose answer is lost
  MaxRejects,   \* bound on stages that the maintainer rejects
  ManualTags    \* commits to which somebody might push the tag by hand

ASSUME ConstantsAssumption ==
  /\ Runs # {} /\ Builds # {}
  /\ Packages \in Seq(STRING) /\ Packages # <<>>
  /\ none \notin Commits
  /\ MaxJobs \in Nat /\ AllJobs \in Nat /\ FailedJobs \in Nat
  /\ BeyondMax \in BOOLEAN
  /\ MaxFailures \in Nat /\ MaxRejects \in Nat
  /\ none \notin ManualTags

VARIABLES
  commit, build,  \* of each run: its source, and the build in its artifact
  dryRun,         \* of each run: started without "Stage on npm"
  conclusion,     \* of the last attempt of each run
  jobs,           \* job attempts of each run, counted up to MaxJobs + 1
  hasty,          \* runs repeated in full, or attempted before npm had settled
  stagedOnce,     \* runs of which a job "stage" succeeded, in some attempt
  resolved,       \* runs for which a finalization got past its first job
  job,            \* the job that runs
  pending,        \* what is staged on npm for each package
  published,      \* what is published on npm for each package
  propagated,     \* published packages that a lookup is sure to find
  tag,            \* the commit of the tag
  release,        \* the GitHub release exists
  rejects,        \* packages whose stage was rejected, in order
  failures        \* failures so far

vars == <<commit, build, dryRun, conclusion, jobs, hasty, stagedOnce,
          resolved, job, pending,
          published, propagated, tag, release, rejects, failures>>

attempts == <<jobs, hasty>>
runVars == <<commit, build, dryRun, conclusion, attempts, stagedOnce, resolved>>
npm     == <<pending, published, propagated, rejects>>
github  == <<tag, release>>

Names == {Packages[i] : i \in DOMAIN Packages}
Artifacts == Commits \X Builds
Tags == Commits \cup ManualTags
NoArtifact == <<>>  \* no artifact
Steps == {"idle", "check", "checkRelease", "preflight", "stage",
          "verify", "getRef", "getRelease", "postRef", "postRelease"}
Jobs == [step : Steps, run : Runs, next : 1 .. Len(Packages), existing : SUBSET Names,
         ref : Tags \cup {none}, release : BOOLEAN]

AttemptsOK == jobs \in [Runs -> 0 .. MaxJobs + 1] /\ hasty \subseteq Runs

TypeOK ==
  /\ commit \in [Runs -> Commits \cup {none}]
  /\ build \in [Runs -> Builds]
  /\ dryRun \in [Runs -> BOOLEAN]
  /\ conclusion \in [Runs -> {"none", "success", "failure"}]
  /\ AttemptsOK
  /\ stagedOnce \subseteq {r \in Runs : commit[r] # none /\ ~ dryRun[r]}
  /\ resolved \subseteq stagedOnce
  /\ job \in Jobs
  /\ pending \in [Names -> Artifacts \cup {NoArtifact}]
  /\ published \in [Names -> Artifacts \cup {NoArtifact}]
  /\ \A p \in Names : pending[p] = NoArtifact \/ published[p] = NoArtifact
  /\ propagated \subseteq {p \in Names : published[p] # NoArtifact}
  /\ tag \in Tags \cup {none} /\ release \in BOOLEAN
  /\ rejects \in Seq(Names) /\ Len(rejects) <= MaxRejects
  /\ failures \in 0 .. MaxFailures

JobOf(r, step) == [step |-> step, run |-> r, next |-> 1, existing |-> {},
                   ref |-> none, release |-> FALSE]
NoJob == JobOf(CHOOSE r \in Runs : TRUE, "idle")

Init ==
  /\ commit = [r \in Runs |-> none]
  /\ build = [r \in Runs |-> CHOOSE b \in Builds : TRUE]
  /\ dryRun = [r \in Runs |-> FALSE]
  /\ conclusion = [r \in Runs |-> "none"]
  /\ jobs = [r \in Runs |-> 0] /\ hasty = {}
  /\ stagedOnce = {} /\ resolved = {}
  /\ job = NoJob
  /\ pending = [p \in Names |-> NoArtifact] /\ published = [p \in Names |-> NoArtifact]
  /\ propagated = {}
  /\ tag = none /\ release = FALSE
  /\ rejects = <<>> /\ failures = 0

-----------------------------------------------------------------------------
(* The jobs.                                                               *)

Idle == job.step = "idle"
Artifact(r) == <<commit[r], build[r]>>
Current == Packages[job.next]

Goto(step) == job' = [job EXCEPT !.step = step]

(* A job starts; a finalization has no conclusion that anything reads.     *)
Begin(r, step) == Idle /\ job' = JobOf(r, step)
Staging(r) == Begin(r, "check") /\ conclusion' = [conclusion EXCEPT ![r] = "none"]

InStaging == job.step \in {"check", "checkRelease", "preflight", "stage"}

(* An assertion or a request fails, or the runner dies: the job fails.     *)
JobFails ==
  /\ job' = NoJob
  /\ conclusion' = IF InStaging THEN [conclusion EXCEPT ![job.run] = "failure"]
                   ELSE conclusion

Fail == failures < MaxFailures /\ failures' = failures + 1

RequestFails ==
  /\ ~ Idle
  /\ Fail /\ JobFails
  /\ UNCHANGED <<commit, build, dryRun, attempts, stagedOnce, resolved, npm, github>>

Goes(step) == Goto(step) /\ UNCHANGED <<conclusion, failures>>
Stops == JobFails /\ UNCHANGED failures

-----------------------------------------------------------------------------
(* npm.  A lookup may miss what was published a moment ago.  A version is  *)
(* published once, and is not staged beside a stage or a publication.      *)
Lookup(p) == {published[p]} \cup IF p \in propagated THEN {} ELSE {NoArtifact}
Refuses(p) == pending[p] # NoArtifact \/ published[p] # NoArtifact

Propagate(p) ==
  /\ published[p] # NoArtifact /\ p \notin propagated
  /\ propagated' = propagated \cup {p}
  /\ UNCHANGED <<runVars, job, pending, published, rejects, github, failures>>

(* The maintainer approves or rejects a stage, whatever the jobs do.       *)
Approve(p) ==
  /\ pending[p] # NoArtifact
  /\ published' = [published EXCEPT ![p] = pending[p]]
  /\ pending' = [pending EXCEPT ![p] = NoArtifact]
  /\ UNCHANGED <<runVars, job, propagated, rejects, github, failures>>

Reject(p) ==
  /\ pending[p] # NoArtifact /\ Len(rejects) < MaxRejects
  /\ pending' = [pending EXCEPT ![p] = NoArtifact]
  /\ rejects' = Append(rejects, p)
  /\ UNCHANGED <<runVars, job, published, propagated, github, failures>>

(* Somebody pushes the tag.                                                *)
PushTag ==
  /\ tag = none /\ tag' \in ManualTags
  /\ UNCHANGED <<runVars, job, npm, release, failures>>

-----------------------------------------------------------------------------
(* The jobs of all attempts are counted.  An attempt is hasty while a stage*)
(* waits for the maintainer, or a publication for its propagation.         *)
Counted(r, n) ==
  jobs' = [jobs EXCEPT ![r] = IF @ + n <= MaxJobs THEN @ + n ELSE MaxJobs + 1]

Settled ==
  \A p \in Names : /\ pending[p] = NoArtifact
                   /\ published[p] = NoArtifact \/ p \in propagated

Hasty(r) == hasty' = hasty \cup IF Settled THEN {} ELSE {r}
MayRepeat(r) == BeyondMax \/ jobs[r] <= MaxJobs

(* "Stage release": a run starts and prepares its artifact; without "Stage *)
(* on npm" it ends with success and skips the job "stage".                 *)
Dispatch(r) ==
  /\ commit[r] = none
  /\ \E c \in Commits : commit' = [commit EXCEPT ![r] = c]
  /\ \E b \in Builds : build' = [build EXCEPT ![r] = b]
  /\ \/ Staging(r) /\ UNCHANGED dryRun
     \/ /\ Idle /\ UNCHANGED job
        /\ dryRun' = [dryRun EXCEPT ![r] = TRUE]
        /\ conclusion' = [conclusion EXCEPT ![r] = "success"]
  /\ Counted(r, AllJobs) /\ Hasty(r)
  /\ UNCHANGED <<stagedOnce, resolved, npm, github, failures>>

(* "Re-run failed jobs" keeps the artifact, "Re-run all jobs" builds anew. *)
RerunFailed(r) ==
  /\ conclusion[r] = "failure" /\ MayRepeat(r)
  /\ Staging(r)
  /\ Counted(r, FailedJobs) /\ Hasty(r)
  /\ UNCHANGED <<commit, build, dryRun, stagedOnce, resolved, npm, github, failures>>

RerunAll(r) ==
  /\ conclusion[r] # "none" /\ ~ dryRun[r] /\ MayRepeat(r)
  /\ Staging(r)
  /\ \E b \in Builds : build' = [build EXCEPT ![r] = b]
  /\ Counted(r, AllJobs) /\ hasty' = hasty \cup {r}
  /\ UNCHANGED <<commit, dryRun, stagedOnce, resolved, npm, github, failures>>

(* github-release.cjs check: a tag must be that of the commit, and a       *)
(* release must have a tag.                                                *)
CheckRef ==
  /\ job.step = "check"
  /\ IF tag \in {none, commit[job.run]}
     THEN /\ job' = [job EXCEPT !.ref = tag, !.step = "checkRelease"]
          /\ UNCHANGED <<conclusion, failures>>
     ELSE Stops
  /\ UNCHANGED <<commit, build, dryRun, attempts, stagedOnce, resolved, npm, github>>

CheckRelease ==
  /\ job.step = "checkRelease"
  /\ IF release => job.ref # none THEN Goes("preflight") ELSE Stops
  /\ UNCHANGED <<commit, build, dryRun, attempts, stagedOnce, resolved, npm, github>>

(* stagePackages: every version that exists is verified before any package *)
(* is staged.                                                              *)
Matches_SourceOnly(remote, r) == remote # NoArtifact /\ remote[1] = commit[r]
Matches(remote, r) == remote = Artifact(r)

NextPackage(lastStep, existing) ==
  job' = IF job.next < Len(Packages)
         THEN [job EXCEPT !.next = @ + 1, !.existing = existing]
         ELSE [job EXCEPT !.step = lastStep, !.next = 1, !.existing = existing]

Preflight ==
  /\ job.step = "preflight"
  /\ \E remote \in Lookup(Current) :
       IF remote = NoArtifact \/ Matches(remote, job.run)
       THEN /\ NextPackage("stage", job.existing \cup
                                    IF remote = NoArtifact THEN {} ELSE {Current})
            /\ UNCHANGED <<conclusion, failures>>
       ELSE Stops
  /\ UNCHANGED <<commit, build, dryRun, attempts, stagedOnce, resolved, npm, github>>

(* The job ends with the last package.                                     *)
Staged ==
  /\ IF job.next < Len(Packages)
     THEN NextPackage("stage", job.existing) /\ UNCHANGED <<conclusion, stagedOnce>>
     ELSE /\ job' = NoJob
          /\ conclusion' = [conclusion EXCEPT ![job.run] = "success"]
          /\ stagedOnce' = stagedOnce \cup {job.run}
  /\ UNCHANGED failures

(* Packages that the preflight found are skipped.                          *)
Skipped_None == {}
Skipped == job.existing

Skip ==
  /\ job.step = "stage" /\ Current \in Skipped
  /\ Staged
  /\ UNCHANGED <<commit, build, dryRun, attempts, resolved, npm, github>>

(* The others are staged.  That npm refuses one fails the job, as does an  *)
(* answer that is lost.                                                    *)
Refused_Ignored == Staged
Refused == Stops /\ UNCHANGED stagedOnce

Stage ==
  /\ job.step = "stage" /\ Current \notin Skipped
  /\ IF Refuses(Current) THEN Refused /\ UNCHANGED pending
     ELSE /\ pending' = [pending EXCEPT ![Current] = Artifact(job.run)]
          /\ Staged \/ (Fail /\ JobFails /\ UNCHANGED stagedOnce)
  /\ UNCHANGED <<commit, build, dryRun, attempts, resolved, published, propagated, rejects, github>>

-----------------------------------------------------------------------------
(* "Finalize release" of a run: the last attempt must have succeeded, and  *)
(* the job "stage" in one of them; a run of too many jobs is refused.      *)
Validated_NoJobs(r) == conclusion[r] = "success" /\ jobs[r] <= MaxJobs
Validated(r) == conclusion[r] = "success" /\ jobs[r] <= MaxJobs /\ r \in stagedOnce

Finalize(r) ==
  /\ Validated(r)
  /\ Begin(r, "verify")
  /\ resolved' = resolved \cup {r}
  /\ UNCHANGED <<commit, build, dryRun, conclusion, attempts, stagedOnce, npm, github, failures>>

(* Its second job is run again with what the first one resolved.           *)
RerunRelease(r) ==
  /\ r \in resolved
  /\ Begin(r, "verify")
  /\ UNCHANGED <<runVars, npm, github, failures>>

(* verifyPublishedPackages                                                 *)
Verify ==
  /\ job.step = "verify"
  /\ \E remote \in Lookup(Current) :
       IF Matches(remote, job.run)
       THEN NextPackage("getRef", {}) /\ UNCHANGED <<conclusion, failures>>
       ELSE Stops
  /\ UNCHANGED <<commit, build, dryRun, attempts, stagedOnce, resolved, npm, github>>

(* finalizeRelease                                                         *)
TagMatches_Not == TRUE
TagMatches == tag \in {none, commit[job.run]}

GetRef ==
  /\ job.step = "getRef"
  /\ IF TagMatches
     THEN /\ job' = [job EXCEPT !.ref = tag, !.step = "getRelease"]
          /\ UNCHANGED <<conclusion, failures>>
     ELSE Stops
  /\ UNCHANGED <<commit, build, dryRun, attempts, stagedOnce, resolved, npm, github>>

GetRelease ==
  /\ job.step = "getRelease"
  /\ IF release => job.ref # none
     THEN /\ job' = [job EXCEPT !.release = release,
                       !.step = IF job.ref = none THEN "postRef" ELSE "postRelease"]
          /\ UNCHANGED <<conclusion, failures>>
     ELSE Stops
  /\ UNCHANGED <<commit, build, dryRun, attempts, stagedOnce, resolved, npm, github>>

(* GitHub refuses a tag that exists.                                       *)
PostRef ==
  /\ job.step = "postRef"
  /\ IF tag # none THEN Stops /\ UNCHANGED tag
     ELSE /\ tag' = commit[job.run]
          /\ Goes("postRelease") \/ (Fail /\ JobFails)
  /\ UNCHANGED <<commit, build, dryRun, attempts, stagedOnce, resolved, npm, release>>

PostRelease ==
  /\ job.step = "postRelease"
  /\ release' = TRUE
  /\ job' = NoJob
  /\ UNCHANGED conclusion
  /\ UNCHANGED failures \/ (~ job.release /\ Fail)
  /\ UNCHANGED <<commit, build, dryRun, attempts, stagedOnce, resolved, npm, tag>>

-----------------------------------------------------------------------------
JobStep ==
  CheckRef \/ CheckRelease \/ Preflight \/ Skip \/ Stage
  \/ Verify \/ GetRef \/ GetRelease \/ PostRef \/ PostRelease

Next ==
  \/ JobStep \/ RequestFails \/ PushTag
  \/ \E r \in Runs :
       Dispatch(r) \/ RerunFailed(r) \/ RerunAll(r) \/ Finalize(r) \/ RerunRelease(r)
  \/ \E p \in Names : Propagate(p) \/ Approve(p) \/ Reject(p)

Spec == Init /\ [][Next]_vars

(* The maintainer follows the documentation: approves what is staged, runs *)
(* failed jobs again, and finalizes what was staged.  These are enabled    *)
(* only between jobs, hence the strong fairness.                           *)
FairSpec ==
  /\ Spec
  /\ WF_vars(JobStep)
  /\ WF_vars(\E p \in Names : Approve(p)) /\ WF_vars(\E p \in Names : Propagate(p))
  /\ SF_vars(\E r \in Runs : RerunFailed(r)) /\ SF_vars(\E r \in Runs : Finalize(r))

-----------------------------------------------------------------------------
(* Properties.                                                             *)

(* "verifies every published package's integrity and source commit. Only   *)
(* then does it create the tag and the GitHub release": the packages of a  *)
(* release are all published, from one build of the commit of its tag,     *)
(* although runs of several commits and builds staged them.                *)
ReleaseSound ==
  release => tag # none /\ \E b \in Builds : \A p \in Names : published[p] = <<tag, b>>

(* "Finalization rejects dry runs, unsuccessful runs": the source of a     *)
(* release was staged by a run of which the job "stage" succeeded.         *)
ReleaseFromStagedRun ==
  release => \E r \in stagedOnce : commit[r] = tag

(* "Never treat a staging conflict or ambiguous network failure as         *)
(* success": when a staging job succeeds, each package of its artifact is  *)
(* staged or published, or the maintainer rejected a stage of it.          *)
Rejected(p) == \E i \in DOMAIN rejects : rejects[i] = p
Placed(p, a) == Rejected(p) \/ pending[p] = a \/ published[p] = a
JobSucceeds(r) == conclusion[r] # "success" /\ conclusion'[r] = "success" /\ ~ dryRun'[r]
StagedTruthfully ==
  \A r \in Runs : JobSucceeds(r) => \A p \in Names : Placed(p, Artifact(r))'
StageTruthful == [][StagedTruthfully]_vars

(* "approve only those matching the original artifact, then retry": a      *)
(* staging run that failed anywhere, or whose finalization failed, ends in *)
(* a release, unless another artifact, a rejection or another tag is in    *)
(* its way, or it was repeated needlessly until its jobs were too many: one*)
(* that waits for npm before each attempt does not come to have too many.  *)
Conflict(r) ==
  \/ tag \notin {none, commit[r]} \/ rejects # <<>>
  \/ \E p \in Names : published[p] \notin {NoArtifact, Artifact(r)}
Exhausted(r) == r \in hasty /\ jobs[r] > MaxJobs
Started(r) == commit[r] # none /\ ~ dryRun[r]
Recovers ==
  (\E r \in Runs : Started(r))
    ~> release \/ \A r \in Runs : Started(r) => Conflict(r) \/ Exhausted(r)

-----------------------------------------------------------------------------
(* The inductive invariant.                                                *)

(* Jobs and conclusions belong to runs that were dispatched, and jobs of   *)
(* the stage to runs that stage.                                           *)
JobInv ==
  /\ ~ Idle => commit[job.run] # none
  /\ InStaging => ~ dryRun[job.run]
  /\ \A r \in Runs : conclusion[r] # "none" \/ dryRun[r] => commit[r] # none
  /\ \A r \in Runs : conclusion[r] = "failure" => ~ dryRun[r]

(* How far a staging job has come: what its preflight found is published,  *)
(* and what lies behind it is placed.                                      *)
StagingInv ==
  /\ InStaging => \A p \in job.existing : published[p] = Artifact(job.run)
  /\ job.step = "stage" =>
       \A i \in 1 .. Len(Packages) : i < job.next => Placed(Packages[i], Artifact(job.run))

(* How far a finalization has come: the packages behind it are published,  *)
(* later all of them, and the tag it found or created is its own.          *)
Verified == {"getRef", "getRelease", "postRef", "postRelease"}
FinalizingInv ==
  /\ job.step \in {"verify"} \cup Verified => job.run \in resolved
  /\ job.step = "verify" =>
       \A i \in 1 .. Len(Packages) : i < job.next => published[Packages[i]] = Artifact(job.run)
  /\ job.step \in Verified => \A p \in Names : published[p] = Artifact(job.run)
  /\ job.step = "getRelease" /\ job.ref # none => tag = commit[job.run]
  /\ job.step = "postRelease" => tag = commit[job.run]

(* The conjunction that every step preserves: what the jobs in the middle  *)
(* of their loops rely on, and what a release has once it exists.          *)
ReleaseInv ==
  TypeOK /\ JobInv /\ StagingInv /\ FinalizingInv /\ ReleaseSound /\ ReleaseFromStagedRun
=============================================================================
