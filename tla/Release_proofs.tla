---------------------------- MODULE Release_proofs ----------------------------
(***************************************************************************)
(* Proofs about Release, for every number of packages, staging runs,       *)
(* commits and builds, and of failures, rejections and tags pushed by hand.*)
(***************************************************************************)
EXTENDS Release, TLAPS

LEMMA PackagesType ==
  /\ Len(Packages) \in Nat /\ Len(Packages) > 0
  /\ \A i \in 1 .. Len(Packages) : Packages[i] \in Names
  /\ \A p \in Names : \E i \in 1 .. Len(Packages) : p = Packages[i]
  BY ConstantsAssumption DEF Names

LEMMA NoJobType == NoJob \in Jobs /\ NoJob.step = "idle"
  BY ConstantsAssumption, PackagesType DEF NoJob, JobOf, Jobs, Steps

LEMMA JobOfType ==
  ASSUME NEW r \in Runs, NEW step \in Steps
  PROVE  /\ JobOf(r, step) \in Jobs
         /\ JobOf(r, step).step = step /\ JobOf(r, step).run = r
         /\ JobOf(r, step).next = 1 /\ JobOf(r, step).existing = {}
  BY PackagesType DEF JobOf, Jobs

LEMMA GotoType ==
  ASSUME job \in Jobs, NEW step \in Steps, Goto(step)
  PROVE  job' \in Jobs /\ job' = [job EXCEPT !.step = step]
  BY DEF Goto, Jobs

(* The loops over the packages go on, or end behind the last one.          *)
LEMMA NextPackageType ==
  ASSUME job \in Jobs, NEW step \in Steps, NEW existing \in SUBSET Names,
         NextPackage(step, existing)
  PROVE  /\ job' \in Jobs /\ job'.run = job.run /\ job'.existing = existing
         /\ job.next < Len(Packages) => job'.step = job.step /\ job'.next = job.next + 1
         /\ job.next >= Len(Packages) => job'.step = step /\ job'.next = 1
  <1>1. job.next \in 1 .. Len(Packages)
    BY DEF Jobs
  <1>2. CASE job.next < Len(Packages)
    <2>1. job.next + 1 \in 1 .. Len(Packages)
      BY <1>1, <1>2, PackagesType
    <2>2. job' = [job EXCEPT !.next = @ + 1, !.existing = existing]
      BY <1>2 DEF NextPackage
    <2>3. ~ job.next >= Len(Packages)
      BY <1>1, <1>2, PackagesType
    <2> QED BY <2>1, <2>2, <2>3 DEF Jobs
  <1>3. CASE ~ job.next < Len(Packages)
    <2>1. job' = [job EXCEPT !.step = step, !.next = 1, !.existing = existing]
      BY <1>3 DEF NextPackage
    <2>2. 1 \in 1 .. Len(Packages)
      BY PackagesType
    <2> QED BY <1>1, <1>3, <2>1, <2>2, PackagesType DEF Jobs
  <1> QED BY <1>2, <1>3

LEMMA JobFailsType ==
  ASSUME TypeOK, JobInv, ~ Idle, JobFails, commit' = commit, dryRun' = dryRun
  PROVE  /\ job' = NoJob /\ job' \in Jobs
         /\ conclusion' \in [Runs -> {"none", "success", "failure"}]
         /\ JobInv'
  <1>1. job' = NoJob /\ job'.step = "idle" /\ job.run \in Runs
    BY NoJobType DEF JobFails, TypeOK, Jobs
  <1>2. CASE InStaging
    BY <1>1, <1>2, NoJobType DEF JobFails, TypeOK, JobInv, InStaging, Idle
  <1>3. CASE ~ InStaging
    BY <1>1, <1>3, NoJobType DEF JobFails, TypeOK, JobInv, InStaging, Idle
  <1> QED BY <1>2, <1>3

LEMMA CurrentType == TypeOK => Current \in Names
  BY PackagesType DEF TypeOK, Jobs, Current

LEMMA ArtifactType ==
  ASSUME TypeOK, NEW r \in Runs, commit[r] # none
  PROVE  Artifact(r) \in Artifacts
  BY DEF TypeOK, Artifact, Artifacts

(* The attempts of a run are counted up to MaxJobs + 1.                    *)
LEMMA CountedType ==
  ASSUME AttemptsOK, NEW r \in Runs, NEW n \in Nat, Counted(r, n)
  PROVE  jobs' \in [Runs -> 0 .. MaxJobs + 1]
  <1>1. /\ MaxJobs \in Nat /\ jobs[r] \in Nat
        /\ jobs' = [jobs EXCEPT ![r] = IF jobs[r] + n <= MaxJobs THEN jobs[r] + n
                                      ELSE MaxJobs + 1]
    BY ConstantsAssumption DEF Counted, AttemptsOK
  <1>2. (IF jobs[r] + n <= MaxJobs THEN jobs[r] + n ELSE MaxJobs + 1) \in 0 .. MaxJobs + 1
    BY <1>1
  <1> QED BY <1>1, <1>2 DEF AttemptsOK

LEMMA AttemptsStep == AttemptsOK /\ [Next]_vars => AttemptsOK'
  <1> SUFFICES ASSUME AttemptsOK, [Next]_vars PROVE AttemptsOK'
    OBVIOUS
  <1>1. ASSUME NEW r \in Runs, Dispatch(r) \/ RerunFailed(r) \/ RerunAll(r)
        PROVE  AttemptsOK'
    <2>1. \E n \in Nat : Counted(r, n)
      BY <1>1, ConstantsAssumption DEF Dispatch, RerunFailed, RerunAll
    <2>2. hasty' \subseteq Runs
      BY <1>1 DEF Dispatch, RerunFailed, RerunAll, Hasty, AttemptsOK
    <2> QED BY <2>1, <2>2, CountedType DEF AttemptsOK
  <1>2. CASE UNCHANGED attempts
    BY <1>2 DEF attempts, AttemptsOK
  <1>3. CASE JobStep
    BY <1>2, <1>3
    DEF JobStep, CheckRef, CheckRelease, Preflight, Skip, Stage, Verify, GetRef,
        GetRelease, PostRef, PostRelease
  <1>4. CASE RequestFails \/ PushTag
    BY <1>2, <1>4 DEF RequestFails, PushTag, runVars
  <1>5. CASE \E r \in Runs : Finalize(r) \/ RerunRelease(r)
    BY <1>2, <1>5 DEF Finalize, RerunRelease, runVars
  <1>6. CASE \E p \in Names : Propagate(p) \/ Approve(p) \/ Reject(p)
    BY <1>2, <1>6 DEF Propagate, Approve, Reject, runVars
  <1>7. CASE UNCHANGED vars
    BY <1>2, <1>7 DEF vars, attempts
  <1> QED BY <1>1, <1>3, <1>4, <1>5, <1>6, <1>7 DEF Next

(* Every variable keeps its type, and jobs belong to dispatched runs.      *)
LEMMA TypeStep == TypeOK /\ JobInv /\ [Next]_vars => TypeOK' /\ JobInv'
  <1> SUFFICES ASSUME TypeOK, JobInv, [Next]_vars, AttemptsOK' PROVE TypeOK' /\ JobInv'
    BY AttemptsStep DEF TypeOK
  <1> USE ConstantsAssumption
  <1>1. CASE CheckRef
    <2>1. CASE tag \in {none, commit[job.run]}
      <3>1. job' = [job EXCEPT !.ref = tag, !.step = "checkRelease"]
        BY <1>1, <2>1 DEF CheckRef
      <3>2. job' \in Jobs /\ job'.run = job.run /\ job'.step = "checkRelease"
        BY <3>1 DEF TypeOK, Jobs, Steps
      <3> QED BY <1>1, <2>1, <3>2 DEF CheckRef, TypeOK, JobInv, InStaging, Idle, npm, github
    <2>2. CASE tag \notin {none, commit[job.run]}
      BY <1>1, <2>2, JobFailsType DEF CheckRef, Stops, TypeOK, Idle, npm, github
    <2> QED BY <2>1, <2>2
  <1>2. CASE CheckRelease
    <2>1. CASE Goes("preflight")
      BY <1>2, <2>1, GotoType DEF CheckRelease, Goes, TypeOK, JobInv, InStaging, Jobs, Steps, Idle, npm, github
    <2>2. CASE Stops
      BY <1>2, <2>2, JobFailsType DEF CheckRelease, Stops, TypeOK, Idle, npm, github
    <2> QED BY <1>2, <2>1, <2>2 DEF CheckRelease
  <1>3. CASE Preflight
    <2>1. CASE Stops
      BY <1>3, <2>1, JobFailsType DEF Preflight, Stops, TypeOK, Idle, npm, github
    <2>2. CASE ~ Stops
      <3>1. PICK existing \in SUBSET Names : NextPackage("stage", existing)
        BY <1>3, <2>2, CurrentType DEF Preflight, TypeOK, Jobs
      <3> QED
        BY <1>3, <2>2, <3>1, NextPackageType DEF Preflight, TypeOK, JobInv, InStaging, Idle, Steps, npm, github
    <2> QED BY <2>1, <2>2
  <1>4. ASSUME Staged, job.step = "stage", commit' = commit, dryRun' = dryRun
        PROVE  /\ job' \in Jobs /\ JobInv'
               /\ conclusion' \in [Runs -> {"none", "success", "failure"}]
               /\ stagedOnce \subseteq stagedOnce'
               /\ stagedOnce' \subseteq {r \in Runs : commit'[r] # none /\ ~ dryRun'[r]}
               /\ failures' = failures
    <2>1. job \in Jobs /\ job.run \in Runs /\ job.existing \in SUBSET Names
      BY DEF TypeOK, Jobs
    <2>2. CASE job.next < Len(Packages)
      BY <1>4, <2>1, <2>2, NextPackageType DEF Staged, TypeOK, JobInv, InStaging, Idle, Steps
    <2>3. CASE ~ job.next < Len(Packages)
      BY <1>4, <2>1, <2>3, NoJobType DEF Staged, TypeOK, JobInv, InStaging, Idle
    <2> QED BY <2>2, <2>3
  <1>5. CASE Skip
    BY <1>4, <1>5 DEF Skip, TypeOK, npm, github
  <1>6. CASE Stage
    <2>1. CASE Refuses(Current)
      BY <1>6, <2>1, JobFailsType DEF Stage, Refused, Stops, TypeOK, Idle, github
    <2>2. CASE ~ Refuses(Current)
      <3>1. pending' = [pending EXCEPT ![Current] = Artifact(job.run)]
        BY <1>6, <2>2 DEF Stage
      <3>2. /\ pending' \in [Names -> Artifacts \cup {NoArtifact}]
            /\ \A p \in Names : pending'[p] = NoArtifact \/ published[p] = NoArtifact
        BY <1>6, <2>2, <3>1, CurrentType, ArtifactType
        DEF Stage, Refuses, TypeOK, Jobs, JobInv, InStaging, Idle
      <3>3. CASE Staged
        BY <1>4, <1>6, <3>2, <3>3 DEF Stage, TypeOK, github
      <3>4. CASE Fail /\ JobFails /\ UNCHANGED stagedOnce
        BY <1>6, <3>2, <3>4, JobFailsType DEF Stage, Fail, TypeOK, Idle, github
      <3> QED BY <1>6, <2>2, <3>3, <3>4 DEF Stage
    <2> QED BY <2>1, <2>2
  <1>7. CASE Verify
    <2>1. CASE Stops
      BY <1>7, <2>1, JobFailsType DEF Verify, Stops, TypeOK, Idle, npm, github
    <2>2. CASE NextPackage("getRef", {}) /\ UNCHANGED <<conclusion, failures>>
      <3>1. job' \in Jobs /\ job'.run = job.run /\ job'.step \in {"verify", "getRef"}
        BY <1>7, <2>2, NextPackageType, PackagesType DEF Verify, TypeOK, Jobs, Steps
      <3> QED
        BY <1>7, <2>2, <3>1 DEF Verify, TypeOK, JobInv, InStaging, Idle, npm, github
    <2> QED BY <1>7, <2>1, <2>2 DEF Verify
  <1>8. CASE GetRef
    <2>1. CASE TagMatches
      <3>1. job' = [job EXCEPT !.ref = tag, !.step = "getRelease"]
        BY <1>8, <2>1 DEF GetRef
      <3>2. job' \in Jobs /\ job'.run = job.run /\ job'.step = "getRelease"
        BY <3>1 DEF TypeOK, Jobs, Steps
      <3> QED BY <1>8, <2>1, <3>2 DEF GetRef, TypeOK, JobInv, InStaging, Idle, npm, github
    <2>2. CASE ~ TagMatches
      BY <1>8, <2>2, JobFailsType DEF GetRef, Stops, TypeOK, Idle, npm, github
    <2> QED BY <2>1, <2>2
  <1>9. CASE GetRelease
    <2>1. CASE release => job.ref # none
      <3>1. PICK step \in {"postRef", "postRelease"} :
              job' = [job EXCEPT !.release = release, !.step = step]
        BY <1>9, <2>1 DEF GetRelease
      <3>2. job' \in Jobs /\ job'.run = job.run /\ job'.step = step
        BY <3>1 DEF TypeOK, Jobs, Steps
      <3> QED BY <1>9, <2>1, <3>2 DEF GetRelease, TypeOK, JobInv, InStaging, Idle, npm, github
    <2>2. CASE ~ (release => job.ref # none)
      BY <1>9, <2>2, JobFailsType DEF GetRelease, Stops, TypeOK, Idle, npm, github
    <2> QED BY <2>1, <2>2
  <1>10. CASE PostRef
    <2>1. CASE tag # none
      BY <1>10, <2>1, JobFailsType DEF PostRef, Stops, TypeOK, Idle, npm
    <2>2. CASE tag = none
      <3>1. tag' = commit[job.run] /\ commit[job.run] \in Commits
        BY <1>10, <2>2 DEF PostRef, TypeOK, Jobs, JobInv, InStaging, Idle
      <3>2. CASE Goes("postRelease")
        BY <1>10, <3>1, <3>2, GotoType DEF PostRef, Goes, TypeOK, JobInv, InStaging, Jobs, Steps, Idle, Tags, npm
      <3>3. CASE Fail /\ JobFails
        BY <1>10, <3>1, <3>3, JobFailsType DEF PostRef, Fail, TypeOK, Idle, Tags, npm
      <3> QED BY <1>10, <2>2, <3>2, <3>3 DEF PostRef
    <2> QED BY <2>1, <2>2
  <1>11. CASE PostRelease
    BY <1>11, NoJobType DEF PostRelease, Fail, TypeOK, JobInv, InStaging, Idle, npm
  <1>12. CASE RequestFails
    BY <1>12, JobFailsType DEF RequestFails, Fail, TypeOK, Idle, npm, github
  <1>13. CASE PushTag
    BY <1>13 DEF PushTag, TypeOK, JobInv, InStaging, Idle, Tags, runVars, npm
  <1>14. ASSUME NEW r \in Runs, Dispatch(r) PROVE TypeOK' /\ JobInv'
    <2>1. /\ commit' \in [Runs -> Commits \cup {none}] /\ commit'[r] # none
          /\ \A s \in Runs : commit[s] # none => commit'[s] # none
          /\ build' \in [Runs -> Builds] /\ ~ dryRun[r]
      BY <1>14 DEF Dispatch, TypeOK, JobInv
    <2>2. r \notin stagedOnce
      BY <1>14 DEF Dispatch, TypeOK
    <2>3. CASE Staging(r) /\ UNCHANGED dryRun
      BY <1>14, <2>1, <2>3, JobOfType
      DEF Dispatch, Staging, Begin, TypeOK, JobInv, InStaging, Idle, Steps, npm, github
    <2>4. CASE /\ Idle /\ UNCHANGED job
               /\ dryRun' = [dryRun EXCEPT ![r] = TRUE]
               /\ conclusion' = [conclusion EXCEPT ![r] = "success"]
      BY <1>14, <2>1, <2>2, <2>4 DEF Dispatch, TypeOK, JobInv, InStaging, Idle, npm, github
    <2> QED BY <1>14, <2>3, <2>4 DEF Dispatch
  <1>15. ASSUME NEW r \in Runs, RerunFailed(r) \/ RerunAll(r) PROVE TypeOK' /\ JobInv'
    <2>1. commit[r] # none /\ ~ dryRun[r]
      BY <1>15 DEF RerunFailed, RerunAll, TypeOK, JobInv
    <2>2. /\ job' \in Jobs /\ job'.run = r /\ Staging(r)
          /\ build' \in [Runs -> Builds] /\ UNCHANGED <<commit, dryRun, stagedOnce, resolved>>
          /\ UNCHANGED <<npm, github, failures>>
      <3>1. Staging(r) /\ UNCHANGED <<commit, dryRun, stagedOnce, resolved, npm, github, failures>>
        BY <1>15 DEF RerunFailed, RerunAll
      <3>2. build' \in [Runs -> Builds]
        BY <1>15 DEF RerunFailed, RerunAll, TypeOK
      <3>3. job' \in Jobs /\ job'.run = r
        BY <3>1, JobOfType DEF Staging, Begin, Steps
      <3> QED BY <3>1, <3>2, <3>3
    <2>3. conclusion' = [conclusion EXCEPT ![r] = "none"]
      BY <2>2 DEF Staging
    <2> QED BY <2>1, <2>2, <2>3 DEF TypeOK, JobInv, InStaging, Idle, npm, github
  <1>16. ASSUME NEW r \in Runs, Finalize(r) \/ RerunRelease(r) PROVE TypeOK' /\ JobInv'
    BY <1>16, JobOfType
    DEF Finalize, RerunRelease, Validated, Begin, TypeOK, JobInv, InStaging, Idle, Steps, runVars, npm, github
  <1>17. ASSUME NEW p \in Names, Propagate(p) PROVE TypeOK' /\ JobInv'
    BY <1>17 DEF Propagate, TypeOK, JobInv, InStaging, Idle, runVars, github
  <1>18. ASSUME NEW p \in Names, Approve(p) PROVE TypeOK' /\ JobInv'
    BY <1>18 DEF Approve, TypeOK, JobInv, InStaging, Idle, Artifacts, runVars, github
  <1>19. ASSUME NEW p \in Names, Reject(p) PROVE TypeOK' /\ JobInv'
    BY <1>19 DEF Reject, TypeOK, JobInv, InStaging, Idle, runVars, github
  <1>20. CASE UNCHANGED vars
    BY <1>20 DEF vars, TypeOK, JobInv, InStaging, Idle
  <1> QED
    BY <1>1, <1>2, <1>3, <1>5, <1>6, <1>7, <1>8, <1>9, <1>10, <1>11, <1>12, <1>13, <1>14,
       <1>15, <1>16, <1>17, <1>18, <1>19, <1>20
    DEF Next, JobStep

(* What nothing takes back: sources, tags and publications; and a package  *)
(* that a job placed stays staged or published unless it is rejected.      *)
LEMMA Monotone ==
  ASSUME TypeOK, [Next]_vars
  PROVE  /\ \A p \in Names : published[p] # NoArtifact => published'[p] = published[p]
         /\ tag # none => tag' = tag
         /\ \A r \in Runs : commit[r] # none => commit'[r] = commit[r]
         /\ ~ Idle => commit' = commit /\ build' = build
         /\ stagedOnce \subseteq stagedOnce' /\ resolved \subseteq resolved'
         /\ \A p \in Names, a \in Artifacts : Placed(p, a) => Placed(p, a)'
  <1> USE DEF TypeOK, Placed, Rejected, Idle, runVars, npm, github
  <1>1. CASE JobStep \/ RequestFails
    <2>1. /\ published' = published /\ rejects' = rejects
          /\ commit' = commit /\ build' = build
      BY <1>1 DEF JobStep, CheckRef, CheckRelease, Preflight, Skip, Stage, Verify, GetRef, GetRelease,
                  PostRef, PostRelease, RequestFails
    <2>2. tag # none => tag' = tag
      BY <1>1 DEF JobStep, CheckRef, CheckRelease, Preflight, Skip, Stage, Verify, GetRef, GetRelease,
                  PostRef, PostRelease, RequestFails, Stops
    <2>3. stagedOnce \subseteq stagedOnce' /\ resolved' = resolved
      BY <1>1 DEF JobStep, CheckRef, CheckRelease, Preflight, Skip, Stage, Staged, Refused, Verify,
                  GetRef, GetRelease, PostRef, PostRelease, RequestFails
    <2>4. \A p \in Names : pending[p] # NoArtifact => pending'[p] = pending[p]
      BY <1>1, CurrentType
      DEF JobStep, CheckRef, CheckRelease, Preflight, Skip, Stage, Refuses, Verify, GetRef, GetRelease,
          PostRef, PostRelease, RequestFails
    <2>5. NoArtifact \notin Artifacts
      BY DEF NoArtifact, Artifacts
    <2> QED BY <2>1, <2>2, <2>3, <2>4, <2>5
  <1>2. ASSUME NEW r \in Runs,
               Dispatch(r) \/ RerunFailed(r) \/ RerunAll(r) \/ Finalize(r) \/ RerunRelease(r)
        PROVE  /\ Idle /\ UNCHANGED <<npm, github, stagedOnce>> /\ resolved \subseteq resolved'
               /\ \A s \in Runs : commit[s] # none => commit'[s] = commit[s]
    BY <1>2 DEF Dispatch, RerunFailed, RerunAll, Finalize, RerunRelease, Staging, Begin
  <1>3. ASSUME NEW p \in Names, Approve(p) \/ Reject(p) \/ Propagate(p)
        PROVE  /\ UNCHANGED <<runVars, github>>
               /\ \A q \in Names : published[q] # NoArtifact => published'[q] = published[q]
               /\ \A q \in Names, a \in Artifacts : Placed(q, a) => Placed(q, a)'
    <2>1. CASE Approve(p)
      BY <2>1 DEF Approve
    <2>2. CASE Reject(p)
      <3>1. rejects' = Append(rejects, p) /\ rejects \in Seq(Names)
        BY <2>2 DEF Reject
      <3>2. /\ Len(rejects) \in Nat /\ DOMAIN rejects = 1 .. Len(rejects)
            /\ DOMAIN rejects' = 1 .. Len(rejects) + 1 /\ rejects'[Len(rejects) + 1] = p
            /\ \A i \in 1 .. Len(rejects) : rejects'[i] = rejects[i]
        BY <3>1
      <3>3. Rejected(p)'
        BY <3>2
      <3>4. \A q \in Names : Rejected(q) => Rejected(q)'
        BY <3>2
      <3> QED BY <2>2, <3>3, <3>4 DEF Reject
    <2>3. CASE Propagate(p)
      BY <2>3 DEF Propagate
    <2> QED BY <1>3, <2>1, <2>2, <2>3
  <1>4. CASE PushTag
    BY <1>4 DEF PushTag
  <1>5. CASE UNCHANGED vars
    BY <1>5 DEF vars
  <1> QED BY <1>1, <1>2, <1>3, <1>4, <1>5 DEF Next

(* A release stays sound, as nothing that it rests on is taken back.       *)
LEMMA SoundKept ==
  ASSUME ReleaseInv, [Next]_vars, release' = release
  PROVE  ReleaseSound' /\ ReleaseFromStagedRun'
  <1> SUFFICES ASSUME release PROVE ReleaseSound' /\ ReleaseFromStagedRun'
    BY DEF ReleaseSound, ReleaseFromStagedRun
  <1>1. tag # none /\ tag' = tag
    BY Monotone DEF ReleaseInv, ReleaseSound
  <1>2. PICK b \in Builds : \A p \in Names : published[p] = <<tag, b>>
    BY DEF ReleaseInv, ReleaseSound
  <1>3. \A p \in Names : published'[p] = <<tag, b>>
    BY <1>2, Monotone DEF ReleaseInv, NoArtifact
  <1>4. PICK r \in stagedOnce : commit[r] = tag
    BY DEF ReleaseInv, ReleaseFromStagedRun
  <1>5. r \in stagedOnce' /\ commit'[r] = tag
    BY <1>1, <1>4, Monotone DEF ReleaseInv, TypeOK
  <1> QED BY <1>1, <1>3, <1>5 DEF ReleaseSound, ReleaseFromStagedRun

(* What a job has achieved stays as well, whoever acts.                    *)
LEMMA JobKept ==
  ASSUME ReleaseInv, [Next]_vars, ~ Idle,
         job'.run = job.run
  PROVE  /\ Artifact(job.run)' = Artifact(job.run) /\ Artifact(job.run) \in Artifacts
         /\ Artifact(job.run) # NoArtifact
         /\ \A p \in Names : published[p] = Artifact(job.run) => published'[p] = Artifact(job.run)
         /\ \A p \in Names : Placed(p, Artifact(job.run)) => Placed(p, Artifact(job.run))'
         /\ commit'[job.run] = commit[job.run]
  <1>1. job.run \in Runs /\ commit[job.run] # none /\ commit' = commit /\ build' = build
    BY Monotone DEF ReleaseInv, TypeOK, Jobs, JobInv
  <1>2. Artifact(job.run) \in Artifacts /\ Artifact(job.run)' = Artifact(job.run)
    BY <1>1, ArtifactType DEF ReleaseInv, Artifact
  <1>3. Artifact(job.run) # NoArtifact
    BY DEF Artifact, NoArtifact
  <1> QED BY <1>1, <1>2, <1>3, Monotone DEF ReleaseInv

LEMMA NoJobInv ==
  ASSUME job' = NoJob
  PROVE  StagingInv' /\ FinalizingInv'
  BY NoJobType DEF StagingInv, FinalizingInv, InStaging, Verified

LEMMA BeginInv ==
  ASSUME NEW r \in Runs, NEW step \in {"check", "verify"}, job' = JobOf(r, step),
         step = "verify" => r \in resolved'
  PROVE  StagingInv' /\ FinalizingInv'
  <1>1. /\ job'.step = step /\ job'.run = r /\ job'.next = 1 /\ job'.existing = {}
    BY JobOfType DEF Steps
  <1>2. \A i \in 1 .. Len(Packages) : ~ i < job'.next
    BY <1>1, PackagesType
  <1> QED BY <1>1, <1>2 DEF StagingInv, FinalizingInv, InStaging, Verified

(* Every step of a job keeps what its next steps rely on.                  *)
LEMMA ProgressStep ==
  ASSUME ReleaseInv, [Next]_vars
  PROVE  StagingInv' /\ FinalizingInv'
  <1> USE DEF ReleaseInv
  <1>0. job \in Jobs /\ job.run \in Runs /\ job.next \in 1 .. Len(Packages)
        /\ job.existing \in SUBSET Names
    BY DEF TypeOK, Jobs
  <1>1. CASE job' = job
    <2>1. CASE Idle
      BY <1>1, <2>1 DEF Idle, StagingInv, FinalizingInv, InStaging, Verified
    <2>2. CASE ~ Idle
      <3>1. job.run \in resolved => job.run \in resolved'
        BY Monotone
      <3>2. tag = commit[job.run] => tag' = commit[job.run]
        BY <2>2, <1>0, Monotone DEF JobInv
      <3>3. StagingInv'
        BY <1>0, <1>1, <2>2, JobKept, PackagesType DEF StagingInv, InStaging
      <3>4. FinalizingInv'
        BY <1>0, <1>1, <2>2, <3>1, <3>2, JobKept, PackagesType DEF FinalizingInv, Verified
      <3> QED BY <3>3, <3>4
    <2> QED BY <2>1, <2>2
  <1>2. CASE CheckRef \/ CheckRelease
    <2>1. CASE Stops
      BY <2>1, NoJobInv DEF Stops, JobFails
    <2>2. CASE ~ Stops
      <3>1. /\ job' \in Jobs /\ job'.step \in {"checkRelease", "preflight"}
            /\ job'.run = job.run /\ job'.existing = job.existing
        <4>1. \/ job' = [job EXCEPT !.ref = tag, !.step = "checkRelease"]
              \/ job' = [job EXCEPT !.step = "preflight"]
          BY <1>2, <2>2 DEF CheckRef, CheckRelease, Goes, Goto
        <4>2. tag \in Tags \cup {none}
          BY DEF TypeOK
        <4> QED BY <1>0, <4>1, <4>2 DEF Jobs, Steps
      <3>2. InStaging /\ ~ Idle
        BY <1>2 DEF CheckRef, CheckRelease, InStaging, Idle
      <3>3. \A p \in job'.existing : published'[p] = Artifact(job.run)'
        BY <1>0, <3>1, <3>2, JobKept DEF StagingInv
      <3> QED BY <3>1, <3>3 DEF StagingInv, FinalizingInv, InStaging, Verified, Artifact
    <2> QED BY <2>1, <2>2
  <1>3. CASE Preflight
    <2>1. CASE Stops
      BY <2>1, NoJobInv DEF Stops, JobFails
    <2>2. CASE ~ Stops
      <3>1. PICK remote \in Lookup(Current) :
              /\ remote = NoArtifact \/ Matches(remote, job.run)
              /\ NextPackage("stage", job.existing \cup
                                      IF remote = NoArtifact THEN {} ELSE {Current})
        BY <1>3, <2>2 DEF Preflight
      <3> DEFINE existing == job.existing \cup IF remote = NoArtifact THEN {} ELSE {Current}
      <3>2. existing \in SUBSET Names
        BY <1>0, CurrentType
      <3>3. InStaging /\ ~ Idle /\ job.step = "preflight"
        BY <1>3 DEF Preflight, InStaging, Idle
      <3>4. \A p \in existing : published[p] = Artifact(job.run)
        BY <3>1, <3>3 DEF StagingInv, Lookup, Matches
      <3>5. /\ job'.run = job.run /\ job'.existing = existing
            /\ job'.step = "preflight" \/ (job'.step = "stage" /\ job'.next = 1)
        BY <1>0, <3>1, <3>2, <3>3, NextPackageType, PackagesType DEF Steps
      <3>6. \A p \in existing : published'[p] = Artifact(job.run)'
        BY <3>2, <3>3, <3>4, <3>5, JobKept
      <3>7. job'.next = 1 => \A i \in 1 .. Len(Packages) : ~ i < job'.next
        BY PackagesType
      <3> QED BY <3>5, <3>6, <3>7 DEF StagingInv, FinalizingInv, InStaging, Verified, Artifact
    <2> QED BY <2>1, <2>2
  <1>4. CASE Skip \/ (Stage /\ ~ JobFails)
    <2>1. Staged /\ job.step = "stage" /\ InStaging /\ ~ Idle
      BY <1>4 DEF Skip, Stage, Refused, Stops, InStaging, Idle
    <2>2. CASE ~ job.next < Len(Packages)
      BY <2>1, <2>2, NoJobInv DEF Staged
    <2>3. CASE job.next < Len(Packages)
      <3>1. /\ job'.run = job.run /\ job'.existing = job.existing
            /\ job'.step = "stage" /\ job'.next = job.next + 1
        BY <1>0, <2>1, <2>3, NextPackageType DEF Staged, Steps
      <3>2. PICK c \in Names : c = Current
        BY CurrentType
      <3>3. Placed(c, Artifact(job.run))'
        <4>1. CASE Skip
          <5>1. published[c] = Artifact(job.run)
            BY <2>1, <3>2, <4>1 DEF Skip, Skipped, StagingInv
          <5>2. Placed(c, Artifact(job.run))
            BY <5>1 DEF Placed
          <5> QED BY <2>1, <3>1, <5>2, JobKept
        <4>2. CASE Stage /\ ~ JobFails
          <5>1. pending' = [pending EXCEPT ![c] = Artifact(job.run)]
            BY <3>2, <4>2 DEF Stage, Refused, Stops
          <5>2. pending'[c] = Artifact(job.run)'
            BY <2>1, <3>1, <5>1, JobKept DEF TypeOK
          <5> QED BY <5>2 DEF Placed
        <4> QED BY <1>4, <4>1, <4>2
      <3>4. \A p \in job'.existing : published'[p] = Artifact(job.run)'
        BY <1>0, <2>1, <3>1, JobKept DEF StagingInv
      <3>5. ASSUME NEW i \in 1 .. Len(Packages), i < job'.next
            PROVE  Placed(Packages[i], Artifact(job.run))'
        <4>1. i < job.next \/ Packages[i] = c
          BY <1>0, <3>1, <3>2, <3>5, PackagesType DEF Current
        <4>2. CASE Packages[i] = c
          BY <3>3, <4>2
        <4>3. CASE i < job.next
          <5>1. Placed(Packages[i], Artifact(job.run))
            BY <2>1, <4>3 DEF StagingInv
          <5> QED BY <2>1, <3>1, <5>1, JobKept, PackagesType
        <4> QED BY <4>1, <4>2, <4>3
      <3> QED BY <3>1, <3>4, <3>5 DEF StagingInv, FinalizingInv, InStaging, Verified
    <2> QED BY <2>2, <2>3
  <1>5. CASE (Stage \/ RequestFails) /\ JobFails
    BY <1>5, NoJobInv DEF JobFails
  <1>6. CASE Verify
    <2>1. CASE Stops
      BY <2>1, NoJobInv DEF Stops, JobFails
    <2>2. CASE ~ Stops
      <3>1. /\ published[Current] = Artifact(job.run) /\ published' = published
            /\ NextPackage("getRef", {}) /\ resolved' = resolved /\ job.step = "verify" /\ ~ Idle
        <4>1. PICK remote \in Lookup(Current) :
                Matches(remote, job.run) /\ NextPackage("getRef", {})
          BY <1>6, <2>2 DEF Verify
        <4>2. remote = Artifact(job.run) /\ remote # NoArtifact
          BY <4>1 DEF Matches, Artifact, NoArtifact
        <4>3. published[Current] = Artifact(job.run)
          BY <4>1, <4>2 DEF Lookup
        <4> QED BY <1>6, <4>1, <4>3 DEF Verify, npm, Idle
      <3>2. /\ job'.run = job.run
            /\ job.next < Len(Packages) => job'.step = "verify" /\ job'.next = job.next + 1
            /\ job.next >= Len(Packages) => job'.step = "getRef" /\ job'.next = 1
        BY <1>0, <3>1, NextPackageType DEF Steps
      <3>3. Artifact(job.run)' = Artifact(job.run)
        BY <3>1, <3>2, JobKept
      <3>4. \A i \in 1 .. Len(Packages) : i <= job.next => published'[Packages[i]] = Artifact(job.run)'
        BY <1>0, <3>1, <3>3, PackagesType DEF FinalizingInv, Current
      <3>5. CASE job.next < Len(Packages)
        BY <1>0, <3>1, <3>2, <3>4, <3>5, PackagesType
        DEF StagingInv, FinalizingInv, InStaging, Verified
      <3>6. CASE job.next >= Len(Packages)
        <4>1. \A p \in Names : published'[p] = Artifact(job.run)'
          BY <1>0, <3>4, <3>6, PackagesType
        <4> QED BY <3>1, <3>2, <3>6, <4>1 DEF StagingInv, FinalizingInv, InStaging, Verified
      <3> QED BY <1>0, <3>5, <3>6, PackagesType
    <2> QED BY <2>1, <2>2
  <1>7. CASE GetRef \/ GetRelease \/ PostRef
    <2>1. CASE Stops \/ JobFails
      BY <2>1, NoJobInv DEF Stops, JobFails
    <2>2. CASE ~ Stops /\ ~ JobFails
      <3>1. job.step \in Verified /\ ~ Idle /\ resolved' = resolved
        BY <1>7 DEF GetRef, GetRelease, PostRef, Verified, Idle
      <3>2. /\ job'.run = job.run /\ job'.step \in Verified
            /\ job'.step = "getRelease" /\ job'.ref # none => tag' = commit[job.run]
            /\ job'.step = "postRelease" => tag' = commit[job.run]
        <4>1. CASE GetRef
          <5>1. job' = [job EXCEPT !.ref = tag, !.step = "getRelease"] /\ TagMatches /\ tag' = tag
            BY <2>2, <4>1 DEF GetRef, github
          <5> QED BY <1>0, <5>1 DEF TagMatches, Jobs, Verified
        <4>2. CASE GetRelease
          <5>1. /\ job' = [job EXCEPT !.release = release,
                             !.step = IF job.ref = none THEN "postRef" ELSE "postRelease"]
                /\ job.step = "getRelease" /\ tag' = tag
            BY <2>2, <4>2 DEF GetRelease, github
          <5> QED BY <1>0, <5>1 DEF FinalizingInv, Jobs, Verified
        <4>3. CASE PostRef
          <5>1. job' = [job EXCEPT !.step = "postRelease"] /\ tag' = commit[job.run]
            BY <2>2, <4>3 DEF PostRef, Goes, Goto
          <5> QED BY <1>0, <5>1 DEF Jobs, Verified
        <4> QED BY <1>7, <4>1, <4>2, <4>3
      <3>3. \A p \in Names : published'[p] = Artifact(job.run)'
        BY <3>1, <3>2, JobKept DEF FinalizingInv
      <3>4. commit'[job'.run] = commit[job.run]
        BY <3>1, <3>2, JobKept
      <3> QED
        BY <3>1, <3>2, <3>3, <3>4 DEF StagingInv, FinalizingInv, InStaging, Verified
    <2> QED BY <2>1, <2>2
  <1>8. CASE PostRelease
    BY <1>8, NoJobInv DEF PostRelease
  <1>9. ASSUME NEW r \in Runs,
               Dispatch(r) \/ RerunFailed(r) \/ RerunAll(r) \/ Finalize(r) \/ RerunRelease(r)
        PROVE  StagingInv' /\ FinalizingInv'
    <2>1. \/ job' = job
          \/ job' = JobOf(r, "check")
          \/ job' = JobOf(r, "verify") /\ r \in resolved'
      BY <1>9 DEF Dispatch, RerunFailed, RerunAll, Finalize, RerunRelease, Staging, Begin, runVars
    <2> QED BY <1>1, <2>1, BeginInv
  <1> QED
    BY <1>1, <1>2, <1>3, <1>4, <1>5, <1>6, <1>7, <1>8, <1>9
    DEF Next, JobStep, PushTag, Propagate, Approve, Reject, RequestFails, vars

(* The only step that creates the release finds everything in place.       *)
LEMMA SoundStep ==
  ASSUME ReleaseInv, [Next]_vars
  PROVE  ReleaseSound' /\ ReleaseFromStagedRun'
  <1>1. CASE PostRelease
    <2>1. job.run \in Runs /\ commit[job.run] \in Commits /\ build[job.run] \in Builds
      BY <1>1 DEF PostRelease, ReleaseInv, TypeOK, JobInv, Jobs, Idle
    <2>2. tag' = commit[job.run] /\ published' = published
          /\ stagedOnce' = stagedOnce /\ commit' = commit
      BY <1>1 DEF PostRelease, ReleaseInv, FinalizingInv, npm
    <2>3. \A p \in Names : published'[p] = <<tag', build[job.run]>>
      BY <1>1, <2>2 DEF PostRelease, ReleaseInv, FinalizingInv, Verified, Artifact
    <2>4. job.run \in stagedOnce
      BY <1>1 DEF PostRelease, ReleaseInv, FinalizingInv, Verified, TypeOK
    <2>5. tag' # none
      BY <2>1, <2>2, ConstantsAssumption
    <2> QED BY <2>1, <2>2, <2>3, <2>4, <2>5 DEF ReleaseSound, ReleaseFromStagedRun
  <1>2. CASE release' = release
    BY <1>2, SoundKept
  <1> QED
    BY <1>1, <1>2
    DEF Next, JobStep, CheckRef, CheckRelease, Preflight, Skip, Stage, Verify, GetRef, GetRelease,
        PostRef, RequestFails, PushTag, Dispatch, RerunFailed, RerunAll, Finalize, RerunRelease,
        Propagate, Approve, Reject, runVars, github, vars

(* The inductive invariant holds: jobs of any number of runs, over any     *)
(* number of packages, rely only on what stays true between their requests.*)
THEOREM ReleaseInvariant == Spec => []ReleaseInv
  <1>1. Init => ReleaseInv
    <2> SUFFICES ASSUME Init PROVE ReleaseInv
      OBVIOUS
    <2>1. job = NoJob /\ NoJob \in Jobs /\ job.step = "idle"
      BY NoJobType DEF Init
    <2>2. TypeOK
      <3>1. /\ rejects \in Seq(Names) /\ Len(rejects) <= MaxRejects
            /\ failures \in 0 .. MaxFailures
        BY ConstantsAssumption DEF Init
      <3>2. build \in [Runs -> Builds]
        BY ConstantsAssumption DEF Init
      <3>3. AttemptsOK
        BY ConstantsAssumption DEF Init, AttemptsOK
      <3> QED BY <2>1, <3>1, <3>2, <3>3 DEF Init, TypeOK
    <2>3. JobInv /\ StagingInv /\ FinalizingInv
      BY <2>1 DEF Init, JobInv, StagingInv, FinalizingInv, InStaging, Idle, Verified
    <2>4. ReleaseSound /\ ReleaseFromStagedRun
      BY DEF Init, ReleaseSound, ReleaseFromStagedRun
    <2> QED BY <2>2, <2>3, <2>4 DEF ReleaseInv
  <1>2. ReleaseInv /\ [Next]_vars => ReleaseInv'
    <2> SUFFICES ASSUME ReleaseInv, [Next]_vars PROVE ReleaseInv'
      OBVIOUS
    <2>1. TypeOK' /\ JobInv'
      BY TypeStep DEF ReleaseInv
    <2> QED BY <2>1, ProgressStep, SoundStep DEF ReleaseInv
  <1> QED BY <1>1, <1>2, PTL DEF Spec

(* Every variable keeps its type.                                          *)
THEOREM ReleaseTypeCorrect == Spec => []TypeOK
  <1>1. ReleaseInv => TypeOK
    BY DEF ReleaseInv
  <1> QED BY <1>1, ReleaseInvariant, PTL

(* "verifies every published package's integrity and source commit. Only   *)
(* then does it create": a release is one tested artifact.                 *)
THEOREM ReleasesAreSound == Spec => []ReleaseSound
  <1>1. ReleaseInv => ReleaseSound
    BY DEF ReleaseInv
  <1> QED BY <1>1, ReleaseInvariant, PTL

(* "Finalization rejects dry runs, unsuccessful runs": the source of a     *)
(* release was staged by a job that succeeded.                             *)
THEOREM ReleasesWereStaged == Spec => []ReleaseFromStagedRun
  <1>1. ReleaseInv => ReleaseFromStagedRun
    BY DEF ReleaseInv
  <1> QED BY <1>1, ReleaseInvariant, PTL

(* The last step of a staging job: every package is behind it or current,  *)
(* and what the preflight or the job itself placed stays so.               *)
LEMMA StagedStep ==
  ASSUME ReleaseInv, [Next]_vars
  PROVE  StagedTruthfully
  <1> SUFFICES ASSUME NEW r \in Runs, JobSucceeds(r), NEW p \in Names
               PROVE  Placed(p, Artifact(r))'
    BY DEF StagedTruthfully
  <1> USE DEF ReleaseInv
  <1>0. /\ job.run \in Runs /\ job \in Jobs /\ job.next \in 1 .. Len(Packages)
        /\ conclusion \in [Runs -> {"none", "success", "failure"}]
    BY DEF TypeOK, Jobs
  <1>1. Skip \/ (Stage /\ ~ JobFails)
    <2>1. conclusion' # conclusion /\ conclusion'[r] = "success" /\ ~ JobFails
      BY <1>0 DEF JobSucceeds, JobFails
    <2>2. ~ Dispatch(r)
      BY <1>0 DEF Dispatch, Staging, JobSucceeds, TypeOK
    <2>3. \A s \in Runs : ~ Staging(s) /\ (Dispatch(s) => s = r)
      BY <1>0 DEF Dispatch, Staging, JobSucceeds
    <2> QED
      BY <2>1, <2>2, <2>3
      DEF Next, JobStep, CheckRef, CheckRelease, Goes, Stops, Preflight, Verify, GetRef, GetRelease,
          PostRef, PostRelease, RequestFails, PushTag, RerunFailed, RerunAll, Finalize,
          RerunRelease, Propagate, Approve, Reject, runVars, vars
  <1>2. Staged /\ job.step = "stage" /\ InStaging /\ ~ Idle
    BY <1>1 DEF Skip, Stage, Refused, Stops, InStaging, Idle
  <1>3. job.run = r /\ job.next = Len(Packages)
    BY <1>0, <1>2, PackagesType DEF Staged, JobSucceeds
  <1>4. Artifact(r)' = Artifact(r) /\ Artifact(r) \in Artifacts
    BY <1>2, <1>3, Monotone, ArtifactType DEF Artifact, JobInv
  <1>5. \A q \in Names : Placed(q, Artifact(r)) => Placed(q, Artifact(r))'
    BY <1>4, Monotone
  <1>6. PICK i \in 1 .. Len(Packages) : p = Packages[i]
    BY PackagesType
  <1>7. CASE i < job.next
    <2>1. Placed(p, Artifact(r))
      BY <1>2, <1>3, <1>6, <1>7 DEF StagingInv
    <2> QED BY <1>5, <2>1
  <1>8. CASE p = Current
    <2>1. CASE Skip
      <3>1. Placed(p, Artifact(r))
        BY <1>2, <1>3, <1>8, <2>1 DEF Skip, Skipped, StagingInv, Placed
      <3> QED BY <1>5, <3>1
    <2>2. CASE Stage /\ ~ JobFails
      <3>1. pending' = [pending EXCEPT ![p] = Artifact(r)]
        BY <1>3, <1>8, <2>2 DEF Stage, Refused, Stops
      <3>2. pending'[p] = Artifact(r)'
        BY <1>4, <3>1 DEF TypeOK
      <3> QED BY <3>2 DEF Placed
    <2> QED BY <1>1, <2>1, <2>2
  <1> QED BY <1>0, <1>3, <1>6, <1>7, <1>8 DEF Current

(* "Never treat a staging conflict or ambiguous network failure as         *)
(* success": a staging job succeeds only when its artifact is placed.      *)
THEOREM StagingIsTruthful == Spec => StageTruthful
  <1>1. ReleaseInv /\ [Next]_vars => [StagedTruthfully]_vars
    BY StagedStep
  <1> QED BY <1>1, ReleaseInvariant, PTL DEF Spec, StageTruthful
=============================================================================
