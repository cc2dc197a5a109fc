SPECIFICATION FairSpec
CONSTANTS
  Runs = {1, 2}
  Packages <- MCPackages
  Commits = {"a"}
  Builds = {1, 2}
  none = "none"
  MaxJobs = 3
  AllJobs = 2
  FailedJobs = 1
  BeyondMax = FALSE
  MaxFailures = 1
  MaxRejects = 1
  ManualTags = {"b"}
INVARIANTS TypeOK ReleaseSound ReleaseFromStagedRun ReleaseInv
PROPERTIES StageTruthful Recovers
CHECK_DEADLOCK FALSE
