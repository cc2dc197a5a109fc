SPECIFICATION FairSpec
CONSTANTS
  run1 = run1
  run2 = run2
  f1 = f1
  Runs <- MCRuns
  Flushes <- MCFlushes
  Messages <- TwoMessages
  MaxMessage = 5
  Overhead = 1
  MaxBatch = 12
  GroupExists = TRUE
  MaxFailures = 1
CHECK_DEADLOCK FALSE
PROPERTIES AllSent
