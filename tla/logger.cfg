SPECIFICATION FairSpec
CONSTANTS
  run1 = run1
  run2 = run2
  f1 = f1
  Runs <- MCRuns
  Flushes <- MCFlushes
  Messages <- MCMessages
  MaxMessage = 5
  Overhead = 1
  MaxBatch = 12
  GroupExists = FALSE
  MaxFailures = 2
CHECK_DEADLOCK FALSE
INVARIANTS TypeOK NothingLostInside StoredInOrder RequestsFit FlushComplete
PROPERTIES AllSentOrSetupFailed FlushEnds
