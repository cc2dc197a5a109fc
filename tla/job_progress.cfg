SPECIFICATION FairSpec
CONSTANTS
  w1 = w1
  w2 = w2
  r1 = r1
  Workers <- MCWorkers
  Cancels <- MCRequests
  Deletes <- MCRequests
  NoRecord = NoRecord
  MaxDuplicates = 1
  MaxCrashes = 1
  MaxReports = 1
  MaxLostCalls = 1
  MaxFaults = 2
INVARIANTS TypeOK WorkerFindsJob NotificationsTruthful HandlerAfterRunning
PROPERTIES EndsFinal
