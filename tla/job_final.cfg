SPECIFICATION Spec
CONSTANTS
  w1 = w1
  w2 = w2
  r1 = r1
  Workers <- OneWorker
  Cancels <- NoRequests
  Deletes <- NoRequests
  NoRecord = NoRecord
  MaxDuplicates = 1
  MaxCrashes = 0
  MaxReports = 0
  MaxLostCalls = 0
  MaxFaults = 1
PROPERTIES FinalIsFinal
