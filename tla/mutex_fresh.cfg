SPECIFICATION Spec
CONSTANTS
  o1 = o1
  o2 = o2
  c1 = c1
  c2 = c2
  v1 = v1
  v2 = v2
  v3 = v3
  v4 = v4
  Objects <- MCObjects
  Callers <- MCCallers
  ObjectOf <- OwnObject
  Versions <- MCVersions
  NoVersion = NoVersion
  NoLock = NoLock
  Malformed = Malformed
  FreshVersions = TRUE
  LockTimeout = 2
  Skew <- OneAhead
  MaxSkew = 1
  ResponseTime = 9
  MaxFaults = 2
SYMMETRY VersionSymmetry
INVARIANTS TypeOK LeaseExclusion LeaseOwnsRecord MutexInv
PROPERTIES OnlyStaleRemoved LeaseLockSpec
