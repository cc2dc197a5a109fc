SPECIFICATION Spec
CONSTANTS
  o1 = o1
  o2 = o2
  c1 = c1
  c2 = c2
  v1 = v1
  v2 = v2
  v3 = v3
  v4 = v4
  Objects <- MCObjects
  Callers <- MCCallers
  ObjectOf <- OwnObject
  Versions <- TwoVersions
  NoVersion = NoVersion
  NoLock = NoLock
  Malformed = Malformed
  FreshVersions = FALSE
  LockTimeout = 1
  Skew <- NoSkew
  MaxSkew = 0
  ResponseTime = 9
  MaxFaults = 0
PROPERTIES OnlyStaleRemoved
