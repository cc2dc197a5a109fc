SPECIFICATION Spec
CONSTANTS
  c1 = c1
  c2 = c2
  c3 = c3
  Callers <- MCCallers
  Types <- MCTypes
  Services <- MCServices
  Registry = "registry"
  Registered <- MCRegistered
  Malformed = {"broken"}
  ResourcesOf <- MCResourcesOf
  Urls <- MCUrls
  MaxFailures = 1
SYMMETRY CallerSymmetry
INVARIANTS TypeOK EndpointsOnce QueryComplete InitComplete
