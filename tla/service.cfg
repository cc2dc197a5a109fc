SPECIFICATION FairSpec
CONSTANTS
  c1 = c1
  c2 = c2
  outside = outside
  Callers <- MCCallers
  Registered = {"AccessToken", "McmaApiKey", "AWS4", "FunctionKey"}
  Foreign = outside
  MaxAttempts = 3
  TokenLife = 2
  Ids = {1, 2, 3, 4, 5}
  Docs = {"a", "b"}
  NoDoc = NoDoc
  Lag = 2
  SecurityConfig <- MCSecurityConfig
  Inherited = {"inherited"}
  Permitted <- MCPermitted
  Deployments <- MCDeployments
  MaxFaults = 1
  Depth = 2
INVARIANTS TypeOK CreatedFound SignedAnew AccessExact PagesOnce FiltersAgree RequestsAgree
PROPERTIES PagesComplete StoreSpec CallsEnd
