\* Agents name no user per call.
SPECIFICATION HandedOutSpec
CONSTANTS
  Users = {u1, u2}
  Sessions = {s1}
  NoSession = none
  Requests = {r1, r2}
  PerCall = FALSE
  CacheTTL = 2
  FetchTime = 1
  MaxTokens = 2
  MaxEvents = 1
  MaxTime = 2
  SecretNames = {n1}
  StoreRequests = {r1, r2}
  DeleteRequests = {d1}
  MaxSplits = 3
  MaxLost = 2
  Selectors = {"s1", "s2"}
  Tokens = {t1}
  SelectorOf <- MCSelectorOf
  Enrols = {r1, r2}
  MaxAttempts = 3
  Threshold = 2
  PolicyLimit = 1
  MaxAgents = 2
  Agents = {u1, u2}
  Logins = {r1, r2}
  MaxChallenges = 3
  MaxLoginRestarts = 1
  IdpUsers = {i1}
  Visits = {r1, r2}
  MaxSso = 2
  MaxSessions = 3
  MaxSsoFaults = 1
  Rotating = {1}
  Syncs = {r1, r2}
  Pages <- MCPages
  GroupPages = 1
  MaxSyncs = 2
  MaxChanges = 1
SYMMETRY Symmetry
INVARIANTS SharesMatch NoShareWithoutRow ReadsAreWhole
  RegisteredAgentsCanBootstrap BreakerTripsAtThreshold
  StoredTokenIsCurrent
PROPERTIES StaleOnlyBriefly DisconnectClears WholeSyncsAgree
  ChallengesAreSingleUse SsoStatesAreSingleUse
CHECK_DEADLOCK FALSE
