SPECIFICATION HandedOutSpec
CONSTANTS
  Users = {u1, u2}
  Sessions = {s1}
  NoSession = none
  Requests = {r1, r2}
  PerCall = FALSE
  CacheTTL = 2
  FetchTime = 1
  MaxTokens = 2
  MaxEvents = 1
  MaxTime = 2
  SecretNames = {n1}
  StoreRequests = {q1, q2}
  DeleteRequests = {d1}
  MaxSplits = 3
  MaxLost = 2
  Selectors = {"s1", "s2"}
  Tokens = {t1}
  SelectorOf <- MCSelectorOf
  Enrols = {e1, e2}
  MaxAttempts = 3
  Threshold = 2
  PolicyLimit = 1
  MaxAgents = 2
  Agents = {a1, a2}
  Logins = {l1}
  MaxChallenges = 3
  MaxLoginRestarts = 1
  IdpUsers = {i1}
  Visits = {v1, v2}
  MaxSso = 2
  MaxSessions = 3
  MaxSsoFaults = 1
  Rotating = {1}
  Syncs = {y1, y2}
  Pages <- MCPages
  GroupPages = 1
  MaxSyncs = 2
  MaxChanges = 1
SYMMETRY Symmetry
PROPERTY OnlyStaleIsDeleted
CHECK_DEADLOCK FALSE
