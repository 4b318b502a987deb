\* Expected violation.
SPECIFICATION Spec
CONSTANTS
  Users = {u1}
  Agents = {a1}
  Permissions = {p}
  Workers = {w1}
  Lifetimes = {2}
  TemplateLifetime = 1
  SessionTTL = 2
  RefreshTTL = 2
  TokenTTL = 1
  Grace = 1
  MinMarkerTTL = 1
  RedisFailures = TRUE
  ScopeSets <- AllOrNothing
  TemplateShapes <- NoShapes
  MaxInvited = 1
  MaxDelegations = 1
  MaxSessions = 2
  MaxTokens = 2
  MaxTime = 1
PROPERTIES NoTokenAfterRevocation
