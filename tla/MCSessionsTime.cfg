\* Requests run one after another: one delegation, two sessions, four ticks of the clock.
SPECIFICATION Spec
CONSTANTS
  Users = {u1}
  Agents = {a1}
  Permissions = {p}
  Workers = {w1}
  Lifetimes = {1}
  TemplateLifetime = 1
  SessionTTL = 2
  RefreshTTL = 2
  TokenTTL = 1
  Grace = 1
  MinMarkerTTL = 0
  RedisFailures = TRUE
  ScopeSets <- Everything
  TemplateShapes <- NoShapes
  MaxInvited = 1
  MaxDelegations = 1
  MaxSessions = 2
  MaxTokens = 2
  MaxTime = 4
INVARIANTS ResidualAuthorityBounded RevokedSessionTokensRejected
