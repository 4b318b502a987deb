\* Two requests are in progress at once, within one tick of the clock; two agents.
SPECIFICATION OverlapSpec
CONSTANTS
  Users = {u1}
  Agents = {a1, a2}
  Permissions = {p}
  Workers = {w1, w2}
  Lifetimes = {1}
  TemplateLifetime = 1
  SessionTTL = 1
  RefreshTTL = 1
  TokenTTL = 1
  Grace = 1
  MinMarkerTTL = 1
  RedisFailures = FALSE
  ScopeSets <- Everything
  TemplateShapes <- OneShape
  MaxInvited = 1
  MaxDelegations = 1
  MaxSessions = 1
  MaxTokens = 2
  MaxTime = 1
SYMMETRY WorkerSymmetry
INVARIANTS TokenAttenuation InvitationConveysNothing HoldsOnlyGranted
PROPERTIES RevocationIsPermanent OnlyOvertakenWiden OnlyOvertakenExceed
