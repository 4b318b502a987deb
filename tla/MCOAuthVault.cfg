\* One service with a provider, so that every request meets every other, and
\* one without.
SPECIFICATION MCVaultSpec
CONSTANTS
  Services = {notion, github}
  Supported = {notion}
  Writers = {w1, w2}
  First = w1
  Requests = {q1, cron}
  Sweeper = cron
  Grants <- MCGrants
  MaxRefs = 3
  MaxStates = 1
  MaxGens = 2
  MaxFaults = 1
  MaxRestarts = 1
INVARIANTS RefreshTokenInSync ActiveConnectionHasToken
PROPERTIES DeletedTokensStayDeleted OAuthStatesAreSingleUse DueTokensAreRefreshed
CHECK_DEADLOCK FALSE
