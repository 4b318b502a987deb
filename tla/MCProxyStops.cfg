\* What ends the local proxy.
SPECIFICATION TokensSpec
CONSTANTS
  Permissions = {p}
  Workers = {w1, w2}
  Deadlines = {1}
  TokenTTL = 1
  MaxTasks = 2
  MaxTime = 3
  XKeys = {k1}
  Exchanges = {x1, x2}
  Validities = {1, 3, 5}
  XBuffer = 2
  XReplyTime = 1
  MaxXTime = 8
  ProxyTTL = 4
  RefreshMargin = 2
  ProxyLatency = 1
  MaxProxyTime = 8
  MaxRevocations = 1
  Holders = {"a", "b"}
  NoCount = 0
  Limits <- MCLimits
  MaxMacaroons = 4
  MaxMacTime = 2
INVARIANT RunsWithItsInput
CHECK_DEADLOCK FALSE
