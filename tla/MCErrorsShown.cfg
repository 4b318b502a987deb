\* What is shown of errors against what the catalogue promises of it.
SPECIFICATION GatewaySpec
CONSTANTS
  Requests = {r1, r2}
  Threshold = 2
  ResetTime = 3
  CacheTime = 2
  ProbeTimeout = 2
  Services = {"slack", "jira"}
  BuiltIn = {"slack"}
  Calls = {k1}
  MaxEdits = 3
  MaxRestarts = 1
  Tokens = {"wide", "narrow", "wild"}
  SessionIds = {"s"}
  SessionOf <- MCSessionOf
  PermsOf <- MCPermsOf
  Wild = {"wild"}
  Watched = {"x", "y", "z"}
  MaxErrors = 3
  MaxChanges = 3
  Events = {c1, c2}
  Batch = 1
  MaxStamp = 3
  MaxAuditFaults = 2
  SdkAgents = {"a", "b"}
  SdkTTL = 3
  SdkMargin = 1
  MaxStepUps = 2
  MaxSdkTime = 5
INVARIANT ErrorCountIsRolling
CHECK_DEADLOCK FALSE
