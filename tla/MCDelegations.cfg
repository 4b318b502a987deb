\* Requests run one after another.
SPECIFICATION DelegationSpec
CONSTANTS
  Users = {u1}
  Agents = {a1}
  Permissions = {p}
  Workers = {w1}
  Lifetimes = {1}
  TemplateLifetime = 1
  ScopeSets <- MCEverything
  TemplateShapes <- MCOneShape
  MaxInvited = 2
  MaxDelegations = 3
  MaxTime = 2
INVARIANTS InvitationsDoNotPileUp
