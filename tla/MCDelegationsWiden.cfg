\* Two requests are in progress at once; expected violation.
SPECIFICATION DelegationSpec
CONSTANTS
  Users = {u1}
  Agents = {a1}
  Permissions = {p, q}
  Workers = {w1, w2}
  Lifetimes = {1}
  TemplateLifetime = 1
  ScopeSets <- MCScopeSets
  TemplateShapes <- MCTemplateShapes
  MaxInvited = 1
  MaxDelegations = 1
  MaxTime = 2
PROPERTIES PermissionsNeverWiden
