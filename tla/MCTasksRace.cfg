\* Two requests are in progress at once; expected violation.  Every task may have ended, and the bounds stop the rest.
SPECIFICATION Spec
CONSTANTS
  Permissions = {p}
  Workers = {w1, w2}
  Deadlines = {1}
  TokenTTL = 1
  MaxTasks = 1
  MaxTime = 2
PROPERTIES TerminalIsFinal
CHECK_DEADLOCK FALSE
