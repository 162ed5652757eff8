SPECIFICATION NotifierSpec
CONSTANTS
  Callers = {a, b}
  AsyncTargets = {o}
  ValidatedTargets = {v}
  Nobody = Nobody
  Endless = TRUE
  MaxPosts = 2
  MaxExecutes = 3
PROPERTY NotificationEndsWait
CHECK_DEADLOCK FALSE
