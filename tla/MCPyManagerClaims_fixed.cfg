\* One node, fixed_ip mode, a user who connects it and never disconnects it.
CONSTANTS
  Node = {n1}
  Region = {n1}
  Thread = {t1, t2}
  None = None
  Modes = {"fixed_ip"}
  MaxTries = 1
  Activity = {"maintain", "connect"}
  SelfExit = TRUE
  RoutesFail = FALSE
SPECIFICATION ClaimSpec
PROPERTIES FixedNodeStaysLocked
