\* Every activity of the service, two threads at once, one node, two modes.
CONSTANTS
  Node = {n1}
  Region = {n1}
  Thread = {t1, t2}
  None = None
  Modes = {"auto", "fixed_ip"}
  MaxTries = 1
  Activity = {"maintain", "check", "connect", "disconnect", "force", "routing"}
  SelfExit = TRUE
  RoutesFail = FALSE
SPECIFICATION Spec
SYMMETRY Symmetry
INVARIANTS TypeOK FlagHasOwner  
