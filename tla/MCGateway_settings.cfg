CONSTANTS
  Node = {n1}
  Proc = {p1, p2}
  None = None
  Maintain = Maintain
  Health = Health
  User = {u1}
  c1 = c1
  Country <- OneCountry
  CountryOf <- SameCountry
  Ping <- SamePing
  Mode = {"auto", "fixed_ip", "fixed_region"}
  SelfExit = FALSE
  AutoConnect = TRUE
  FetchFails = FALSE
  StartFails = FALSE
  RouteFails = FALSE
  SavedNodes <- RefreshedLists
  SavedUI <- Unpinned
  Activity = {"maintain", "routing", "test", "connect", "shutdown"}
SPECIFICATION Spec
SYMMETRY Symmetry
INVARIANTS IInv
CHECK_DEADLOCK FALSE
