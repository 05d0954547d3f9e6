CONSTANTS
  Node = {n1, n2}
  Proc = {p1, p2}
  None = None
  Maintain = Maintain
  Health = Health
  User = {u1}
  c1 = c1
  Country <- OneCountry
  CountryOf <- SameCountry
  Ping <- SamePing
  Mode = {"auto", "fixed_ip"}
  SelfExit = TRUE
  AutoConnect = FALSE
  FetchFails = FALSE
  StartFails = TRUE
  RouteFails = FALSE
  SavedNodes <- RefreshedLists
  SavedUI <- Unpinned
  Activity = {"health", "connect", "disconnect"}
SPECIFICATION Spec
SYMMETRY Symmetry
INVARIANTS NoOrphan ReportedNodeRuns  SuccessIsOwnTunnel
PROPERTIES KeepsPromise
