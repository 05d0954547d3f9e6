CONSTANTS
  Node = {n1}
  Proc = {p1, p2}
  None = None
  Maintain = Maintain
  Health = Health
  User = {u1}
  c1 = c1
  Country <- OneCountry
  CountryOf <- SameCountry
  Ping <- SamePing
  Mode = {"auto"}
  SelfExit = TRUE
  AutoConnect = TRUE
  FetchFails = FALSE
  StartFails = FALSE
  RouteFails = TRUE
  SavedNodes <- RefreshedLists
  SavedUI <- Unpinned
  Activity = {"maintain", "connect", "disconnect", "refresh"}
SPECIFICATION FairSpec
PROPERTIES OperationsEnd SpinnerStops CondemnedEnd 
