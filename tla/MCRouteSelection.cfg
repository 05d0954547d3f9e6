CONSTANTS
  n1 = n1
  n2 = n2
  n3 = n3
  c1 = c1
  c2 = c2
  None = None
  Node <- Nodes
  Country <- Countries
  CountryOf <- TwoAndOne
  Ping <- Pings
  Mode = {"auto", "fixed_ip", "fixed_region"}
  MaxLen = 3
SPECIFICATION Spec
INVARIANTS  PolicyHonoured
