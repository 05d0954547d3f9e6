CONSTANTS
  n1 = n1
  n2 = n2
  n3 = n3
  c1 = c1
  None = None
  Node <- Nodes
  Country <- OneCountry
  CountryOf <- SameCountry
  Ping <- Pings
  Worker = {w1, w2, w3}
  Sem = 2
  Prefiltered <- Tcp
  Batch <- Batches
  MaxTarget = 2
SPECIFICATION FairSpec
INVARIANTS  EnoughOrAll ResultIsList NobodyStuck
PROPERTIES BatchShrinks BatchEnds
