\* Two browsers; two pairs of ports and two paths to change between.
CONSTANTS
  Client = {b1, b2}
  Cred = {a1}
  p1 = p1
  p2 = p2
  s1 = s1
  s2 = s2
  Address <- Addresses
  Mode = {m1}
  DefaultAddress <- First
  DefaultMode = m1
  Random = random
  Torn = torn
SPECIFICATION FairSpec
INVARIANTS TypeOK FileIsWhole RestartFollowsPorts RedirectIsRight
 
