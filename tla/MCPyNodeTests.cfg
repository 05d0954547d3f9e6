\* A batch and a single test, two nodes of which one is good, two devices for
\* up to three workers.
CONSTANTS
  Node = {n1, n2}
  Single = {s1}
  Batch = {b1}
  Good = {n1}
  Fetched <- Lists
  Last = 3
SPECIFICATION Spec
INVARIANTS OnlyLastIsShared NoDeviceLeaks 
 
