\* Two functions of the page suspended at once; no fetch fails.
CONSTANTS
  Call = {f1, f2}
  Fails = FALSE
SPECIFICATION FairSpec
PROPERTIES PageCatchesUp
