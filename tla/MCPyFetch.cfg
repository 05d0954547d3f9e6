\* Five lists, four environments, twenty conditions of the network.
CONSTANTS
  a = a
  b = b
  Ip = {a, b}
  Texts <- MCTexts
  Settings <- MCSettings
  Networks <- MCNetworks
  MaxRows = 3
SPECIFICATION Spec
INVARIANTS TypeOK NoFalseAlarm DiagnosisMatches WholeListTaken
