\* Three pieces of data each way, names with up to two addresses.
CONSTANTS
  Host = "::"
  ClientData <- FromTheClient
  DestData <- FromTheDest
  MaxAddress = 2
SPECIFICATION Spec
INVARIANTS SocketsClosed ClientStream DestStream AnswerIsWhole
PROPERTIES HandlerEnds
CHECK_DEADLOCK FALSE
