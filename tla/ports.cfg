CONSTANTS
  client = client
  other = other
  server = server
  NoProc = NoProc
  Channels <- MCChannels
  Sizes <- MCSizes
  PageSize <- MCPageSize
  MaxObjects = 5
  MaxMsgs = 3
  MaxBeyond = 3
SPECIFICATION Spec
INVARIANTS
  PollTellsSent
PROPERTIES
  Isolation
  ImplementsStream
SYMMETRY MCSymmetry
CHECK_DEADLOCK FALSE
