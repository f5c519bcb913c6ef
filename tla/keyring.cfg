CONSTANTS
  KEY_BUF_MAX_SIZE <- MCRingSize
  Bytes <- MCBytes
  Chunks <- MCChunks
  Sizes <- MCSizes
  Keys <- MCKeys
  Presses <- MCPresses
  Moves <- MCMoves
  MaxInput = 3
SPECIFICATION InputSpec
INVARIANTS
  TypeOK
  KeysInOrder
  PacketsCount
  ShiftRight
PROPERTIES
  ImplementsFifo
  EveryKeyArrives
CHECK_DEADLOCK FALSE
