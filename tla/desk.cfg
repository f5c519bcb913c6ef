CONSTANTS
  rusk = rusk
  bearing = bearing
  c1 = c1
  c2 = c2
  Rusk = rusk
  Bearing = bearing
  None = None
  Clients <- MCTwoClients
  Kinds <- MCPresses
  MaxEvents = 1
  MaxBatch = 1
  Windows = 1
  Reactions <- MCQuiet
SPECIFICATION Spec
INVARIANTS
  InStep
  OwnHandles
  IntroducedOnce
  OwnPictures
CONSTRAINT MCQuietAstray
SYMMETRY MCSymmetry
CHECK_DEADLOCK FALSE
