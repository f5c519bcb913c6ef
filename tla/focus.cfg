CONSTANTS
  rusk = rusk
  bearing = bearing
  c1 = c1
  c2 = c2
  Rusk = rusk
  Bearing = bearing
  None = None
  Clients <- MCTwoClients
  Kinds <- MCAllKinds
  MaxEvents = 3
  MaxBatch = 2
  Windows = 1
  Reactions <- MCDestroys
SPECIFICATION SpecSettled
INVARIANTS
  EventsOrdered
  ChosenInFront
  CopyFresh
CONSTRAINT MCQuietAstray
SYMMETRY MCSymmetry
CHECK_DEADLOCK FALSE
