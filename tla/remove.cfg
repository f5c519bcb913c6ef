CONSTANTS
  rusk = rusk
  bearing = bearing
  c1 = c1
  c2 = c2
  Rusk = rusk
  Bearing = bearing
  None = None
  Clients <- MCOneClient
  Kinds <- MCMouse
  MaxEvents = 1
  MaxBatch = 1
  Windows = 1
  Reactions <- MCDestroys
SPECIFICATION Spec
PROPERTIES
  RemoveRemoves
CHECK_DEADLOCK FALSE
