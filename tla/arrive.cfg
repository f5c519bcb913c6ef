CONSTANTS
  rusk = rusk
  bearing = bearing
  c1 = c1
  c2 = c2
  Rusk = rusk
  Bearing = bearing
  None = None
  Clients <- MCOneClient
  Kinds <- MCClicks
  MaxEvents = 2
  MaxBatch = 1
  Windows = 1
  Reactions <- MCDraws
SPECIFICATION FairSpec
PROPERTIES
  WindowsOpen
  EventsArrive
CHECK_DEADLOCK FALSE
