CONSTANTS
  p1 = p1
  p2 = p2
  None = None
  Entries <- MCEntries
  Levels <- MCLevels
  CodePages = 2
  FaultPages <- MCFaultPages
  Frames <- MCFrames
  Procs <- MCProcs
  MaxObjects <- MCMaxObjects
SPECIFICATION Spec
INVARIANTS
  OwnPagesOnly
  FramesApart
PROPERTY
  KernelStays
SYMMETRY MCSymmetry
CHECK_DEADLOCK FALSE
