CONSTANTS
  TblEntries = 40
  StrChars = 2
  PageBytes = 4
  Spell <- MCSpell
  NoFile <- MCNoFile
  Nothing = Nothing
  Wild <- MCWild
  Unset = Unset
  Procs = {"start", "p"}
  SectsPerBlock = 2
  MaxSectors = 4
  UintSize = 64
  UlongSize = 256
  HeaderBytes = 2
  HeapBytes = 46
  NULL = NULL
  Configs <- MCConfigs
  KernelName <- MCKernel
  StartPath <- MCStart
  ListPath <- MCList
  ListFile = "list"
  Paths <- MCPaths
SPECIFICATION FairSpec
INVARIANTS
  TreeAsDeclared
  KernelLoaded
  OneHolder
  NoOverlap
  StartedRight
  HeapUsedUp
PROPERTY
  AllStarted
CHECK_DEADLOCK FALSE
