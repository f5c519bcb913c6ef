CONSTANTS
  t1 = t1
  t2 = t2
  t3 = t3
  t4 = t4
  None = None
  Threads <- MCThreads
  StaleBytes <- MCStaleBytes
  MaxObjects <- MCMaxObjects
SPECIFICATION FairSpec
INVARIANTS
  OneTaken
  BoundedWait
PROPERTY
  EveryThreadRuns
