CONSTANTS
  PageSize <- MCPageSize
  UIntRange <- MCUIntRange
  Requests <- MCRequests
  MemoryMap <- MCMemoryMap
  KernelSpace <- MCKernelSpace
  MaxObjects <- MCMaxObjects
SPECIFICATION SpecToOverflow
INVARIANTS
  NoOverlap
  AlignedNotNull
PROPERTY
  ImplementsPool
