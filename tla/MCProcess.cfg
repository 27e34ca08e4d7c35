SPECIFICATION Spec
CONSTANTS
  NumProcesses = 3
  PoolSizes = {0, 1, 5, 14, 15, 16, 28, 31, 45, 48}
  AllocationInfos <- Infos
  DEFAULT_PAGE_SIZE = 4096
  BootObjects <- Boot
  HeapSizes = {36, 60, 130560}
INVARIANTS
  TypeOK
  DispatchedFramesExclusive
  DispatchedComplete
  FramesConserved
  ObjectsDisjoint
  HeadersDescribeBlocks
  GivesUpOnlyWhenFull
