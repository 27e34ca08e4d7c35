SPECIFICATION Spec
CONSTANTS
  NumProcesses = 1
  PoolSizes = {15, 16}
  AllocationInfos <- OneInfo
  DEFAULT_PAGE_SIZE = 4096
  BootObjects <- Boot
  HeapSizes = {130560}
INVARIANT PermissionsApplied
