SPECIFICATION Spec
CONSTANTS
  ENTRIES = 5
  MemoryMaps <- Maps
  KernelFrames <- Kernel
  Kernel_PML4_TABLE = 3
  Frames = 55
  BootFrames = 40
  HeapPages = 3
  DeviceLists <- Devices
  VideoFrame = 1
  ThreadPages = 2
INVARIANTS
  MappedAsAsked
  TablesOwnTheirFrames
  UserReachesItsPages
  KernelMappedInThread
  NoFaultIfCovered
