SPECIFICATION Spec
CONSTANTS
  ENTRIES = 5
  MemoryMaps <- High
  KernelFrames <- Kernel
  Kernel_PML4_TABLE = 3
  Frames = 55
  BootFrames = 55
  HeapPages = 3
  DeviceLists <- OneDevice
  VideoFrame = 1
  ThreadPages = 2
INVARIANT MappedAsAsked
