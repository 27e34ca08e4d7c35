SPECIFICATION Spec
CONSTANTS
  DEFAULT_PAGE_SIZE = 16
  UINT32 = 128
  WORD = 4
  MAX_MEM_REGIONS = 3
  MmapTags <- LargeTags
  KernelStart = 4
  BitmapData = 65
  Clients = {c1, c2}
  PageRequests = {1, 2, 3, 5}
  CountRequests = {0, 2, 3, 6}
SYMMETRY Symmetry
INVARIANT NoFrameSharedInRegions
