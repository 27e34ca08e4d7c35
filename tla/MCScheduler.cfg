SPECIFICATION FairSpec
CONSTANTS
  Threads = {t1, t2, t3}
  dummy_tcb = dummy_tcb
  NULL = NULL
  Kernel_PML4_TABLE = Kernel_PML4_TABLE
  UINT16_MAX = 4
  Priorities = {0, 1, 3}
  NumProcesses = 3
  RegValues = {zero}
  Positions = {entry, later}
  ThreadEntry = entry
  ZeroReg = zero
INVARIANTS
  TypeOK
  QueueIsLinkedList
  FaultOnlyWithoutInit
  RunningIsLast
  DispatchesRunnable
  ResumesWhereInterrupted
  BoundedWaiting
PROPERTIES
  NoTwoContiguousTurns
  ImplementsQueue
  NoStarvation
