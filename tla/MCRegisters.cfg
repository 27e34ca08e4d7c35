SPECIFICATION Spec
CONSTANTS
  Threads = {t1}
  dummy_tcb = dummy_tcb
  NULL = NULL
  Kernel_PML4_TABLE = Kernel_PML4_TABLE
  UINT16_MAX = 3
  Priorities = {0}
  NumProcesses = 1
  RegValues = {zero, one}
  Positions = {entry}
  ThreadEntry = entry
  ZeroReg = zero
INVARIANT RegistersPreserved
