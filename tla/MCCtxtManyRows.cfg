\* 6 rows for 5 DPUs.
CONSTANTS
  NR_TASKLETS = 2
  WRAM_SIZE = 128
  NR_DPUS = 5
  AVAILABLE_DPUS = 5
  UINT32 = 64
  PhiMs = {4, 8}
  IndexSets <- MCManyRows
  ThisRow <- MCThisRow
  OtherRow <- MCOtherRow
  NoInit = NoInit
  Fun <- MCFun
SPECIFICATION Spec
INVARIANTS CopyOfOp
