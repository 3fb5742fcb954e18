\* 5 DPUs, not a power of two, of 2 tasklets with caches of 2 elements.
CONSTANTS
  NR_TASKLETS = 2
  WRAM_SIZE = 128
  NR_DPUS = 5
  AVAILABLE_DPUS = 5
  UINT32 = 64
  PhiMs = {4, 8}
  IndexSets <- MCIndexSets
  ThisRow <- MCThisRow
  OtherRow <- MCOtherRow
  NoInit = NoInit
  Fun <- MCFun
SPECIFICATION FairSpec
INVARIANTS PlanFits PlanInv TransfersMeet
PROPERTIES ImplementsOp Completes
