\* A degree that is not a power of two.
CONSTANTS
  NR_TASKLETS = 2
  WRAM_SIZE = 128
  NR_DPUS = 5
  AVAILABLE_DPUS = 5
  UINT32 = 64
  PhiMs = {6}
  IndexSets <- MCFewRows
  ThisRow <- MCThisRow
  OtherRow <- MCOtherRow
  NoInit = NoInit
  Fun <- MCFun
SPECIFICATION Spec
INVARIANTS CopyOfOp
