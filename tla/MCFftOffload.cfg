\* 4 DPUs of 2 tasklets: a block on 1, 2 and 4 DPUs, a block each, two and more
\* iterations or blocks; one portion, equal portions and a smaller last portion.
CONSTANTS
  NR_TASKLETS = 2
  UINT8 = 256
  NR_DPUS = 4
  AVAILABLE_DPUS = 4
  Layers <- MCLayers
  Given <- MCGiven
  Factor <- MCFactor
  Bf <- MCBf
  Bf0 <- MCBf0
  LEAST = 4
  Arrays <- MCArrays
  Results <- MCResults
  Element <- MCElement
  Compute <- MCCompute
  Sizes = {4, 8, 16, 20, 24, 32, 40}
  NoInit = NoInit
SPECIFICATION FairSpec
INVARIANTS PlansCover TransfersMeet
PROPERTIES ImplementsMethod Completes
