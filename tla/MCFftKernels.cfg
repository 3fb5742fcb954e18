\* 4 tasklets; up to 8 blocks or 32 butterflies; then fewer blocks of the last two
\* layers than tasklets, as many, and twice as many.
CONSTANTS
  NR_TASKLETS = 4
  UINT8 = 256
  BUFFER_SIZE = 36
  BUFFER_BLOCKS = 8
  BlockCounts = {2, 4, 8}
  Launches <- MCLaunches
  Value <- MCValue
  Xp <- MCXp
  Wtab <- MCWtab
  Bf <- MCBf
  Bf0 <- MCBf0
  BlockValue <- MCBlockValue
  BlockXp <- MCBlockXp
  Quad <- MCQuad
SPECIFICATION MCSpec
INVARIANTS KernelInv NoRace OwnBlocks BlocksComputed
PROPERTIES ImplementsElementwise BothTerminate
