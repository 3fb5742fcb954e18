\* One tasklet and one DPU, the blocks of test_dpu_new_fft_layer.
CONSTANTS
  NR_TASKLETS = 1
  UINT8 = 256
  BUFFER_SIZE = 2048
  Launches <- MCManyBlocks
  Value <- MCMarks
  Xp <- MCNoMarks
  Wtab <- MCNoFactors
  Bf <- MCMarkBf
  Bf0 <- MCMarkBf0
SPECIFICATION FairSpec
PROPERTIES Terminates
