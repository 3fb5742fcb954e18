\* 4 tasklets with caches of 2 elements; rows shorter than the tasklets,
\* of one chunk and of two chunks per tasklet.
CONSTANTS
  NR_TASKLETS = 4
  WRAM_SIZE = 256
  BUF_SIZE = 20
  Sizes = {1, 2, 4, 8, 16}
  Value <- MCValue
  RowThis <- MCRowThis
  RowOther <- MCRowOther
  Fun <- MCFun
SPECIFICATION FairSpec
INVARIANTS NoRace ResultCorrect KernelInv
PROPERTIES ImplementsElementwise Terminates
