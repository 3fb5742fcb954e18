\* Operands of 5 bits; unsigned long long is as wide as long, as on a DPU.
CONSTANTS
  LONG_BITS = 9
  LONG_LONG_BITS = 9
  Additions <- MCAdditions
  BPL_ESTIMATE = 30
  RING = 101
SPECIFICATION MCSpec
INVARIANTS
  ModularWithinWidth FftIsDft TransformsInvert RingRight SlotsMove CircuitsCompute
  RecryptionRestores AdditionRight AdditionProceeds
\* A call is answered once.
CHECK_DEADLOCK FALSE
