\* All operands of 5 bits; unsigned long long is as wide as long, as on a DPU.
CONSTANTS
  LONG_BITS = 9
  LONG_LONG_BITS = 9
SPECIFICATION Spec
INVARIANTS ModularResult
