\* Two threads; arrays of 8 elements are copied by the CPU or by one DPU, of 32 in
\* two blocks and of 64 in four, by two of three DPUs in one and in two iterations.
CONSTANTS
  Threads = {1, 2}
  NR_DPUS = 3
  AVAILABLE_DPUS = 6
  THRESH = 4
  Q = 2
  D_CACHE_SIZE = 8
  Ks = {3, 5, 6}
  Cached = {{}, {2}}
SPECIFICATION FairSpec
INVARIANTS EvenPlan PoolConserved NoAbort
PROPERTIES ImplementsCopy AllCopied
