\* As in MCCobraOffload.cfg, on a machine with no more DPUs than the library uses.
CONSTANTS
  Threads = {1, 2}
  NR_DPUS = 3
  AVAILABLE_DPUS = 3
  THRESH = 4
  Q = 2
  D_CACHE_SIZE = 8
  Ks = {3, 5, 6}
  Cached = {{}, {2}}
SPECIFICATION Spec
INVARIANTS EnoughDpus
