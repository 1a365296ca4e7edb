\* A Release build, where asserts do nothing, on a machine short of memory: two
\* workers, and two clients that may leave at any time.
SPECIFICATION Spec
CONSTANTS
  Conns = {c1, c2}
  Leavers = {c1, c2}
  Workers = {w1, w2}
  NULL = NULL
  Coop = {}
  SndBuf = 1
  Sizes = {2}
  BufSize = 1
  HdrLen = 1
  FdLimit = 9
  Errors = {"HTTP_NOT_FOUND"}
  Rejections = {"HTTP_BAD_REQUEST"}
  NDEBUG = TRUE
  MemoryMayRunOut = TRUE
SYMMETRY Symmetry
INVARIANTS
  EveryFdTracked
PROPERTIES
  KeepsPromise
CHECK_DEADLOCK FALSE
