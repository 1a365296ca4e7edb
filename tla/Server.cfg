\* Two processes, two clients that may leave at any time, and any fork may fail.
SPECIFICATION ServerSpec
CONSTANTS
  MaxProcesses = 2
  Conns = {c1, c2}
  Leavers = {c1, c2}
  Workers = {w1, w2}
  NULL = NULL
  Coop = {}
  SndBuf = 1
  Sizes = {1}
  BufSize = 1
  HdrLen = 1
  FdLimit = 9
  Errors = {"HTTP_NOT_FOUND"}
  Rejections = {"HTTP_BAD_REQUEST"}
  NDEBUG = FALSE
  MemoryMayRunOut = FALSE
SYMMETRY Symmetry
INVARIANTS
  NobodyStranded
  WithinReach
PROPERTIES
  ServesAsPromised
CHECK_DEADLOCK FALSE
