\* One client that closes its end before it has sent anything.
SPECIFICATION Spec
CONSTANTS
  Conns = {c1}
  Leavers = {c1}
  Workers = {w1}
  NULL = NULL
  Coop = {}
  SndBuf = 1
  Sizes = {1}
  BufSize = 1
  HdrLen = 1
  FdLimit = 9
  Errors = {"HTTP_NOT_FOUND"}
  Rejections = {"HTTP_BAD_REQUEST"}
  NDEBUG = FALSE
  MemoryMayRunOut = FALSE
INVARIANTS
  HandlerLeavesWaiting
CHECK_DEADLOCK FALSE
