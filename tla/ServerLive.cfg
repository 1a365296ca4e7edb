\* Two processes; a client that sends its request and reads the response, beside
\* one that may be silent or slow; and a worker dies if an allocation fails.
SPECIFICATION ServerFairSpec
CONSTANTS
  MaxProcesses = 2
  Conns = {c1, c2}
  Leavers = {}
  Workers = {w1, w2}
  NULL = NULL
  Coop = {c1}
  SndBuf = 1
  Sizes = {1}
  BufSize = 1
  HdrLen = 1
  FdLimit = 9
  Errors = {"HTTP_NOT_FOUND"}
  Rejections = {"HTTP_BAD_REQUEST"}
  NDEBUG = FALSE
  MemoryMayRunOut = TRUE
PROPERTIES
  CoopAnswered
CHECK_DEADLOCK FALSE
