\* One worker of a Debug build and two clients that may leave at any time;
\* descriptors and memory suffice.  The file may change at any time, and is read
\* in two parts; the send buffer is smaller than the read buffer, and larger than
\* the second part.
SPECIFICATION Spec
CONSTANTS
  Conns = {c1, c2}
  Leavers = {c1, c2}
  Workers = {w1}
  NULL = NULL
  Coop = {}
  SndBuf = 2
  Sizes = {0, 4}
  BufSize = 3
  HdrLen = 1
  FdLimit = 9
  Errors = {"HTTP_NOT_FOUND", "HTTP_INTERNAL_SERVER_ERROR"}
  Rejections = {"HTTP_BAD_REQUEST"}
  NDEBUG = FALSE
  MemoryMayRunOut = FALSE
SYMMETRY ConnSymmetry
INVARIANTS
  TypeOK
  AssertionsHold
  ArenaFollowsCall
  WaitsOnlyInSelect
  OneResponse
  BodyInOrder
  AnnouncedLength
PROPERTIES
  EndsOnce
  RoundsAdvance
CHECK_DEADLOCK FALSE
