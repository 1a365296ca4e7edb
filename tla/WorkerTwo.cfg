\* Two workers on one listening socket, three patient clients, and a limit on
\* the descriptors that a worker hits with two connections and a file.
SPECIFICATION Spec
CONSTANTS
  Conns = {c1, c2, c3}
  Leavers = {}
  Workers = {w1, w2}
  NULL = NULL
  Coop = {}
  SndBuf = 1
  Sizes = {1}
  BufSize = 1
  HdrLen = 1
  FdLimit = 3
  Errors = {"HTTP_INTERNAL_SERVER_ERROR"}
  Rejections = {"HTTP_BAD_REQUEST"}
  NDEBUG = FALSE
  MemoryMayRunOut = FALSE
SYMMETRY Symmetry
PROPERTIES
  NoSpuriousDeath
CHECK_DEADLOCK FALSE
