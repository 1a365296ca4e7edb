\* The sizes of the program: the read buffer of main.c, small pieces on both
\* sides of a multiple of 16, and requests around the size of a block.
SPECIFICATION Spec
CONSTANTS
  MinBlock = 65536
  Requests = {1, 16, 17, 32768, 65527, 65537}
  Addresses = {0, 70000, 140000, 210000}
  MaxChunks = 5
INVARIANTS
  RoomForOffset
  ChunksAligned
  ChunksInBlocks
  ChunksDisjoint
  BlocksOwned
CHECK_DEADLOCK FALSE
