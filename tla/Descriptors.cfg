\* Three connections and room for four descriptors beside the listening socket.
SPECIFICATION Spec
CONSTANTS
  Conns = {c1, c2, c3}
  NumFds = 8
INVARIANTS
  NumbersOwned
  SetsComplete
  BitsFresh
