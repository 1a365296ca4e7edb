\* Three variables, four cells, two elements; every order of calls.
SPECIFICATION Spec
CONSTANTS
  Cells = {1, 2, 3, 4}
  Heads = {11, 12, 13}
  Vars = {a, b, c}
  Data = {p, q}
  NULL = NULL
  Fresh <- LowestFree
SYMMETRY Symmetry
INVARIANTS
  TypeOK
  AssertionsHold
  WellLinked
  HeapOwned
  NthRight
PROPERTIES
  Refines
  LoopsAdvance
CHECK_DEADLOCK FALSE
