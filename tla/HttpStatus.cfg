\* Texts long enough for a uri beyond the limit.
SPECIFICATION Spec
CONSTANTS
  UriLimit = 2
  MaxPieces = 7
INVARIANTS
  StatusAsDocumented
CHECK_DEADLOCK FALSE
