\* The pile's first capacity is 1 instead of 12, so that it grows.
CONSTANTS
  PileSize = 1
  MaxPurge = 3
  MaxFiles = 2
  MaxNodes = 3
SPECIFICATION Spec
INVARIANTS
  TypeOK
  MemorySafe
  NothingLost
  IInv
