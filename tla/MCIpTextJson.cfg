\* One address of every kind of length, its JSON object only.
CONSTANTS
  NB4 = 4
  BB4 = 8
  NB6 = 8
  BB6 = 16
  C = 64
  Texts = {}
  Again = {}
  Nets4 = {}
  Nets6 <- MCNets6
SPECIFICATION Spec
INVARIANTS
  JsonLastIsLast
CHECK_DEADLOCK FALSE
