\* IPv4 addresses without a prefix length, with zero blocks.
CONSTANTS
  NB4 = 4
  BB4 = 8
  NB6 = 8
  BB6 = 16
  C = 64
  Texts <- MCZeroBlocks
  Again = {}
  Nets4 = {}
  Nets6 = {}
SPECIFICATION Spec
INVARIANTS
  GuessIsOfNonZeroBlocks
CHECK_DEADLOCK FALSE
