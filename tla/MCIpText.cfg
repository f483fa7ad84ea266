\* The real sizes: 4 octets, 8 double octets, words of 64 bits.
CONSTANTS
  NB4 = 4
  BB4 = 8
  NB6 = 8
  BB6 = 16
  C = 64
  Texts <- MCTexts
  Again <- MCAgain
  Nets4 <- MCNets4
  Nets6 <- MCNets6
SPECIFICATION Spec
INVARIANTS
  Ip4MeansText
  Ip6MeansText
  GuessKeepsBlocks
  GuessCountsWrittenBlocks
  BuffersInBounds
  ReadBack
  CompactText
  JsonExact
  BitOpsHold
  MasksHold
CHECK_DEADLOCK FALSE
