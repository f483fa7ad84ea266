\* Three bits: every tree of depth 3, with auto-collapse off, inside the tree
\* and beyond its depth, under the fairness of a running thread.
CONSTANTS
  W = 3
  NULL = NULL
  Inputs <- MCInputs
  PurgeNets <- MCPurgeNets
  CollapseLens = {0, 1, 2, 4}
SPECIFICATION FairSpec
INVARIANTS
  TypeOK
  Shape
  AutoCollapsed
  NoHotSiblings
  InvertNeverInvalid
  StackBounded
  OutputSorted
  Calls
  IInv
  SInv
PROPERTIES
  ImplementsIpSet
  OperationEnds
