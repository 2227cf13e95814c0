CONSTANTS
  M = 2
  N = 3
  Asyn = TRUE
  OLen <- UnevenBlocks
SPECIFICATION FairSpec
INVARIANTS IInv
PROPERTIES RunEnds ImplementsSuperstep
