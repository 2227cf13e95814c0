CONSTANTS
  M = 3
SPECIFICATION FairSpec
INVARIANTS TypeOK PeersKnown LoadedBeforeCompute LeavesWithBlocks
PROPERTIES OnlyKnownObstacles
CHECK_DEADLOCK FALSE
