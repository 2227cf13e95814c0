CONSTANTS
  H = 4
  M = 3
  N = 2
  SchedulePieces = 1
  ListPieces = 2
SPECIFICATION FairSpec
INVARIANTS TypeOK InTurn LoadedBeforeBegin DismissedLast
PROPERTIES ImplementsSuperstep EndsUnlessSwallowed
CHECK_DEADLOCK FALSE
