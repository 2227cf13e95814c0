CONSTANTS
  M = 3
  N = 2
  Asyn = FALSE
  OLen <- OnePiece
SPECIFICATION Spec
INVARIANTS Lockstep BlocksComplete BoundedStaleness NoOverrun RecvCountExact OutBlockQuiet BarrierExact
