CONSTANTS
  M = 2
  NTop = 2
  Window = 2
  Size <- SizeFiveTwo
  Values <- NonNegative
  Garbage <- Leftover
SPECIFICATION Spec
INVARIANTS PrintedVertices
CHECK_DEADLOCK FALSE
