CONSTANTS
  M = 2
  NTop = 2
  Window = 2
  Size <- SizeFiveTwo
  Values <- NonNegative
  Garbage <- Leftover
SPECIFICATION Spec
INVARIANTS TypeOK TopSoFar FrontsThere PrintedTop
CHECK_DEADLOCK FALSE
