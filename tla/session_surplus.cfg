CONSTANTS
  H = 2
  M = 1
  N = 1
  SchedulePieces = 1
  ListPieces = 1
SPECIFICATION Spec
INVARIANTS ScheduleRead
CHECK_DEADLOCK FALSE
