CONSTANTS
  Inputs <- Graphs
  Esc = 2
  MaxRun = 1
SPECIFICATION Spec
INVARIANTS TypeOK FailsOnlyIfKnown FailsOnlyAtZero BlocksAgree
PROPERTIES PointersRight
