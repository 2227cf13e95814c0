CONSTANTS
  M = 2
SPECIFICATION Spec
INVARIANTS LengthsAgree
CHECK_DEADLOCK FALSE
