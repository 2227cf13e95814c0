CONSTANTS
  Thread = {t1, t2, t3}
  J = 4
  N = 2
SPECIFICATION FairSpec
INVARIANTS FrontThere EachOnce CountExact
PROPERTIES AllRun
CHECK_DEADLOCK FALSE
