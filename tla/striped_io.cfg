CONSTANTS
  multiplex = 2
  niothreads = 1
  main = main
  loader = loader
  Caller = {main, loader}
  Uses <- MainAndLoader
  Sizes = {1, 2}
  MaxReq = 2
SPECIFICATION FairSpec
INVARIANTS TypeOK PendingExact FreedAtTheEnd WaitedIsMoved
PROPERTIES CallsReturn AllServed
CHECK_DEADLOCK FALSE
