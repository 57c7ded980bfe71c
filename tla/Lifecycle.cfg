CONSTANT MaxPipe = 2
SPECIFICATION FairSpec
INVARIANTS TypeOK NothingLost ClosedLast NoStray LossTold
PROPERTY Terminates
CHECK_DEADLOCK FALSE
