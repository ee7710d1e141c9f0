SPECIFICATION FairSpec
CONSTANTS
  Iterations = {1, 2}
  MaxQueue = 2
  KeepsUp = TRUE
  Settings = {1, 2}
  MaxCommands = 2
  MaxBatches = 10
  MaxRestarts = 1
INVARIANTS TypeOK IsTheSignal DoneIsComplete NoSleepAfterEnd
PROPERTY CommandEnds
CHECK_DEADLOCK FALSE
