SPECIFICATION FairSpec
CONSTANTS
  Capacity = 3
  MaxShown = 7
INVARIANTS AscendingQueue NoLostWakeup
PROPERTY ShutdownEnds
CHECK_DEADLOCK FALSE
