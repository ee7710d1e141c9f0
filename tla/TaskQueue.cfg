SPECIFICATION FairSpec
CONSTANTS
  Producers = {p1, p2}
  Worker = w
  Closer = c
  Items = {i1, i2}
  Empty = Empty
  Nobody = Nobody
INVARIANTS TypeOK NoLostWakeup
PROPERTY ImplementsMailbox
CHECK_DEADLOCK FALSE
