SPECIFICATION DaemonSpec
CONSTANTS
  Capacity = 3
  Main = main
  Net = net
  Producers = {main, net, worker}
  Messages = {"shutting down", "report"}
  Null = Null
  Text <- MCText
INVARIANTS TypeOK RingOK NoLostWakeup DestroyedUnused
PROPERTIES ImplementsFifo DaemonEnds
CHECK_DEADLOCK FALSE
