SPECIFICATION FairSpec
CONSTANTS
  adc = adc
  gpio_input = gpio_input
  gpio_output_set = gpio_output_set
  system = system
  System <- system
  Tasks <- ServedTasks
  Spawning <- ServedSpawning
  Endless <- NoThreads
  StopOrder <- ServedOrder
  Rearming <- Rearms
  Blocks = {b1, b2}
  None = None
INVARIANTS TypeOK OneOwner NoStuckBusy FlagIsLock
PROPERTIES QueuedIsServed ShutdownEnds
CHECK_DEADLOCK FALSE
