SPECIFICATION FairSpec
CONSTANTS
  adc = adc
  gpio_input = gpio_input
  gpio_output_set = gpio_output_set
  system = system
  System <- system
  Tasks <- StopTasks
  Spawning <- NoThreads
  Endless <- StopEndless
  StopOrder <- StopSequence
  Rearming <- Rearms
  Blocks = {b1, b2}
  None = None
PROPERTY StopTakesEffect
CHECK_DEADLOCK FALSE
