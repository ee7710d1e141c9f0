SPECIFICATION IntakeSpec
CONSTANTS
  Channels = 2
  SampleRates <- Rates
  BufferSizes <- Sizes
INVARIANTS
  ReadsOnlyWritten
  AcceptedIsServed
  PollsInTime
