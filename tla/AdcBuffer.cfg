SPECIFICATION Spec
CONSTANTS
  Sizes <- Requested
  Lengths <- Requested
  SizeMin = 8
  SizeMax = 24
  SamplesMax = 40
  HalfWords = 48
INVARIANTS PublishedIsSignal SamplesPublished
CHECK_DEADLOCK FALSE
