SPECIFICATION FairSetSpec
CONSTANTS
  Pins <- TwoPins
  SetPrompt = TRUE
INVARIANT AppliedAsAsked
PROPERTY RaisedIsApplied
