SPECIFICATION Spec
CONSTANTS
  Motors <- TwoMotors
  MotorLists <- AnyOrder
  Periods = {1}
  Initial = 2
  Wrap = 3
  Junk = {0}
INVARIANT ServedAsAsked
PROPERTY OthersKept
