SPECIFICATION Spec
CONSTANTS
  Wrap = 9
  Interval = 2
  Timeout = 1
  Period = 4
  MaxDelay = 2
  Disturbances = 2
INVARIANTS TimeRight
