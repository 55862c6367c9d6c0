SPECIFICATION Spec
CONSTANTS
  LastYear = 2037
  Times <- MCTimes
  Ticks = 2
  Failures = 1
INVARIANTS DecodesSafely ShowsTime
