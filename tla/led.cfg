SPECIFICATION Spec
CONSTANTS
  Top = 4
  Periods = {0, 1, 2}
  Calls = 3
INVARIANTS TypeOK EndsAtLevel
PROPERTIES Smooth ComesToRest
CHECK_DEADLOCK FALSE
