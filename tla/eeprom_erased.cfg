\* A chip as it leaves the factory: all bytes 0xFF.
SPECIFICATION Spec
CONSTANTS
  Entry = {e1, e2}
  BlankEntry = blank
  Garbled = garbled
  PageWords = 7
  Pages = 2
  Erased = TRUE
  LastAppend = 3
INVARIANT AckedListed
CHECK_DEADLOCK FALSE
