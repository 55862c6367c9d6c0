\* The page of the device, 32 bytes; the eleventh record does not fit page 1.
SPECIFICATION Spec
CONSTANTS
  Entry = {e1}
  BlankEntry = blank
  Garbled = garbled
  PageWords = 16
  Pages = 3
  Erased = FALSE
  LastAppend = 28
INVARIANT EntriesFitTheirPage
CHECK_DEADLOCK FALSE
