SPECIFICATION Spec
CONSTANTS
  Entry = {e1, e2}
  BlankEntry = blank
  Garbled = garbled
  PageWords = 7
  Pages = 3
  Erased = FALSE
  LastAppend = 7
INVARIANTS TypeOK AckedListed ChainSound EntriesFitTheirPage
PROPERTIES GrowOnlyWhenFull ImplementsRecordStore
