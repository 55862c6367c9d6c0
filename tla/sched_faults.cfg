SPECIFICATION Spec
CONSTANTS
  Slot <- MCSlot
  Entry <- MCFewEntries
  Day = 6
  Top = 3
  CacheSize = 3
  Allowed = {"add", "delete", "late", "bus"}
  Disturbances = 2
INVARIANTS LitHasOwner
PROPERTIES Recovers GoesDark DeletedForgotten
