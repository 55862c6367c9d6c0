SPECIFICATION Spec
CONSTANTS
  Slot <- MCSlot
  Entry <- MCAllEntries
  Day = 6
  Top = 3
  CacheSize = 3
  Allowed = {}
  Disturbances = 0
INVARIANTS TypeOK NoneMissed LitOnlyInWindow
PROPERTIES TopOnlyInFadeOut
