\* The real day; the fade-out of the 120 minute transition.
SPECIFICATION Spec
CONSTANTS
  Slot <- MCTwoSlots
  Entry <- MCRealEntries
  Day = 1440
  Top = 255
  CacheSize = 16
  Allowed = {}
  Disturbances = 0
INVARIANTS FadeOutOnTime
