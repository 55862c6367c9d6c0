SPECIFICATION MCSpec
CONSTANTS
  MAX_WIFI_TRIES = 2
  Changes = 0
  Slot = {0, 1}
  Requests = 2
  Upload = {1, 2}
PROPERTIES DeletesTheRow
