SPECIFICATION MCSpec
CONSTANTS
  MAX_WIFI_TRIES = 2
  Changes = 1
  Slot = {0, 1}
  Requests = 2
  Upload = {1, 2}
INVARIANTS TypeOK SleepsOnlyOnline AtMostOnePauseInVain OwnArguments PageShowsRecords
PROPERTIES DeletesInPlainUse RestartLosesNoTask Reconnects EverythingServed
