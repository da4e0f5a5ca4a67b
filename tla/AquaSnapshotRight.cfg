SPECIFICATION Safe
CONSTANTS
  N = 3
  Fish = {f}
  MaxInitiations = 1
INVARIANTS RightMarkerRecordsLeft
CHECK_DEADLOCK FALSE
