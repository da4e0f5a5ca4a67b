SPECIFICATION Spec
CONSTANTS
  Tanks = {a, b, c, d}
  Workers = {v, w}
  Renewers = {a}
  MaxLeases = 1
INVARIANTS ListedOnce
PROPERTIES Answered
CHECK_DEADLOCK FALSE
