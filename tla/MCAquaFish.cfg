SPECIFICATION Safe
CONSTANTS
  Tanks = {a, b}
  Broker = broker
  None = None
  Fish = {f}
  Leavers = {a, b}
  Width = 3
  XSize = 1
  MaxFishies = 2
  MaxLeases = 1
SYMMETRY Symmetry
INVARIANTS TypeOK  
CHECK_DEADLOCK FALSE
