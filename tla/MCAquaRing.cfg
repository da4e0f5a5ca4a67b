SPECIFICATION Spec
CONSTANTS
  Tanks = {a, b, c}
  Broker = broker
  None = None
  Fish = {}
  Leavers = {}
  Width = 3
  XSize = 1
  MaxFishies = 2
  MaxLeases = 0
INVARIANTS TokenConserved TokenIsGivenBack
 
CHECK_DEADLOCK FALSE
