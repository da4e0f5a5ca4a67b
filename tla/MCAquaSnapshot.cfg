SPECIFICATION AquaSpec
CONSTANTS
  N = 2
  Fish = {f}
  MaxInitiations = 1
  AquaTanks = {t1, t2, t3}
  Swimmers = {g}
  Null = Null
  NamedNull = NamedNull
  MayLeave = {t1}
  MaxHops = 3
  Algorithms = {"snapshot", "location"}
  
PROPERTIES RecordingEnds
CHECK_DEADLOCK FALSE
