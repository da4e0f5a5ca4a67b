SPECIFICATION Spec
CONSTANTS
  Endpoints = {broker, tank}
  Senders = {a}
  Payloads = {p, q}
  MaxSends = 3
  MaxLoss = 1
  Nobody = Nobody
INVARIANTS KeyFollows
PROPERTIES ImplementsChannel BothKnow
CHECK_DEADLOCK FALSE
