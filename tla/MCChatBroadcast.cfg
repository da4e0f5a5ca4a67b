SPECIFICATION Safe
CONSTANTS
  ann = ann
  ben = ben
  cas = cas
  Clients = {ann, ben, cas}
  Workers = {v, w}
  Checker = checker
  None = None
  Nick <- OwnNick
  MaxRequests = 1
  MaxDisconnects = 0
SYMMETRY WorkerSymmetry
INVARIANT BroadcastToAll
CHECK_DEADLOCK FALSE
