SPECIFICATION Safe
CONSTANTS
  ann = ann
  ben = ben
  cas = cas
  Clients = {ann, ben, cas}
  Workers = {v, w}
  Checker = checker
  None = None
  Nick <- MCNick
  MaxRequests = 1
  MaxDisconnects = 1
SYMMETRY WorkerSymmetry
INVARIANTS LockOwned Introduced CheckerLives
CHECK_DEADLOCK FALSE
