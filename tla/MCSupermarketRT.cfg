SPECIFICATION Spec
CONSTANTS
  c1 = c1
  c2 = c2
  c3 = c3
  s1 = s1
  s2 = s2
  Customers = {c1, c2}
  Stations = {s1, s2}
  Nobody = Nobody
  Route <- MCRoute
INVARIANTS ServesHead NoLostWakeup WakeupNotStale LockLeaksOnlyAtShutdown NeverOvercounted
PROPERTIES Termination JoinedIsServed
