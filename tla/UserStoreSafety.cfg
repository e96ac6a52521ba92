\* Three requests of any kind on two nodes, one fault, whichever way the interceptors are nested.
SPECIFICATION Spec
CONSTANTS
  Nodes = {n1, n2}
  Requests = {r1, r2, r3}
  Initial = Initial
  NoRow = NoRow
  Absent = Absent
  MaxFaults = 1
SYMMETRY NodeAndRequestSymmetry
INVARIANTS
  RolesWereGranted
  NothingLost
  CacheIsRow
CHECK_DEADLOCK FALSE
