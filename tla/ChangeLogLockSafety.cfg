\* Three nodes boot against one database; two faults anywhere.
SPECIFICATION Spec
CONSTANTS
  Nodes = {n1, n2, n3}
  NoNode = NoNode
  LastChange = 2
  MaxAttempts = 2
  MaxFaults = 2
SYMMETRY NodeSymmetry
INVARIANTS
  MutualExclusion
  HolderOwnsRow
  ExecutedOnce
  InOrder
  UpIsUpgraded
  LeakNeedsFault
