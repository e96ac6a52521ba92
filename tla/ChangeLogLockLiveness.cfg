\* Two nodes, one fault, weak fairness of the steps of a live node.
SPECIFICATION FairSpec
CONSTANTS
  Nodes = {n1, n2}
  NoNode = NoNode
  LastChange = 2
  MaxAttempts = 2
  MaxFaults = 1
PROPERTIES
  OrphanStays
  ImplementsSerialUpgrade
  BootEnds
  LockHandedBack
