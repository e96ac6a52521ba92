\* One fault is enough to leave default accounts out for good.
SPECIFICATION BootSpec
CONSTANTS
  Nodes = {n1, n2}
  NoNode = NoNode
  LastChange = 1
  MaxAttempts = 2
  MaxFaults = 1
  Defaults <- DefaultUsers
INVARIANT
  FirstBootSeeds
