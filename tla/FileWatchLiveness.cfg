\* Either file, with the threads scheduled fairly.
SPECIFICATION FairSpec
CONSTANTS
  Nodes = {n1, n2}
  Savers = {s1}
  Original = Original
  Empty = Empty
  Garbled = Garbled
  BadTexts = {}
  MaxTime = 2
  MaxCrashes = 1
PROPERTIES
  EventuallyShown
CHECK_DEADLOCK FALSE
