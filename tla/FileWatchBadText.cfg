\* A text Properties.load rejects, and the correction that follows it.
SPECIFICATION FairSpec
CONSTANTS
  Nodes = {n1}
  Savers = {s1, s2}
  Original = Original
  Empty = Empty
  Garbled = Garbled
  BadTexts = {s1}
  MaxTime = 2
  MaxCrashes = 0
PROPERTIES
  EventuallyShown
CHECK_DEADLOCK FALSE
