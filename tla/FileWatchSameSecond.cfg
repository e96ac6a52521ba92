\* A write in the second of the last read is never noticed.
SPECIFICATION FairSpec
CONSTANTS
  Nodes = {n1, n2}
  Savers = {s1}
  Original = Original
  Empty = Empty
  Garbled = Garbled
  BadTexts = {}
  MaxTime = 2
  MaxCrashes = 0
PROPERTIES
  ShownInTheEnd
CHECK_DEADLOCK FALSE
