\* Two nodes, two saves that may run on either, one of them with a text
\* Properties.load rejects; both kinds of file.
SPECIFICATION Spec
CONSTANTS
  Nodes = {n1, n2}
  Savers = {s1, s2}
  Original = Original
  Empty = Empty
  Garbled = Garbled
  BadTexts = {s1}
  MaxTime = 2
  MaxCrashes = 1
SYMMETRY NodeSymmetry
INVARIANTS
  MissedOnlyInSameSecond
  SaverShowsItsFile
  EmptyOnlyAfterFailure
PROPERTIES
  NeverOlder
CHECK_DEADLOCK FALSE
