\* Two requests on one node.
SPECIFICATION Spec
CONSTANTS
  Nodes = {n1}
  Requests = {r1, r2}
  Initial = Initial
  NoRow = NoRow
  Absent = Absent
  MaxFaults = 0
PROPERTIES
  GeneralUserKeepsRole
CHECK_DEADLOCK FALSE
