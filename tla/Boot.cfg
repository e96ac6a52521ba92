\* Two nodes boot a fresh database side by side; two faults anywhere, live nodes go on.
SPECIFICATION BootFairSpec
CONSTANTS
  Nodes = {n1, n2}
  NoNode = NoNode
  LastChange = 1
  MaxAttempts = 2
  MaxFaults = 2
  Defaults <- DefaultUsers
INVARIANTS
  SchemaBeforeAccounts
  FaultFreeBootSeeds
PROPERTIES
  SeedingCompletes
  AccountsNeverWiped
