SPECIFICATION Spec
CONSTANTS
  r1 = r1
  r2 = r2
  r3 = r3
  r4 = r4
  Requests <- MCRequests
  Limit = 2
  MaxLosses = 2
INVARIANTS
  SlotsSelfRelease
