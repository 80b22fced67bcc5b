SPECIFICATION Spec
CONSTANTS
  r1 = r1
  r2 = r2
  r3 = r3
  Requests <- MCRequests
  Limit = 5
  WindowLimit = 3
  RequestCap = 2
  Prior = 1
  Amounts = {1, 2, 3}
  Actuals = {1, 3}
  MaxCrashes = 1
  MaxLosses = 1
INVARIANTS
  TypeOK
  LedgerExact
  NoOverspend
  WindowWithinBudget
PROPERTIES
  ImplementsAccount
SYMMETRY Symmetry
CHECK_DEADLOCK FALSE
