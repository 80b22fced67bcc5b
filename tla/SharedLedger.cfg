SPECIFICATION Spec
CONSTANTS
  c1 = c1
  c2 = c2
  s1 = s1
  s2 = s2
  n1 = n1
  n2 = n2
  Calls <- MCCalls
  Starts <- MCStarts
  Renewals <- MCRenewals
  PeriodLength = 3
  DayLength = 2
  MaxTime = 4
  MaxRows = 4
INVARIANTS
  OwnLedger
SYMMETRY Symmetry
CHECK_DEADLOCK FALSE
