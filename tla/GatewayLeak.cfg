SPECIFICATION Spec
CONSTANTS
  r1 = r1
  r2 = r2
  r3 = r3
  Requests <- MCRequests
  Threshold = 2
  Cooldown = 1
  SlotLimit = 2
  Limit = 3
  Prior = 1
  Amounts = {1}
  Actuals = {1, 2}
  Escapes <- MCPlainEscapes
INVARIANTS
  SlotsNeverLeak
CHECK_DEADLOCK FALSE
