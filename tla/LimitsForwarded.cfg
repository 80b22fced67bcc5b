SPECIFICATION ServicesSpec
CONSTANTS
  c1 = c1
  c2 = c2
  model1 = model1
  model2 = model2
  Clients <- MCCalls
  IpLimit = 2
  Failures = 2
  Window = 2
  MaxDeaths = 1
  Readers <- MCCalls
  Admins <- MCCalls
  Prices <- MCPrices
  Notes <- MCNotes
  None = none
  MaxEdits = 2
  Hooks <- MCCalls
  Payments <- MCPayments
  MaxNotices = 2
  MaxFailures = 1
  Models <- MCModels
  Foreign = foreign
  NoHint = nohint
  Garbage = garbage
  Infinite = infinite
  Hints <- MCHints
  Lines <- MCLines
  MaxLines = 3
  Tier <- MCTier
  Prompt <- MCPrompt
  BlockTokens = 1024
  MaxOutput = 4
  Absent = absent
  r1 = r1
  r2 = r2
  r3 = r3
  r4 = r4
  Requests <- MCRequests
  Limit = 2
  MaxLosses = 2
INVARIANTS
  LimitsForwarded
CHECK_DEADLOCK FALSE
