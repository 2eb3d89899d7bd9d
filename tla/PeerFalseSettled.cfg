CONSTANTS
  MaxPRs = 4
  PageSize = 1
  Shares = {1, 2}
  FreshDays = 1
  WindowStart = 2
  InitialPRs = 3
  InitialOpen = {1, 3}
  InitialClosed = {2}
  Environments = {{"capped", "failed"}}
SPECIFICATION Spec
INVARIANTS
  SettlementHonest
