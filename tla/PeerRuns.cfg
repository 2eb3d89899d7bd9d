CONSTANTS
  MaxPRs = 3
  PageSize = 1
  Shares = {1, 3}
  FreshDays = 1
  WindowStart = 1
  InitialPRs = 2
  InitialOpen = {1}
  InitialClosed = {2}
  Environments = {{}, {"capped", "floor"}, {"capped", "crash"}, {"capped", "rate_limited", "failed"}}
SPECIFICATION FairSpec
INVARIANTS
  TypeOK
  WindowCovered
  SettlementHonestUnlessFailing
PROPERTIES
  OnlyAgeUnsettles
  CatchesUp
