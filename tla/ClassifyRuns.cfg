CONSTANTS
  NumMessages = 7
  Texts = {"alike", "long", "over", "huge", "odd"}
  Text <- MCText
  OverBudget = {"over", "huge"}
  Verdict <- MCVerdict
  Concurrency = 3
  Cap = 2
  MaxPaid = 4
  Environments = {{}, {"no credits"}, {"error"}, {"kill"}}
SPECIFICATION FairBatchSpec
INVARIANTS
  SpendBounded
  FanOutComplete
  PaidOnce
PROPERTIES
  EventuallyClassified
