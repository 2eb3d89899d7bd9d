CONSTANTS
  NumIssues = 3
  MaxTime = 3
  Legacy = 2
  Margin = 0
  PageSize = 1
  MaxIssuesPerRun = 1
  MaxPagesPerRun = 1
  Environments = {{"growth"}, {"outage"}, {"disk"}, {"kill"}}
SPECIFICATION FairSpec
INVARIANTS
  BackfillsHonest
PROPERTIES
  DeliversAtLeastOnce
  EventuallyCovered
