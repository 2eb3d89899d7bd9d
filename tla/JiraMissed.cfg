CONSTANTS
  NumIssues = 3
  MaxTime = 4
  Legacy = 2
  Margin = 0
  PageSize = 1
  MaxIssuesPerRun = 1
  MaxPagesPerRun = 1
  Environments = {{"busy"}}
SPECIFICATION Spec
INVARIANTS
  NothingMissed
