CONSTANTS
  NumPeers = 3
  FirstWalk = 3
  MaxPages = 2
  PageBudget = 10
  Allowances = {3, 30}
  BrokenSets = {{}, {1}}
  DeltaWalk = 1
  LaterWalk = 2
SPECIFICATION FairSpec
INVARIANTS
  SharesAreForTheWaiting
  OverrunBounded
PROPERTIES
  EveryPeerServed
