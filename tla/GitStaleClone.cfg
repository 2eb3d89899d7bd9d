CONSTANTS
  MaxCommits = 2
  MaxParser = 1
  MaxCopies = 2
  MaxFaults = 0
  Bots = {1}
  Credited <- MCCredited
  Environments <- QuietHead
SPECIFICATION FairSpec
PROPERTIES
  EventuallyCollected
