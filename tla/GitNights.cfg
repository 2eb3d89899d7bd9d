CONSTANTS
  MaxCommits = 3
  MaxParser = 2
  MaxCopies = 2
  MaxFaults = 3
  Bots = {1}
  Credited <- MCCredited
  Environments <- MCEnvironments
SPECIFICATION FairSpec
INVARIANTS
  WatermarksCovered
  CorrectionsReplace
  CollectedOnceUnlessCut
PROPERTIES
  DeliversAtLeastOnce
  CollectedUnlessHead
