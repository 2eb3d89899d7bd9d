CONSTANTS
  NumRepos = 2
  NumPRs = 2
  MaxUpdates = 1
  NumTables = 2
  Legacy <- MCLegacy
  PageSize = 1
  LinkPages = 1
  Allowances = {1, 3}
  Configs = {{1}, {1, 2}}
  Environments = {{}, {"tight"}, {"failure", "limit"}, {"escape"}, {"kill"}, {"reconfigure"}}
SPECIFICATION FairSpec
INVARIANTS
  TypeOK
  OkMeansComplete
  LinksComplete
PROPERTIES
  DeliversAtLeastOnce
  EventuallyComplete
