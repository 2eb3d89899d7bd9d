SPECIFICATION FairSpec
CONSTANTS
  NumLists = 2
  MaxMonth = 3
  MaxMail = 2
  MaxPosts = 3
  Caps = {1, 2}
  Configs = {{1, 2}, {1}}
  MailEnvironments = {{}, {"reconfigure", "outage"}, {"kill"}, {"late"}}
  MonthDays = 1
  Trailing = 12
  Floor = 1
  MailThreads <- MCThreads
  Senders <- MCSenders
  Automated = {3}
  NumRepos = 2
  NumTables = 2
  MaxPRs = 2
  SeedEnvironments = {{}, {"kill", "dropped"}}
  RecordsCommits = 3
  MaxParser = 2
  RecordsEnvironments = {{}, {"git_error"}, {"kill", "git_error"}}
  MaxCommits = 2
  MaxVersion = 2
  EvidenceNights = 4
  EvidenceCalls = 2
  RetryWindow = 1
  Retention = 2
  EvidenceEnvironments = {{"commits", "updates"}, {"commits", "checks", "kill"}, {"commits", "updates", "gone"}, {"updates", "outage", "kill"}}
  PeopleCommits = 5
  NumLogins = 3
  LoginOf <- MCLoginOf
  PageSize = 1
  MaxPages = 2
  MaxProfiles = 1
  PeopleEnvironments = {{}, {"outage", "kill"}}
  NumItems = 2
  MaxValue = 2
  MaxNights = 2
  SnapshotEnvironments = {{}, {"outage"}, {"kill"}, {"vanish"}}
  NumThreads = 2
  MaxLines = 4
  Modes = {{"g"}, {"g", "h"}}
  LabelEnvironments = {{}, {"modes", "stop"}, {"stop", "torn", "stale pages"}}
  NumVersions = 2
  NumIssues = 2
  NumWorkflows = 2
  RunsPageSize = 2
  MaxWorkflowRuns = 3
  MaxChanges = 2
  SubprojectEnvironments = {{"jira", "outage"}, {"jira", "retarget"}, {"jira", "kill"}, {"runs", "outage"}}
  Discussions <- MCDiscussions
  VenueOf <- MCVenueOf
  QuarterOf <- MCQuarterOf
  YearOf <- MCYearOf
  TrendWindows <- MCTrendWindows
  Texts = {1, 2}
  Rating <- MCRating
  High = 2
  Cutoffs = {1, 2}
  Headline = 1
  K = 1
  Scale = 1
  Cap = 2
  MaxPerThread = 2
  MinMessages = 1
  MinAuthors = 1
  Unsafe = {4}
  ThisYear = 2
  MaxRuns = 2
  MaxEdits = 1
  PrivateEnvironments <- MCPrivateEnvironments
  PilotMails <- MCMails
  YearOfMonth <- MCYearOfMonth
  CreatedIn <- MCCreatedIn
  PilotYears = {1, 2}
  MaxComments = 3
  IssueTarget = 3
  MinPerYear = 1
  BlockSize = 2
  PilotRetries = 2
  Prevalence = 4
  Enrichment = 2
  Subsample = 3
  MinWords = 1
  RareLabels = {1, 2}
  GapLabels = {2}
  PilotEnvironments <- MCPilotEnvironments
  AuthorOf <- MCAuthorOf
  Bots = {9}
  Commenters = {2, 9}
  CommentsPage = 1
  Allowances = {1, 3}
  MaxUpdates = 2
  IssuesEnvironments = {{}, {"tight", "failure"}, {"escape"}, {"kill"}}
  Reviewers = {1, 2}
  StoredComments = 1
  Credits <- MCCredits
  MaxVersions = 4
  MaxParts = 3
  RowsEnvironments = {{"resolve", "reviewers"}, {"resolve", "history", "before", "backfill"}, {"comments", "backfill"}, {"pr"}, {"git"}}
  Interval = 2
  MaxRetries = 3
  MaxDelay = 3
  MaxCalls = 2
  MaxRequests = 2
  MaxFollowed = 2
INVARIANTS
  TypeOK
  MarksAreCovered
  
  AsksWithinBounds
PROPERTIES
  StoresAreFeeds
  NothingTakenBack
  EventuallyDone
CHECK_DEADLOCK FALSE
