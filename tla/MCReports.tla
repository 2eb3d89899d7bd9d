----------------------------- MODULE MCReports -----------------------------
(***************************************************************************)
(* What each run computes, one part of it in each behaviour: who is who,   *)
(* the metrics of commits, pull requests, issues, reviews, contributors,   *)
(* files and releases, the governance checks, the release lines, and the   *)
(* threads of conversations.                                               *)
(***************************************************************************)
EXTENDS Integers, Sequences

VARIABLES part, faults, world, disk, report

vars == <<part, faults, world, disk, report>>

Link(raw, id, manual) == [raw |-> raw, id |-> id, manual |-> manual]
Period(id, org, rank, from, to) == [id |-> id, org |-> org, rank |-> rank, from |-> from, to |-> to]

(* Person 3 has two identifiers, one of them a bot's; the second person's  *)
(* is found by hand to be the third's; periods overlap.                    *)
OfCommits == INSTANCE CommitMetrics
  WITH MonthDays <- 1, Trailing <- 2, Floor <- 2, People <- 1..3, Raws <- 1..4, Bots <- {4},
       Links <- {Link(1, 1, FALSE), Link(2, 2, FALSE), Link(3, 3, FALSE), Link(4, 3, FALSE), Link(2, 3, TRUE)},
       Periods <- {Period(1, 1, 2, 0, 3), Period(1, 2, 1, 1, 3), Period(2, 2, 3, 0, 3), Period(2, 1, 3, 0, 1)},
       Unknown <- 9, MaxMonth <- 2, MaxCommits <- 3, MaxReviews <- 2,
       Environments <- {{"commits"}, {"commits", "cut"}, {"reviews"}, {"commits", "old", "links"}}

(* The second request's author is gone; logins 1 and 2 are one person.     *)
OfPulls == INSTANCE PullRequestMetrics
  WITH MonthDays <- 2, Trailing <- 2, Floor <- 1, PRs <- 1..2, RepoOf <- <<1, 2>>, AuthorOf <- <<1, 0>>,
       Identity <- <<1, 1, 3>>, KeysOf <- <<{1, 2}, {}>>, Tickets <- {1, 2}, AgeBounds <- <<1, 2, 3, 4>>,
       StaleDays <- 2, MaxDay <- 4, MaxResponses <- 2,
       Environments <- {{"close"}, {"close", "edit"}, {"respond"}, {"tickets"}}

(* Issues 1 and 2 are JIRA's, and nobody knows who opened the second; the  *)
(* third is GitHub's; commenter 3 is a bot, 0 an account that is gone.     *)
OfIssues == INSTANCE IssueMetrics
  WITH MonthDays <- 2, Trailing <- 2, Floor <- 1, Issues <- 1..3, Jira <- {1, 2}, ReporterOf <- <<1, 0, 2>>,
       Bots <- {3}, People <- 0..3, Since <- 2, StaleDays <- 2, CohortMonths <- 1, BulkAge <- 2, BulkCount <- 2,
       MaxDay <- 4, MaxComments <- 1,
       Environments <- {{"resolve"}, {"resolve", "patch"}, {"resolve", "reopen"}, {"comment"}}

OfReviews == INSTANCE ReviewResponsiveness
  WITH MonthDays <- 1, Trailing <- 2, Floor <- 1, Issues <- 1..2, OffererOf <- <<1, 1>>, PrAuthorOf <- <<1, 2>>,
       People <- 1..3, Bots <- {3}, TierSizes <- <<1, 2>>, Soon <- 1, Late <- 2, CommittedDays <- 2,
       YearMonths <- 2, MaxDay <- 4, MaxResponses <- 1, MaxChanges <- 2,
       Environments <- {{"respond", "prs"}, {"assign"}, {"prs", "early"}, {"fix"}}

OfPeople == INSTANCE ContributorPipeline
  WITH MonthDays <- 1, Trailing <- 2, Floor <- 1, People <- 1..3, FollowUp <- 1, Horizon <- 3, Inactivity <- 2,
       Fifth <- 3, CohortFloor <- 2, Marks <- {1, 2}, SurvivalMark <- 2, MaxDay <- 6, MaxCommits <- 4

(* Thousandths of the logarithm's term, for up to four changes.            *)
OfFiles == INSTANCE TruckFactor
  WITH MonthDays <- 1, Trailing <- 2, Floor <- 1, People <- 1..3, Files <- 1..3,
       LogTerm <- <<0, 223, 353, 445, 517>>, MaxDay <- 2, MaxChanges <- 4

OfReleases == INSTANCE ReleaseCadence
  WITH MonthDays <- 1, Trailing <- 2, Floor <- 1, MinReleases <- 3, Members <- 1..2, MaxDay <- 6, MaxReleases <- 4

Kind(branch, keys, trailer, wording, exemptions, merge) ==
  [branch |-> branch, keys |-> keys, trailer |-> trailer, wording |-> wording, exemptions |-> exemptions,
   merge |-> merge]

Rule(branches, from, exemptions) == [branches |-> branches, effective_from |-> from, exemptions |-> exemptions]

(* Four kinds of commits: for two issues; with the reviewers' wording; on  *)
(* a release branch, and exempt; a merge. One rule is a day old.           *)
OfChecks == INSTANCE GovernanceChecks
  WITH MonthDays <- 1, Trailing <- 2, Floor <- 1, Keys <- 1..2,
       Kinds <- {Kind("trunk", {1, 2}, FALSE, FALSE, {}, FALSE), Kind("trunk", {}, FALSE, TRUE, {}, FALSE),
                 Kind("4.0", {1}, TRUE, FALSE, {"docs"}, FALSE), Kind("trunk", {2}, FALSE, TRUE, {}, TRUE)},
       Rules <- [reviewer_present |-> Rule({"trunk", "4.0"}, 0, {"docs"}),
                 jira_ticket_referenced |-> Rule({"trunk", "4.0"}, 0, {"release"}),
                 pre_commit_ci_evidence |-> Rule({"trunk", "4.0"}, 0, {"docs"}),
                 ci_artefacts_attached |-> Rule({"trunk", "4.0"}, 1, {"docs"}),
                 code_style_checkstyle |-> Rule({"trunk"}, 0, {})],
       MaxDay <- 2, MaxCommits <- 1, MaxEvidence <- 2,
       Environments <- {{"ci"}, {"reviews"}, {"overrides"}, {"runs"}}

Text(kind, stage) == [kind |-> kind, target |-> stage]
Shape(name, stage) == [name |-> name, stage |-> stage]

(* "7.0", "7.0-alpha", "7.0-alpha3", "7.0-beta", "7.0-rc", "7.0.10", "7.x":  *)
(* the placeholders make the path alpha, beta, rc, release, until edited.  *)
OfLines == INSTANCE ReleaseLines
  WITH Shapes <- <<Shape("bare", 0), Shape("stage", 1), Shape("pre", 1), Shape("stage", 2), Shape("stage", 3),
                   Shape("patch", 0), Shape("series", 0)>>,
       Stages <- 1..3, Issues <- 1..1,
       Described <- <<Text("none", 0), Text("blockers", 2), Text("none", 0), Text("blockers", 3), Text("blockers", 0),
                      Text("none", 0), Text("other", 0)>>,
       Edits <- <<{}, {Text("blockers", 0), Text("none", 0)}, {Text("blockers", 1)},
                  {Text("blockers", 1), Text("blockers", 2)}, {Text("blockers", 2), Text("other", 0)}, {}, {}>>,
       Gap <- 1, MaxDay <- 3, MaxEdits <- 2,
       Environments <- {{"describe"}, {"release", "outage"}, {"block", "outage"}, {"unlist", "block"}, {"build"}}

Ratings(threads, authors, mail, gaps, posts, ratings) ==
  [threads |-> threads, authors |-> authors, mail |-> mail, gaps |-> gaps, posts |-> posts, ratings |-> ratings]

(* A quarrel in JIRA that may be resolved; offers and thanks, with ratings *)
(* missing; a pile-on by mail; two threads and an automaton.               *)
OfThreads == INSTANCE ConversationThreads
  WITH High <- 2, Cutoffs <- {1, 2}, Headline <- 1, Window <- 2, Crowd <- 2, NewcomerN <- 1, MinQualifying <- 1,
       MinParticipants <- 2, MinMessages <- 1, MinNewcomers <- 1, MaxPerThread <- 4, Bots <- {4},
       WeightOf <- <<1, 2>>, MaxPosts <- 4, MaxRuns <- 2,
       Environments <-
         {Ratings({1}, {1, 2}, FALSE, FALSE, 4,
                  {[technical_disagreement |-> 1], [hostility |-> 2], [resolution_marker |-> 2]}),
          Ratings({1}, {1, 2}, FALSE, TRUE, 4,
                  {[compromise_offer |-> 2], [acknowledgment |-> 2], [resolution_marker |-> 1, hostility |-> 2]}),
          Ratings({1}, {1, 2, 3}, TRUE, FALSE, 3, {[acknowledgment |-> 0], [dismissiveness |-> 2]}),
          Ratings({1, 2}, {1, 2, 4}, TRUE, FALSE, 3, {[technical_disagreement |-> 2], [hostility |-> 1]})}

Told(key, org, from, to) == [key |-> key, org |-> org, from |-> from, to |-> to]
OfDomain(domain, org, from, to) == [domain |-> domain, org |-> org, from |-> from, to |-> to]

(* Two addresses of one person, a trailer's name in two spellings, two     *)
(* users of JIRA of whom one is a bot; one account behind both addresses.  *)
OfIdentities == INSTANCE Identities
  WITH MonthDays <- 1, Trailing <- 2, Floor <- 1, Raws <- 1..6, Logins <- {7},
       TypeOf <- <<"git_email", "git_email", "git_name", "git_name", "jira_username", "jira_username">>,
       IdentityOf <- <<1, 2, 3, 3, 5, 6>>, NameOf <- <<11, 11, 11, 11, 0, 0>>, Bots <- {4, 6},
       Authors <- [commits |-> {1, 2}, reviews |-> {3, 4}, jira_issues_resolved |-> {5, 6}],
       Overrides <- {[raw |-> 1, into |-> 2], [raw |-> 3, into |-> 1], [raw |-> 3, into |-> 2]},
       Associations <- {[email |-> 1, login |-> 7], [email |-> 2, login |-> 7]},
       Curated <- {Told(1, 26, 0, 1), Told(7, 27, 1, 2)},
       OrgDomains <- {OfDomain(1, 23, 0, 9), OfDomain(2, 24, 1, 9)}, DomainOf <- <<1, 2, 0, 0, 0, 0>>,
       AliasOf <- <<25, 29>>, Unknown <- 29, Lookback <- 1, TopN <- 1, MaxMonth <- 2, MaxEvents <- 2,
       Environments <- {{"commits", "reviews", "hand"}, {"commits", "github"}, {"jira_issues_resolved", "reassign"}}

Init ==
  \/ part = "identities" /\ OfIdentities!Init
  \/ part = "commits" /\ OfCommits!Init
  \/ part = "pulls" /\ OfPulls!Init
  \/ part = "issues" /\ OfIssues!Init
  \/ part = "reviews" /\ OfReviews!Init
  \/ part = "people" /\ OfPeople!Init
  \/ part = "files" /\ OfFiles!Init
  \/ part = "releases" /\ OfReleases!Init
  \/ part = "checks" /\ OfChecks!Init
  \/ part = "lines" /\ OfLines!Init
  \/ part = "threads" /\ OfThreads!Init

Next ==
  /\ UNCHANGED part
  /\ \/ part = "identities" /\ OfIdentities!Next
     \/ part = "commits" /\ OfCommits!Next
     \/ part = "pulls" /\ OfPulls!Next
     \/ part = "issues" /\ OfIssues!Next
     \/ part = "reviews" /\ OfReviews!Next
     \/ part = "people" /\ OfPeople!Next
     \/ part = "files" /\ OfFiles!Next
     \/ part = "releases" /\ OfReleases!Next
     \/ part = "checks" /\ OfChecks!Next
     \/ part = "lines" /\ OfLines!Next
     \/ part = "threads" /\ OfThreads!Next

Spec == Init /\ [][Next]_vars

-----------------------------------------------------------------------------
(* Every part's state is what its program can be in.                       *)
TypeOK ==
  CASE part = "identities" -> OfIdentities!TypeOK
    [] part = "commits"  -> OfCommits!TypeOK
    [] part = "pulls"    -> OfPulls!TypeOK
    [] part = "issues"   -> OfIssues!TypeOK
    [] part = "reviews"  -> OfReviews!TypeOK
    [] part = "people"   -> OfPeople!TypeOK
    [] part = "files"    -> OfFiles!TypeOK
    [] part = "releases" -> OfReleases!TypeOK
    [] part = "checks"   -> OfChecks!TypeOK
    [] part = "lines"    -> OfLines!TypeOK
    [] part = "threads"  -> OfThreads!TypeOK

(* Two identifiers are one person by hand only, and a person's             *)
(* organisation is one somebody told. A figure is what its definition      *)
(* says, computed another way: the smallest set of people with half of the *)
(* commits, each commit under one organisation, the author of a patch by   *)
(* who held the issue, the files without an author, the share of           *)
(* contributors who stay, the first responses of a month without a note,   *)
(* the joins of all quarters; a check's verdict is about the commit's      *)
(* moment, whenever it is scored; the ladder of a line is the path its     *)
(* milestones make; a thread escalates by two people.                      *)
FiguresAreTrue ==
  /\ part = "identities" => OfIdentities!MergedByHandOnly /\ OfIdentities!OrganisationIsTold
  /\ part = "commits"  => OfCommits!AbsenceFactorIsSmallest /\ OfCommits!OneOrganisationEach
  /\ part = "issues"   => OfIssues!UnflaggedIsComplete
  /\ part = "reviews"  => OfReviews!AuthorIsHolderThen
  /\ part = "people"   => OfPeople!SurvivalIsShare
  /\ part = "files"    => OfFiles!RemovalOrphansHalf
  /\ part = "releases" => OfReleases!JoinsCountOnce
  /\ part = "checks"   => OfChecks!VerdictIsOfTheMoment
  /\ part = "lines"    => OfLines!LadderIsPath
  /\ part = "threads"  => OfThreads!EscalationTakesTwo

(* Figures computed on their own that a page shows beside each other do    *)
(* not contradict: a leaderboard and the rows behind it, active and new    *)
(* contributors, the figures of concentration, backlog and closures,       *)
(* buckets and totals, plain and cohort latencies, the tiers, shares and   *)
(* stages, frequency and gaps, a commit's verdicts, its cells and the      *)
(* month's facts, open blockers and the steps they are listed under, what  *)
(* is said of one thread at two cutoffs.                                   *)
FiguresAgree ==
  /\ part = "identities" => OfIdentities!ListsAddUp
  /\ part = "commits"  => OfCommits!NewOnce /\ OfCommits!ConcentrationAgrees
  /\ part = "pulls"    => OfPulls!BacklogFlows /\ OfPulls!BucketsPartition
  /\ part = "issues"   => OfIssues!SweepsExplainTheCohort
  /\ part = "reviews"  => OfReviews!FirstIsOnce /\ OfReviews!SharesAgree
  /\ part = "people"   => OfPeople!StagesNest
  /\ part = "releases" => OfReleases!CadenceAgrees
  /\ part = "checks"   => OfChecks!ViewsAgree
  /\ part = "lines"    => OfLines!OpenIsShown
  /\ part = "threads"  => OfThreads!DerivationsAgree

(* Who somebody is, and what was told of a month that is over, is told by  *)
(* every later night, save where the part says what may still come.        *)
HistoryStands ==
  [][/\ part = "identities" => OfIdentities!IdentityStands
     /\ part = "commits"  => OfCommits!HistoryStands
     /\ part = "pulls"    => OfPulls!HistoryStands /\ OfPulls!AnswersOnlyCome
     /\ part = "issues"   => OfIssues!HistoryStands
     /\ part = "reviews"  => OfReviews!SharesSettle
     /\ part = "people"   => OfPeople!HistoryStands
     /\ part = "files"    => OfFiles!HistoryStands
     /\ part = "releases" => OfReleases!HistoryStands
     /\ part = "checks"   => OfChecks!PassStands
     /\ part = "lines"    => OfLines!TimelineStands
     /\ part = "threads"  => OfThreads!ThreadsOnlyGrow]_vars

=============================================================================
