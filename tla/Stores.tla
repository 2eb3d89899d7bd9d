------------------------------- MODULE Stores -------------------------------
(***************************************************************************)
(* The parts of the data directory that share no file: the mailing lists,  *)
(* the governance commits and evidence, a subproject's seed, the look-ups, *)
(* the snapshots, the labels, a subproject's releases, the private run,    *)
(* the pilot corpus, GitHub's issues, the rows of JIRA, pull requests and  *)
(* trailers as they are read, and the requests all collectors make. One    *)
(* behaviour is about one. The instances of the parts, and the theorems    *)
(* about each, come from StoreProofs and PublicationProofs; here are the   *)
(* theorems about all of them together.                                    *)
(***************************************************************************)
EXTENDS StoreProofs

CONSTANTS
  SnapshotEnvironments, MaxValue, MaxNights,
  SubprojectEnvironments, NumVersions, NumIssues, NumWorkflows, RunsPageSize,
  MaxWorkflowRuns, MaxChanges,
  RowsEnvironments, Reviewers, StoredComments, Credits, MaxVersions, MaxParts,
  PrivateEnvironments, Discussions, VenueOf, QuarterOf, YearOf, TrendWindows,
  Texts, Rating, High, Cutoffs, Headline, K, Scale, Cap, MaxPerThread,
  MinMessages, MinAuthors, Unsafe, ThisYear, MaxRuns, MaxEdits,
  PilotEnvironments, PilotMails, YearOfMonth, CreatedIn, PilotYears, MaxComments,
  IssueTarget, MinPerYear, BlockSize, PilotRetries, Prevalence, Enrichment,
  Subsample, MinWords, RareLabels, GapLabels

VARIABLE part    \* the part this behaviour is about; never changes

INSTANCE PublicationProofs

vars == <<part, faults, world, disk, run>>

-----------------------------------------------------------------------------
Init ==
  \/ part = "mail" /\ Mail!Init
  \/ part = "seed" /\ Seed!Init
  \/ part = "records" /\ Records!Init
  \/ part = "evidence" /\ Evidence!Init
  \/ part = "people" /\ People!Init
  \/ part = "whole" /\ Whole!Init
  \/ part = "labels" /\ Labels!Init
  \/ part = "asking" /\ Asking!Init
  \/ part = "subproject" /\ Subproject!Init
  \/ part = "private" /\ Private!Init
  \/ part = "pilot" /\ Pilot!Init
  \/ part = "issues" /\ Issues!Init
  \/ part = "rows" /\ Rows!Init

Next ==
  /\ UNCHANGED part
  /\ \/ part = "mail" /\ Mail!Next
     \/ part = "seed" /\ Seed!Next
     \/ part = "records" /\ Records!Next
     \/ part = "evidence" /\ Evidence!Next
     \/ part = "people" /\ People!Next
     \/ part = "whole" /\ Whole!Next
     \/ part = "labels" /\ Labels!Next
     \/ part = "asking" /\ Asking!Next
     \/ part = "subproject" /\ Subproject!Next
     \/ part = "private" /\ Private!Next
     \/ part = "pilot" /\ Pilot!Next
     \/ part = "issues" /\ Issues!Next
     \/ part = "rows" /\ Rows!Next

(* Each part goes on as its own specification says.                        *)
Fairness ==
  /\ WF_vars(part = "mail" /\ Mail!Run /\ UNCHANGED part)
  /\ WF_vars(part = "seed" /\ Seed!Night /\ UNCHANGED part)
  /\ WF_vars(part = "evidence" /\ Evidence!Night /\ UNCHANGED part)
  /\ WF_vars(part = "people" /\ People!Night /\ UNCHANGED part)
  /\ WF_vars(part = "issues" /\ Issues!Night /\ UNCHANGED part)
  /\ WF_vars(part = "labels" /\ Labels!BuildAppState /\ UNCHANGED part)
  /\ WF_vars(part = "labels" /\ Labels!Serve /\ UNCHANGED part)
  /\ WF_vars(part = "labels" /\ Labels!Rate /\ UNCHANGED part)
  /\ WF_vars(part = "asking" /\ Asking!Work /\ UNCHANGED part)
  /\ WF_vars(part = "asking" /\ Asking!Tick /\ UNCHANGED part)

Spec == Init /\ [][Next]_vars

FairSpec == Spec /\ Fairness

-----------------------------------------------------------------------------
(* Every part's state is what its program can be in.                       *)
TypeOK ==
  CASE part = "mail"     -> Mail!TypeOK
    [] part = "seed"     -> Seed!TypeOK
    [] part = "records"  -> Records!TypeOK
    [] part = "evidence" -> Evidence!TypeOK
    [] part = "people"   -> People!TypeOK
    [] part = "whole"    -> Whole!TypeOK
    [] part = "labels"   -> Labels!TypeOK
    [] part = "asking"   -> Asking!TypeOK
    [] part = "subproject" -> Subproject!TypeOK
    [] part = "private"  -> Private!TypeOK
    [] part = "pilot"    -> Pilot!TypeOK
    [] part = "issues"   -> Issues!TypeOK
    [] part = "rows"     -> Rows!TypeOK

(* What a watermark, a cursor, a mark or a count of done items vouches for *)
(* is in the data directory, wherever a run was cut, and a run that says   *)
(* ok, complete or that nothing is left has all of it (the mail behind a   *)
(* list's watermark, or of all months; a seed's rows; the parser's         *)
(* records; an issue's evidence, or all of it; the authors behind the      *)
(* cursor, or all; the rater's labels, or all of a session; the issues     *)
(* behind a repository's cursor, or all that the night began with).        *)
MarksAreCovered ==
  /\ part = "mail"     => Mail!BehindIsStored /\ Mail!CaughtUpMeansAll
  /\ part = "seed"     => Seed!SeededIsCovered
  /\ part = "records"  => Records!RecordsCorrected
  /\ part = "evidence" => Evidence!NotAskedMeansRead /\ Evidence!OkMeansAllEvidence
  /\ part = "people"   => People!CursorCovers /\ People!OkMeansLookedUp
  /\ part = "labels"   => Labels!DoneIsSaved /\ Labels!CompleteIsLabeled
  /\ part = "issues"   => Issues!BehindIsStored /\ Issues!OkMeansCollected


(* The metrics engine's word: a month not collected yet never renders as a *)
(* false zero count.                                                       *)
NotCollectedNeverZero == part = "mail" => Mail!NotCollectedNeverZero

(* The collectors ask no faster than they mean to, and no more often but   *)
(* for what they ask for after their last look at the budget.              *)
AsksWithinBounds ==
  /\ part = "asking" => Asking!SpacingKept /\ Asking!OvershootBounded
  /\ part = "pilot"  => Pilot!BudgetKept

(* Each store refines the at-least-once feed, step by step. (Mail that     *)
(* comes late to a month that is over is lost to it.)                      *)
StoresAreFeeds ==
  [][/\ part = "mail" /\ "late" \notin faults => Mail!Feed!Deliver
     /\ part = "seed" => Seed!Feed!Deliver
     /\ part = "records" => Records!Feed!Deliver
     /\ part = "issues" => Issues!Feed!Deliver]_vars

(* No step takes back what was known: no cursor of a seeded subproject, no *)
(* final check, nothing off a page for an outage, no workflow's last run   *)
(* for an older one, no rating, nothing that the rows of a night told.     *)
NothingTakenBack ==
  [][/\ part = "seed" => Seed!CursorsAdvance
     /\ part = "evidence" => Evidence!FinalStays
     /\ part = "whole" => Whole!OutageKeepsPages
     /\ part = "subproject" => Subproject!RunsNeverOlder
     /\ part = "private" => Private!RatingsStay
     /\ part = "rows" => Rows!RereadsSame]_vars

(* Every part gets done what it is for, under the fairness of its          *)
(* schedule: the mail of a cap above one, the seeded subproject's rows,    *)
(* the evidence, the look-ups, the labels, GitHub's issues, every request. *)
EventuallyDone ==
  /\ <>[]/\ part = "mail" => Mail!Archived
         /\ part = "seed" => Seed!OnItsOwn
         /\ part = "evidence" => Evidence!AllRead
         /\ part = "people" => People!LookedUp
         /\ part = "labels" => Labels!Finished
         /\ part = "issues" => Issues!Collected
  /\ []<>(part = "asking" => Asking!Ended)

-----------------------------------------------------------------------------
(* A behaviour stays about its part, and is one of the part's own.         *)

LEMMA MailBehaves == part = "mail" /\ Spec => Mail!Spec /\ [](part = "mail")
<1>1. part = "mail" /\ Init => Mail!Init
  BY DEF Init
<1>2. part = "mail" /\ [Next]_vars => (part = "mail")' /\ [Mail!Next]_(Mail!vars)
  BY DEF Next, vars, Mail!vars
<1>. QED
  BY <1>1, <1>2, PTL DEF Spec, Mail!Spec

LEMMA SeedBehaves == part = "seed" /\ Spec => Seed!Spec /\ [](part = "seed")
<1>1. part = "seed" /\ Init => Seed!Init
  BY DEF Init
<1>2. part = "seed" /\ [Next]_vars => (part = "seed")' /\ [Seed!Next]_(Seed!vars)
  BY DEF Next, vars, Seed!vars
<1>. QED
  BY <1>1, <1>2, PTL DEF Spec, Seed!Spec

LEMMA RecordsBehaves == part = "records" /\ Spec => Records!Spec /\ [](part = "records")
<1>1. part = "records" /\ Init => Records!Init
  BY DEF Init
<1>2. part = "records" /\ [Next]_vars => (part = "records")' /\ [Records!Next]_(Records!vars)
  BY DEF Next, vars, Records!vars
<1>. QED
  BY <1>1, <1>2, PTL DEF Spec, Records!Spec

LEMMA EvidenceBehaves == part = "evidence" /\ Spec => Evidence!Spec /\ [](part = "evidence")
<1>1. part = "evidence" /\ Init => Evidence!Init
  BY DEF Init
<1>2. part = "evidence" /\ [Next]_vars => (part = "evidence")' /\ [Evidence!Next]_(Evidence!vars)
  BY DEF Next, vars, Evidence!vars
<1>. QED
  BY <1>1, <1>2, PTL DEF Spec, Evidence!Spec

LEMMA PeopleBehaves == part = "people" /\ Spec => People!Spec /\ [](part = "people")
<1>1. part = "people" /\ Init => People!Init
  BY DEF Init
<1>2. part = "people" /\ [Next]_vars => (part = "people")' /\ [People!Next]_(People!vars)
  BY DEF Next, vars, People!vars
<1>. QED
  BY <1>1, <1>2, PTL DEF Spec, People!Spec

LEMMA LabelsBehaves == part = "labels" /\ Spec => Labels!Spec /\ [](part = "labels")
<1>1. part = "labels" /\ Init => Labels!Init
  BY DEF Init
<1>2. part = "labels" /\ [Next]_vars => (part = "labels")' /\ [Labels!Next]_(Labels!vars)
  BY DEF Next, vars, Labels!vars
<1>. QED
  BY <1>1, <1>2, PTL DEF Spec, Labels!Spec

LEMMA WholeBehaves == part = "whole" /\ Spec => Whole!Spec /\ [](part = "whole")
<1>1. part = "whole" /\ Init => Whole!Init
  BY DEF Init
<1>2. part = "whole" /\ [Next]_vars => (part = "whole")' /\ [Whole!Next]_(Whole!vars)
  BY DEF Next, vars, Whole!vars
<1>. QED
  BY <1>1, <1>2, PTL DEF Spec, Whole!Spec

LEMMA SubprojectBehaves == part = "subproject" /\ Spec => Subproject!Spec /\ [](part = "subproject")
<1>1. part = "subproject" /\ Init => Subproject!Init
  BY DEF Init
<1>2. part = "subproject" /\ [Next]_vars => (part = "subproject")' /\ [Subproject!Next]_(Subproject!vars)
  BY DEF Next, vars, Subproject!vars
<1>. QED
  BY <1>1, <1>2, PTL DEF Spec, Subproject!Spec

LEMMA PrivateBehaves == part = "private" /\ Spec => Private!Spec /\ [](part = "private")
<1>1. part = "private" /\ Init => Private!Init
  BY DEF Init
<1>2. part = "private" /\ [Next]_vars => (part = "private")' /\ [Private!Next]_(Private!vars)
  BY DEF Next, vars, Private!vars
<1>. QED
  BY <1>1, <1>2, PTL DEF Spec, Private!Spec

LEMMA PilotBehaves == part = "pilot" /\ Spec => Pilot!Spec /\ [](part = "pilot")
<1>1. part = "pilot" /\ Init => Pilot!Init
  BY DEF Init
<1>2. part = "pilot" /\ [Next]_vars => (part = "pilot")' /\ [Pilot!Next]_(Pilot!vars)
  BY DEF Next, vars, Pilot!vars
<1>. QED
  BY <1>1, <1>2, PTL DEF Spec, Pilot!Spec

LEMMA IssuesBehaves == part = "issues" /\ Spec => Issues!Spec /\ [](part = "issues")
<1>1. part = "issues" /\ Init => Issues!Init
  BY DEF Init
<1>2. part = "issues" /\ [Next]_vars => (part = "issues")' /\ [Issues!Next]_(Issues!vars)
  BY DEF Next, vars, Issues!vars
<1>. QED
  BY <1>1, <1>2, PTL DEF Spec, Issues!Spec

LEMMA RowsBehaves == part = "rows" /\ Spec => Rows!Spec /\ [](part = "rows")
<1>1. part = "rows" /\ Init => Rows!Init
  BY DEF Init
<1>2. part = "rows" /\ [Next]_vars => (part = "rows")' /\ [Rows!Next]_(Rows!vars)
  BY DEF Next, vars, Rows!vars
<1>. QED
  BY <1>1, <1>2, PTL DEF Spec, Rows!Spec

LEMMA AskingBehaves == part = "asking" /\ Spec => Asking!Spec /\ [](part = "asking")
<1>1. part = "asking" /\ Init => Asking!Init
  BY DEF Init
<1>2. part = "asking" /\ [Next]_vars => (part = "asking")' /\ [Asking!Next]_(Asking!vars)
  BY DEF Next, vars, Asking!vars
<1>. QED
  BY <1>1, <1>2, PTL DEF Spec, Asking!Spec

-----------------------------------------------------------------------------
(* What a part's own behaviours promise of its marks, all behaviours do.   *)

LEMMA MailMarksCovered ==
  ASSUME MailConstants
  PROVE  Spec => [](part = "mail" => Mail!BehindIsStored /\ Mail!CaughtUpMeansAll)
<1>1. ~(part = "mail") /\ [Next]_vars => ~(part = "mail")'
  BY DEF Next, vars
<1>2. ~(part = "mail") /\ Spec => []~(part = "mail")
  BY <1>1, PTL DEF Spec
<1>. QED
  BY <1>2, MailBehaves, BehindIsAlwaysStored, CaughtUpHasAll, PTL

LEMMA SeedMarksCovered ==
  ASSUME SeedConstants
  PROVE  Spec => [](part = "seed" => Seed!SeededIsCovered)
<1>1. ~(part = "seed") /\ [Next]_vars => ~(part = "seed")'
  BY DEF Next, vars
<1>2. ~(part = "seed") /\ Spec => []~(part = "seed")
  BY <1>1, PTL DEF Spec
<1>. QED
  BY <1>2, SeedBehaves, SeedIsCovered, PTL

LEMMA RecordsMarksCovered ==
  ASSUME RecordsConstants
  PROVE  Spec => [](part = "records" => Records!RecordsCorrected)
<1>1. ~(part = "records") /\ [Next]_vars => ~(part = "records")'
  BY DEF Next, vars
<1>2. ~(part = "records") /\ Spec => []~(part = "records")
  BY <1>1, PTL DEF Spec
<1>. QED
  BY <1>2, RecordsBehaves, RecordsAreCorrected, PTL

LEMMA EvidenceMarksCovered ==
  ASSUME EvidenceConstants
  PROVE  Spec => [](part = "evidence" => Evidence!NotAskedMeansRead /\ Evidence!OkMeansAllEvidence)
<1>1. ~(part = "evidence") /\ [Next]_vars => ~(part = "evidence")'
  BY DEF Next, vars
<1>2. ~(part = "evidence") /\ Spec => []~(part = "evidence")
  BY <1>1, PTL DEF Spec
<1>. QED
  BY <1>2, EvidenceBehaves, NotAskedIsRead, OkHasAllEvidence, PTL

LEMMA PeopleMarksCovered ==
  ASSUME PeopleConstants
  PROVE  Spec => [](part = "people" => People!CursorCovers /\ People!OkMeansLookedUp)
<1>1. ~(part = "people") /\ [Next]_vars => ~(part = "people")'
  BY DEF Next, vars
<1>2. ~(part = "people") /\ Spec => []~(part = "people")
  BY <1>1, PTL DEF Spec
<1>. QED
  BY <1>2, PeopleBehaves, CursorsCover, PTL

LEMMA LabelsMarksCovered ==
  ASSUME LabelConstants
  PROVE  Spec => [](part = "labels" => Labels!DoneIsSaved /\ Labels!CompleteIsLabeled)
<1>1. ~(part = "labels") /\ [Next]_vars => ~(part = "labels")'
  BY DEF Next, vars
<1>2. ~(part = "labels") /\ Spec => []~(part = "labels")
  BY <1>1, PTL DEF Spec
<1>. QED
  BY <1>2, LabelsBehaves, DoneIsAlwaysSaved, CompleteIsAlwaysLabeled, PTL

LEMMA IssuesMarksCovered ==
  ASSUME IssueConstants
  PROVE  Spec => [](part = "issues" => Issues!BehindIsStored /\ Issues!OkMeansCollected)
<1>1. ~(part = "issues") /\ [Next]_vars => ~(part = "issues")'
  BY DEF Next, vars
<1>2. ~(part = "issues") /\ Spec => []~(part = "issues")
  BY <1>1, PTL DEF Spec
<1>. QED
  BY <1>2, IssuesBehaves, IssuesBehindAreStored, IssuesOkIsCollected, PTL

(* Whatever is marked as done in the data directory is there, and whatever *)
(* a run of a store reports as ok, complete or caught up is so, wherever   *)
(* the runs before it failed or were cut.                                  *)
THEOREM MarksAlwaysCovered ==
  ASSUME MailConstants, SeedConstants, RecordsConstants, EvidenceConstants,
         PeopleConstants, LabelConstants, IssueConstants
  PROVE  FairSpec => []MarksAreCovered
<1>1. /\ part = "mail" => Mail!BehindIsStored /\ Mail!CaughtUpMeansAll
      /\ part = "seed" => Seed!SeededIsCovered
      /\ part = "records" => Records!RecordsCorrected
      /\ part = "evidence" => Evidence!NotAskedMeansRead /\ Evidence!OkMeansAllEvidence
      /\ part = "people" => People!CursorCovers /\ People!OkMeansLookedUp
      /\ part = "labels" => Labels!DoneIsSaved /\ Labels!CompleteIsLabeled
      /\ part = "issues" => Issues!BehindIsStored /\ Issues!OkMeansCollected
      => MarksAreCovered
  BY DEF MarksAreCovered
<1>. QED
  BY <1>1, MailMarksCovered, SeedMarksCovered, RecordsMarksCovered, EvidenceMarksCovered,
     PeopleMarksCovered, LabelsMarksCovered, IssuesMarksCovered, PTL
  DEF FairSpec

-----------------------------------------------------------------------------
(* The collectors ask no faster and no more often than they mean to: the   *)
(* requests of an instance keep their interval and its call budget, up to  *)
(* the tries of what is asked for after one look at it, and the pilot's    *)
(* scan its own.                                                           *)
THEOREM AllAskWithinBounds ==
  ASSUME AskingConstants, PilotConstants
  PROVE  FairSpec => []AsksWithinBounds
<1>1. /\ ~(part = "asking") /\ [Next]_vars => ~(part = "asking")'
      /\ ~(part = "pilot") /\ [Next]_vars => ~(part = "pilot")'
  BY DEF Next, vars
<1>2. ~(part = "asking") /\ Spec => []~(part = "asking")
  BY <1>1, PTL DEF Spec
<1>3. ~(part = "pilot") /\ Spec => []~(part = "pilot")
  BY <1>1, PTL DEF Spec
<1>4. Spec => [](part = "asking" => Asking!SpacingKept /\ Asking!OvershootBounded)
  BY <1>2, AskingBehaves, SpacingIsKept, OvershootIsBounded, PTL
<1>5. Spec => [](part = "pilot" => Pilot!BudgetKept)
  BY <1>3, PilotBehaves, PilotKeepsBudget, PTL
<1>6. /\ part = "asking" => Asking!SpacingKept /\ Asking!OvershootBounded
      /\ part = "pilot" => Pilot!BudgetKept
      => AsksWithinBounds
  BY DEF AsksWithinBounds
<1>. QED
  BY <1>4, <1>5, <1>6, PTL DEF FairSpec

-----------------------------------------------------------------------------
(* What a part's own steps never take back, no step does.                  *)

LEMMA SeedTakesNothingBack ==
  ASSUME SeedConstants
  PROVE  Spec => [][part = "seed" => Seed!CursorsAdvance]_vars
<1>1. ~(part = "seed") /\ [Next]_vars => ~(part = "seed")'
  BY DEF Next, vars
<1>2. ~(part = "seed") => [part = "seed" => Seed!CursorsAdvance]_vars
  OBVIOUS
<1>3. part = "seed" /\ [Next]_vars /\ [Seed!CursorsAdvance]_(Seed!vars)
      => [part = "seed" => Seed!CursorsAdvance]_vars
  BY DEF Next, vars, Seed!vars
<1>4. ~(part = "seed") /\ Spec => []~(part = "seed")
  BY <1>1, PTL DEF Spec
<1>5. part = "seed" /\ Spec => [](part = "seed") /\ [][Seed!CursorsAdvance]_(Seed!vars)
  BY SeedBehaves, SeedNeverRegresses, PTL
<1>. QED
  BY <1>2, <1>3, <1>4, <1>5, PTL DEF Spec

LEMMA EvidenceTakesNothingBack ==
  ASSUME EvidenceConstants
  PROVE  Spec => [][part = "evidence" => Evidence!FinalStays]_vars
<1>1. ~(part = "evidence") /\ [Next]_vars => ~(part = "evidence")'
  BY DEF Next, vars
<1>2. ~(part = "evidence") => [part = "evidence" => Evidence!FinalStays]_vars
  OBVIOUS
<1>3. part = "evidence" /\ [Next]_vars /\ [Evidence!FinalStays]_(Evidence!vars)
      => [part = "evidence" => Evidence!FinalStays]_vars
  BY DEF Next, vars, Evidence!vars
<1>4. ~(part = "evidence") /\ Spec => []~(part = "evidence")
  BY <1>1, PTL DEF Spec
<1>5. part = "evidence" /\ Spec => [](part = "evidence") /\ [][Evidence!FinalStays]_(Evidence!vars)
  BY EvidenceBehaves, FinalChecksStay, PTL
<1>. QED
  BY <1>2, <1>3, <1>4, <1>5, PTL DEF Spec

LEMMA WholeTakesNothingBack ==
  ASSUME SnapshotConstants
  PROVE  Spec => [][part = "whole" => Whole!OutageKeepsPages]_vars
<1>1. ~(part = "whole") /\ [Next]_vars => ~(part = "whole")'
  BY DEF Next, vars
<1>2. ~(part = "whole") => [part = "whole" => Whole!OutageKeepsPages]_vars
  OBVIOUS
<1>3. part = "whole" /\ [Next]_vars /\ [Whole!OutageKeepsPages]_(Whole!vars)
      => [part = "whole" => Whole!OutageKeepsPages]_vars
  BY DEF Next, vars, Whole!vars
<1>4. ~(part = "whole") /\ Spec => []~(part = "whole")
  BY <1>1, PTL DEF Spec
<1>5. part = "whole" /\ Spec => [](part = "whole") /\ [][Whole!OutageKeepsPages]_(Whole!vars)
  BY WholeBehaves, OutagesKeepPages, PTL
<1>. QED
  BY <1>2, <1>3, <1>4, <1>5, PTL DEF Spec

LEMMA SubprojectTakesNothingBack ==
  ASSUME SubprojectConstants
  PROVE  Spec => [][part = "subproject" => Subproject!RunsNeverOlder]_vars
<1>1. ~(part = "subproject") /\ [Next]_vars => ~(part = "subproject")'
  BY DEF Next, vars
<1>2. ~(part = "subproject") => [part = "subproject" => Subproject!RunsNeverOlder]_vars
  OBVIOUS
<1>3. part = "subproject" /\ [Next]_vars /\ [Subproject!RunsNeverOlder]_(Subproject!vars)
      => [part = "subproject" => Subproject!RunsNeverOlder]_vars
  BY DEF Next, vars, Subproject!vars
<1>4. ~(part = "subproject") /\ Spec => []~(part = "subproject")
  BY <1>1, PTL DEF Spec
<1>5. part = "subproject" /\ Spec => [](part = "subproject") /\ [][Subproject!RunsNeverOlder]_(Subproject!vars)
  BY SubprojectBehaves, WorkflowRunsNeverOlder, PTL
<1>. QED
  BY <1>2, <1>3, <1>4, <1>5, PTL DEF Spec

LEMMA PrivateTakesNothingBack ==
  ASSUME PrivateConstants
  PROVE  Spec => [][part = "private" => Private!RatingsStay]_vars
<1>1. ~(part = "private") /\ [Next]_vars => ~(part = "private")'
  BY DEF Next, vars
<1>2. ~(part = "private") => [part = "private" => Private!RatingsStay]_vars
  OBVIOUS
<1>3. part = "private" /\ [Next]_vars /\ [Private!RatingsStay]_(Private!vars)
      => [part = "private" => Private!RatingsStay]_vars
  BY DEF Next, vars, Private!vars
<1>4. ~(part = "private") /\ Spec => []~(part = "private")
  BY <1>1, PTL DEF Spec
<1>5. part = "private" /\ Spec => [](part = "private") /\ [][Private!RatingsStay]_(Private!vars)
  BY PrivateBehaves, RatingsAlwaysStay, PTL
<1>. QED
  BY <1>2, <1>3, <1>4, <1>5, PTL DEF Spec

LEMMA RowsTakesNothingBack ==
  ASSUME RowsConstants
  PROVE  Spec => [][part = "rows" => Rows!RereadsSame]_vars
<1>1. ~(part = "rows") /\ [Next]_vars => ~(part = "rows")'
  BY DEF Next, vars
<1>2. ~(part = "rows") => [part = "rows" => Rows!RereadsSame]_vars
  OBVIOUS
<1>3. part = "rows" /\ [Next]_vars /\ [Rows!RereadsSame]_(Rows!vars)
      => [part = "rows" => Rows!RereadsSame]_vars
  BY DEF Next, vars, Rows!vars
<1>4. ~(part = "rows") /\ Spec => []~(part = "rows")
  BY <1>1, PTL DEF Spec
<1>5. part = "rows" /\ Spec => [](part = "rows") /\ [][Rows!RereadsSame]_(Rows!vars)
  BY RowsBehaves, RereadsChangeNothing, PTL
<1>. QED
  BY <1>2, <1>3, <1>4, <1>5, PTL DEF Spec

(* No step of any part takes back what was known: a cursor of a seeded     *)
(* subproject, a final check, what a page shows at an outage, a workflow's *)
(* last run, a rating, what the rows of a night told.                      *)
THEOREM NothingIsTakenBack ==
  ASSUME SeedConstants, EvidenceConstants, SnapshotConstants, SubprojectConstants, PrivateConstants, RowsConstants
  PROVE  FairSpec => NothingTakenBack
<1>1. /\ [part = "seed" => Seed!CursorsAdvance]_vars
      /\ [part = "evidence" => Evidence!FinalStays]_vars
      /\ [part = "whole" => Whole!OutageKeepsPages]_vars
      /\ [part = "subproject" => Subproject!RunsNeverOlder]_vars
      /\ [part = "private" => Private!RatingsStay]_vars
      /\ [part = "rows" => Rows!RereadsSame]_vars
      => [/\ part = "seed" => Seed!CursorsAdvance
          /\ part = "evidence" => Evidence!FinalStays
          /\ part = "whole" => Whole!OutageKeepsPages
          /\ part = "subproject" => Subproject!RunsNeverOlder
          /\ part = "private" => Private!RatingsStay
          /\ part = "rows" => Rows!RereadsSame]_vars
  OBVIOUS
<1>. QED
  BY <1>1, SeedTakesNothingBack, EvidenceTakesNothingBack, WholeTakesNothingBack,
     SubprojectTakesNothingBack, PrivateTakesNothingBack, RowsTakesNothingBack, PTL
  DEF FairSpec, NothingTakenBack

-----------------------------------------------------------------------------
(* What a store promises its reader, each of its steps keeps: a step that  *)
(* delivers nothing and settles nothing is a push of what was there.       *)

LEMMA MailDelivers ==
  ASSUME MailConstants
  PROVE  Spec => [][part = "mail" /\ "late" \notin faults => Mail!Feed!Deliver]_vars
<1>. DEFINE Covered == Mail!Feed!FeedTypeOK /\ Mail!Feed!SettledIsDelivered
<1>1. faults' = faults \/ part # "mail" \/ ~[Next]_vars
  <2>1. [Mail!Next]_(Mail!vars) => faults' = faults
    BY DEF Mail!Next, Mail!Run, Mail!vars, Mail!NextMonth, Mail!Post, Mail!Reconfigure, Mail!BeginRun, Mail!SkipList,
       Mail!FetchStats, Mail!FetchMonth, Mail!EndList, Mail!EndCollect, Mail!WriteMessages, Mail!WriteThreads,
       Mail!WriteWatermark, Mail!EndRun, Mail!FailRequest, Mail!Kill
  <2>. QED
    BY <2>1 DEF Next, vars, Mail!vars
<1>2. ~(part = "mail" /\ "late" \notin faults) /\ [Next]_vars => ~(part = "mail" /\ "late" \notin faults)'
  <2>1. part # "mail" /\ [Next]_vars => part' # "mail"
    BY DEF Next, vars
  <2>. QED
    BY <1>1, <2>1
<1>3. Mail!Feed!FeedInit => Covered
  BY DEF Mail!Feed!FeedInit, Mail!Feed!FeedTypeOK, Mail!Feed!SettledIsDelivered
<1>4. Covered /\ [Mail!Feed!Deliver]_(Mail!Feed!feed) => Covered' /\ Mail!Feed!Deliver
  BY DEF Mail!Feed!Deliver, Mail!Feed!feed, Mail!Feed!FeedTypeOK, Mail!Feed!SettledIsDelivered
<1>. HIDE DEF Covered
<1>5. Mail!Feed!FeedSpec => []Covered /\ [][Mail!Feed!Deliver]_(Mail!Feed!feed)
  BY <1>3, <1>4, PTL DEF Mail!Feed!FeedSpec
<1>6. Covered /\ [Mail!Feed!Deliver]_(Mail!Feed!feed)
      => [part = "mail" /\ "late" \notin faults => Mail!Feed!Deliver]_vars
  BY <1>4
<1>7. ~(part = "mail" /\ "late" \notin faults) => [part = "mail" /\ "late" \notin faults => Mail!Feed!Deliver]_vars
  OBVIOUS
<1>8. ~(part = "mail" /\ "late" \notin faults) /\ Spec => []~(part = "mail" /\ "late" \notin faults)
  BY <1>2, PTL DEF Spec
<1>9. (part = "mail" /\ "late" \notin faults) /\ Spec => []Covered /\ [][Mail!Feed!Deliver]_(Mail!Feed!feed)
  BY <1>5, MailBehaves, MailIsAFeed, PTL
<1>. QED
  BY <1>6, <1>7, <1>8, <1>9, PTL

LEMMA SeedDelivers ==
  ASSUME SeedConstants
  PROVE  Spec => [][part = "seed" => Seed!Feed!Deliver]_vars
<1>. DEFINE Covered == Seed!Feed!FeedTypeOK /\ Seed!Feed!SettledIsDelivered
<1>2. ~(part = "seed") /\ [Next]_vars => ~(part = "seed")'
  BY DEF Next, vars
<1>3. Seed!Feed!FeedInit => Covered
  BY DEF Seed!Feed!FeedInit, Seed!Feed!FeedTypeOK, Seed!Feed!SettledIsDelivered
<1>4. Covered /\ [Seed!Feed!Deliver]_(Seed!Feed!feed) => Covered' /\ Seed!Feed!Deliver
  BY DEF Seed!Feed!Deliver, Seed!Feed!feed, Seed!Feed!FeedTypeOK, Seed!Feed!SettledIsDelivered
<1>. HIDE DEF Covered
<1>5. Seed!Feed!FeedSpec => []Covered /\ [][Seed!Feed!Deliver]_(Seed!Feed!feed)
  BY <1>3, <1>4, PTL DEF Seed!Feed!FeedSpec
<1>6. Covered /\ [Seed!Feed!Deliver]_(Seed!Feed!feed) => [part = "seed" => Seed!Feed!Deliver]_vars
  BY <1>4
<1>7. ~(part = "seed") => [part = "seed" => Seed!Feed!Deliver]_vars
  OBVIOUS
<1>8. ~(part = "seed") /\ Spec => []~(part = "seed")
  BY <1>2, PTL DEF Spec
<1>9. (part = "seed") /\ Spec => []Covered /\ [][Seed!Feed!Deliver]_(Seed!Feed!feed)
  BY <1>5, SeedBehaves, SeedIsAFeed, PTL
<1>. QED
  BY <1>6, <1>7, <1>8, <1>9, PTL

LEMMA RecordsDelivers ==
  ASSUME RecordsConstants
  PROVE  Spec => [][part = "records" => Records!Feed!Deliver]_vars
<1>. DEFINE Covered == Records!Feed!FeedTypeOK /\ Records!Feed!SettledIsDelivered
<1>2. ~(part = "records") /\ [Next]_vars => ~(part = "records")'
  BY DEF Next, vars
<1>3. Records!Feed!FeedInit => Covered
  BY DEF Records!Feed!FeedInit, Records!Feed!FeedTypeOK, Records!Feed!SettledIsDelivered
<1>4. Covered /\ [Records!Feed!Deliver]_(Records!Feed!feed) => Covered' /\ Records!Feed!Deliver
  BY DEF Records!Feed!Deliver, Records!Feed!feed, Records!Feed!FeedTypeOK, Records!Feed!SettledIsDelivered
<1>. HIDE DEF Covered
<1>5. Records!Feed!FeedSpec => []Covered /\ [][Records!Feed!Deliver]_(Records!Feed!feed)
  BY <1>3, <1>4, PTL DEF Records!Feed!FeedSpec
<1>6. Covered /\ [Records!Feed!Deliver]_(Records!Feed!feed)
      => [part = "records" => Records!Feed!Deliver]_vars
  BY <1>4
<1>7. ~(part = "records") => [part = "records" => Records!Feed!Deliver]_vars
  OBVIOUS
<1>8. ~(part = "records") /\ Spec => []~(part = "records")
  BY <1>2, PTL DEF Spec
<1>9. (part = "records") /\ Spec => []Covered /\ [][Records!Feed!Deliver]_(Records!Feed!feed)
  BY <1>5, RecordsBehaves, RecordsAreAFeed, PTL
<1>. QED
  BY <1>6, <1>7, <1>8, <1>9, PTL

LEMMA IssuesDelivers ==
  ASSUME IssueConstants, MaxUpdates \in Nat
  PROVE  Spec => [][part = "issues" => Issues!Feed!Deliver]_vars
<1>. DEFINE Covered == Issues!Feed!FeedTypeOK /\ Issues!Feed!SettledIsDelivered
<1>2. ~(part = "issues") /\ [Next]_vars => ~(part = "issues")'
  BY DEF Next, vars
<1>3. Issues!Feed!FeedInit => Covered
  BY DEF Issues!Feed!FeedInit, Issues!Feed!FeedTypeOK, Issues!Feed!SettledIsDelivered
<1>4. Covered /\ [Issues!Feed!Deliver]_(Issues!Feed!feed) => Covered' /\ Issues!Feed!Deliver
  BY DEF Issues!Feed!Deliver, Issues!Feed!feed, Issues!Feed!FeedTypeOK, Issues!Feed!SettledIsDelivered
<1>. HIDE DEF Covered
<1>5. Issues!Feed!FeedSpec => []Covered /\ [][Issues!Feed!Deliver]_(Issues!Feed!feed)
  BY <1>3, <1>4, PTL DEF Issues!Feed!FeedSpec
<1>6. Covered /\ [Issues!Feed!Deliver]_(Issues!Feed!feed)
      => [part = "issues" => Issues!Feed!Deliver]_vars
  BY <1>4
<1>7. ~(part = "issues") => [part = "issues" => Issues!Feed!Deliver]_vars
  OBVIOUS
<1>8. ~(part = "issues") /\ Spec => []~(part = "issues")
  BY <1>2, PTL DEF Spec
<1>9. (part = "issues") /\ Spec => []Covered /\ [][Issues!Feed!Deliver]_(Issues!Feed!feed)
  BY <1>5, IssuesBehaves, IssuesAreAFeed, PTL
<1>. QED
  BY <1>6, <1>7, <1>8, <1>9, PTL

(* The mail that comes in time, a seeded subproject, the parser's records  *)
(* and GitHub's issues are at-least-once feeds, each on its own data and   *)
(* by every step: what was delivered stays, what is settled is there.      *)
THEOREM AllStoresAreFeeds ==
  ASSUME MailConstants, SeedConstants, RecordsConstants, IssueConstants, MaxUpdates \in Nat
  PROVE  FairSpec => StoresAreFeeds
<1>1. /\ [part = "mail" /\ "late" \notin faults => Mail!Feed!Deliver]_vars
      /\ [part = "seed" => Seed!Feed!Deliver]_vars
      /\ [part = "records" => Records!Feed!Deliver]_vars
      /\ [part = "issues" => Issues!Feed!Deliver]_vars
      => [/\ part = "mail" /\ "late" \notin faults => Mail!Feed!Deliver
          /\ part = "seed" => Seed!Feed!Deliver
          /\ part = "records" => Records!Feed!Deliver
          /\ part = "issues" => Issues!Feed!Deliver]_vars
  OBVIOUS
<1>. QED
  BY <1>1, MailDelivers, SeedDelivers, RecordsDelivers, IssuesDelivers, PTL
  DEF FairSpec, StoresAreFeeds

=============================================================================
