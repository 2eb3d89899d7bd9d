------------------------------- MODULE Readings -------------------------------
(***************************************************************************)
(* What the tables tell of an issue of JIRA, of a pull request and of      *)
(* commits' reviewers when a run reads every partition there is: the same  *)
(* thing may have rows of several nights, of several versions of it and of *)
(* several versions of the code, and each table is reduced to one row of   *)
(* each key as it is read. A version is the number of the update.          *)
(***************************************************************************)
EXTENDS Naturals, FiniteSets, FiniteSetsExt, Sequences, SequencesExt, Functions

CONSTANTS
  Reviewers,     \* those named as reviewers
  MaxComments,   \* MAX_COMMENTS_PER_ISSUE_STORED
  Credits,       \* Credits[v][c]: whom version v of the parser finds in commit c
  MaxUpdates, MaxParts,  \* updates; partitions of a source (bounds)
  Environments   \* each a set of what goes on

Parsers == DOMAIN Credits
Commits == DOMAIN Credits[1]

VARIABLES
  faults,  \* what goes on in this behaviour; never changes
  world,   \* issue: its version, when resolved (0: open), reviewers, histories, comments
           \* made and deleted; pr: version and reviews; parser: PARSER_VERSION
  disk,    \* partitions of JIRA, GitHub and git, in the order they are read
  run      \* the version of the issue that the newest walk has stored

vars == <<faults, world, disk, run>>

Init ==
  /\ faults \in Environments
  /\ world = [issue |-> [updated |-> 1, resolved |-> 0, reviewers |-> {}, histories |-> << >>,
                         comments |-> 0, deleted |-> {}],
              pr |-> [updated |-> 1, reviews |-> 0], parser |-> 1]
  /\ disk = [jira |-> << >>, github |-> << >>, git |-> << >>]
  /\ run = 0

-----------------------------------------------------------------------------
(* The sources.                                                            *)

UpdateIssue(issue) ==
  /\ world.issue.updated < MaxUpdates
  /\ world' = [world EXCEPT !.issue = [issue EXCEPT !.updated = @ + 1]]
  /\ UNCHANGED <<faults, disk, run>>

Resolve ==
  /\ "resolve" \in faults
  /\ UpdateIssue([world.issue EXCEPT !.resolved = IF @ = 0 THEN world.issue.updated + 1 ELSE 0])

NameReviewer(p) ==
  /\ "reviewers" \in faults
  /\ UpdateIssue([world.issue EXCEPT !.reviewers = IF p \in @ THEN @ \ {p} ELSE @ \cup {p}])

Transit ==
  /\ "history" \in faults
  /\ UpdateIssue([world.issue EXCEPT !.histories = Append(@, world.issue.updated + 1)])

Comment ==
  /\ "comments" \in faults
  /\ \/ UpdateIssue([world.issue EXCEPT !.comments = @ + 1])
     \/ \E k \in 1..world.issue.comments \ world.issue.deleted :
          UpdateIssue([world.issue EXCEPT !.deleted = @ \cup {k}])

UpdatePr ==
  /\ "pr" \in faults /\ world.pr.updated < MaxUpdates
  /\ \E reviews \in {world.pr.reviews, world.pr.reviews + 1} :
       world' = [world EXCEPT !.pr = [updated |-> @.updated + 1, reviews |-> reviews]]
  /\ UNCHANGED <<faults, disk, run>>

ReleaseParser ==
  /\ "git" \in faults /\ world.parser + 1 \in Parsers
  /\ world' = [world EXCEPT !.parser = @ + 1]
  /\ UNCHANGED <<faults, disk, run>>

-----------------------------------------------------------------------------
(* The rows of a fetch.                                                    *)

IssueRow(told, reporter) ==
  [updated |-> world.issue.updated, resolved |-> world.issue.resolved,
   resolution |-> told /\ world.issue.resolved # 0, reporter |-> reporter]

(* A reviewer's time is that of the resolution, of the update without one. *)
ReviewRows ==
  {[who |-> p, at |-> IF world.issue.resolved # 0 THEN world.issue.resolved ELSE world.issue.updated] :
     p \in world.issue.reviewers}

CommentRows ==
  LET there == 1..world.issue.comments \ world.issue.deleted
  IN  {k \in there : Cardinality({j \in there : j <= k}) <= MaxComments}

ChangelogRows == ToSet(world.issue.histories)

Partition(issue, reviews, comments, changelog) ==
  [issue |-> issue, reviews |-> reviews, comments |-> comments, changelog |-> changelog]

StoreIssue(partition, walked) ==
  /\ Len(disk.jira) < MaxParts
  /\ disk' = [disk EXCEPT !.jira = Append(@, partition)]
  /\ run' = walked
  /\ UNCHANGED <<faults, world>>

(* The walk, the same night again if it was cut, the margin's overlap.     *)
WalkIssue ==
  StoreIssue(Partition(IssueRow(TRUE, TRUE), ReviewRows, CommentRows, ChangelogRows), world.issue.updated)

(* The walk of the code before it knew of resolutions and histories.       *)
WalkIssueBefore ==
  /\ "before" \in faults
  /\ \A k \in DOMAIN disk.jira : disk.jira[k].issue.reporter /\ ~disk.jira[k].issue.resolution
  /\ StoreIssue(Partition(IssueRow(FALSE, TRUE), ReviewRows, CommentRows, {}), 0)

(* The backfill of the histories asks for neither reporter nor reviewers;  *)
(* an issue whose comments are marked as checked brings none.              *)
BackfillIssue ==
  /\ "backfill" \in faults /\ disk.jira # << >>
  /\ \E comments \in {{}, CommentRows} :
       StoreIssue(Partition(IssueRow(TRUE, FALSE), {}, comments, ChangelogRows), run)

StorePr ==
  /\ "pr" \in faults /\ Len(disk.github) < MaxParts
  /\ disk' = [disk EXCEPT !.github = Append(@, [updated |-> world.pr.updated, reviews |-> 1..world.pr.reviews])]
  /\ UNCHANGED <<faults, world, run>>

TrailerRows(commits) ==
  UNION {{[sha |-> c, who |-> p, parser_version |-> world.parser] : p \in Credits[world.parser][c]} : c \in commits}

(* One commit's rows by the walk, those of all commits by a reparse.       *)
StoreTrailers(name, commits) ==
  /\ "git" \in faults /\ Len(disk.git) < MaxParts
  /\ disk' = [disk EXCEPT !.git = Append(@, [name |-> name, rows |-> TrailerRows(commits)])]
  /\ UNCHANGED <<faults, world, run>>

Next ==
  \/ Resolve \/ Transit \/ Comment \/ \E p \in Reviewers : NameReviewer(p)
  \/ UpdatePr \/ ReleaseParser
  \/ WalkIssue \/ WalkIssueBefore \/ BackfillIssue \/ StorePr
  \/ StoreTrailers("reparse", Commits) \/ \E c \in Commits : StoreTrailers("walk", {c})

Spec == Init /\ [][Next]_vars

-----------------------------------------------------------------------------
(* Reading. A table is read partition after partition.                     *)

ReadTable(log, table) == [k \in DOMAIN log |-> log[k][table]]

Above(row, best) ==
  \/ row.updated > best.updated
  \/ row.updated = best.updated /\ row.resolution /\ ~best.resolution
  \/ row.updated = best.updated /\ row.resolution = best.resolution /\ row.reporter /\ ~best.reporter

(* The first row that none is above.                                       *)
DedupeIssueRows(rows) ==
  rows[Min({k \in DOMAIN rows : \A j \in DOMAIN rows : ~Above(rows[j], rows[k])})]

DedupeJiraReviewEvents(rows) ==
  LET all == UNION ToSet(rows)
  IN  {r \in all : \A q \in all : q.who = r.who => q.at <= r.at}

DedupeIssueComments(rows) == UNION ToSet(rows)

DedupeJiraChangelog(rows) == UNION ToSet(rows)

DedupePrRows(rows) == Max(ToSet(rows))

DedupePrReviews(rows) == UNION ToSet(rows)

DedupeCommitTrailers(rows) ==
  LET all == UNION ToSet(rows)
  IN  {r \in all : \A q \in all : q.sha = r.sha => q.parser_version <= r.parser_version}

(* What a run reads of each source, nothing when it has no partitions.     *)
ReadJira(log) ==
  [issue        |-> DedupeIssueRows(ReadTable(log, "issue")),
   review_event |-> DedupeJiraReviewEvents(ReadTable(log, "reviews")),
   comments     |-> DedupeIssueComments(ReadTable(log, "comments")),
   changelog    |-> DedupeJiraChangelog(ReadTable(log, "changelog"))]

ReadGithub(log) ==
  [pr |-> DedupePrRows(ReadTable(log, "updated")), pr_review |-> DedupePrReviews(ReadTable(log, "reviews"))]

ReadTrailers(log) == DedupeCommitTrailers(ReadTable(log, "rows"))

-----------------------------------------------------------------------------
TypeOK ==
  /\ faults \in Environments /\ world.issue.updated \in 1..MaxUpdates /\ world.pr.updated \in 1..MaxUpdates
  /\ run \in 0..world.issue.updated /\ world.parser \in Parsers
  /\ {Len(disk.jira), Len(disk.github), Len(disk.git)} \subseteq 0..MaxParts

(* The issue that is read is the newest there is, and tells all that a     *)
(* walk of that version told: no stub of the backfill hides the reporter   *)
(* or the resolution. (It may hide the reporter of a row that was stored   *)
(* before resolutions were.)                                               *)
IssueReadsWhole ==
  disk.jira # << >> =>
    LET row == ReadJira(disk.jira).issue
        rows == ToSet(ReadTable(disk.jira, "issue"))
    IN  /\ \A r \in rows : r.updated <= row.updated
        /\ (\E r \in rows : r.updated = row.updated /\ r.reporter /\ r.resolution = (r.resolved # 0))
             => row.reporter /\ row.resolution = (row.resolved # 0)

(* The tables that one walk has written read as one: whoever it named as a *)
(* reviewer, at the time the issue's row tells; every history, and the     *)
(* first comments, each once.                                              *)
TablesReadTogether ==
  (disk.jira # << >> /\ run = world.issue.updated) =>
    LET read == ReadJira(disk.jira)
        at == IF read.issue.resolved # 0 THEN read.issue.resolved ELSE read.issue.updated
    IN  /\ {r \in read.review_event : r.who \in world.issue.reviewers} = {[who |-> p, at |-> at] : p \in world.issue.reviewers}
        /\ read.changelog = ToSet(world.issue.histories)
        /\ CommentRows \subseteq read.comments /\ read.comments \subseteq 1..world.issue.comments

(* What is read does not depend on the order of the partitions.            *)
Reordered(log) == {[k \in DOMAIN log |-> log[order[k]]] : order \in Bijection(DOMAIN log, DOMAIN log)}

OrderIsFree ==
  /\ disk.jira # << >> => \A log \in Reordered(disk.jira) : ReadJira(log) = ReadJira(disk.jira)
  /\ disk.github # << >> => \A log \in Reordered(disk.github) : ReadGithub(log) = ReadGithub(disk.github)
  /\ \A log \in Reordered(disk.git) : ReadTrailers(log) = ReadTrailers(disk.git)

(* A reparse replaces the reviewers of every commit in which its parser    *)
(* finds any, until a newer one does; a commit is never read by two        *)
(* parsers. (Where the newer finds none, the older's reviewers stay.)      *)
ReparseReplaces ==
  LET read(c) == {r \in ReadTrailers(disk.git) : r.sha = c}
      reparses == {p \in ToSet(disk.git) : p.name = "reparse"}
  IN  \A c \in Commits :
        /\ Cardinality({r.parser_version : r \in read(c)}) <= 1
        /\ \A p \in reparses : \A stored \in p.rows : stored.sha = c =>
             \E v \in Parsers : v >= stored.parser_version /\ {r.who : r \in read(c)} = Credits[v][c]

(* A partition that brings no news changes nothing that is read; whatever  *)
(* it brings, the issue read never gets older, no reviewer's time earlier, *)
(* and no comment, history, review of a pull request is lost.              *)
RereadsSame ==
  /\ (disk.jira # << >> /\ disk' # disk) =>
       LET before == ReadJira(disk.jira)   after == ReadJira(disk'.jira)
       IN  /\ run = world.issue.updated => after = before
           /\ before.issue.updated <= after.issue.updated
           /\ \A r \in before.review_event : \E q \in after.review_event : q.who = r.who /\ r.at <= q.at
           /\ before.comments \subseteq after.comments /\ before.changelog \subseteq after.changelog
  /\ disk.github # << >> =>
       LET before == ReadGithub(disk.github)   after == ReadGithub(disk'.github)
       IN  before.pr <= after.pr /\ before.pr_review \subseteq after.pr_review

=============================================================================
