---------------------------- MODULE IssueMetrics ----------------------------
(***************************************************************************)
(* The metrics of issues, JIRA's and GitHub's: first responses, times to   *)
(* resolution, sweeps of old issues, stale ones and closure ratios. JIRA's *)
(* issues were collected before their comments were: those of the time     *)
(* before come with the next update of the issue, or by a backfill.        *)
(***************************************************************************)
EXTENDS Figures

CONSTANTS
  Issues,        \* 1..n, in the order they are opened in
  Jira,          \* those of JIRA; the others are GitHub's
  ReporterOf,    \* who opened each; 0 is nobody known
  Bots,          \* who of People the bot patterns match
  People,        \* authors of comments; 0 for one that is gone
  Since,         \* the day comments began to be collected
  StaleDays,     \* days after which an open issue is stale
  CohortMonths,  \* the age of the cohort's oldest issues: 12 months
  BulkAge, BulkCount,  \* BULK_CLOSURE_MIN_AGE_DAYS, BULK_CLOSURE_MIN_RESOLUTIONS
  MaxDay, MaxComments, \* days, comments (bounds)
  Environments   \* each a set of what goes on

Days == 0..MaxDay

(* Rows of the tables, as far as a metric tells them apart. *)
Issue == [created : Days, resolved : Days \cup {-1}, patch : Days \cup {-1}, updated : Days]
IssueComment == [issue : Issues, by : People, at : Days]

VARIABLES
  faults,  \* what goes on in this behaviour; never changes
  world,   \* now: the day; comment: all comments there are
  disk,    \* issue: rows; comment: rows; checked: comment_backfill_checked
  report   \* the metric rows of the last night

vars == <<faults, world, disk, report>>

Init ==
  /\ faults \in Environments
  /\ world = [now |-> 0, comment |-> {}]
  /\ disk = [issue |-> << >>, comment |-> {}, checked |-> {}]
  /\ report = << >>

Known == DOMAIN disk.issue

(* An issue and its comments are collected the night after an update.      *)
Collected(i, comments) ==
  IF i \notin Jira THEN [disk EXCEPT !.comment = comments]
  ELSE IF world.now < Since THEN disk
  ELSE [disk EXCEPT !.comment = @ \cup {c \in comments : c.issue = i}, !.checked = @ \cup {i}]

Open ==
  /\ Len(disk.issue) < Cardinality(Issues)
  /\ LET i == Len(disk.issue) + 1
     IN  disk' = [Collected(i, world.comment) EXCEPT
                    !.issue = Append(@, [created |-> world.now, resolved |-> -1, patch |-> -1, updated |-> world.now])]
  /\ UNCHANGED <<faults, world, report>>

(* A day -1 is one that has not come.                                      *)
Change(i, row) ==
  /\ disk' = [Collected(i, world.comment) EXCEPT !.issue[i] = [row EXCEPT !.updated = world.now]]
  /\ UNCHANGED <<faults, world, report>>

Resolve(i) ==
  /\ "resolve" \in faults /\ i \in Known /\ disk.issue[i].resolved = -1
  /\ Change(i, [disk.issue[i] EXCEPT !.resolved = world.now])

Reopen(i) ==
  /\ "reopen" \in faults /\ i \in Known /\ disk.issue[i].resolved # -1
  /\ Change(i, [disk.issue[i] EXCEPT !.resolved = -1])

(* The first time an issue is Patch Available stays in its history.        *)
OfferPatch(i) ==
  /\ "patch" \in faults /\ i \in Known \cap Jira
  /\ disk.issue[i].patch = -1 /\ disk.issue[i].resolved = -1
  /\ Change(i, [disk.issue[i] EXCEPT !.patch = world.now])

Comment(i, by) ==
  /\ "comment" \in faults /\ i \in Known
  /\ Cardinality(world.comment) < MaxComments
  /\ LET all == world.comment \cup {[issue |-> i, by |-> by, at |-> world.now]}
     IN  /\ world' = [world EXCEPT !.comment = all]
         /\ disk' = [Collected(i, all) EXCEPT !.issue[i].updated = world.now]
  /\ UNCHANGED <<faults, report>>

Backfill(i) ==
  /\ "comment" \in faults /\ world.now >= Since /\ i \in (Known \cap Jira) \ disk.checked
  /\ disk' = Collected(i, world.comment)
  /\ UNCHANGED <<faults, world, report>>

-----------------------------------------------------------------------------
OpenedIn(m, ids) == {i \in ids : MonthStart(disk.issue[i].created) = m}
ResolvedIn(m, ids) == {i \in ids : disk.issue[i].resolved # -1 /\ MonthStart(disk.issue[i].resolved) = m}

Within(days, asOf) == IF days = {} THEN {} ELSE DenseMonths(Min(days), asOf)
CreatedDays(ids) == {disk.issue[i].created : i \in ids}
ResolvedDays(ids) == {disk.issue[i].resolved : i \in ids} \ {-1}

LatencyRow(f) == MakeRow(Median(f), Cardinality(DOMAIN f), FALSE) @@ [p90 |-> Percentile90(f)]

(* The first comment by another than the reporter and, in JIRA, no bot.    *)
Replies(i, comments) ==
  {c \in comments : /\ c.issue = i /\ c.by # 0
                    /\ i \in Jira => c.by \notin Bots
                    /\ ReporterOf[i] = 0 \/ c.by # ReporterOf[i]}

FirstReply(i, comments) == Min({c.at : c \in Replies(i, comments)})

Latencies(ids, comments) ==
  [i \in {i \in ids : Replies(i, comments) # {}} |-> FirstReply(i, comments) - disk.issue[i].created]

(* By the month the issue was opened in; beside it by that of the reply.   *)
FirstResponseRow(m, ids) ==
  LET opened == OpenedIn(m, ids)
      replied == {i \in ids : Replies(i, disk.comment) # {}}
  IN  LatencyRow(Latencies(opened, disk.comment))
        @@ [n_opened |-> Cardinality(opened),
            closed_in_window |->
              LatencyRow(Latencies({i \in replied : MonthStart(FirstReply(i, disk.comment)) = m}, disk.comment))]

(* With any mark at all, a month one of whose issues has none is still     *)
(* being backfilled.                                                       *)
BackfillPending(m) == disk.checked # {} /\ ~(OpenedIn(m, Known \cap Jira) \subseteq disk.checked)

TimeToFirstResponseJira(asOf) ==
  [m \in Within(CreatedDays(Known \cap Jira), asOf) |->
     FirstResponseRow(m, Known \cap Jira) @@ [backfill_in_progress |-> BackfillPending(m)]]

TimeToFirstResponseGhIssue(asOf) ==
  [m \in Within(CreatedDays(Known \ Jira), asOf) |-> FirstResponseRow(m, Known \ Jira)]

Age(i) == disk.issue[i].resolved - disk.issue[i].created

(* Days with many resolutions of old issues, and how many.                 *)
BulkClosureDays ==
  LET old(d) == {i \in Known \cap Jira : disk.issue[i].resolved = d /\ Age(i) > BulkAge}
  IN  [d \in {d \in Days : Cardinality(old(d)) >= BulkCount} |-> Cardinality(old(d))]

MedianResolutionLatencyJira(asOf) ==
  [m \in Within(ResolvedDays(Known \cap Jira), asOf) |->
     LatencyRow([i \in ResolvedIn(m, Known \cap Jira) |-> Age(i)])
       @@ [bulk |-> [d \in DOMAIN BulkClosureDays \cap (m..MonthEnd(m)) |-> BulkClosureDays[d]]]]

(* The same without the old ones, over the same months.                    *)
MedianResolutionLatencyJiraCohort(asOf) ==
  [m \in Within(ResolvedDays(Known \cap Jira), asOf) |->
     LatencyRow([i \in {i \in ResolvedIn(m, Known \cap Jira) : Age(i) <= CohortMonths * MonthDays} |-> Age(i)])]

StaleJiraRate(asOf) ==
  LET open == {i \in Known \cap Jira : disk.issue[i].resolved = -1}
      stale == {i \in open : disk.issue[i].updated < asOf - StaleDays}
  IN  MakeRow(Ratio(Cardinality(stale), Cardinality(open)), Cardinality(open), FALSE)

Closure(opened, closed) ==
  MakeRow(Ratio(Cardinality(closed), Cardinality(opened)), Cardinality(opened), FALSE)
    @@ [n_closed |-> Cardinality(closed)]

(* Opened when first offered, closed when resolved, if ever offered.       *)
ClosureRatioJiraPatch(asOf) ==
  LET offered == {i \in Known \cap Jira : disk.issue[i].patch # -1}
  IN  [m \in Within(CreatedDays(Known \cap Jira), asOf) |->
         Closure({i \in offered : MonthStart(disk.issue[i].patch) = m}, ResolvedIn(m, offered))]

IssueClosureRatioGh(asOf) ==
  [m \in Within(CreatedDays(Known \ Jira), asOf) |->
     Closure(OpenedIn(m, Known \ Jira), ResolvedIn(m, Known \ Jira))]

ComputeGithubIssueMetrics(asOf) ==
  [time_to_first_response_gh_issue |-> TimeToFirstResponseGhIssue(asOf),
   issue_closure_ratio_gh |-> IssueClosureRatioGh(asOf)]

ComputeJiraMetrics(asOf) ==
  [time_to_first_response_jira |-> TimeToFirstResponseJira(asOf),
   median_resolution_latency_jira |-> MedianResolutionLatencyJira(asOf),
   median_resolution_latency_jira_cohort_12m |-> MedianResolutionLatencyJiraCohort(asOf),
   stale_jira_rate |-> StaleJiraRate(asOf),
   change_request_closure_ratio_jira_patch |-> ClosureRatioJiraPatch(asOf)]

NextDay ==
  /\ world.now < MaxDay
  /\ world' = [world EXCEPT !.now = @ + 1]
  /\ UNCHANGED <<faults, disk>>
  /\ report' = ComputeGithubIssueMetrics(world.now + 1) @@ ComputeJiraMetrics(world.now + 1)

Next ==
  \/ NextDay \/ Open
  \/ \E i \in Issues : Resolve(i) \/ Reopen(i) \/ OfferPatch(i) \/ Backfill(i)
  \/ \E i \in Issues, by \in People : Comment(i, by)

-----------------------------------------------------------------------------
TypeOK ==
  /\ faults \in Environments /\ world.now \in Days
  /\ Len(disk.issue) <= Cardinality(Issues)
  /\ Range(disk.issue) \subseteq Issue /\ world.comment \subseteq IssueComment
  /\ disk.comment \subseteq world.comment /\ disk.checked \subseteq Known \cap Jira
  /\ \A i \in Known : disk.issue[i].resolved = -1 \/ Age(i) >= 0

(* Once the backfill has begun, a month without its note has the first     *)
(* response of every issue opened in it.                                   *)
UnflaggedIsComplete ==
  (report # << >> /\ disk.checked # {}) =>
    \A m \in DOMAIN TimeToFirstResponseJira(world.now) :
      LET row == TimeToFirstResponseJira(world.now)[m]
      IN  ~row.backfill_in_progress =>
            row.n = Cardinality(DOMAIN Latencies(OpenedIn(m, Known \cap Jira), world.comment))

(* The cohort's and the plain figure are about the same months; what the   *)
(* cohort lacks is old, and every sweep shown is part of it.               *)
SweepsExplainTheCohort ==
  report # << >> =>
    LET plain == report.median_resolution_latency_jira
        cohort == report.median_resolution_latency_jira_cohort_12m
    IN  /\ DOMAIN cohort = DOMAIN plain
        /\ \A m \in DOMAIN plain : SumFunction(plain[m].bulk) <= plain[m].n - cohort[m].n

(* What was told of a completed month stands, as long as no issue is       *)
(* opened again; first responses only become more.                         *)
HistoryStands ==
  (report # << >> /\ "reopen" \notin faults) =>
    /\ \A metric \in {"median_resolution_latency_jira", "median_resolution_latency_jira_cohort_12m",
                      "change_request_closure_ratio_jira_patch", "issue_closure_ratio_gh"} :
         \A m \in DOMAIN report[metric] : m \in DOMAIN report'[metric] /\ report'[metric][m] = report[metric][m]
    /\ \A metric \in {"time_to_first_response_jira", "time_to_first_response_gh_issue"} :
         \A m \in DOMAIN report[metric] :
           m \in DOMAIN report'[metric] /\ report'[metric][m].n >= report[metric][m].n

=============================================================================
