------------------------- MODULE PullRequestMetrics -------------------------
(***************************************************************************)
(* The metrics of pull requests: latencies by the month a request ended or *)
(* was opened in, the review engagement, the closure ratio, the share of   *)
(* stale ones, and the backlog as it stood at the end of every month. All  *)
(* are computed anew each night from the requests as they are that night.  *)
(***************************************************************************)
EXTENDS Figures

CONSTANTS
  PRs,            \* pull requests, 1..n, in the order they are opened in
  RepoOf,         \* the repository of each; 1 is PRIMARY_REPO
  AuthorOf,       \* the login of each author; 0 is an account that is gone
  Identity,       \* [Logins -> identity]: what links say of the logins
  KeysOf,         \* the tickets each names
  Tickets,        \* the issues collected
  AgeBounds,      \* the ages between the five age buckets
  StaleDays,      \* DEFAULT_STALE_PR_THRESHOLD_DAYS
  MaxDay, MaxResponses,  \* days, reviews and comments (bounds)
  Environments    \* each a set of what goes on

Days   == 0..MaxDay
Logins == DOMAIN Identity
Kinds  == {"review", "comment"}

(* Rows of the tables, as far as a metric tells them apart. *)
PR == [created : Days, closed : Days \cup {-1}, merged : BOOLEAN, draft : BOOLEAN, updated : Days]
PrResponse == [pr : PRs, by : Logins, kind : Kinds, at : Days]

VARIABLES
  faults,  \* what goes on in this behaviour; never changes
  world,   \* now: the day
  disk,    \* pr: the rows of requests; response: reviews and comments; issue
  report   \* the metric rows of the last night

vars == <<faults, world, disk, report>>

Init ==
  /\ faults \in Environments
  /\ world = [now |-> 0]
  /\ disk = [pr |-> << >>, response |-> {}, issue |-> [k \in Tickets |-> [fixed |-> FALSE, resolved |-> -1]]]
  /\ report = << >>

IsOpen(p) == disk.pr[p].closed = -1

(* A day -1 is one that has not come. Drafts matter where they may change. *)
Open(draft) ==
  /\ Len(disk.pr) < Cardinality(PRs) /\ (draft => "edit" \in faults)
  /\ disk' = [disk EXCEPT !.pr = Append(@, [created |-> world.now, closed |-> -1, merged |-> FALSE,
                                            draft |-> draft, updated |-> world.now])]
  /\ UNCHANGED <<faults, world, report>>

Touch(p, row) == disk' = [disk EXCEPT !.pr[p] = [row EXCEPT !.updated = world.now]]

Close(p, merged) ==
  /\ "close" \in faults /\ p \in DOMAIN disk.pr /\ IsOpen(p)
  /\ Touch(p, [disk.pr[p] EXCEPT !.closed = world.now, !.merged = merged])
  /\ UNCHANGED <<faults, world, report>>

(* A closed request is opened again, or a draft is declared ready.         *)
Edit(p) ==
  /\ "edit" \in faults /\ p \in DOMAIN disk.pr
  /\ \/ ~IsOpen(p) /\ ~disk.pr[p].merged /\ Touch(p, [disk.pr[p] EXCEPT !.closed = -1])
     \/ disk.pr[p].draft /\ Touch(p, [disk.pr[p] EXCEPT !.draft = FALSE])
  /\ UNCHANGED <<faults, world, report>>

Respond(p, by, kind) ==
  /\ "respond" \in faults /\ p \in DOMAIN disk.pr
  /\ Cardinality(disk.response) < MaxResponses
  /\ disk' = [disk EXCEPT !.response = @ \cup {[pr |-> p, by |-> by, kind |-> kind, at |-> world.now]},
                          !.pr[p].updated = world.now]
  /\ UNCHANGED <<faults, world, report>>

Resolve(k, fixed) ==
  /\ "tickets" \in faults /\ disk.issue[k].resolved = -1
  /\ disk' = [disk EXCEPT !.issue[k] = [fixed |-> fixed, resolved |-> world.now]]
  /\ UNCHANGED <<faults, world, report>>

-----------------------------------------------------------------------------
Opened(m) == {p \in DOMAIN disk.pr : MonthStart(disk.pr[p].created) = m}
Ended(m)  == {p \in DOMAIN disk.pr : ~IsOpen(p) /\ MonthStart(disk.pr[p].closed) = m}
Merged(m) == {p \in Ended(m) : disk.pr[p].merged}

Within(days, asOf) == IF days = {} THEN {} ELSE DenseMonths(Min(days), asOf)

(* Median and 90th percentile of latencies. *)
LatencyRow(f) == MakeRow(Median(f), Cardinality(DOMAIN f), FALSE) @@ [p90 |-> Percentile90(f)]

Age(p, at) == at - disk.pr[p].created

PrMergeLeadTime(asOf) ==
  [m \in Within({disk.pr[p].closed : p \in {p \in DOMAIN disk.pr : disk.pr[p].merged}}, asOf) |->
     LatencyRow([p \in Merged(m) |-> Age(p, disk.pr[p].closed)])]

PrTimeToClose(asOf) ==
  [m \in Within({disk.pr[p].closed : p \in DOMAIN disk.pr} \ {-1}, asOf) |->
     LatencyRow([p \in Ended(m) |-> Age(p, disk.pr[p].closed)]) @@ [n_merged |-> Cardinality(Merged(m))]]

(* A review by the author under any login is none. Only a confirmed match  *)
(* excludes one: an account that is gone matches nobody.                   *)
SelfReview(r) == AuthorOf[r.pr] # 0 /\ Identity[r.by] = Identity[AuthorOf[r.pr]]

Reviews == {r \in disk.response : r.kind = "review" /\ ~SelfReview(r)}

FirstAt(events) == Min({e.at : e \in events})

(* The latencies, of requests opened in a month, to the first of events.   *)
FirstLatency(events, m) ==
  [p \in {p \in Opened(m) : \E e \in events : e.pr = p} |-> Age(p, FirstAt({e \in events : e.pr = p}))]

Answered(events) == {disk.pr[e.pr].created : e \in events}

PrTimeToFirstReview(asOf) ==
  [m \in Within(Answered(Reviews), asOf) |-> LatencyRow(FirstLatency(Reviews, m))]

(* The peers' figure takes comments too, and compares logins; a request    *)
(* whose author is gone has no response.                                   *)
Responses == {r \in disk.response : AuthorOf[r.pr] # 0 /\ r.by # AuthorOf[r.pr]}

TimeToFirstResponsePr(asOf) ==
  [m \in Within(Answered(Responses), asOf) |-> LatencyRow(FirstLatency(Responses, m))]

(* The mean number of reviewers of a request with reviews in the month.    *)
PrReviewEngagement(asOf) ==
  LET in(m) == {r \in Reviews : MonthStart(r.at) = m}
      reviewers(m, p) == {r.by : r \in {r \in in(m) : r.pr = p}}
      prs(m) == {r.pr : r \in in(m)}
  IN  [m \in Within({r.at : r \in Reviews}, asOf) |->
         MakeRow(Ratio(MapThenSumSet(LAMBDA p : Cardinality(reviewers(m, p)), prs(m)), Cardinality(prs(m))),
                 Cardinality(prs(m)), FALSE)
           @@ [n_reviews |-> Cardinality(in(m)), n_unique |-> Cardinality({r.by : r \in in(m)})]]

(* Every update of a request counts, as of the night.                      *)
StalePrRate(asOf) ==
  LET open(repo) == {p \in DOMAIN disk.pr : IsOpen(p) /\ (repo = 0 \/ RepoOf[p] = repo)}
      stale(repo) == {p \in open(repo) : disk.pr[p].updated < asOf - StaleDays}
  IN  MakeRow(Ratio(Cardinality(stale(0)), Cardinality(open(0))), Cardinality(open(0)), FALSE)
        @@ [stale |-> Cardinality(stale(0)),
            by_repo |-> [repo \in {RepoOf[p] : p \in DOMAIN disk.pr} |->
                           <<Cardinality(open(repo)), Cardinality(stale(repo))>>]]

ChangeRequestClosureRatioPr(asOf) ==
  [m \in Within({disk.pr[p].created : p \in DOMAIN disk.pr}, asOf) |->
     MakeRow(Ratio(Cardinality(Ended(m)), Cardinality(Opened(m))), Cardinality(Opened(m)), FALSE)
       @@ [n_closed |-> Cardinality(Ended(m))]]

-----------------------------------------------------------------------------
(* 1 to 5, by the bounds the age has reached. *)
AgeBucket(age) == 1 + Cardinality({i \in DOMAIN AgeBounds : AgeBounds[i] <= age})

(* The tickets of a request as they stood that day; one not collected is   *)
(* open.                                                                   *)
TicketState(keys, at) ==
  LET closed == {k \in keys \cap Tickets : disk.issue[k].resolved \in 0..at}
  IN  CASE keys = {} -> "no_ticket_key"
        [] \E k \in closed : disk.issue[k].fixed -> "fixed"
        [] closed # {} /\ ~\E k \in closed : disk.issue[k].fixed -> "closed_other"
        [] OTHER -> "open"

(* Here logins are compared too, and anyone answers one who is gone.       *)
BuildPrs == {r \in disk.response : r.by # AuthorOf[r.pr]}

(* Mutant of OpenAt: what is open now was open then, and nothing else.     *)
OpenAtNow(prs, at) == {p \in prs : disk.pr[p].created <= at /\ IsOpen(p)}

OpenAt(prs, at) == {p \in prs : disk.pr[p].created <= at /\ (IsOpen(p) \/ disk.pr[p].closed > at)}

BacklogRow(open, at) ==
  [total |-> Headcount(Cardinality(open)),
   drafts |-> Cardinality({p \in open : disk.pr[p].draft}),
   age |-> [b \in 1..5 |-> Cardinality({p \in open : AgeBucket(Age(p, at)) = b})]]

Unanswered(open, at) == {p \in open : ~\E r \in BuildPrs : r.pr = p /\ r.at <= at}

PrimaryRepoRows(prs, asOf) ==
  [m \in Within({disk.pr[p].created : p \in prs}, asOf) |->
     LET at == MonthEnd(m)   open == OpenAt(prs, at)
     IN  BacklogRow(open, at)
           @@ [ticket |-> [s \in {"no_ticket_key", "fixed", "closed_other", "open"} |->
                             Cardinality({p \in open : TicketState(KeysOf[p], at) = s})],
               no_response |-> MakeRow(Ratio(Cardinality(Unanswered(open, at)), Cardinality(open)),
                                       Cardinality(open), FALSE)]]

OtherRepoRows(prs, asOf) ==
  [m \in Within({disk.pr[p].created : p \in prs}, asOf) |-> BacklogRow(OpenAt(prs, MonthEnd(m)), MonthEnd(m))]

ComputePrBacklog(asOf) ==
  LET of(repo) == {p \in DOMAIN disk.pr : RepoOf[p] = repo}
  IN  [repo \in {RepoOf[p] : p \in DOMAIN disk.pr} |->
         IF repo = 1 THEN PrimaryRepoRows(of(1), asOf) ELSE OtherRepoRows(of(repo), asOf)]

(* The rows of pull requests; peers have the last three (compute_all and   *)
(* compute_peer_metrics).                                                  *)
ComputeDevMetrics(asOf) ==
  [pr_merge_lead_time |-> PrMergeLeadTime(asOf),
   pr_time_to_first_review |-> PrTimeToFirstReview(asOf),
   pr_time_to_close |-> PrTimeToClose(asOf),
   pr_review_engagement |-> PrReviewEngagement(asOf),
   stale_pr_rate |-> StalePrRate(asOf),
   change_request_closure_ratio_pr |-> ChangeRequestClosureRatioPr(asOf)]

ComputePeerMetrics(asOf) ==
  [time_to_first_response_pr |-> TimeToFirstResponsePr(asOf),
   backlog |-> ComputePrBacklog(asOf)]

NextDay ==
  /\ world.now < MaxDay
  /\ world' = [now |-> world.now + 1]
  /\ UNCHANGED <<faults, disk>>
  /\ report' = ComputeDevMetrics(world.now + 1) @@ ComputePeerMetrics(world.now + 1)

Next ==
  \/ NextDay
  \/ \E draft \in BOOLEAN : Open(draft)
  \/ \E p \in PRs, merged \in BOOLEAN : Close(p, merged)
  \/ \E p \in PRs : Edit(p)
  \/ \E p \in PRs, by \in Logins, kind \in Kinds : Respond(p, by, kind)
  \/ \E k \in Tickets, fixed \in BOOLEAN : Resolve(k, fixed)

-----------------------------------------------------------------------------
TypeOK ==
  /\ faults \in Environments /\ world.now \in Days
  /\ Len(disk.pr) <= Cardinality(PRs)
  /\ \A p \in DOMAIN disk.pr :
       /\ disk.pr[p].created \in 0..world.now /\ disk.pr[p].updated \in 0..world.now
       /\ disk.pr[p].closed = -1 \/ disk.pr[p].closed \in disk.pr[p].created..world.now
  /\ Range(disk.pr) \subseteq PR /\ disk.response \subseteq PrResponse

(* From month to month the backlog of all repositories grows by what was   *)
(* opened and shrinks by what was closed, as the closure ratio counts      *)
(* them; and what merges have a lead time have a time to close.            *)
BacklogFlows ==
  report # << >> =>
    LET ratio == report.change_request_closure_ratio_pr
        total(m) == MapThenSumSet(LAMBDA r : report.backlog[r][m].total.n,
                                  {r \in DOMAIN report.backlog : m \in DOMAIN report.backlog[r]})
    IN  /\ \A m \in DOMAIN ratio : total(m) = total(m - MonthDays) + ratio[m].n - ratio[m].n_closed
        /\ \A m \in DOMAIN report.pr_merge_lead_time :
             report.pr_merge_lead_time[m].n = report.pr_time_to_close[m].n_merged

(* Every open request is in one age bucket and one ticket state, and in    *)
(* the counts of its repository.                                           *)
BucketsPartition ==
  report # << >> =>
    /\ \A repo \in DOMAIN report.backlog : \A m \in DOMAIN report.backlog[repo] :
         LET row == report.backlog[repo][m]
         IN  /\ SumFunction(row.age) = row.total.n
             /\ repo = 1 => SumFunction(row.ticket) = row.total.n
    /\ LET stale == report.stale_pr_rate
       IN  <<stale.n, stale.stale>> = <<SumFunction([r \in DOMAIN stale.by_repo |-> stale.by_repo[r][1]]),
                                        SumFunction([r \in DOMAIN stale.by_repo |-> stale.by_repo[r][2]])>>

(* A completed month's rows stand, whatever comes later: the backlog is    *)
(* told as it was, also its tickets and its share without an answer. (A    *)
(* reopened request or a draft declared ready rewrites them; a first       *)
(* review that comes later joins the month its request was opened in.)     *)
HistoryStands ==
  (report # << >> /\ "edit" \notin faults) =>
    /\ \A metric \in {"pr_merge_lead_time", "pr_time_to_close", "pr_review_engagement",
                      "change_request_closure_ratio_pr"} :
         \A m \in DOMAIN report[metric] : report'[metric][m] = report[metric][m]
    /\ \A repo \in DOMAIN report.backlog : \A m \in DOMAIN report.backlog[repo] :
         report'.backlog[repo][m] = report.backlog[repo][m]

(* The first reviews and the first responses of a month's requests only    *)
(* become more.                                                            *)
AnswersOnlyCome ==
  report # << >> =>
    \A metric \in {"pr_time_to_first_review", "time_to_first_response_pr"} :
      \A m \in DOMAIN report[metric] :
        m \in DOMAIN report'[metric] /\ report'[metric][m].n >= report[metric][m].n

=============================================================================
